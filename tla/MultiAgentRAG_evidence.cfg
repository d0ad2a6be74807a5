\* One question, any route, every mixture of real and invented citations.
SPECIFICATION FairSpec
CONSTANTS
    c1 = c1
    c2 = c2
    w1 = w1
    x1 = x1
    NoThread = NoThread
    NoOne = NoOne
    Requests = {r1}
    Threads = {t1}
    Chunks = {c1, c2}
    WebPages = {w1}
    Fabricated = {x1}
    CorpusResults <- RichCorpus
    WebResults <- RichWeb
    DraftCites <- RichCites
    critic_max_retries = 2
    critic_enabled = TRUE
    answerability_check_enabled = TRUE
    web_search_enabled = TRUE
    guardrail_require_citations = TRUE
    audit_enabled = TRUE
INVARIANTS
    CitationsGrounded
    FabricationFlagged
    DraftBudget
PROPERTIES
    WebEvidenceKept
    NodesDescend
    EveryAskEnds
