\* Two questions of a conversation.
SPECIFICATION Spec
CONSTANTS
    c1 = c1
    c2 = c2
    w1 = w1
    x1 = x1
    NoThread = NoThread
    NoOne = NoOne
    Requests = {r1, r2}
    Threads = {t1}
    Chunks = {c1, c2}
    WebPages = {w1}
    Fabricated = {x1}
    CorpusResults <- SmallCorpus
    WebResults <- SmallWeb
    DraftCites <- SmallCites
    critic_max_retries = 1
    critic_enabled = TRUE
    answerability_check_enabled = TRUE
    web_search_enabled = FALSE
    guardrail_require_citations = TRUE
    audit_enabled = TRUE
SYMMETRY Interchangeable
INVARIANTS
    AuditRefusalReasonOwn
