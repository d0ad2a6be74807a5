\* As CorpusStore_corpus.cfg.
SPECIFICATION Spec
CHECK_DEADLOCK FALSE
CONSTANTS
    d1 = d1
    d2 = d2
    o1 = o1
    o2 = o2
    r1 = r1
    r2 = r2
    Docs = {d1, d2}
    Orgs = {o1, o2}
    Runs = {r1, r2}
    NoRun = NoRun
    Queries = {q1}
    org_id <- OrgOf
    MaxRev = 2
    Children = 2
    Heads = {"start", "tail1", "tail2"}
    head <- HeadOf
    Entities = {"IRC"}
    mentions <- MentionsOf
    effective_date <- EffectiveDate
    service_line <- ServiceLine
    Scopes <- AllScopes
    retrieval_top_k = 2
    rerank_top_k = 1
    graph_expand_limit = 1
    seed_limit = 1
INVARIANTS
    RetrievedOwnOrganisation
