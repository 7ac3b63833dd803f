CONSTANTS
    Call = {c1, c2}
    Process = {p1, p2}
    Governor = {p2}
    Thread = {w1}
    Worker = {w1, w2, w3}
    ProcessOf <- MCProcessOf
    MaxCalls = 2
    MaxRecords = 2
    Caller = {c1, c2, c3}
    Burst = 2
    Unit = 2
    Rate = 1
    MaxLate = 1
    MaxTime = 12
    Tool = {t1, t2}
    MaxIterations = 2
    Attempts = 2
    MaxToolCalls = 2
    Batch = {b1, b2}
    MAX_CONCURRENCY = 2
    MaxRequests <- MCMaxRequests
    MaxInvocations = 3
    Cost = {1}
    Budget <- MCBudget
    Asked = {m1, m2}
    Candidates <- MCCandidates
    MinRequests = 2
    Doc = {1, 2}
    CorpusOf <- MCCorpusOf
    Content = {1, 2}
    Requests = {{"specs"}, {"specs", "plans"}}
    TopK = 2
    Cap = 1
    Estimate = {1}
    MaxUsage = 2
    MaxEdits = 1
    Branch = {"t1"}
    File = {"f1"}
    Upward = {"u1"}
    Outside = {"o1"}
    Task = {1, 2}
    AgentOf <- MCAgentOf
    QUEUE_THRESHOLD = 1
    API_THRESHOLD = 0
    ERROR_THRESHOLD = 10
    UNRESPONSIVE = 1
    MaxTokens = 1
    Target = {"ARCHITECT", "IMPLEMENT"}
    Engine = {p1}
    MaxMoves = 2
    Client = {u1}
    Limit = 2
    MaxEvents = 3
    Socket = {s1, s2}
    Post = {x1, x2}
    Model = {m1, m2, m3}
    Default <- MCDefault
    FALLBACK_MODELS <- MCFallback
    Small = {m3}
    Large = {m3}
    HighCapability = {m2}
    Cheap = {m2}
    Free = {m1, m3}
    Goal = {"g1", "g2"}
    LengthOf <- MCLengthOf
    WordsOf <- MCWordsOf
    Criterion = {"s", "e", "m"}
    KindOf <- MCKindOf
    Retries = {0, 3}
    MaxRuns = 2
    Contestant = {"a", "b"}
    Benchmark = {"s"}
    Matched <- MCMatched
    Expected <- MCExpected
    K = 4
    Initial = 10
    num_rounds = 1
    Decisive = {0, 1}
    MaxMatches = 3
    MaxList = 3
    MaxResults = 2
    b1 = b1
    m1 = m1
    m2 = m2
    m3 = m3
    w1 = w1
    w2 = w2
    w3 = w3
SPECIFICATION MCSpec
INVARIANT TypeOK AnswersAreEarned CountsAreTrue IndexIsSound LedgersAreLogged
INVARIANT RecordsAddUp FeedsAreComplete
PROPERTY CallersAreAnswered
CHECK_DEADLOCK FALSE
