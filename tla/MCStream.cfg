SPECIFICATION PartsSpec
CONSTANTS
    reply = reply
    summary = summary
    old = old
    Messages = {reply, summary, old}
    Users = {"prompt", "regenerated", "prior"}
    Earlier = {old}
    Parent <- Session
    Rewrites <- Whole
    Created <- Times
    Summaries = {summary}
    Started = 1
    MaxChunks <- Chunks
    MaxHeld = 2
    CleanEnd = FALSE
    c1 = c1
    c2 = c2
    t1 = t1
    t2 = t2
    m1 = m1
    m2 = m2
    None = None
    Children = {c1, c2}
    Tasks = {t1, t2}
    ChildMessages = {m1, m2}
    Workloads <- ChildWork
    MaxParts = 2
    MaxPending = 2
    MaxChildHeld = 2
    Callers = {"a", "b"}
    CounterSize = 8
    Range48 = 32
    StepsBack = FALSE
    StartTimes <- Clocks
    MaxTicks = 5
    MaxIds = 6
CHECK_DEADLOCK FALSE
INVARIANTS ChildrenWhole ChildrenOwned IncreasingInWindow
PROPERTIES OwnTranscript VerdictHonest StreamEnds
