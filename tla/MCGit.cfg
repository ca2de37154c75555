SPECIFICATION PartsSpec
CONSTANTS
    None = None
    Several = Several
    Refuse = Refuse
    Off = Off
    Absent = Absent
    Prompts = {"p1", "p2"}
    Identities <- Pairs
    Fallback <- Bot
    Override <- Named
    Committer <- Machine
    Keys = {"k1", "k2"}
    MaxChanges = 1
    Procs = {"a", "b"}
    Hosts = {"hub", "lab"}
    Buffer = 1
    Lifetimes = {0, 2}
    MaxTime = 2
    Specs <- PushSpecs
    Key <- Folded
    Manifest <- Members
    RepoName = "docs"
    Clones <- Dirs
    MaxPushes = 2
CHECK_DEADLOCK FALSE
INVARIANTS PushedAsAsked
PROPERTIES RightlyAttributed CacheServes AlwaysAnswered
