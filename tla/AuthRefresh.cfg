\* Three threads of one process refresh two profiles, with failing saves, lost answers and
\* ends of the process; the bounds end it.
SPECIFICATION HSpec
CHECK_DEADLOCK FALSE
CONSTANTS
    NoId = "none"
    NoActor = "nobody"
    ProviderOf <- MCProviderOf
    DefaultId <- MCDefaultId
    Ids = {"gemini:default", "openai-codex:default"}
    Providers = {"gemini", "openai-codex"}
    Actors = {"a1", "a2", "a3"}
    Instances = {"daemon"}
    InstanceOf <- OneProcess
    Writers = {}
    Refreshers = {"a1", "a2", "a3"}
    Files <- LoggedIn
    OldTokens = 2
    Shift = 0
    Life = 1
    Skew = 1
    Backoff = 1
    MayFail = TRUE
    MayLose = TRUE
    MayCrash = TRUE
    MaxOps = 4
    MaxTime = 1
INVARIANTS
    RotationNotLost
PROPERTIES
    WritesOnlyItsOwn
