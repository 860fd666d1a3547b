\* Two processes that do everything, with failing saves and crashes; the bounds end it.
SPECIFICATION Spec
CHECK_DEADLOCK FALSE
CONSTANTS
    NoId = "none"
    NoActor = "nobody"
    ProviderOf <- MCProviderOf
    DefaultId <- MCDefaultId
    Ids = {"gemini:default", "openai-codex:default"}
    Providers = {"gemini", "openai-codex"}
    Actors = {"a1", "a2"}
    Instances = {"daemon", "cli"}
    InstanceOf <- TwoProcesses
    Writers = {"a1", "a2"}
    Refreshers = {"a1"}
    Files <- NoFile
    OldTokens = 0
    Shift <- East
    Life = 4
    Skew = 2
    Backoff = 1
    MayFail = TRUE
    MayLose = TRUE
    MayCrash = TRUE
    MaxOps = 3
    MaxTime = 2
INVARIANTS
    TypeOK
    ActiveExists
    AnswersAreFresh
