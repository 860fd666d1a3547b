\* One thread, west of Greenwich; the bounds end it.
SPECIFICATION Spec
CHECK_DEADLOCK FALSE
CONSTANTS
    NoId = "none"
    NoActor = "nobody"
    ProviderOf <- MCProviderOf
    DefaultId <- MCDefaultId
    Ids = {"gemini:default", "openai-codex:default"}
    Providers = {"gemini", "openai-codex"}
    Actors = {"a1"}
    Instances = {"daemon"}
    InstanceOf <- OneProcess
    Writers = {"a1"}
    Refreshers = {"a1"}
    Files <- NoFile
    OldTokens = 0
    Shift <- West
    Life = 2
    Skew = 1
    Backoff = 1
    MayFail = FALSE
    MayLose = FALSE
    MayCrash = FALSE
    MaxOps = 3
    MaxTime = 2
INVARIANTS
    AnswersAreFresh
