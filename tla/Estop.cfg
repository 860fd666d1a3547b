\* One process, with writes that fail or are cut short; the bounds end it.
SPECIFICATION Spec
CONSTANTS
    Processes = {"daemon"}
    Counters = {2}
    Step = 2
    CacheValid = 1
    MaxSecrets = 2
    MaxTime = 9
    Domains = {}
    Tools = {"shell"}
    RequireOtp = TRUE
    MayFail = TRUE
INVARIANTS
    TypeOK
    CodeLifetime
    SecretWasShown
PROPERTIES
    KeepsStopped
