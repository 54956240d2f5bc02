\* A shutdown with the weather consumer at work: two requests for one webhook
\* worker, and a render channel of one place.
CONSTANTS
    Requests = {r1, r2}
    PoolSize = 1
    RenderCap = 1
    RenderWorkers = {w1}
    ChangesCap = 1
    Weather = Weather
    Digest = Digest
    None = None
SPECIFICATION Spec
INVARIANT GracefulStopSaves
CHECK_DEADLOCK FALSE
