CONSTANTS
    Gets = {g1, g2}
    Queries = {q1, q2}
    MayRefuse = {q2}
    kMaxWatchStreamFailures = 1
    MaxEvents = 2
    MaxDrops = 1
SPECIFICATION Spec
INVARIANTS
    TypeOK
    TimerWhileConnecting
    CredentialsOfThisStart
    IdleWithoutTarget
    RegistriesAgree
    NoListenerLeft
    OutstandingIsOwed
    SyncedByThisListen
    NoGetForgotten
PROPERTIES
    AnsweredLikeGetOnce
    EveryGetAnswered
