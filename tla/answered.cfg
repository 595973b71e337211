SPECIFICATION FairSpec
CONSTANTS
    Tasks = {t1}
    SpecIds = {s1, s2}
    AttemptIds = {a1, a2}
    Requests = {r1, r2}
    Contents <- MCContents
    Resolvable <- MCResolvable
    Satisfied <- MCSatisfied
    Configs <- MCConfigs
    ActorOf <- MCActorOf
    MaxConcurrency <- MCMaxConcurrency
    NoRow = NoRow
    NoSpec = NoSpec
PROPERTY EveryRequestAnswered
