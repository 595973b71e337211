SPECIFICATION Spec
CONSTANTS
    Tasks = {t1, t2}
    SpecIds = {s1, s2, s3}
    AttemptIds = {a1, a2, a3}
    Requests = {r1}
    Contents <- MCContents
    Resolvable <- MCResolvable
    Satisfied <- MCSatisfied
    Configs <- MCConfigs
    ActorOf <- MCActorOf
    MaxConcurrency <- MCMaxConcurrency
    NoRow = NoRow
    NoSpec = NoSpec
SYMMETRY Symmetry
PROPERTY StartedStays
PROPERTY StartsOnCurrent
