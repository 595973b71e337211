SPECIFICATION Spec
CONSTANTS
    Tasks = {t1}
    SpecIds = {s1}
    AttemptIds = {a1}
    Requests = {r1, r2}
    Contents <- MCContents
    Resolvable <- MCResolvable
    Satisfied <- MCSatisfied
    Configs <- MCConfigs
    ActorOf <- MCActorOf
    MaxConcurrency <- MCMaxConcurrency
    NoRow = NoRow
    NoSpec = NoSpec
SYMMETRY Symmetry
PROPERTY ReadinessKeepsOtherStatuses
