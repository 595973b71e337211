SPECIFICATION Spec
CONSTANTS
    Tasks = {t1, t2}
    SpecIds = {s1, s2, s3}
    AttemptIds = {a1, a2, a3}
    Requests = {r1, r2}
    Contents <- MCContents
    Resolvable <- MCResolvable
    Satisfied <- MCSatisfied
    Configs <- MCConfigs
    ActorOf <- MCActorOf
    ReviewerOf <- MCReviewerOf
    MaxConcurrency <- MCMaxConcurrency
    NoRow = NoRow
    NoSpec = NoSpec
SYMMETRY Symmetry
INVARIANT TypeOK
INVARIANT EpochFence
INVARIANT SessionsSound
INVARIANT CurrentIsLatest
INVARIANT AttemptOnSatisfiedInput
INVARIANT AuditMatchesRows
INVARIANT StatusIsEarned
INVARIANT OvershootBounded
PROPERTY ImplementsLedger
