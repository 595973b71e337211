SPECIFICATION Spec
CONSTANTS
    Projects = {p1}
    Project = p1
    Names = {n1}
    Agents = {g1}
    ConfigIds = {c1, c2}
    Calls = {r1, r2}
    Tasks = {t1, t2}
    Settings <- MCSettings
    Commands <- MCCommands
    MaxVersions = 2
    MaxAttempts = 2
    MaxReports = 4
    NoRow = NoRow
SYMMETRY Symmetry
CHECK_DEADLOCK FALSE
INVARIANT TypeOK
INVARIANT ConfigurationsNumbered
INVARIANT StatusMatchesAttempts
INVARIANT OutcomesAreClaimed
INVARIANT AttemptsStayJustified
INVARIANT ReadyStaysEarned
INVARIANT StartedDependenciesAcyclic
INVARIANT SlotsRespected
PROPERTY ReviewIsFinal
