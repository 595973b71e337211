SPECIFICATION FairSpec
CONSTANTS
    Tasks = {t1, t2}
    Contents <- MCContents
    Satisfied <- MCSatisfied
    Handlers = {h1, h2}
    MaxCommits = 3
    MaxOthers = 2
    None = None
INVARIANT TypeOK
INVARIANT ViewOfOneTask
INVARIANT SuccessIsTrue
PROPERTY SuccessShowsItsWork
PROPERTY StartsWhatIsShown
PROPERTY BusyEnds
