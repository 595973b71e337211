SPECIFICATION Spec
CONSTANTS
    Texts <- MCTexts
    Blank <- MCBlank
    WithNul <- MCWithNul
    WithBreak <- MCWithBreak
    Absolute <- MCAbsolute
    Traversing <- MCTraversing
    Length <- MCLength
    Characters <- MCCharacters
    MaxItems = 2
    MaxPaths = 2
    Self = "self"
    FloatLimit = 90000
    Values <- MCValues
    Commands <- MCCommands
    Rows <- MCSandboxRows
    Worlds <- MCGoodWorlds
    NoRow = NoRow
PROPERTY MalformedEvaluatesFalse
