SPECIFICATION Spec
CONSTANTS
    Dialect = "sqlite"
    Ids <- MCIds
    RowsOf <- MCRowsOf
    NoRow = NoRow
    NoSpec = NoSpec
INVARIANT TypeOK
INVARIANT UpgradeNeverFailsHalfway
INVARIANT DowngradeNeverRefused
PROPERTY ExecutionRecordStable
