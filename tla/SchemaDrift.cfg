CONSTANTS
    sa = sa
    sb = sb
    t1 = t1
    t2 = t2
    k1 = k1
    k2 = k2
    Nil = Nil
    NotFound = NotFound
    SchemaNames = {sa, sb, ""}
    TableNames = {t1, t2}
    ColumnNames = {k1, k2}
    SyncModes = {"SOFT_DELETE", "HISTORY"}
    Handlings = {"ALLOW_ALL", "BLOCK_ALL"}
    Source <- MCSource
    Declared <- MCDeclared
    MaxDrifts = 2
    MaxFaults = 1
SPECIFICATION Spec
CHECK_DEADLOCK FALSE
INVARIANT TypeOK PayloadIsDeclaredTree ReportMatchesReference MismatchNeedsTwoDrifts
