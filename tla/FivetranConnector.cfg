CONSTANTS
    c1 = c1
    c2 = c2
    s1 = s1
    Cfgs <- MCCfgs
    SchemaSpecs <- MCSchemaSpecs
    NoSchema = NoSchema
    SpecService = SpecService
    OtherService = OtherService
    None = None
    Absent = Absent
    NotFoundSchema = NotFoundSchema
    DefaultSchema = DefaultSchema
    PartialSchema = PartialSchema
    NumPreExisting = 0
    PreExistingServices = {SpecService}
    MaxIds = 5
    ApiErrorCodes = {404, 503}
    SetupResults = {"PASSED", "WARNING", "FAILED"}
    MaxEdits = 1
    MaxCrashes = 1
    MaxFaults = 1
    Specs <- MCSpecsCore
    Words <- MCWords
    CfgMap <- MCCfgMap
    SchemaNames <- MCSchemaNames
    BackupAnnotation = FALSE
    CacheLag = TRUE
    MaxLaggedReads = 1
SPECIFICATION Spec
INVARIANT TypeOK
CHECK_DEADLOCK FALSE
INVARIANT DeletedLeavesNoConnector FingerprintMatchesRemote
PROPERTY StatusIDStable EventuallyQuiescent
