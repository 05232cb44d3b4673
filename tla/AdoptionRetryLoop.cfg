CONSTANTS
    c1 = c1
    c2 = c2
    s1 = s1
    Cfgs <- MCCfgs
    SchemaSpecs <- MCSchemaSpecs
    NoSchema = NoSchema
    SpecService = SpecService
    OtherService = OtherService
    None = None
    Absent = Absent
    NotFoundSchema = NotFoundSchema
    DefaultSchema = DefaultSchema
    PartialSchema = PartialSchema
    NumPreExisting = 1
    PreExistingServices = {SpecService, OtherService}
    MaxIds = 4
    ApiErrorCodes = {404, 503}
    SetupResults = {"PASSED", "WARNING", "FAILED"}
    MaxEdits = 0
    MaxCrashes = 0
    MaxFaults = 0
    Specs <- MCSpecsCore
    Words <- MCWords
    CfgMap <- MCCfgMap
    SchemaNames <- MCSchemaNames
    BackupAnnotation = FALSE
    CacheLag = FALSE
    MaxLaggedReads = 0
SPECIFICATION Spec
CHECK_DEADLOCK FALSE
PROPERTY EventuallyQuiescent
