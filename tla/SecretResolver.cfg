CONSTANTS
    p1 = p1
    p2 = p2
    p3 = p3
    p4 = p4
    k1 = k1
    k2 = k2
    Nil = Nil
    NilDoc = NilDoc
    Paths = {p1, p2, p3, p4}
    Keys = {k1, k2}
    StoreStates <- MCStoreStates
    ConfigDocs <- MCConfigDocs
    AuthDocs <- MCAuthDocs
SPECIFICATION Spec
CHECK_DEADLOCK FALSE
INVARIANT OneReadPerPath FailFast NoReferenceReachesFivetran
