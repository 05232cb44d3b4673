------------------------------ MODULE SchemaDrift ------------------------------
(***************************************************************************)
(* The schema drift reconciler on concrete schema trees: the payload       *)
(* convertSchema builds with the SchemaBuilder (pkg/fivetran/              *)
(* schema_builder.go, utils.go convertSchema), the comparison              *)
(* CompareSchemaWithCR makes (pkg/fivetran/interfaces.go), and one         *)
(* reconcileSchema invocation (unnamed/part_002) that uses both against a  *)
(* Fivetran schema config which others may change while it runs.           *)
(*                                                                         *)
(* Go maps are iterated in an unspecified order, so every loop over a map  *)
(* is taken in every order: the operators below return the SET of         *)
(* results the orders can produce.                                         *)
(***************************************************************************)
EXTENDS Naturals, FiniteSets, Sequences, SequencesExt, TLC

CONSTANTS
    SchemaNames,  \* schema names a resource may declare
    TableNames,   \* table names a resource may declare
    ColumnNames,  \* column names a resource may declare
    SyncModes,    \* table sync modes (SOFT_DELETE, HISTORY, LIVE)
    Handlings,    \* schema_change_handling policies (ALLOW_ALL, BLOCK_ALL ...)
    Source,       \* Source[s]: the tables of schema s at the connector's source
    Declared,     \* the spec.connectorSchemas values the user may write
    Nil,          \* an unset pointer field
    NotFound,     \* GetSchemaDetails answers NotFound_SchemaConfig
    MaxDrifts,    \* bound on changes others make to the schema config
    MaxFaults     \* bound on failed API calls

(***************************************************************************)
(* Data                                                                    *)
(***************************************************************************)

\* A Go map as a TLA+ function on the keys present.
EmptyMap == [x \in {} |-> Nil]
Put(f, k, v) == (k :> v) @@ f

\* ConnectorSchemaConfig of the CR (api/v1alpha1): TableObject, SchemaObject.
\* Column flags (enabled, hashed, is_primary_key) are carried by name only:
\* nothing below compares them.
CRTable == [enabled: BOOLEAN, syncMode: SyncModes \cup {""},
            columns: SUBSET ColumnNames]
IsCR(c) ==
    /\ c.handling \in Handlings \cup {""}
    /\ DOMAIN c.schemas \subseteq SchemaNames
    /\ \A s \in DOMAIN c.schemas :
          /\ c.schemas[s].enabled \in BOOLEAN
          /\ DOMAIN c.schemas[s].tables \subseteq TableNames
          /\ \A t \in DOMAIN c.schemas[s].tables : c.schemas[s].tables[t] \in CRTable

\* The schema config Fivetran reports (ConnectionSchemaDetailsResponse):
\* exactly the schemas and tables of the source, each flag possibly unset.
LiveTable == [enabled: BOOLEAN \cup {Nil}, syncMode: SyncModes \cup {Nil}]
LiveConfigs ==
    { [handling |-> h,
       schemas |-> [s \in DOMAIN Source |->
                      [enabled |-> se[s],
                       tables |-> [t \in Source[s] |-> tc[s][t]]]]]
      : h \in Handlings,
        se \in [DOMAIN Source -> BOOLEAN \cup {Nil}],
        tc \in [DOMAIN Source -> [TableNames -> LiveTable]] }

\* Every order of a loop over the keys S of a Go map: Body(a, x) is the set
\* of results of one iteration from accumulator a.
ForEach(A, S, Body(_, _)) ==
    UNION { FoldLeft(LAMBDA As, x : UNION {Body(a, x) : a \in As}, A, p)
            : p \in SetToSeqs(S) }

(***************************************************************************)
(* SchemaBuilder                                                           *)
(***************************************************************************)

NewSchemaBuilder == [schemas |-> EmptyMap, handling |-> "", err |-> FALSE]

WithSchemaChangeHandling(b, handling) ==
    IF b.err THEN b ELSE [b EXCEPT !.handling = handling]

AddSchema(b, name, enabled) ==
    CASE b.err -> b
      [] name = "" -> [b EXCEPT !.err = TRUE]
      [] OTHER -> [b EXCEPT !.schemas =
                      Put(@, name, [enabled |-> enabled, tables |-> EmptyMap])]

\* A table config with a sync mode only when the CR names one.
AddTableNoSyncMode(b, schema, table, enabled, syncMode) ==
    CASE b.err -> b
      [] schema = "" \/ table = "" -> [b EXCEPT !.err = TRUE]
      [] schema \notin DOMAIN b.schemas -> [b EXCEPT !.err = TRUE]
      [] OTHER -> [b EXCEPT !.schemas[schema].tables =
                      Put(@, table, [enabled |-> enabled, syncMode |-> Nil,
                                     columns |-> {}])]

AddTable(b, schema, table, enabled, syncMode) ==
    CASE b.err -> b
      [] schema = "" \/ table = "" -> [b EXCEPT !.err = TRUE]
      [] schema \notin DOMAIN b.schemas -> [b EXCEPT !.err = TRUE]
      [] OTHER -> [b EXCEPT !.schemas[schema].tables =
                      Put(@, table,
                          [enabled |-> enabled,
                           syncMode |-> IF syncMode # "" THEN syncMode ELSE Nil,
                           columns |-> {}])]

\* s.Table(table, &ConnectionSchemaConfigTable{}) then tableConfig.Column:
\* the table entry is replaced by a fresh config holding only this column.
AddColumn(b, schema, table, column) ==
    CASE b.err -> b
      [] schema = "" \/ table = "" \/ column = "" -> [b EXCEPT !.err = TRUE]
      [] schema \notin DOMAIN b.schemas -> [b EXCEPT !.err = TRUE]
      [] OTHER -> [b EXCEPT !.schemas[schema].tables =
                      Put(@, table, [enabled |-> Nil, syncMode |-> Nil,
                                     columns |-> {column}])]

(***************************************************************************)
(* convertSchema, processSchemaTable, processTableColumns: the builders    *)
(* the map orders can produce for a non-nil declared schema.               *)
(***************************************************************************)

processTableColumns(b, schema, table, columns) ==
    ForEach({b}, columns, LAMBDA a, c : {AddColumn(a, schema, table, c)})

processSchemaTable(b, schema, tables) ==
    ForEach({b}, DOMAIN tables,
            LAMBDA a, t :
                processTableColumns(AddTable(a, schema, t, tables[t].enabled,
                                             tables[t].syncMode),
                                    schema, t, tables[t].columns))

convertSchema(cr) ==
    LET b0 == IF cr.handling # ""
              THEN WithSchemaChangeHandling(NewSchemaBuilder, cr.handling)
              ELSE NewSchemaBuilder
    IN ForEach({b0}, DOMAIN cr.schemas,
               LAMBDA a, s :
                   processSchemaTable(AddSchema(a, s, cr.schemas[s].enabled),
                                      s, cr.schemas[s].tables))

(***************************************************************************)
(* CompareSchemaWithCR and compareTablesWithFivetran: the (matches,        *)
(* SchemaMismatch) results the map orders can produce.  A reason string    *)
(* "expected X, got Y" is kept as the pair <<X, Y>>; a table issue as a    *)
(* record, with got = Nil for the "got nil" sync mode message.             *)
(***************************************************************************)

\* A sync mode Fivetran does not report taken for "not yet judged".
TableIssuesNilSyncMatches(ft, ct) ==
    LET enabled == IF ft.enabled # Nil /\ ft.enabled # ct.enabled
                   THEN <<[kind |-> "enabled", expected |-> ct.enabled,
                           got |-> ft.enabled]>>
                   ELSE <<>>
        sync == IF ct.syncMode # "" /\ ft.syncMode # Nil /\ ft.syncMode # ct.syncMode
                THEN <<[kind |-> "syncMode", expected |-> ct.syncMode,
                        got |-> ft.syncMode]>>
                ELSE <<>>
    IN enabled \o sync

TableIssues(ft, ct) ==
    LET enabled == IF ft.enabled # Nil /\ ft.enabled # ct.enabled
                   THEN <<[kind |-> "enabled", expected |-> ct.enabled,
                           got |-> ft.enabled]>>
                   ELSE <<>>
        sync == IF ct.syncMode # "" /\ ft.syncMode # ct.syncMode
                THEN <<[kind |-> "syncMode", expected |-> ct.syncMode,
                        got |-> ft.syncMode]>>
                ELSE <<>>
    IN enabled \o sync

compareTablesWithFivetran(fivetranTables, crTables) ==
    ForEach({<<>>}, DOMAIN crTables,
            LAMBDA acc, t :
              IF t \notin DOMAIN fivetranTables
              THEN {Append(acc, [table |-> t, notFound |-> TRUE, issues |-> <<>>])}
              ELSE LET is == TableIssues(fivetranTables[t], crTables[t])
                   IN {IF is = <<>> THEN acc
                       ELSE Append(acc, [table |-> t, notFound |-> FALSE,
                                         issues |-> is])})

\* One iteration of the loop over crSchema.Schemas.  A nil Tables map and an
\* empty one compare alike, so the `Tables != nil` test needs no state.
CompareSchemaStep(fs, cr, m, s) ==
    IF s \notin DOMAIN fs.schemas
    THEN {[m EXCEPT !.has = TRUE, !.missing = Append(@, s)]}
    ELSE LET fe == fs.schemas[s].enabled
             ce == cr.schemas[s].enabled
             m1 == IF fe # Nil /\ fe # ce
                   THEN [m EXCEPT !.has = TRUE, !.schemaMis = Put(@, s, <<ce, fe>>)]
                   ELSE m
         IN {IF tm = <<>> THEN m1
             ELSE [m1 EXCEPT !.has = TRUE, !.tableMis = Put(@, s, tm)]
             : tm \in compareTablesWithFivetran(fs.schemas[s].tables,
                                                cr.schemas[s].tables)}

CompareSchemaWithCR(fs, cr) ==
    LET hm == cr.handling # "" /\ fs.handling # cr.handling
        m0 == [has |-> hm,
               handling |-> IF hm THEN <<cr.handling, fs.handling>> ELSE Nil,
               missing |-> <<>>, schemaMis |-> EmptyMap, tableMis |-> EmptyMap]
    IN { [matches |-> ~m.has, report |-> m]
         : m \in ForEach({m0}, DOMAIN cr.schemas,
                         LAMBDA a, s : CompareSchemaStep(fs, cr, a, s)) }

(***************************************************************************)
(* Fivetran's side.  This is not code of the repository but what the       *)
(* reconciler relies on: UpdateSchema sets every flag the payload carries  *)
(* on the schemas and tables the source has and leaves unset flags alone; *)
(* ReloadSchema creates a missing config with any flags.                   *)
(***************************************************************************)

\* UpdateSchema (schema_service.go): the request carries Build's schemas,
\* and the policy only when it is set (Nil: the field is not sent).
UpdateSchemaRequest(b) ==
    [handling |-> IF b.handling # "" THEN b.handling ELSE Nil,
     schemas |-> b.schemas]

MergeTable(old, new) ==
    [enabled |-> IF new.enabled # Nil THEN new.enabled ELSE old.enabled,
     syncMode |-> IF new.syncMode # Nil THEN new.syncMode ELSE old.syncMode]

SchemaUpdated(fs, b) ==
    [handling |-> IF b.handling # Nil THEN b.handling ELSE fs.handling,
     schemas |->
        [s \in DOMAIN fs.schemas |->
           IF s \notin DOMAIN b.schemas THEN fs.schemas[s]
           ELSE [enabled |-> b.schemas[s].enabled,
                 tables |->
                    [t \in DOMAIN fs.schemas[s].tables |->
                       IF t \notin DOMAIN b.schemas[s].tables
                       THEN fs.schemas[s].tables[t]
                       ELSE MergeTable(fs.schemas[s].tables[t],
                                       b.schemas[s].tables[t])]]]]

Reloaded(fs) == IF fs = NotFound THEN LiveConfigs ELSE {fs}

(***************************************************************************)
(* One reconcileSchema invocation                                          *)
(***************************************************************************)

VARIABLES
    live,    \* the connector's schema config at Fivetran, or NotFound
    cr,      \* connector.Spec.ConnectorSchemas (non-nil: hasSchemaConfig)
    pc,      \* the call reconcileSchema makes next, or how it returned
    drifts,  \* changes others made to the schema config during the call
    faults

vars == <<live, cr, pc, drifts, faults>>

\* How reconcileSchema returns: nil, an error, ErrSchemaMismatchAfterRetry.
Returned == {"Done", "Failed", "Mismatch"}

\* A Fivetran or Kubernetes call of the invocation fails: it returns the
\* wrapped error.
CallFails ==
    /\ faults < MaxFaults
    /\ faults' = faults + 1
    /\ pc' = "Failed"
    /\ UNCHANGED <<live, cr, drifts>>

\* NotFound_SchemaConfig taken for a schema config to apply to.
GetSchemaDetailsNoReload ==
    /\ pc = "Get"
    /\ \/ /\ pc' = "Apply"
          /\ UNCHANGED <<live, cr, drifts, faults>>
       \/ CallFails

\* GetSchemaDetails; NotFound_SchemaConfig leads to reloadSchema, any other
\* error is returned.
GetSchemaDetails ==
    /\ pc = "Get"
    /\ \/ /\ pc' = IF live = NotFound THEN "Reload" ELSE "Apply"
          /\ UNCHANGED <<live, cr, drifts, faults>>
       \/ CallFails

\* reloadSchema, before the first apply and at the start of the retry.
ReloadSchema ==
    /\ pc \in {"Reload", "RetryReload"}
    /\ \/ /\ live' \in Reloaded(live)
          /\ pc' = IF pc = "Reload" THEN "Apply" ELSE "RetryApply"
          /\ UNCHANGED <<cr, drifts, faults>>
       \/ CallFails

\* applySchema: convertSchema, UpdateSchema with the built payload (a build
\* error is returned before any call), then updateSchemaHash's Update.
ApplySchema ==
    /\ pc \in {"Apply", "RetryApply"}
    /\ \E b \in convertSchema(cr) :
          IF b.err THEN pc' = "Failed" /\ UNCHANGED <<live, cr, drifts, faults>>
          ELSE \/ CallFails
               \/ /\ live' = SchemaUpdated(live, UpdateSchemaRequest(b))
                  /\ \/ /\ pc' = IF pc = "Apply" THEN "Verify" ELSE "RetryVerify"
                        /\ UNCHANGED <<cr, drifts, faults>>
                     \/ /\ faults < MaxFaults
                        /\ faults' = faults + 1
                        /\ pc' = "Failed"
                        /\ UNCHANGED <<cr, drifts>>

\* The first mismatch returned at once, without the retry.
VerifySchemaNoRetry ==
    /\ pc \in {"Verify", "RetryVerify"}
    /\ \/ \E r \in CompareSchemaWithCR(live, cr) :
             /\ pc' = IF r.matches THEN "Done" ELSE "Mismatch"
             /\ UNCHANGED <<live, cr, drifts, faults>>
       \/ CallFails

\* GetSchemaDetails and CompareSchemaWithCR after an apply: a match sets
\* SchemaReady; the first mismatch starts the one retry, the second returns
\* ErrSchemaMismatchAfterRetry.
VerifySchema ==
    /\ pc \in {"Verify", "RetryVerify"}
    /\ \/ \E r \in CompareSchemaWithCR(live, cr) :
             /\ pc' = CASE r.matches -> "Done"
                        [] pc = "Verify" -> "RetryReload"
                        [] OTHER -> "Mismatch"
             /\ UNCHANGED <<live, cr, drifts, faults>>
       \/ CallFails

\* Someone else (the Fivetran UI, another client, Fivetran itself) changes
\* the schema config while the invocation runs.
Drift ==
    /\ pc \notin Returned
    /\ live # NotFound
    /\ drifts < MaxDrifts
    /\ live' \in LiveConfigs \ {live}
    /\ drifts' = drifts + 1
    /\ UNCHANGED <<cr, pc, faults>>

\* hasSchemaConfig: the controller calls reconcileSchema only for a spec
\* that declares schemas or a policy.
hasSchemaConfig(c) == DOMAIN c.schemas # {} \/ c.handling # ""

Init ==
    /\ live \in LiveConfigs \cup {NotFound}
    /\ cr \in {c \in Declared : hasSchemaConfig(c)}
    /\ pc = "Get"
    /\ drifts = 0
    /\ faults = 0

Next == GetSchemaDetails \/ ReloadSchema \/ ApplySchema \/ VerifySchema \/ Drift

Spec == Init /\ [][Next]_vars

(***************************************************************************)
(* Reference definitions, from the specification (spec 4.4, 4.5)          *)
(***************************************************************************)

\* The payload spec 4.4 step 2 promises: the declared schema, table and
\* column tree, with the sync mode only where one is declared.
DeclaredPayload(c) ==
    [err |-> FALSE, handling |-> c.handling,
     schemas |->
        [s \in DOMAIN c.schemas |->
           [enabled |-> c.schemas[s].enabled,
            tables |->
               [t \in DOMAIN c.schemas[s].tables |->
                  LET ct == c.schemas[s].tables[t]
                  IN [enabled |-> ct.enabled,
                      syncMode |-> IF ct.syncMode = "" THEN Nil ELSE ct.syncMode,
                      columns |-> ct.columns]]]]]

\* Spec 4.5, rule by rule, as sets of discrepancies.
LiveDiffers(l, d) == l # Nil /\ l # d
RefMissing(fs, c) == DOMAIN c.schemas \ DOMAIN fs.schemas
RefPresent(fs, c) == DOMAIN c.schemas \cap DOMAIN fs.schemas
RefSchemaMis(fs, c) ==
    {s \in RefPresent(fs, c) :
        LiveDiffers(fs.schemas[s].enabled, c.schemas[s].enabled)}
RefTableMis(fs, c, s) ==
    {t \in DOMAIN c.schemas[s].tables :
        LET ct == c.schemas[s].tables[t]
            lt == fs.schemas[s].tables
        IN \/ t \notin DOMAIN lt
           \/ LiveDiffers(lt[t].enabled, ct.enabled)
           \/ ct.syncMode # "" /\ lt[t].syncMode # ct.syncMode}
RefMatches(fs, c) ==
    /\ c.handling = "" \/ fs.handling = c.handling
    /\ RefMissing(fs, c) = {} /\ RefSchemaMis(fs, c) = {}
    /\ \A s \in RefPresent(fs, c) : RefTableMis(fs, c, s) = {}

HasEmptyName(c) ==
    \/ "" \in DOMAIN c.schemas
    \/ \E s \in DOMAIN c.schemas :
          "" \in DOMAIN c.schemas[s].tables \cup UNION {c.schemas[s].tables[t].columns
                                       : t \in DOMAIN c.schemas[s].tables}

\* The declared tree exists at the source, so the reconciler can reach it.
DeclaredAtSource(c) ==
    \A s \in DOMAIN c.schemas :
        s \in DOMAIN Source /\ DOMAIN c.schemas[s].tables \subseteq Source[s]

(***************************************************************************)
(* Properties                                                              *)
(***************************************************************************)

\* The schema config exists whenever reconcileSchema applies or verifies.
TypeOK ==
    /\ live \in IF pc \in {"Get", "Reload", "Failed"}
                THEN LiveConfigs \cup {NotFound} ELSE LiveConfigs
    /\ IsCR(cr)
    /\ pc \in {"Get", "Reload", "Apply", "Verify", "RetryReload",
               "RetryApply", "RetryVerify"} \cup Returned
    /\ drifts \in 0..MaxDrifts /\ faults \in 0..MaxFaults

\* convertSchema hands UpdateSchema the declared tree (spec 4.4 step 2),
\* whatever order the Go maps of schemas, tables and columns are walked in;
\* the build fails only for a declared empty name.
PayloadIsDeclaredTree ==
    \A b \in convertSchema(cr) :
        IF b.err THEN HasEmptyName(cr) ELSE b = DeclaredPayload(cr)

\* CompareSchemaWithCR's verdict and report, in every map order, are the
\* ones spec 4.5's rules give: it matches exactly when no rule finds a
\* discrepancy, and it reports each missing schema once, each schema whose
\* enabled flag differs, and each table with a discrepancy.
ReportMatchesReference ==
    live # NotFound =>
    \A r \in CompareSchemaWithCR(live, cr) :
        /\ r.matches = RefMatches(live, cr)
        /\ ToSet(r.report.missing) = RefMissing(live, cr)
        /\ Len(r.report.missing) = Cardinality(RefMissing(live, cr))
        /\ DOMAIN r.report.schemaMis = RefSchemaMis(live, cr)
        /\ DOMAIN r.report.tableMis =
               {s \in RefPresent(live, cr) : RefTableMis(live, cr, s) # {}}
        /\ \A s \in DOMAIN r.report.tableMis :
               {e.table : e \in ToSet(r.report.tableMis[s])}
                   = RefTableMis(live, cr, s)

\* The one reload-apply-verify retry of reconcileSchema repairs any single
\* change others make to the schema config while it runs: when the
\* declared tree exists at the source, ErrSchemaMismatchAfterRetry is
\* returned only after at least two such changes.
MismatchNeedsTwoDrifts ==
    pc = "Mismatch" /\ DeclaredAtSource(cr) => drifts >= 2

================================================================================
