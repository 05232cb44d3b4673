--------------------------- MODULE FivetranConnector ---------------------------
(***************************************************************************)
(* The reconcile loop of the FivetranConnector controller                  *)
(* (internal/controller/fivetranconnector/controller.go Reconcile and the  *)
(* helpers it calls in utils.go, status_mgmt.go, setup_tests.go and the    *)
(* connector/schema files), for one FivetranConnector resource.            *)
(*                                                                         *)
(* Reconcile is split at every call it makes to the Kubernetes API or to   *)
(* the Fivetran API: between two calls the user may edit the resource, the *)
(* operator may crash, and every call may fail.  The resource is `obj`     *)
(* (what the API server stores) and `loc` is the reconciler's in-memory    *)
(* copy; Update and Status().Update succeed only while `loc` is not stale  *)
(* (optimistic concurrency on resourceVersion).                            *)
(***************************************************************************)
EXTENDS Naturals, FiniteSets

CONSTANTS
    Cfgs,           \* connector configurations (spec.connector apart from paused/tests)
    SchemaSpecs,    \* declared connectorSchemas values
    NoSchema,       \* spec.connectorSchemas is nil
    SpecService,    \* spec.connector.service / group_id of the resource
    OtherService,   \* a different service / group_id / schema name
    None,           \* absent status field, annotation or local
    Absent,         \* no connector with this id at Fivetran
    NotFoundSchema, \* schema config not yet created (NotFound_SchemaConfig)
    DefaultSchema,  \* schema config after a reload, before an update
    PartialSchema,  \* schema config that differs from what was sent
    NumPreExisting, \* connectors that exist at Fivetran before the resource
    PreExistingServices, \* the services those connectors may have
    MaxIds,         \* bound on connector ids Fivetran hands out
    ApiErrorCodes,  \* HTTP status codes a failing Fivetran call may return
    SetupResults,   \* setup test outcomes Fivetran may report
    MaxEdits,       \* bound on user edits (spec changes, force label)
    MaxCrashes,     \* bound on operator restarts
    MaxFaults,      \* bound on failed or lost API calls
    Specs,          \* the spec values the user may write
    Words,          \* words of schema names
    CfgMap,         \* CfgMap[c]: the JSON map json.Unmarshal makes of config c
    SchemaNames,    \* destination schema names pre-existing connectors may have
    BackupAnnotation, \* the reconcileConnector of unnamed/part_003 (id backup
                      \* annotation and recovery from it) replaces part_002's
    CacheLag,       \* r.Get reads the manager's informer cache, which may lag
                    \* behind the reconciler's own writes
    MaxLaggedReads  \* bound on r.Get calls served before the cache caught up

IDs == 1..MaxIds
PreExisting == 1..NumPreExisting

ASSUME NumPreExisting < MaxIds
ASSUME SetupResults \subseteq {"PASSED", "WARNING", "FAILED"} /\ SetupResults # {}

CondTypes == {"ConnectorReady", "SetupTestReady", "SchemaReady"}

VARIABLES
    obj,      \* the FivetranConnector as stored by the API server
    remote,   \* remote[id]: the Fivetran connector with that id, or Absent
    nextId,   \* the id Fivetran gives to the next connector it creates
    pc,       \* where the reconciler is in Reconcile ("Idle" between calls)
    loc,      \* the reconciler's copy of the resource
    cached,   \* the informer cache's copy (None when CacheLag is FALSE)
    stale,    \* the API server's copy changed since loc was read or written
    needC,    \* reconcileConnector computed by determineReconciliationNeeds
    needS,    \* reconcileSchema computed by determineReconciliationNeeds
    cid,      \* the connectorID local of Reconcile
    retried,  \* reconcileSchema is in its one retry
    err,      \* the error handed to handleError
    queued,   \* the workqueue holds the resource's key
    vaultOK,  \* r.VaultClient is set and its token is valid
    edits, crashes, faults,
    lagged    \* r.Get calls that returned a copy older than the server's

vars == <<obj, remote, nextId, pc, loc, cached, stale, needC, needS, cid, retried,
          err, queued, vaultOK, edits, crashes, faults, lagged>>

SpecSet == [cfg: Cfgs, paused: BOOLEAN, tests: BOOLEAN,
            schema: SchemaSpecs \cup {NoSchema}]

ASSUME Specs \subseteq SpecSet /\ Specs # {}

SN == INSTANCE SchemaNameInference

ASSUME CfgMap \in [Cfgs -> SN!ConfigMaps]

ObjSet == [exists: BOOLEAN, spec: SpecSet, finalizer: BOOLEAN,
           deleting: BOOLEAN, force: BOOLEAN, adopt: PreExisting \cup {None},
           backup: IDs \cup {None},
           connHash: [cfg: Cfgs, paused: BOOLEAN, tests: BOOLEAN] \cup {None},
           schemaHash: SchemaSpecs \cup {None}, statusID: IDs \cup {None},
           conds: [CondTypes -> {"True", "False", None}]]

RemoteSet == [svc: {SpecService, OtherService}, cfg: Cfgs, paused: BOOLEAN,
              schema: SchemaSpecs \cup {NotFoundSchema, DefaultSchema, PartialSchema},
              schemaName: SchemaNames \cup {<<>>}]

(***************************************************************************)
(* Pure helpers                                                            *)
(***************************************************************************)

\* APIError.IsRetryable: 429 and 5xx retry, other 4xx do not, anything
\* else (0 when the status code could not be parsed) retries.
IsRetryable(code) ==
    \/ code \in {429, 500, 502, 503, 504}
    \/ code < 400
    \/ code >= 500

\* The handleError branch an error of a Fivetran call takes.
ApiErrorKind(code) == IF IsRetryable(code) THEN "Retryable" ELSE "Terminal"

NotFoundCode == 404   \* a call on a connector id Fivetran does not know
TimeoutCode == 0      \* WrapFivetranError of an error without a status code

\* Variants of calculateConnectorHash: a digest over the whole spec instead
\* of spec.connector, and a digest that leaves the configuration out.
ConnectorHashWholeSpec(s) ==
    [cfg |-> s.cfg, paused |-> s.paused, tests |-> s.tests, schema |-> s.schema]
ConnectorHashWithoutCfg(s) ==
    [cfg |-> CHOOSE c \in Cfgs : TRUE, paused |-> s.paused, tests |-> s.tests]

\* calculateConnectorHash: md5 of spec.connector; two specs get the same
\* digest exactly when their connector part is equal.
ConnectorHash(s) == [cfg |-> s.cfg, paused |-> s.paused, tests |-> s.tests]

\* hasSchemaConfig
HasSchemaConfig(l) == l.spec.schema # NoSchema

\* hasFailedConditions
HasFailedConditions(l) == \E c \in CondTypes : l.conds[c] = "False"

\* calculateSchemaHash: md5 of spec.connectorSchemas, "" (an absent
\* annotation) when it is nil.
SchemaHashOf(s) == IF s.schema = NoSchema THEN None ELSE s.schema

\* hasConnectorHashChanged: the digest of the spec against the annotation.
ConnectorHashChanged(l) == l.connHash # ConnectorHash(l.spec)

\* determineReconciliationNeeds, with hasSchemaHashChanged
NeedConnector(l) ==
    \/ l.force
    \/ HasFailedConditions(l)
    \/ ConnectorHashChanged(l)

NeedSchema(l) ==
    IF l.force \/ HasFailedConditions(l)
    THEN HasSchemaConfig(l)
    ELSE /\ HasSchemaConfig(l)
         /\ \/ l.statusID = None
            \/ l.schemaHash # SchemaHashOf(l.spec)

\* setCondition, applied to the in-memory copy
SetCondition(l, c, v) == [l EXCEPT !.conds[c] = v]

\* What Fivetran stores after UpdateConnection with the spec.  Optional
\* fields are sent only when non-zero; config and paused, the two the model
\* keeps, are required by the CRD and always sent.
Updated(r, s) == [r EXCEPT !.cfg = s.cfg, !.paused = s.paused]

\* What CreateConnection stores: createConnector forces paused to true.
\* (The destination schema name of a created connector is read by nothing.)
Created(s) == [svc |-> SpecService, cfg |-> s.cfg, paused |-> TRUE,
               schema |-> NotFoundSchema, schemaName |-> <<>>]

Live(id) == id \in IDs /\ remote[id] # Absent

\* Variant: adoption without the service/group/schema checks.
AdoptionVerdictUnchecked(r, c) == "valid"

\* handleExistingConnectorAdoption's verdict on the existing connector r for
\* config c: service and group_id first, then the schema name inferred from
\* the config, whose table_group_name type assertion may panic.
AdoptionVerdict(r, c) ==
    CASE r.svc # SpecService -> "mismatch"
      [] SN!Panics(CfgMap[c]) -> "panic"
      [] SN!NameAccepted(CfgMap[c], r.schemaName) -> "valid"
      [] OTHER -> "mismatch"

\* Variant: reconcileConnector that ignores the id already in status.
ConnectorStepAlwaysCreate(l) == "Create"

\* reconcileConnector: update the connector in status; else (part_003)
\* recover the one the backup annotation names; else create.  Only
\* part_003 writes the annotation, so part_002's never sees one.
ConnectorStep(l) ==
    CASE l.statusID # None -> "Update1"
      [] l.backup # None -> "Recover"
      [] OTHER -> "Create"

(***************************************************************************)
(* Control flow of Reconcile between calls                                 *)
(***************************************************************************)

Goto(p) == pc' = p /\ UNCHANGED <<queued, err, needC, needS, cid, retried>>

\* return from Reconcile; requeue covers Requeue, RequeueAfter and an error
Finish(requeue) ==
    /\ pc' = "Idle"
    /\ queued' = (queued \/ requeue)
    /\ UNCHANGED <<err, needC, needS, cid, retried>>

\* return r.handleError(ctx, connector, cond, reason, e)
Fail(cond, kind) ==
    /\ pc' = "HandleError"
    /\ err' = [cond |-> cond, kind |-> kind]
    /\ UNCHANGED <<queued, needC, needS, cid, retried>>

\* Reconcile from "Determine what needs to be reconciled" to the first call
Determine(l) ==
    LET c == NeedConnector(l)
        s == NeedSchema(l)
    IN IF ~c /\ ~s
       THEN Finish(FALSE)
       ELSE /\ needC' = c
            /\ needS' = s
            /\ cid' = l.statusID
            /\ retried' = FALSE
            /\ pc' = "Resolve"
            /\ UNCHANGED <<queued, err>>

\* Reconcile after the finalizer is in place: adoption, then Determine
AfterFinalizer(l) ==
    IF l.statusID = None /\ l.adopt # None
    THEN Goto("Adopt")
    ELSE Determine(l)

\* Variant: handleDeletion that drops the finalizer without deleting.
AfterVaultSkipDelete(l) ==
    IF l.deleting
    THEN IF ~l.finalizer THEN Finish(FALSE) ELSE Goto("RemoveFinalizer")
    ELSE IF ~l.finalizer THEN Goto("EnsureFinalizer")
    ELSE AfterFinalizer(l)

\* Reconcile after the vault client check: deletion or finalizer
AfterVault(l) ==
    IF l.deleting
    THEN IF ~l.finalizer THEN Finish(FALSE)
         ELSE IF l.statusID # None THEN Goto("Delete")
         ELSE Goto("RemoveFinalizer")
    ELSE IF ~l.finalizer THEN Goto("EnsureFinalizer")
    ELSE AfterFinalizer(l)

\* Reconcile after setup tests: "Configure schema if needed"
SchemaBranch(l) ==
    IF needS /\ HasSchemaConfig(l) THEN Goto("SchemaGet")
    ELSE Goto("CondSchemaSkipped")

\* cleanupAnnotationsAndLabels and the return of Reconcile
Cleanup(l) ==
    IF l.force THEN Goto("CleanLabel")
    ELSE IF l.adopt # None THEN Goto("CleanAdopt")
    ELSE Finish(FALSE)

\* after the schema step: the second updateConnector, then cleanup
AfterSchema(l) == IF needC THEN Goto("Update2") ELSE Cleanup(l)

(***************************************************************************)
(* Calls                                                                   *)
(***************************************************************************)

\* The object the API server stores after a write of the local copy new:
\* Status().Update takes only the status, Update everything else; removing
\* the last finalizer of a deleted object removes the object.
Persisted(new, status) ==
    IF status
    THEN [obj EXCEPT !.statusID = new.statusID, !.conds = new.conds]
    ELSE [obj EXCEPT !.finalizer = new.finalizer, !.force = new.force,
                     !.adopt = new.adopt, !.backup = new.backup,
                     !.connHash = new.connHash,
                     !.schemaHash = new.schemaHash,
                     !.exists = ~(obj.deleting /\ ~new.finalizer)]

\* How the caller's error wrapping leaves the handleError branch: %w keeps
\* the error's class.
Unwrapped(kind) == kind

\* r.Update / r.Status().Update of the local copy new.  On success the
\* response refreshes the local copy; a stale copy is refused with a
\* conflict; a failed call may or may not have been applied.  OnError is
\* what the caller does with the returned error.
K8sWriteOr(new, status, Then, OnError) ==
    /\ \/ /\ ~stale
          /\ obj' = Persisted(new, status)
          /\ loc' = Persisted(new, status)
          /\ UNCHANGED <<stale, faults>>
          /\ Then
       \/ /\ stale
          /\ loc' = new
          /\ UNCHANGED <<obj, stale, faults>>
          /\ OnError
       \/ /\ ~stale
          /\ faults < MaxFaults
          /\ faults' = faults + 1
          /\ loc' = new
          /\ \/ UNCHANGED <<obj, stale>>
             \/ obj' = Persisted(new, status) /\ stale' = TRUE
          /\ OnError
    /\ UNCHANGED <<remote, nextId, vaultOK, edits, crashes>>

\* A write whose error goes to handleError; Wrap is how the callers on the
\* way there wrap it.
K8sWriteWrapped(new, status, cond, Then, Wrap(_)) ==
    K8sWriteOr(new, status, Then, Fail(cond, Wrap("Other")))

K8sWrite(new, status, cond, Then) == K8sWriteWrapped(new, status, cond, Then, Unwrapped)

\* A Fivetran call on connector id whose effect on success is effect.
\* Unknown ids get 404; a call may fail with any of ApiErrorCodes, or time
\* out after Fivetran applied it.
FivetranCallWrapped(id, effect, cond, Then, Wrap(_)) ==
    /\ \/ /\ Live(id)
          /\ remote' = effect
          /\ UNCHANGED faults
          /\ Then
       \/ /\ ~Live(id)
          /\ UNCHANGED <<remote, faults>>
          /\ Fail(cond, Wrap(ApiErrorKind(NotFoundCode)))
       \/ /\ faults < MaxFaults
          /\ faults' = faults + 1
          /\ UNCHANGED remote
          /\ \E code \in ApiErrorCodes : Fail(cond, Wrap(ApiErrorKind(code)))
       \/ /\ Live(id)
          /\ faults < MaxFaults
          /\ faults' = faults + 1
          /\ remote' = effect
          /\ Fail(cond, Wrap(ApiErrorKind(TimeoutCode)))
    /\ UNCHANGED <<obj, loc, stale, nextId, vaultOK, edits, crashes>>

FivetranCall(id, effect, cond, Then) ==
    FivetranCallWrapped(id, effect, cond, Then, Unwrapped)

(***************************************************************************)
(* Reconcile, one action per call                                          *)
(***************************************************************************)

\* processNextWorkItem: the worker takes the key off the workqueue
Dequeue ==
    /\ pc = "Idle"
    /\ queued
    /\ queued' = FALSE
    /\ pc' = "Get"
    /\ UNCHANGED <<obj, remote, nextId, loc, stale, needC, needS, cid, retried,
                   err, vaultOK, edits, crashes, faults>>

\* The copy r.Get returns: the informer's, which has taken in every event
\* that enqueued the key but maybe not the reconciler's own last writes.
Observed == IF CacheLag THEN cached ELSE obj

\* r.Get of the resource (not found ends Reconcile) and the vault client
\* check; a copy older than the server's makes every write of it conflict.
Get ==
    /\ pc = "Get"
    /\ \/ Observed = obj /\ UNCHANGED lagged
       \/ Observed # obj /\ lagged < MaxLaggedReads /\ lagged' = lagged + 1
    /\ IF ~Observed.exists
       THEN Finish(FALSE) /\ UNCHANGED <<loc, stale>>
       ELSE /\ loc' = Observed
            /\ stale' = (Observed # obj)
            /\ IF vaultOK THEN AfterVault(Observed) ELSE Goto("VaultInit")
    /\ UNCHANGED <<obj, remote, nextId, vaultOK, edits, crashes, faults>>

\* InitializeVaultClientFromSecret
VaultInit ==
    /\ pc = "VaultInit"
    /\ \/ /\ vaultOK' = TRUE
          /\ UNCHANGED faults
          /\ AfterVault(loc)
       \/ /\ faults < MaxFaults
          /\ faults' = faults + 1
          /\ UNCHANGED vaultOK
          /\ Fail("ConnectorReady", "Other")
    /\ UNCHANGED <<obj, loc, stale, remote, nextId, edits, crashes>>

\* handleDeletion: DeleteConnection of the connector in status
Delete ==
    /\ pc = "Delete"
    /\ FivetranCall(loc.statusID, [remote EXCEPT ![loc.statusID] = Absent],
                    "ConnectorReady", Goto("RemoveFinalizer"))

\* handleDeletion: RemoveFinalizer and Update
RemoveFinalizer ==
    /\ pc = "RemoveFinalizer"
    /\ K8sWrite([loc EXCEPT !.finalizer = FALSE], FALSE, "ConnectorReady",
                Finish(FALSE))

\* ensureFinalizer
EnsureFinalizer ==
    /\ pc = "EnsureFinalizer"
    /\ K8sWrite([loc EXCEPT !.finalizer = TRUE], FALSE, "ConnectorReady",
                AfterFinalizer([loc EXCEPT !.finalizer = TRUE]))

\* handleExistingConnectorAdoption: GetConnection and the service, group
\* and schema-name checks (a mismatch is a plain error).  A panic unwinds
\* Reconcile without a write: controller-runtime's recovery returns it as an
\* error, or the process exits and the restarted informer lists the
\* resource; either way the key comes back.
Adopt ==
    /\ pc = "Adopt"
    /\ FivetranCall(loc.adopt, remote, "ConnectorReady",
          CASE AdoptionVerdict(remote[loc.adopt], loc.spec.cfg) = "valid" ->
                  Goto("AdoptStatus")
            [] AdoptionVerdict(remote[loc.adopt], loc.spec.cfg) = "mismatch" ->
                  Fail("ConnectorReady", "Other")
            [] AdoptionVerdict(remote[loc.adopt], loc.spec.cfg) = "panic" ->
                  Finish(TRUE))

\* updateConnectorIDStatus of the adopted id, then Requeue: true
AdoptStatus ==
    /\ pc = "AdoptStatus"
    /\ K8sWrite([loc EXCEPT !.statusID = loc.adopt], TRUE, "ConnectorReady",
                Finish(TRUE))

\* resolveSecrets: a vault error is retryable (read failed) or not
Resolve ==
    /\ pc = "Resolve"
    /\ \/ /\ UNCHANGED faults
          /\ IF needC
             THEN Goto(ConnectorStep(loc))
             ELSE SchemaBranch(loc)
       \/ /\ faults < MaxFaults
          /\ faults' = faults + 1
          /\ \E retryable \in BOOLEAN :
                Fail("ConnectorReady", IF retryable THEN "Retryable" ELSE "Terminal")
    /\ UNCHANGED <<obj, loc, stale, remote, nextId, vaultOK, edits, crashes>>

\* createConnector: CreateConnection, paused forced true
Create ==
    /\ pc = "Create"
    /\ nextId \in IDs
    /\ \/ /\ remote' = [remote EXCEPT ![nextId] = Created(loc.spec)]
          /\ nextId' = nextId + 1
          /\ UNCHANGED faults
          /\ pc' = "SetID"
          /\ cid' = nextId
          /\ UNCHANGED <<queued, err, needC, needS, retried>>
       \/ /\ faults < MaxFaults
          /\ faults' = faults + 1
          /\ UNCHANGED <<remote, nextId>>
          /\ \E code \in ApiErrorCodes : Fail("ConnectorReady", ApiErrorKind(code))
       \/ /\ faults < MaxFaults
          /\ faults' = faults + 1
          /\ remote' = [remote EXCEPT ![nextId] = Created(loc.spec)]
          /\ nextId' = nextId + 1
          /\ Fail("ConnectorReady", ApiErrorKind(TimeoutCode))
    /\ UNCHANGED <<obj, loc, stale, vaultOK, edits, crashes>>

\* updateConnectorIDStatus of the new id (part_002); setConnectorID's
\* Status().Update of it (part_003)
SetID ==
    /\ pc = "SetID"
    /\ K8sWrite([loc EXCEPT !.statusID = cid], TRUE, "ConnectorReady",
                Goto(IF BackupAnnotation THEN "SetBackup" ELSE "ConnHash"))

\* setConnectorID: the backup annotation of the new id, by r.Update
SetBackup ==
    /\ pc = "SetBackup"
    /\ K8sWrite([loc EXCEPT !.backup = cid], FALSE, "ConnectorReady",
                Goto("ConnHash"))

\* reconcileConnector wraps every error of handleConnectorFromAnnotation as
\* fmt.Errorf("%w: ID %s, details: %v", ErrConnectorValidationFailed, ...):
\* the cause is flattened to text, and handleError's
\* ErrConnectorValidationFailed branch never requeues.
AsValidationFailed(kind) == "Validation"

\* handleConnectorFromAnnotation: GetConnection of the annotated id and
\* the adoption checks; on success connectorID is the annotated id.
Recover ==
    /\ pc = "Recover"
    /\ FivetranCallWrapped(loc.backup, remote, "ConnectorReady",
          CASE AdoptionVerdict(remote[loc.backup], loc.spec.cfg) = "valid" ->
                  /\ pc' = "RecoverID"
                  /\ cid' = loc.backup
                  /\ UNCHANGED <<queued, err, needC, needS, retried>>
            [] AdoptionVerdict(remote[loc.backup], loc.spec.cfg) = "mismatch" ->
                  Fail("ConnectorReady", "Validation")
            [] AdoptionVerdict(remote[loc.backup], loc.spec.cfg) = "panic" ->
                  Finish(TRUE),
          AsValidationFailed)

\* handleConnectorFromAnnotation's setConnectorID: Status().Update of the id
RecoverID ==
    /\ pc = "RecoverID"
    /\ K8sWriteWrapped([loc EXCEPT !.statusID = cid], TRUE, "ConnectorReady",
                       Goto("RecoverBackup"), AsValidationFailed)

\* setConnectorID's r.Update of the backup annotation, then updateConnector
RecoverBackup ==
    /\ pc = "RecoverBackup"
    /\ K8sWriteWrapped([loc EXCEPT !.backup = cid], FALSE, "ConnectorReady",
                       Goto("Update1"), AsValidationFailed)

\* updateConnector of the connector in status (first, in reconcileConnector)
Update1 ==
    /\ pc = "Update1"
    /\ FivetranCall(loc.statusID,
                    [remote EXCEPT ![loc.statusID] = Updated(@, loc.spec)],
                    "ConnectorReady", Goto("ConnHash"))

\* updateConnectorHash
ConnHash ==
    /\ pc = "ConnHash"
    /\ K8sWrite([loc EXCEPT !.connHash = ConnectorHash(loc.spec)], FALSE,
                "ConnectorReady", Goto("CondReady"))

\* setCondition(ConnectorReady, True) at the end of reconcileConnector
CondReady ==
    /\ pc = "CondReady"
    /\ K8sWrite(SetCondition(loc, "ConnectorReady", "True"), TRUE,
                "ConnectorReady", Goto("SetupTests"))

\* reconcileSetupTests: RunSetupTests unless run_setup_tests is false;
\* a FAILED test is ErrSetupTestsFailed
SetupTests ==
    /\ pc = "SetupTests"
    /\ IF ~loc.spec.tests
       THEN /\ Goto("CondSetup")
            /\ UNCHANGED <<obj, loc, stale, remote, nextId, vaultOK, edits,
                           crashes, faults>>
       ELSE FivetranCall(cid, remote, "SetupTestReady",
                         \E r \in SetupResults :
                            IF r = "FAILED"
                            THEN /\ pc' = "HandleSetupFailed"
                                 /\ err' = [cond |-> "SetupTestReady",
                                            kind |-> "SetupFailed"]
                                 /\ UNCHANGED <<queued, needC, needS, cid, retried>>
                            ELSE Goto("CondSetup"))

\* updateSetupTestsCondition: SetupTestReady True (skipped, passed, warnings)
CondSetup ==
    /\ pc = "CondSetup"
    /\ K8sWrite(SetCondition(loc, "SetupTestReady", "True"), TRUE,
                "SetupTestReady", SchemaBranch(loc))

\* setCondition(SchemaReady, True, Skipped)
CondSchemaSkipped ==
    /\ pc = "CondSchemaSkipped"
    /\ K8sWrite(SetCondition(loc, "SchemaReady", "True"), TRUE, "SchemaReady",
                AfterSchema(loc))

\* reconcileSchema: GetSchemaDetails; NotFound_SchemaConfig means reload
SchemaGet ==
    /\ pc = "SchemaGet"
    /\ FivetranCall(cid, remote, "SchemaReady",
                    IF remote[cid].schema = NotFoundSchema
                    THEN Goto("SchemaReload")
                    ELSE Goto("SchemaApply"))

\* reloadSchema: ReloadSchema fills a missing schema config
SchemaReload ==
    /\ pc = "SchemaReload"
    /\ FivetranCall(cid,
                    [remote EXCEPT ![cid].schema =
                        IF @ = NotFoundSchema THEN DefaultSchema ELSE @],
                    "SchemaReady", Goto("SchemaApply"))

\* applySchema: UpdateSchema; Fivetran may keep part of the old config
SchemaApply ==
    /\ pc = "SchemaApply"
    /\ \/ FivetranCall(cid, [remote EXCEPT ![cid].schema = loc.spec.schema],
                       "SchemaReady", Goto("SchemaHash"))
       \/ /\ Live(cid)
          /\ faults < MaxFaults
          /\ faults' = faults + 1
          /\ remote' = [remote EXCEPT ![cid].schema = PartialSchema]
          /\ Goto("SchemaHash")
          /\ UNCHANGED <<obj, loc, stale, nextId, vaultOK, edits, crashes>>

\* applySchema: updateSchemaHash
SchemaHash ==
    /\ pc = "SchemaHash"
    /\ K8sWrite([loc EXCEPT !.schemaHash = SchemaHashOf(loc.spec)], FALSE,
                "SchemaReady", Goto("SchemaVerify"))

\* reconcileSchema: GetSchemaDetails and CompareSchemaWithCR, at most one
\* reload-apply-verify retry, then ErrSchemaMismatchAfterRetry
SchemaVerify ==
    /\ pc = "SchemaVerify"
    /\ FivetranCall(cid, remote, "SchemaReady",
                    IF remote[cid].schema = loc.spec.schema
                    THEN Goto("CondSchema")
                    ELSE IF ~retried
                    THEN /\ pc' = "SchemaReload"
                         /\ retried' = TRUE
                         /\ UNCHANGED <<queued, err, needC, needS, cid>>
                    ELSE Fail("SchemaReady", "Terminal"))

\* setCondition(SchemaReady, True) at the end of reconcileSchema
CondSchema ==
    /\ pc = "CondSchema"
    /\ K8sWrite(SetCondition(loc, "SchemaReady", "True"), TRUE, "SchemaReady",
                AfterSchema(loc))

\* the second updateConnector, which sets schedule type and paused
Update2 ==
    /\ pc = "Update2"
    /\ FivetranCall(cid, [remote EXCEPT ![cid] = Updated(@, loc.spec)],
                    "ConnectorReady", Cleanup(loc))

\* cleanupAnnotationsAndLabels: remove the force-reconcile label
CleanLabel ==
    /\ pc = "CleanLabel"
    /\ K8sWrite([loc EXCEPT !.force = FALSE], FALSE, "ConnectorReady",
                IF loc.adopt # None THEN Goto("CleanAdopt") ELSE Finish(FALSE))

\* cleanupAnnotationsAndLabels: remove the adoption annotation
CleanAdopt ==
    /\ pc = "CleanAdopt"
    /\ K8sWrite([loc EXCEPT !.adopt = None], FALSE, "ConnectorReady",
                Finish(FALSE))

\* handleError for ErrSetupTestsFailed: first ConnectorReady True; a failed
\* write is returned at once, and the workqueue backs off
HandleSetupFailed ==
    /\ pc = "HandleSetupFailed"
    /\ K8sWriteOr(SetCondition(loc, "ConnectorReady", "True"), TRUE,
                  Goto("HandleError"), Finish(TRUE))

\* Variant: handleError that requeues every error, terminal ones included.
RequeuesAlways(kind) == TRUE

\* Whether Reconcile's result asks for the key again once handleError's
\* setCondition succeeded: RequeueAfter for retryable errors, the error
\* itself for unclassified ones, nothing for terminal ones.
Requeues(kind) == kind \in {"Retryable", "Other"}

\* handleError: setCondition(cond, False); a failed write returns its error
HandleError ==
    /\ pc = "HandleError"
    /\ \/ /\ ~stale
          /\ obj' = Persisted(SetCondition(loc, err.cond, "False"), TRUE)
          /\ loc' = obj'
          /\ UNCHANGED <<stale, faults>>
          /\ Finish(Requeues(err.kind))
       \/ /\ \/ stale /\ UNCHANGED <<obj, stale, faults>>
             \/ /\ ~stale
                /\ faults < MaxFaults
                /\ faults' = faults + 1
                /\ \/ UNCHANGED <<obj, stale>>
                   \/ /\ obj' = Persisted(SetCondition(loc, err.cond, "False"), TRUE)
                      /\ stale' = TRUE
          /\ loc' = SetCondition(loc, err.cond, "False")
          /\ Finish(TRUE)
    /\ UNCHANGED <<remote, nextId, vaultOK, edits, crashes>>

Reconcile ==
    \/ Dequeue \/ Get \/ VaultInit \/ Delete \/ RemoveFinalizer \/ EnsureFinalizer
    \/ Adopt \/ AdoptStatus \/ Resolve \/ Create \/ SetID \/ SetBackup
    \/ Recover \/ RecoverID \/ RecoverBackup \/ Update1
    \/ ConnHash \/ CondReady \/ SetupTests \/ CondSetup \/ CondSchemaSkipped
    \/ SchemaGet \/ SchemaReload \/ SchemaApply \/ SchemaHash \/ SchemaVerify
    \/ CondSchema \/ Update2 \/ CleanLabel \/ CleanAdopt
    \/ HandleSetupFailed \/ HandleError

(***************************************************************************)
(* Environment: the user, the operator process, the vault token            *)
(***************************************************************************)

\* A write by someone else makes the reconciler's copy stale.
Touched == stale' = (stale \/ pc # "Idle")

\* A watch event reaches the workqueue only after the informer's store took
\* it in, and the store applies events in order.
CacheSees(o) == cached' = IF CacheLag THEN o ELSE None

\* The user changes spec: generation changes, the predicate enqueues.
EditSpec ==
    /\ edits < MaxEdits
    /\ obj.exists /\ ~obj.deleting
    /\ \E s \in Specs \ {obj.spec} : obj' = [obj EXCEPT !.spec = s]
    /\ CacheSees(obj')
    /\ edits' = edits + 1
    /\ queued' = TRUE
    /\ Touched
    /\ UNCHANGED <<remote, nextId, pc, loc, needC, needS, cid, retried, err,
                   vaultOK, crashes, faults>>

\* The user adds the force-reconcile label: the label predicate enqueues.
AddForceLabel ==
    /\ edits < MaxEdits
    /\ obj.exists /\ ~obj.deleting /\ ~obj.force
    /\ obj' = [obj EXCEPT !.force = TRUE]
    /\ CacheSees(obj')
    /\ edits' = edits + 1
    /\ queued' = TRUE
    /\ Touched
    /\ UNCHANGED <<remote, nextId, pc, loc, needC, needS, cid, retried, err,
                   vaultOK, crashes, faults>>

\* The user deletes the resource: with a finalizer it is only marked.
MarkDeleted ==
    /\ obj.exists /\ ~obj.deleting
    /\ obj' = [obj EXCEPT !.deleting = TRUE, !.exists = obj.finalizer]
    /\ CacheSees(obj')
    /\ queued' = TRUE
    /\ Touched
    /\ UNCHANGED <<remote, nextId, pc, loc, needC, needS, cid, retried, err,
                   vaultOK, edits, crashes, faults>>

\* The operator restarts: in-memory state is lost, the informer lists the
\* resource again.
Crash ==
    /\ crashes < MaxCrashes
    /\ crashes' = crashes + 1
    /\ pc' = "Idle"
    /\ queued' = obj.exists
    /\ vaultOK' = FALSE
    /\ stale' = FALSE
    /\ CacheSees(obj)
    /\ UNCHANGED <<obj, remote, nextId, loc, needC, needS, cid, retried, err,
                   edits, faults>>

\* The vault token's TTL drops under 300 seconds (it is read only when
\* Reconcile starts, so expiring between reconciles covers every case).
TokenExpires ==
    /\ pc = "Idle"
    /\ vaultOK
    /\ vaultOK' = FALSE
    /\ UNCHANGED <<obj, remote, nextId, pc, loc, cached, stale, needC, needS,
                   cid, retried, err, queued, edits, crashes, faults>>

\* The informer's watch delivers the reconciler's own writes.  They change
\* no generation and add no force label, so the predicates enqueue nothing.
InformerSync ==
    /\ CacheLag
    /\ cached # obj
    /\ cached' = obj
    /\ UNCHANGED <<obj, remote, nextId, pc, loc, stale, needC, needS, cid,
                   retried, err, queued, vaultOK, edits, crashes, faults,
                   lagged>>

Environment ==
    /\ UNCHANGED lagged
    /\ \/ EditSpec \/ AddForceLabel \/ MarkDeleted \/ Crash \/ TokenExpires
       \/ InformerSync

(***************************************************************************)
(* Specification                                                           *)
(***************************************************************************)

Init ==
    /\ \E s \in Specs, a \in {None} \cup PreExisting,
          b \in {None} \cup (IF BackupAnnotation THEN PreExisting ELSE {}) :
          obj = [exists |-> TRUE, spec |-> s, finalizer |-> FALSE,
                 deleting |-> FALSE, force |-> FALSE, adopt |-> a, backup |-> b,
                 connHash |-> None, schemaHash |-> None, statusID |-> None,
                 conds |-> [c \in CondTypes |-> None]]
    /\ \E svc \in [PreExisting -> PreExistingServices], c \in Cfgs,
          nm \in [PreExisting -> SchemaNames] :
          remote = [i \in IDs |->
                      IF i \in PreExisting
                      THEN [svc |-> svc[i], cfg |-> c, paused |-> FALSE,
                            schema |-> DefaultSchema, schemaName |-> nm[i]]
                      ELSE Absent]
    /\ nextId = NumPreExisting + 1
    /\ pc = "Idle"
    /\ loc = obj
    /\ cached = IF CacheLag THEN obj ELSE None
    /\ stale = FALSE
    /\ needC = FALSE /\ needS = FALSE /\ cid = None /\ retried = FALSE
    /\ err = None
    /\ queued = TRUE
    /\ vaultOK = FALSE
    /\ edits = 0 /\ crashes = 0 /\ faults = 0 /\ lagged = 0

\* The reconciler's steps; none of them feeds the informer.
Worker == Reconcile /\ UNCHANGED cached /\ (pc = "Get" \/ UNCHANGED lagged)

Next == Worker \/ Environment

\* The workqueue hands a queued key to the worker and the worker runs every
\* call to its end, and the informer's watch keeps delivering: weak
\* fairness on both, none on the user.
Spec == Init /\ [][Next]_vars /\ WF_vars(Worker) /\ WF_vars(InformerSync)

(***************************************************************************)
(* Properties                                                              *)
(***************************************************************************)

TypeOK ==
    /\ obj \in ObjSet
    /\ loc \in ObjSet
    /\ cached \in ObjSet \cup {None}
    /\ remote \in [IDs -> RemoteSet \cup {Absent}]
    /\ nextId \in 1..(MaxIds + 1)
    /\ cid \in IDs \cup {None}
    /\ queued \in BOOLEAN /\ stale \in BOOLEAN /\ vaultOK \in BOOLEAN

\* The controller is waiting: no call in progress, nothing on the workqueue.
Quiescent == pc = "Idle" /\ ~queued

\* The connectors this resource made Fivetran create that still exist.
CreatedIds == {id \in IDs \ PreExisting : remote[id] # Absent}

\* Create is idempotent (spec 1): however createConnector's calls and the
\* updateConnectorIDStatus that records the new id fail, crash or conflict,
\* Fivetran never holds two connectors created for one resource.
AtMostOneConnector == Cardinality(CreatedIds) <= 1

\* handleDeletion deletes the connector before it drops the finalizer: once
\* the resource is gone, the connector its status names is gone at Fivetran.
DeletedLeavesNoConnector ==
    ~obj.exists /\ obj.statusID # None => remote[obj.statusID] = Absent

\* The connector id in status is authoritative: once recorded, no write of
\* a stale copy by setCondition, updateConnectorIDStatus or adoption
\* replaces or clears it.
StatusIDStable ==
    [][obj.statusID # None => obj'.statusID = obj.statusID]_obj

\* The fingerprint decides whether work is needed: when the controller is
\* waiting, the connector hash annotation equals the spec's and no
\* condition is False, then Fivetran holds the spec's configuration.
FingerprintMatchesRemote ==
    /\ Quiescent
    /\ obj.exists /\ ~obj.deleting /\ obj.statusID # None
    /\ obj.connHash = ConnectorHash(obj.spec)
    /\ ~HasFailedConditions(obj)
    => remote[obj.statusID] # Absent /\ remote[obj.statusID].cfg = obj.spec.cfg

\* Adoption and recovery (handleExistingConnectorAdoption,
\* handleConnectorFromAnnotation) bind the resource only to a connector of
\* the declared service and group whose destination schema is the one spec
\* 4.3 infers from the config that was validated (prefix, else base schema
\* with its table-group or table suffix): no step, however its writes
\* conflict or are lost, records a pre-existing id in status unless that
\* connector passes the reference checks for the spec the reconciler held.
AdoptsOnlyMatching ==
    [][obj.statusID = None /\ obj'.statusID \in PreExisting
         => LET r == remote[obj'.statusID]
            IN /\ r.svc = SpecService
               /\ SN!SpecAccepts(CfgMap[loc.spec.cfg], r.schemaName)]_obj

\* createConnector creates the connector paused and the second
\* updateConnector applies the declared paused flag and schedule (spec 4.3):
\* once ConnectorReady is True and the controller waits, Fivetran runs the
\* connector exactly as paused as the spec says.
ReadyConnectorScheduled ==
    /\ Quiescent
    /\ obj.exists /\ ~obj.deleting /\ Live(obj.statusID)
    /\ obj.conds["ConnectorReady"] = "True"
    => remote[obj.statusID].paused = obj.spec.paused

\* handleDeletion runs until the finalizer is gone: a resource the user
\* deleted is eventually removed from the API server.
DeletionCompletes == obj.deleting ~> ~obj.exists

\* Every reconcile ends with a result the workqueue can act on, and the
\* loop of requeues (RequeueAfter, Requeue, returned errors) dies out once
\* the user stops writing: the controller eventually waits for good.
EventuallyQuiescent == <>[]Quiescent

\* A recovery marker names a connector spec 4.3 lets the resource be bound
\* to: live, of the declared service, with the schema the config infers.
RecoverableBackup ==
    /\ obj.exists /\ ~obj.deleting /\ obj.statusID = None
    /\ obj.backup \in PreExisting /\ Live(obj.backup)
    /\ remote[obj.backup].svc = SpecService
    /\ SN!SpecAccepts(CfgMap[obj.spec.cfg], remote[obj.backup].schemaName)

\* The controller waits after an error that is terminal by its own class
\* (a 4xx of Fivetran, a vault error that is not retryable).
StoppedOnTerminalError == Quiescent /\ err # None /\ err.kind = "Terminal"

\* Recovery from the backup annotation (part_003 reconcileConnector) ends
\* with the annotated id in status: a failure on the way is retried unless
\* it is terminal in itself (spec 7), so once the marker names a connector
\* the resource may be bound to, the id reaches status, the resource is
\* deleted, or the controller stopped on a terminal error.
RecoveryCompletes ==
    RecoverableBackup
        ~> (obj.statusID # None \/ ~obj.exists \/ obj.deleting \/ StoppedOnTerminalError)


(***************************************************************************)
(* Refinement of ConnectorLifecycle                                        *)
(***************************************************************************)

\* The resource as ConnectorLifecycle sees it.
ResState ==
    IF ~obj.exists THEN "gone" ELSE IF obj.deleting THEN "deleting" ELSE "live"

\* The Fivetran connectors by whether their service is the declared one.
ConnKind(id) ==
    IF remote[id] = Absent THEN "none"
    ELSE IF remote[id].svc = SpecService THEN "match" ELSE "other"

LC == INSTANCE ConnectorLifecycle
        WITH Ids <- IDs, ident <- obj.statusID, res <- ResState,
             conns <- [id \in IDs |-> ConnKind(id)]

\* Every behaviour of Reconcile, with its failed, lost and conflicting
\* calls, restarts and edits, is one of the lifecycle of spec 4.3: the
\* status id is set once, to a connector of the declared service that this
\* resource created or adopted; no connector but that one is deleted; the
\* resource goes away only when that connector is gone.
Lifecycle == LC!Spec

================================================================================
