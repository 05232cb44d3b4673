# TLA+ models of the FivetranConnector operator

This directory holds TLA+ specifications of the Kubernetes operator in
`src/`. The operator reconciles `FivetranConnector` custom resources
against the Fivetran API and resolves `vault:` references in their
configuration. The models are checked with TLC.

## The system

| Part | Source | What it does |
|---|---|---|
| Reconcile orchestrator | `internal/controller/fivetranconnector/controller.go`, `utils.go`, `status_mgmt.go`, `setup_tests.go`, `unnamed/part_002` | Runs one pass per workqueue item: Get, vault client check, deletion, finalizer, adoption, change detection by hash annotations, secret resolution, create or update, setup tests, schema reload/apply/verify with one retry, second update, cleanup. `handleError` records a failure condition and picks the requeue. |
| Trigger layer | `controller.go` `SetupWithManager`, `unnamed/part_001` | Enqueues on a generation change, on the force label being added, on create/delete and on restart (re-list). The workqueue serialises one key. |
| Fingerprint tracker | `utils.go` `calculate*Hash`, `has*HashChanged` | md5 of `spec.connector` and of `spec.connectorSchemas`, stored as annotations. |
| Schema comparator | `pkg/fivetran/interfaces.go` `CompareSchemaWithCR` | Pure comparison of the live schema with the declared one. |
| Schema builder | `pkg/fivetran/schema_builder.go`, `utils.go` `convertSchema` | Builds the UpdateSchema payload from the CR. |
| Vault resolver | `pkg/fivetran/interfaces.go` (`ResolveSecrets` …) | Recursive walk over config/auth JSON with a per-call path cache. |
| Error classification | `pkg/fivetran/errors.go` | `IsRetryable` by HTTP status code. |
| Fivetran/Vault clients | `pkg/fivetran/connector_service.go`, `schema_service.go`, `client.go`, `pkg/vault` | Thin wrappers over the SDK and Vault. |

How they interact: the trigger layer hands a key to `Reconcile`. Reconcile
reads the resource, then talks to three parties:
- the API server, where `Update` and `Status().Update` fail on a stale
  `resourceVersion`;
- Fivetran, where every call can fail or time out;
- Vault.

`handleError` turns each failure into a condition and a result. The
workqueue acts on that result (`RequeueAfter`, `Requeue`, or a returned
error with backoff).

`unnamed/part_003` is an alternative `reconcileConnector` that also stores
the connector id in a backup annotation and recovers from it. That is the
behaviour spec 4.3 describes. It uses constants the compiled package does
not define (`ErrConnectorValidationFailed`, `annotationConnectorID`). The
constant `BackupAnnotation` selects it in `FivetranConnector`:
- the core runs follow `part_002`;
- the adoption and recovery_error_flattened runs follow `part_003`.

## Modules

**`FivetranConnector.tla`** models the orchestrator for one resource.

State:
- `obj` is the resource as the API server stores it: spec, finalizer,
  deletion mark, force label, adoption annotation, backup annotation
  (`part_003`), the two hash annotations, status id and the three
  conditions.
- `remote` is the Fivetran connectors, by id: service, config, paused,
  schema config and destination schema name.
- `loc` is Reconcile's in-memory copy, and `stale` says whether the server
  copy has changed since `loc` was read or last written.
- `cached` is the informer cache's copy, which `Get` reads (`Observed`)
  when `CacheLag` is TRUE. A user's write reaches it before its event
  enqueues the key (`CacheSees`). The reconciler's own writes reach it
  later (`InformerSync`), so a requeue can read a copy older than the
  server's. `lagged` counts such reads, bounded by `MaxLaggedReads`.
- `pc` is the point in Reconcile between two calls.
- `needC`, `needS`, `cid`, `retried` and `err` are Reconcile's locals.
- `queued` is the workqueue; `vaultOK` is the vault client.

Actions:
- **One action per call Reconcile makes.** `Get`, `VaultInit`, `Delete`,
  `RemoveFinalizer`, `EnsureFinalizer`, `Adopt`, `AdoptStatus`, `Resolve`,
  `Create`, `SetID`, `SetBackup`, `Recover`, `RecoverID`, `RecoverBackup`,
  `Update1`, `ConnHash`, `CondReady`, `SetupTests`,
  `CondSetup`, `CondSchemaSkipped`, `SchemaGet`, `SchemaReload`,
  `SchemaApply`, `SchemaHash`, `SchemaVerify`, `CondSchema`, `Update2`,
  `CleanLabel`, `CleanAdopt`, `HandleSetupFailed`, `HandleError`.
  Control between two calls (early returns, the branches of
  `determineReconciliationNeeds`, adoption, deletion) lives in the
  operators `AfterVault`, `AfterFinalizer`, `Determine`, `SchemaBranch`,
  `AfterSchema` and `Cleanup`.
- **A Kubernetes write (`K8sWrite`)** has four outcomes:
  - it succeeds and refreshes `loc`;
  - it conflicts when `loc` is stale;
  - it fails without being applied;
  - it is applied but its response is lost.
- **A Fivetran call (`FivetranCall`)** has four outcomes:
  - it succeeds;
  - it gets 404 on an unknown id;
  - it fails with a code from `ApiErrorCodes`;
  - it times out after Fivetran applied it, giving status 0, which is
    retryable.

  Each outcome goes through `IsRetryable` and `handleError` as in the code.
  `K8sWriteWrapped` and `FivetranCallWrapped` take how the callers wrap the
  error on its way to `handleError`. `%w` keeps the class (`Unwrapped`).
  `part_003`'s `%v` wrap into `ErrConnectorValidationFailed` makes every
  recovery error terminal (`AsValidationFailed`).
  `K8sWriteOr` takes what the caller does with a failed write. Most
  callers hand it to `handleError`. handleError's own ConnectorReady=True
  write for a failed setup test (`HandleSetupFailed`) returns the error
  at once, and the workqueue backs off.
- **Adoption and recovery.** `AdoptionVerdict` checks the service (which
  stands for service and group_id), then the schema name that
  `SchemaNameInference` infers from the config. Its verdict is valid,
  mismatch, or panic. A panic unwinds Reconcile with no write, and the key
  comes back: controller-runtime's recovery returns it as an error, or the
  process exits and the restarted informer lists the resource. The
  repository does not pin the controller-runtime version that decides
  which.
- **`part_003`.** `ConnectorStep` routes to `Recover` when status has no id
  and the backup annotation has one. `setConnectorID` is two writes, status
  and then annotation: `RecoverID` then `RecoverBackup` after a recovery,
  `SetID` then `SetBackup` after a create.
- **Environment actions.** `EditSpec`, `AddForceLabel`, `MarkDeleted`,
  `Crash` (restart: in-memory state lost, re-list), `TokenExpires` and
  `InformerSync` (the watch delivers the reconciler's own writes; they
  change no generation, so the predicates enqueue nothing).

**`ConnectorLifecycle.tla`** is the abstract specification of spec 4.3
and `handleDeletion`:
- `ident` is the identity in status, `res` is the resource (live, deleting,
  gone) and `conns` is Fivetran's connectors by service.
- The identity is set once (`Record`), to a connector of the declared
  service, while the resource exists. A create (`Create`) happens only
  while no identity is known, and may leave an orphan.
- Only the identified connector is deleted (`DeleteRemote`). A deleting
  resource goes away (`Remove`) only once that connector is gone.

`FivetranConnector` maps onto it through `LC`, an `INSTANCE ... WITH`:
- `ident` is `obj.statusID`;
- `res` is derived from `obj.exists` and `obj.deleting`;
- `conns` classifies `remote` by service.

The adoption run checks `Lifecycle == LC!Spec` as a `PROPERTY`. Every other
call of Reconcile is a stuttering step of the abstract spec.

**`SchemaNameInference.tla`** is the pure schema-name inference of
`handleExistingConnectorAdoption` (`part_002` 359-386, repeated in
`part_003` 146-174). It works on the JSON map `json.Unmarshal` gives:
- A value is a record tagged by its JSON kind: string, number, null, or a
  missing key.
- A string is a sequence of words, so `schema + "." + table` is a
  concatenation.
- `ExpectedSchema` follows the code's overwrites: the prefix, else the
  schema, then `.table`, then `.table_group_name`.
- `Panics` is the unchecked type assertion of a present `table_group_name`
  that is not a string. The `!= ""` before it compares an interface, so it
  is true for numbers and null.
- `SpecSchemaName` and `SpecAccepts` are spec 4.3's precedence over string
  attributes only, as a reference.

`FivetranConnector` instantiates it as `SN`. The constant `CfgMap` gives
the JSON map of each configuration value.

**`SchemaDrift.tla`** models the schema path on concrete schemas:
- **Data.** The declared schema config (`ConnectorSchemaConfig`: handling,
  schemas, tables, columns) and Fivetran's live config (schemas with an
  `enabled` flag, tables with `enabled` and `syncMode`).
- **Builder and comparator.** `convertSchema`, the `SchemaBuilder` calls and
  `CompareSchemaWithCR` are operators. They return the set of results over
  every Go map iteration order (`ForEach` folds over `SetToSeqs`), because
  which column `AddColumn` keeps and the order of reported mismatches depend
  on that order.
- **State.** `live`, Fivetran's config; `cr`, the declared config; `pc`,
  the point in `reconcileSchema`; `drifts` and `faults`, the bounded
  environment moves.
- **Actions.** `GetSchemaDetails`, `ReloadSchema`, `ApplySchema` (build,
  UpdateSchema, hash) and `VerifySchema` (compare, one retry) follow
  `part_002` lines 113-222. `CallFails` is a failed Fivetran call. `Drift`
  is anyone else changing the live config.
- **Fivetran side.** What Fivetran does is assumed, not mapped: UpdateSchema
  sets the flags it is given and leaves unset ones alone; a reload of an
  unknown schema gives any config over `Source`; names absent at the source
  are ignored.

**`SecretResolver.tla`** models `ResolveSecrets` and the controller's
`resolveSecrets`/`handleVaultError`:
- **Walk.** `resolveValue`, `resolveMap`, `resolveSlice` and
  `resolveString` are mutually `RECURSIVE` operators threading the path
  cache and a log of Vault reads. `resolveMap` folds over every key order
  and stops at the first error.
- **Vault.** Each path has a set of possible read outcomes (`StoreStates`):
  data at some version, an API error, nil data or a malformed payload.
  Every `VaultError` constructor is an operator; only the API error is
  retryable.
- **State.** `config` and `auth` are the documents; `cfgRes` and `authRes`
  are their resolutions; `phase` orders the two calls and the handling;
  `result` is the requeue handleVaultError (or the backoff of a returned
  error) picks.

**`MCSchemaDrift.tla`** and **`MCSecretResolver.tla`** give the model
values and the small documents and schemas the runs enumerate.

**`MCFivetranConnector.tla`** gives the constants model values and defines
the spec values a run lets the user write.

### Runs

| Run (cfg) | Expect | Shows |
|---|---|---|
| core (`FivetranConnector.cfg`) | pass | The core properties hold; details below. |
| adoption (`Adoption.cfg`) | pass | With `part_003`, a connector named by the adoption or the backup annotation is bound only if its service matches and its schema is the one spec 4.3 infers. A panicking config loops but binds nothing. The reconciler refines `ConnectorLifecycle`. |
| duplicate_create (`DuplicateCreate.cfg`) | violation | A spec edit during `CreateConnection` loses the new id, and a second connector is created. |
| stale_fingerprint (`StaleFingerprint.cfg`) | violation | Edits A→B→A around a reconcile leave Fivetran at B with a hash that says A. |
| paused_after_setup_failure (`PausedAfterSetupFailure.cfg`) | violation | A failed setup test leaves a new connector paused while ConnectorReady is True. |
| deletion_stuck (`DeletionStuck.cfg`) | violation | A delete whose response is lost is retried, gets a terminal 404, and the finalizer stays. |
| adoption_retry_loop (`AdoptionRetryLoop.cfg`) | violation | A failed adoption validation (service or schema-name mismatch, or the `table_group_name` panic at `part_002:380`) is requeued forever. |
| stale_cache_create (`StaleCacheCreate.cfg`) | violation | A requeue reads the informer cache before it took in the status write that recorded the new id. It creates a second connector while status names the first. `Lifecycle` fails; with `CacheLag = FALSE` it holds. |
| schema_drift (`SchemaDrift.cfg`) | pass | The payload is the declared tree, the comparator agrees with spec 4.5, and one concurrent change never ends in a mismatch. |
| column_overwrite (`ColumnOverwrite.cfg`) | violation | A table with a column loses its `enabled` flag and sync mode in the payload (`schema_builder.go:93`). Verify then mismatches twice and the pass fails with `ErrSchemaMismatchAfterRetry`. |
| secret_resolver (`SecretResolver.cfg`) | pass | One Vault read per path, fail-fast, no `vault:` reference reaches Fivetran, and the requeue follows retryability. |
| recovery_error_flattened (`RecoveryFlattened.cfg`) | violation | In `part_003`, one 503 on the recovering `GetConnection` is wrapped with `%v` as `ErrConnectorValidationFailed`. It is never retried, and the backed-up id never reaches status (`part_003:50`). With `%w` the run passes. |

The core run checks the following. It allows one spec edit, one restart,
one failed or lost call, and one `r.Get` served by an informer cache that
lags the reconciler's own writes. Every setup-test outcome is allowed.
- deletion never leaks the recorded connector (`DeletedLeavesNoConnector`);
- the status id is never replaced (`StatusIDStable`);
- a matching hash with no failed condition at rest means Fivetran has the
  spec's configuration (`FingerprintMatchesRemote`);
- the requeue loop dies out (`EventuallyQuiescent`).

The adoption run checks `DeletedLeavesNoConnector` and `StatusIDStable` as
the core run does, and also the following. Its type invariant is core's
and is checked only there.
- no step records a pre-existing id in status unless that connector is of
  the declared service and its schema name is the one spec 4.3's reference
  infers from the validated config (`AdoptsOnlyMatching`). This holds
  whatever write conflicts, failures or lost answers happen in between. It
  holds for both the adoption annotation and the backup annotation. The
  mutant that lets a table override the table group breaks it, and so does
  dropping the adoption checks.

The configs are chosen so that every inference case happens:
- `c1` has a base schema, a table and a table group, so the group decides
  the name: `a.g`;
- `c2` has an empty prefix and a numeric `table_group_name`, so it panics;
- a pre-existing connector writes to `a.g` or `a.t`.

The schema_drift run checks:
- every payload convertSchema builds is the declared tree, and a build
  error comes only from an empty schema name (`PayloadIsDeclaredTree`);
- `CompareSchemaWithCR` reports exactly the missing schemas and the
  schema and table mismatches spec 4.5 defines (`ReportMatchesReference`);
- a pass ends in `ErrSchemaMismatchAfterRetry` only if someone else changed
  the live config at least twice (`MismatchNeedsTwoDrifts`).

The secret_resolver run checks:
- each path is read from Vault at most once per `ResolveSecrets` call
  (`OneReadPerPath`);
- nothing is read after a failure, and a failure returns the document
  unresolved (`FailFast`);
- no `vault:` reference remains in a document sent on
  (`NoReferenceReachesFivetran`).

`Handle` models handleError's vault branch, and no property is stated
about it. errors.As takes the config error of the join. When the joined
errors agree, the requeue follows from that definition alone. When they
disagree, spec 7 gives no rule for which one should decide.

Each violation run injects only what its scenario needs:
- duplicate_create, stale_fingerprint and paused_after_setup_failure inject
  no failures at all;
- deletion_stuck allows only retryable error codes (503), so the one way to
  get stuck is the 404 after a successful delete;
- recovery_error_flattened allows only 503 and no crash or edit, and its
  property counts a stop on an error that is terminal in itself as an end.
  What is left is a retryable failure turned terminal.

stale_cache_create allows one failed call and one lagged read, and no edit
or crash. The trace:
- `updateConnectorIDStatus` fails, and the id stays in the in-memory
  status;
- `handleError`'s `setCondition` writes that status, id included, so the
  server now knows the id;
- the error is requeued, and `r.Get` returns the cached copy, which has no
  id yet;
- `reconcileConnector` creates again.

The abstract `Create` requires that no identity be Known, so `Lifecycle`
fails. duplicate_create's counterexample differs. There, the id never
reaches the server and the second create is one spec 4.3 allows. Here,
the second create happens while the server's status names the first.

The `part_003` variant does not close duplicate_create. With
`BackupAnnotation = TRUE` the same run is still violated, because the
backup annotation is written only after the status write, and that write
conflicts.

### Bounds

The bounds are small but make every case happen:
- `MaxEdits = 1` gives an edit racing every call. Two edits (the
  stale_fingerprint run) are the least that reach A→B→A.
- `MaxCrashes = 1` gives a restart between any two calls.
- `MaxFaults = 1` gives one failed or lost call at any point.
- `MaxIds` leaves room for the duplicates. Core has 5 ids. A timed-out
  create, a lagged read, an edit and a restart can each orphan one
  connector, and one more id is needed after that.
- `MaxLaggedReads = 1` (core, stale_cache_create) gives one requeue that
  reads the cache before it caught up. Later reads wait for
  `InformerSync`. The other runs set `CacheLag = FALSE`, which keeps
  their state spaces small. The adoption run's `Lifecycle` is violated
  under the lag; that is stale_cache_create.
- Two configuration values are enough to tell a stale update from a
  current one.
- One declared schema is enough for the schema cycle, with
  `PartialSchema` standing for an update Fivetran did not fully take.
- SchemaDrift:
  - The source has one schema with one table.
  - The CR declares that schema with zero, one or two tables, a schema
    the source lacks, and an empty-named schema. Either handling value is
    used, with every enabled flag and sync mode.
  - Two drifts are the least that can defeat the one retry; one fault
    reaches every failed call.
  - Columns are declared only in column_overwrite. With them the pass run
    would only repeat that finding.
- SecretResolver: four paths cover a secret that rotates or fails, a
  stable one, one that always fails, and one that is nil or malformed.
  The documents nest maps and slices, repeat a path, and carry a
  malformed reference and a missing key.

### Fairness

`Spec` has weak fairness on `Worker` (all reconciler steps) and on
`InformerSync`, and none on the rest of the environment:
- controller-runtime's worker always takes a queued key and runs Reconcile
  to its end;
- the informer's watch eventually delivers every write;
- users, crashes and Fivetran are not obliged to act.

`CHECK_DEADLOCK FALSE`: once the user's bounded edits are used up, the
controller legitimately waits with an empty queue. That is its normal
resting state, not a deadlock.

## Plan

Order, most important behaviour first:

1. `FivetranConnector` (done): the orchestrator and its findings.
2. `SchemaDrift` (done): `convertSchema`, the schema builder (including the
   `AddColumn` overwrite at `schema_builder.go:93`) and
   `CompareSchemaWithCR` as operators over small concrete schemas. They
   are checked against the spec 8 scenarios. They are composed with a
   `reconcileSchema` state machine that checks the one-retry bound. The
   schema hash is written before verification (`part_002:211`), the order
   spec 4.4 gives. That is listed as a hazard.
3. `SecretResolver` (done): a `RECURSIVE` walk of `ResolveSecrets` with the path
   cache. It checks exactly one fetch per path, fail-fast, and
   order-independence of the result. The error selection is left
   nondeterministic.
4. `ErrorClassify`: `IsRetryable` and `handleError`'s class and result,
   checked against a reference table built from spec 7.
5. `ConnectorLifecycle` (done): an abstract Unknown/Known identity machine (spec
   4.3). `FivetranConnector` is shown to refine it through a refinement
   mapping, a `PROPERTY` of the adoption run. Orphans are allowed, so faults need not be restricted.
6. `part_003` (done): the backup-annotation variant, selected by a
   constant. It is checked by the adoption run and recovery_error_flattened.
   It does not close duplicate_create.
7. `SchemaNameInference` (done): adoption's schema-name inference,
   including its panic, composed into `Adopt` and `Recover`.
8. A loss of status (for example a restore without the status
   subresource). It would show whether recovery from the backup annotation
   prevents a second create. Setting status and annotation are two writes
   (`part_003:200-206`), so the backup can be missing.
9. The informer cache (done): `r.Get` may return a copy older than the
   reconciler's own writes (`CacheLag`). Core holds under it;
   stale_cache_create is what it breaks.

## Not modelled

- The FivetranClient-nil check: the client is set once at start-up.
- HTTP payload building and the Vault AppRole login.
- Logging and condition messages.
- `kubeutils` map helpers (`internal/kubeutils/metadata.go`). Every
  annotation and label is a field of the resource, and the helpers' nil-map
  handling only makes an absent map read as empty, which a field already
  does.
- The `json.Unmarshal` error of adoption (`part_002:388`). `spec.connector.config`
  is a required object in the CRD, so it always decodes into a map.
- Loss of the status subresource. No code path clears it, so the recovery
  branch of `part_003` is reached only through an annotation the user sets.
- The vault error order (`interfaces.go:318`). Spec 4.2 and 9 leave to the
  implementation which of several failing references is reported.
  `FailFast` checks that nothing is read after whichever one is reported.
- API types, CRD documentation and the tests (`unnamed/part_000`,
  `part_004`, `part_005`, `vault_ops_test.go`). They have no behaviour of
  their own; their scenarios are used as data.
- md5 collisions. `ConnectorHash` and `SchemaHashOf` are injective on what
  they digest. `SchemaHashOf` gives an absent annotation for a nil
  `connectorSchemas`, as `calculateSchemaHash`'s "" does.
- Optional connector settings other than config and paused
  (`daily_sync_time`, `schedule_type`, networking and agent ids, data delay
  settings). `UpdateConnection` and `CreateConnection` send each one only
  when it is non-zero (`connector_service.go` 42-103 and 113-170). So a
  setting removed from the spec keeps its old value at Fivetran, while the
  new connector hash is written. Spec 4.3 says every update sets every
  sendable field. The model's connector spec holds only config and paused,
  which the CRD requires and which are always sent. The gap is listed as a
  hazard with no property.
- Column-level schema data, which the code never compares. A column is
  only its name; its `enabled` and hashing flags are left out.
- Nil entries in the CR's schema/table maps. The Go code dereferences them;
  a CR decoded from YAML never holds one.
- The Vault SDK and AppRole login: a KV read is one of its outcomes.
- The composition of SchemaDrift and SecretResolver with the orchestrator.
  `FivetranConnector` keeps the schema cycle and secret resolution abstract
  (one outcome per call), and the detailed modules check those calls on
  their own.
