----------------------------- MODULE SecretResolver -----------------------------
(***************************************************************************)
(* Vault reference resolution (pkg/fivetran/interfaces.go, package vault:  *)
(* ResolveSecrets and the recursive resolveValue walk with its per-call    *)
(* path cache) and the controller's resolveSecrets (utils.go), which       *)
(* resolves spec.connector.config and spec.connector.auth and joins their  *)
(* errors for handleError (status_mgmt.go).                                *)
(*                                                                         *)
(* The walk is a set-valued RECURSIVE operator: a loop over a Go map is    *)
(* taken in every order, and every Vault read may return any of the states *)
(* the secret at that path can be in while the walk runs.                  *)
(***************************************************************************)
EXTENDS Naturals, FiniteSets, Sequences, SequencesExt, TLC

CONSTANTS
    Paths,        \* Vault KV paths documents refer to
    Keys,         \* keys inside a secret
    StoreStates,  \* StoreStates[p]: what a KVv2 Get of p may return
    ConfigDocs,   \* values spec.connector.config may have (JSON, or NilDoc)
    AuthDocs,     \* values spec.connector.auth may have
    NilDoc,       \* a nil RawExtension
    Nil

(***************************************************************************)
(* Documents.  A JSON value is a map, a slice, a string or another scalar. *)
(* A string is kept as what parseVaultReference looks at: the "vault:"     *)
(* prefix, the part before the first '#', whether there is a '#', and the  *)
(* part after it ("" for an empty part).                                   *)
(***************************************************************************)

Str(vault, path, sep, key) ==
    [type |-> "string", vault |-> vault, path |-> path, sep |-> sep, key |-> key]
MapNode(m) == [type |-> "map", m |-> m]
SliceNode(s) == [type |-> "slice", s |-> s]
Scalar == [type |-> "other"]
\* The value of key in version `version` of the secret at path.
Secret(path, key, version) ==
    [type |-> "secret", path |-> path, key |-> key, version |-> version]

\* What KVv2 Get may answer: the secret's data (a version of it), an error
\* (transport, permission, no such secret), a nil secret or Data, or a
\* Data without a "data" map.
Fetched(keys, version) == [kind |-> "data", keys |-> keys, version |-> version]
GetError == [kind |-> "getError"]
NilData == [kind |-> "nilData"]
BadFormat == [kind |-> "badFormat"]

EmptyMap == [x \in {} |-> Nil]
Put(f, k, v) == (k :> v) @@ f

\* Every order of a loop over the keys S of a Go map (see SchemaDrift).
ForEach(A, S, Body(_, _)) ==
    UNION { FoldLeft(LAMBDA As, x : UNION {Body(a, x) : a \in As}, A, p)
            : p \in SetToSeqs(S) }

(***************************************************************************)
(* Errors: VaultError and its constructors.  Only NewVaultAPIError is      *)
(* retryable.  KeyPath is kept as the sequence buildKeyPath and            *)
(* resolveSlice join with "." and "[i]".                                   *)
(***************************************************************************)

VaultError(kind, retryable, keyPath) ==
    [kind |-> kind, retryable |-> retryable, at |-> keyPath]
NewInvalidReferenceError(kp) == VaultError("invalidReference", FALSE, kp)
NewKeyNotFoundError(kp) == VaultError("keyNotFound", FALSE, kp)
NewSecretNotFoundError(kp) == VaultError("secretNotFound", FALSE, kp)
NewSecretDataNilError(kp) == VaultError("secretDataNil", FALSE, kp)
NewVaultAPIError(kp) == VaultError("vaultAPI", TRUE, kp)

\* IsRetryableError: errors.As finds the *VaultError and asks it.
IsRetryableError(e) == e.retryable

\* buildKeyPath and resolveSlice's "%s[%d]": the location of a value.
buildKeyPath(parent, child) == Append(parent, child)

\* parseVaultReference: "vault:" then a non-empty path, '#', a non-empty key.
ParsesAsReference(s) == s.sep /\ s.path # "" /\ s.key # ""

(***************************************************************************)
(* The walk.  An outcome carries the cache, the log of Vault reads (path   *)
(* and whether the read succeeded), the resolved value and the error.      *)
(***************************************************************************)

Outcome(cache, log, val, err) == [cache |-> cache, log |-> log, val |-> val, err |-> err]
Failed(o) == o.err # Nil

\* The Vault read of getPathData: KVv2 Get, then extractSecretData; only
\* a successful read is cached.
ReadPath(cache, log, path, kp) ==
    { CASE o.kind = "data" ->
               Outcome(Put(cache, path, o), Append(log, [path |-> path, ok |-> TRUE]), o, Nil)
        [] o.kind = "getError" ->
               Outcome(cache, Append(log, [path |-> path, ok |-> FALSE]), Nil,
                       NewVaultAPIError(kp))
        [] o.kind = "nilData" ->
               Outcome(cache, Append(log, [path |-> path, ok |-> FALSE]), Nil,
                       NewSecretDataNilError(kp))
        [] OTHER ->
               Outcome(cache, Append(log, [path |-> path, ok |-> FALSE]), Nil,
                       NewSecretNotFoundError(kp))
      : o \in StoreStates[path] }

\* getPathData: a path already in the call's cache is not read again.
getPathData(cache, log, path, kp) ==
    IF path \in DOMAIN cache
    THEN {Outcome(cache, log, cache[path], Nil)}
    ELSE ReadPath(cache, log, path, kp)

\* resolveString: a non-reference is kept; a reference resolves to the value
\* of its key in the secret data.
resolveString(cache, log, s, kp) ==
    CASE ~s.vault -> {Outcome(cache, log, s, Nil)}
      [] ~ParsesAsReference(s) ->
             {Outcome(cache, log, Nil, NewInvalidReferenceError(kp))}
      [] OTHER ->
             { IF Failed(d) THEN d
               ELSE IF s.key \notin d.val.keys
               THEN Outcome(d.cache, d.log, Nil, NewKeyNotFoundError(kp))
               ELSE Outcome(d.cache, d.log, Secret(s.path, s.key, d.val.version), Nil)
               : d \in getPathData(cache, log, s.path, kp) }

RECURSIVE resolveValue(_, _, _, _)

\* resolveMap that keeps walking after an error and returns the first one.
resolveMapNoFailFast(cache, log, m, kp) ==
    { IF Failed(o) THEN o ELSE [o EXCEPT !.val = MapNode(@)]
      : o \in ForEach({Outcome(cache, log, EmptyMap, Nil)}, DOMAIN m,
                      LAMBDA a, k :
                          { CASE Failed(a) -> [a EXCEPT !.cache = r.cache, !.log = r.log]
                              [] Failed(r) -> r
                              [] OTHER -> [r EXCEPT !.val = Put(a.val, k, @)]
                            : r \in resolveValue(a.cache, a.log, m[k],
                                                 buildKeyPath(kp, k)) }) }

\* resolveMap: fail fast, in every map order.
resolveMap(cache, log, m, kp) ==
    { IF Failed(o) THEN o ELSE [o EXCEPT !.val = MapNode(@)]
      : o \in ForEach({Outcome(cache, log, EmptyMap, Nil)}, DOMAIN m,
                      LAMBDA a, k :
                          IF Failed(a) THEN {a}
                          ELSE { IF Failed(r) THEN r
                                 ELSE [r EXCEPT !.val = Put(a.val, k, @)]
                                 : r \in resolveValue(a.cache, a.log, m[k],
                                                      buildKeyPath(kp, k)) }) }

\* resolveSlice: fail fast, in index order.
resolveSlice(cache, log, s, kp) ==
    { IF Failed(o) THEN o ELSE [o EXCEPT !.val = SliceNode(@)]
      : o \in FoldLeft(LAMBDA As, i :
                         UNION { IF Failed(a) THEN {a}
                                 ELSE { IF Failed(r) THEN r
                                        ELSE [r EXCEPT !.val = Append(a.val, @)]
                                        : r \in resolveValue(a.cache, a.log, s[i],
                                                             buildKeyPath(kp, i)) }
                                 : a \in As },
                       {Outcome(cache, log, <<>>, Nil)}, [i \in DOMAIN s |-> i]) }

resolveValue(cache, log, v, kp) ==
    CASE v.type = "map" -> resolveMap(cache, log, v.m, kp)
      [] v.type = "slice" -> resolveSlice(cache, log, v.s, kp)
      [] v.type = "string" -> resolveString(cache, log, v, kp)
      [] OTHER -> {Outcome(cache, log, v, Nil)}

\* ResolveSecrets: a nil document is left alone; otherwise the walk starts
\* with an empty cache, and the document is replaced only on success.
ResolveSecrets(doc) ==
    IF doc = NilDoc THEN {[raw |-> NilDoc, log |-> <<>>, err |-> Nil]}
    ELSE { [raw |-> IF Failed(o) THEN doc ELSE o.val, log |-> o.log, err |-> o.err]
           : o \in resolveValue(EmptyMap, <<>>, doc, <<>>) }

(***************************************************************************)
(* resolveSecrets (utils.go) in one Reconcile, and handleError's answer to *)
(* its error (status_mgmt.go).                                             *)
(***************************************************************************)

VARIABLES
    config,   \* spec.connector.config
    auth,     \* spec.connector.auth
    phase,    \* "config", "auth", "handle", then "done"
    cfgRes,   \* what ResolveSecrets did to the copy of config (Nil: not yet)
    authRes,  \* what ResolveSecrets did to the copy of auth
    result    \* how Reconcile goes on: "resolved", or the ctrl.Result kind

vars == <<config, auth, phase, cfgRes, authRes, result>>

Results == {"resolved", "requeueAfter", "noRequeue", "backoff"}

\* A resolveSecrets that drops auth's error.
JoinedErrorsConfigOnly ==
    SelectSeq(<<cfgRes.err>>, LAMBDA e : e # Nil)

\* The errors resolveSecrets joins, config's first.
JoinedErrors ==
    SelectSeq(<<cfgRes.err, authRes.err>>, LAMBDA e : e # Nil)

ResolveConfig ==
    /\ phase = "config"
    /\ cfgRes' \in ResolveSecrets(config)
    /\ phase' = "auth"
    /\ UNCHANGED <<config, auth, authRes, result>>

ResolveAuth ==
    /\ phase = "auth"
    /\ authRes' \in ResolveSecrets(auth)
    /\ phase' = "handle"
    /\ UNCHANGED <<config, auth, cfgRes, result>>

\* handleError's vault branch for errors.Join(config, auth): errors.As finds
\* the first *VaultError of the join.  A failed setCondition is returned as
\* the error, so the workqueue backs off.
HandleVaultError(errs) == IF IsRetryableError(errs[1]) THEN "requeueAfter" ELSE "noRequeue"

\* Reconcile after resolveSecrets: go on with the resolved documents, or
\* hand the joined error to handleError.
Handle ==
    /\ phase = "handle"
    /\ phase' = "done"
    /\ IF JoinedErrors = <<>>
       THEN result' = "resolved"
       ELSE result' \in {HandleVaultError(JoinedErrors), "backoff"}
    /\ UNCHANGED <<config, auth, cfgRes, authRes>>

Init ==
    /\ config \in ConfigDocs
    /\ auth \in AuthDocs
    /\ phase = "config"
    /\ cfgRes = Nil /\ authRes = Nil
    /\ result = Nil

Next == ResolveConfig \/ ResolveAuth \/ Handle

Spec == Init /\ [][Next]_vars

(***************************************************************************)
(* Properties                                                              *)
(***************************************************************************)

RECURSIVE RefPaths(_)
\* The paths of the well-formed references in a document.
RefPaths(v) ==
    CASE v.type = "map" -> UNION {RefPaths(v.m[k]) : k \in DOMAIN v.m}
      [] v.type = "slice" -> UNION {RefPaths(v.s[i]) : i \in DOMAIN v.s}
      [] v.type = "string" /\ v.vault /\ ParsesAsReference(v) -> {v.path}
      [] OTHER -> {}

RECURSIVE HasReference(_)
\* A "vault:" string is left somewhere in the document.
HasReference(v) ==
    CASE v.type = "map" -> \E k \in DOMAIN v.m : HasReference(v.m[k])
      [] v.type = "slice" -> \E i \in DOMAIN v.s : HasReference(v.s[i])
      [] v.type = "string" -> v.vault
      [] OTHER -> FALSE

Reads(res, p) == Cardinality({i \in DOMAIN res.log : res.log[i].path = p})

\* The documents and what resolving them did.
Resolutions == {<<config, cfgRes>>, <<auth, authRes>>}

\* Spec 6: resolving a document with N references to the same path reads
\* that path from Vault exactly once, for any N >= 1: getPathData's cache
\* never lets a path be read twice in one ResolveSecrets call, and a
\* successful call has read every referenced path.
OneReadPerPath ==
    \A d \in Resolutions : d[2] # Nil /\ d[1] # NilDoc =>
        /\ \A p \in Paths : Reads(d[2], p) <= 1
        /\ d[2].err = Nil => \A p \in RefPaths(d[1]) : Reads(d[2], p) = 1

\* Spec 6, fail-fast: a ResolveSecrets call that fails reads nothing from
\* Vault after the first failed read, and leaves the document as it was:
\* no partially resolved document is produced.
FailFast ==
    \A d \in Resolutions : d[2] # Nil =>
        /\ \A i \in DOMAIN d[2].log : ~d[2].log[i].ok => i = Len(d[2].log)
        /\ d[2].err # Nil => d[2].raw = d[1]

\* Reconcile goes on to create or update the connector only with documents
\* in which every "vault:" reference has been replaced by its secret.
NoReferenceReachesFivetran ==
    result = "resolved" =>
        \A d \in Resolutions : d[2].raw # NilDoc => ~HasReference(d[2].raw)

================================================================================
