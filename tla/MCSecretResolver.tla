--------------------------- MODULE MCSecretResolver ---------------------------
(***************************************************************************)
(* Secrets and documents for checking SecretResolver.                      *)
(***************************************************************************)
EXTENDS SecretResolver

CONSTANTS p1, p2, p3, p4, k1, k2

\* p1 is rotated (version 1, then 2) and Vault may be unreachable; p2 is a
\* stable secret without k2; p3 is always refused (no permission); p4 is
\* a nil secret or not in KV v2 format.
MCStoreStates ==
    (p1 :> {Fetched({k1, k2}, 1), Fetched({k1, k2}, 2), GetError})
    @@ (p2 :> {Fetched({k1}, 1)})
    @@ (p3 :> {GetError})
    @@ (p4 :> {NilData, BadFormat})

Ref(p, k) == Str(TRUE, p, TRUE, k)
Plain == Str(FALSE, "", FALSE, "")
\* "vault:" followed by a path with no '#'.
NoKey == Str(TRUE, p2, FALSE, "")

\* Two references to one path, next to a plain string and a number.
C1 == MapNode(("host" :> Plain) @@ ("user" :> Ref(p1, k1))
              @@ ("password" :> Ref(p1, k2)) @@ ("port" :> Scalar))
\* References nested in a slice, one of them repeated.
C2 == MapNode(("a" :> Ref(p2, k1)) @@ ("b" :> SliceNode(<<Ref(p2, k1), Ref(p1, k1)>>)))
\* A missing key next to a nested unreadable secret.
C3 == MapNode(("a" :> Ref(p2, k2)) @@ ("n" :> MapNode("x" :> Ref(p4, k1))))

A1 == MapNode("token" :> Ref(p1, k1))
A2 == MapNode("key" :> Ref(p3, k1))
\* A malformed reference beside a readable one.
A3 == MapNode(("key" :> NoKey) @@ ("token" :> Ref(p2, k1)))

MCConfigDocs == {NilDoc, C1, C2, C3}
MCAuthDocs == {NilDoc, A1, A2, A3}
================================================================================
