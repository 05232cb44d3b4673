------------------------- MODULE ConnectorLifecycle -------------------------
(***************************************************************************)
(* What the controller promises about the identity of the Fivetran        *)
(* connector behind one FivetranConnector resource (the Connector          *)
(* Lifecycle Manager of spec 4.3, with handleDeletion), without the calls, *)
(* failures and restarts that implement it.                                *)
(*                                                                         *)
(* The identity in status goes from Unknown (None) to Known once, by a     *)
(* create whose id is recorded or by adoption of a connector of the        *)
(* declared service, and is never replaced.  A create may leave a          *)
(* connector no identity names (an orphan).  A deleted resource goes away  *)
(* only after the connector its identity names is gone at Fivetran, and    *)
(* the controller deletes no other connector.                              *)
(***************************************************************************)
CONSTANTS
    Ids,    \* connector ids at Fivetran
    None    \* no identity in status

VARIABLES
    ident,  \* the connector id in status, or None
    res,    \* the resource: "live", "deleting" (marked, finalizer held), "gone"
    conns   \* conns[i]: "none", or a connector of the declared service
            \* ("match") or of another one ("other")

vars == <<ident, res, conns>>

ConnKinds == {"none", "match", "other"}

TypeOK ==
    /\ ident \in Ids \cup {None}
    /\ res \in {"live", "deleting", "gone"}
    /\ conns \in [Ids -> ConnKinds]

Init ==
    /\ ident = None
    /\ res = "live"
    /\ conns \in [Ids -> ConnKinds]

\* createConnector: Fivetran creates a connector of the declared service
\* while no identity is known; the id may or may not reach status.
Create(i) ==
    /\ res # "gone" /\ ident = None
    /\ conns[i] = "none"
    /\ conns' = [conns EXCEPT ![i] = "match"]
    /\ UNCHANGED <<ident, res>>

\* updateConnectorIDStatus after a create or an adoption: the identity
\* becomes Known, and only for a live connector of the declared service.
Record(i) ==
    /\ res # "gone" /\ ident = None
    /\ conns[i] = "match"
    /\ ident' = i
    /\ UNCHANGED <<res, conns>>

\* handleDeletion's DeleteConnection of the identified connector.
DeleteRemote ==
    /\ res = "deleting" /\ ident # None
    /\ conns[ident] = "match"
    /\ conns' = [conns EXCEPT ![ident] = "none"]
    /\ UNCHANGED <<ident, res>>

\* The user deletes the resource: it is marked while the finalizer holds
\* it, or removed at once while no identity can need deleting.
MarkDeleted ==
    /\ res = "live"
    /\ \/ res' = "deleting"
       \/ ident = None /\ res' = "gone"
    /\ UNCHANGED <<ident, conns>>

\* handleDeletion drops the finalizer once nothing is left at Fivetran.
Remove ==
    /\ res = "deleting"
    /\ ident = None \/ conns[ident] = "none"
    /\ res' = "gone"
    /\ UNCHANGED <<ident, conns>>

Next ==
    \/ \E i \in Ids : Create(i) \/ Record(i)
    \/ DeleteRemote
    \/ MarkDeleted
    \/ Remove

Spec == Init /\ [][Next]_vars

================================================================================
