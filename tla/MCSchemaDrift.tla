----------------------------- MODULE MCSchemaDrift -----------------------------
(***************************************************************************)
(* Model values and the declared schemas for checking SchemaDrift.        *)
(***************************************************************************)
EXTENDS SchemaDrift

CONSTANTS sa, sb, t1, t2, k1, k2

\* One schema with one table at the source.
MCSource == sa :> {t1}

\* Table configs: enabled either way, with or without a sync mode.
MCTable(cols) == [enabled: BOOLEAN, syncMode: SyncModes \cup {""}, columns: {cols}]

\* Schema sa with table t1 declared, or t1 and the table t2 the source lacks,
\* or no tables; or the schema sb the source lacks; or a schema with the
\* empty name, which no CRD rule forbids.
MCDeclaredWith(cols) ==
    [handling: Handlings \cup {""},
     schemas: {sa :> [enabled |-> e, tables |-> tt]
                  : e \in BOOLEAN,
                    tt \in {<<>>} \cup [{t1} -> MCTable(cols)]
                           \cup {t1 :> x @@ t2 :> y
                                   : x \in MCTable(cols), y \in MCTable({})}}
              \cup {sb :> [enabled |-> TRUE, tables |-> <<>>],
                     "" :> [enabled |-> TRUE, tables |-> <<>>]}]

MCDeclared == MCDeclaredWith({})
MCDeclaredColumns == MCDeclaredWith({k1})
================================================================================
