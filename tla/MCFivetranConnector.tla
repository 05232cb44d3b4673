------------------------- MODULE MCFivetranConnector -------------------------
(* Constants of FivetranConnector for TLC. *)
EXTENDS FivetranConnector, TLC

CONSTANTS c1, c2, s1

MCCfgs == {c1, c2}
MCSchemaSpecs == {s1}

\* A running connector with a declared schema whose configuration the user
\* changes.
MCSpecsCore == [cfg: {c1, c2}, paused: {FALSE}, tests: {TRUE}, schema: {s1}]

MCWords == {"a", "t", "g"}

\* c1 names a base schema, a single table and a table group (the group
\* decides the name: a.g); c2 an empty prefix, the base schema and a
\* numeric table_group_name, on which the inference panics.
MCCfgMap ==
    c1 :> [schema_prefix |-> SN!Missing, schema |-> SN!Str(<<"a">>),
           table |-> SN!Str(<<"t">>), table_group_name |-> SN!Str(<<"g">>)]
    @@ c2 :> [schema_prefix |-> SN!Str(<<>>), schema |-> SN!Str(<<"a">>),
              table |-> SN!Missing, table_group_name |-> SN!Number]

\* A pre-existing connector writes to a.g or to a.t.
\* A connector to recover whose config names the schema a.g.
MCSpecsRecovery == [cfg: {c1}, paused: {FALSE}, tests: {TRUE}, schema: {s1}]

MCSchemaNames == {<<"a", ".", "g">>, <<"a", ".", "t">>}
================================================================================
