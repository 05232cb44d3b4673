------------------------ MODULE SchemaNameInference ------------------------
(***************************************************************************)
(* The destination schema name handleExistingConnectorAdoption infers from *)
(* spec.connector.config before it adopts an existing connector            *)
(* (unnamed/part_002 359-385; handleConnectorFromAnnotation repeats it in  *)
(* unnamed/part_003 146-172).                                              *)
(*                                                                         *)
(* The config is what json.Unmarshal makes of the RawExtension: a          *)
(* map[string]any whose values are JSON values.  The CRD keeps unknown     *)
(* fields (PreserveUnknownFields), so any JSON value may sit under any     *)
(* key.  A value is a record tagged by its JSON kind; a string is the      *)
(* sequence of words it is made of, "" is <<>>, and schema + "." + table   *)
(* is the concatenation of the two sequences around the Dot word.          *)
(***************************************************************************)
EXTENDS Sequences

CONSTANTS
    Words   \* the words names are made of

Dot == "."

\* The keys the inference reads; a config lacks a key or holds a JSON value.
ConfigKeys == {"schema_prefix", "schema", "table", "table_group_name"}

Str(s) == [kind |-> "string", str |-> s]
Null == [kind |-> "null"]          \* a JSON null: the key is present, nil
Number == [kind |-> "number"]      \* a JSON number: float64
Missing == [kind |-> "missing"]    \* the key is absent from the map

\* The strings used as values: "" and single words.
Strings == {<<>>} \cup {<<w>> : w \in Words}

Values == {Str(s) : s \in Strings} \cup {Null, Number, Missing}

ConfigMaps == [ConfigKeys -> Values]

\* v.(string) with ok, and ok && v != ""
IsString(v) == v.kind = "string"
NonEmptyString(v) == IsString(v) /\ v.str # <<>>

Joined(s, t) == s \o <<Dot>> \o t

\* `tablegroupname, ok := cfg["table_group_name"]; ok && tablegroupname != ""`
\* compares an interface with "": true for every present value but the
\* string "", JSON null and numbers included.
GroupPresent(cfg) ==
    cfg["table_group_name"] # Missing /\ cfg["table_group_name"] # Str(<<>>)

\* tablegroupname.(string) without ok: a present table_group_name that is not
\* a string panics, once no schema_prefix decided the name and a base
\* schema is set.
Panics(cfg) ==
    /\ ~NonEmptyString(cfg["schema_prefix"])
    /\ NonEmptyString(cfg["schema"])
    /\ GroupPresent(cfg)
    /\ ~IsString(cfg["table_group_name"])

\* Variant: the table suffix checked after the table group, so a table
\* overrides the group.
ExpectedSchemaTableLast(cfg) ==
    CASE NonEmptyString(cfg["schema_prefix"]) -> cfg["schema_prefix"].str
      [] NonEmptyString(cfg["schema"]) /\ NonEmptyString(cfg["table"]) ->
            Joined(cfg["schema"].str, cfg["table"].str)
      [] NonEmptyString(cfg["schema"]) /\ GroupPresent(cfg) ->
            Joined(cfg["schema"].str, cfg["table_group_name"].str)
      [] NonEmptyString(cfg["schema"]) -> cfg["schema"].str
      [] OTHER -> <<>>

\* expectedSchema, on a config that does not panic: schema_prefix, else the
\* base schema, overwritten by schema.table, overwritten by
\* schema.table_group_name; "" when neither prefix nor schema is a string.
ExpectedSchema(cfg) ==
    LET base == cfg["schema"].str
        withTable == IF NonEmptyString(cfg["table"])
                     THEN Joined(base, cfg["table"].str) ELSE base
    IN CASE NonEmptyString(cfg["schema_prefix"]) -> cfg["schema_prefix"].str
         [] NonEmptyString(cfg["schema"]) ->
               IF GroupPresent(cfg)
               THEN Joined(base, cfg["table_group_name"].str)
               ELSE withTable
         [] OTHER -> <<>>

\* `expectedSchema != "" && expectedSchema != existingConnector.Data.Schema`
\* is the mismatch error; an empty expectation accepts any schema.
NameAccepted(cfg, existing) ==
    LET e == ExpectedSchema(cfg) IN e = <<>> \/ e = existing

(***************************************************************************)
(* Spec 4.3's rule, as a reference: the name is inferred when the config   *)
(* carries enough information, by the precedence "explicit schema-prefix,  *)
(* else base schema name optionally suffixed with a single-table or        *)
(* table-group name".  Only string-valued attributes carry information.    *)
(***************************************************************************)

\* The attributes of a config that are non-empty strings.
Informative(cfg) == {k \in ConfigKeys : NonEmptyString(cfg[k])}

\* The name spec 4.3 infers: a prefix decides alone; a base schema gets
\* the table-group suffix when a group is named, else the single-table one.
SpecSchemaName(cfg) ==
    LET has(k) == k \in Informative(cfg)
        v(k) == cfg[k].str
    IN CASE has("schema_prefix") -> v("schema_prefix")
         [] has("schema") /\ has("table_group_name") ->
               Joined(v("schema"), v("table_group_name"))
         [] has("schema") /\ has("table") -> Joined(v("schema"), v("table"))
         [] has("schema") -> v("schema")
         [] OTHER -> <<>>

\* The schema names spec 4.3 lets an existing connector have for adoption
\* to go on: any, when nothing is inferred.
SpecAccepts(cfg, existing) ==
    SpecSchemaName(cfg) = <<>> \/ SpecSchemaName(cfg) = existing

================================================================================
