---------------------------- MODULE ProductMapping ----------------------------
(***************************************************************************)
(* The mapping language of a product: what the generator lets through      *)
(* (lua_product_loader.cpp) and what the generated adapter makes of it on  *)
(* the console (generated_adapter.cpp).  A mapping, a context and a        *)
(* document are JSON values; the loader sees the mapping as Lua tables of  *)
(* the same shape, in which "1", "2" are the arguments of a constructor.   *)
(*                                                                         *)
(* A JSON value is a record with its type; Failed is std::nullopt.         *)
(* Recursive functions of the code are here what they do with a node;      *)
(* Below is the function itself, applied to the nodes inside.              *)
(***************************************************************************)
EXTENDS Integers, Sequences, TLC

CONSTANTS
    kMaximumDepth,    \* the nesting that both programs allow
    DecimalTexts,     \* the texts that spell a number, with that number
    DateTexts,        \* the texts that start like a date
    NotUtf8           \* the texts that are not well-formed UTF-8

Null == [type |-> "null"]
Bool(b) == [type |-> "bool", bool |-> b]
Number(n) == [type |-> "number", number |-> n]
Float(n) == [type |-> "float", float |-> n]
Text(s) == [type |-> "text", text |-> s]
List(s) == [type |-> "list", items |-> s]
Object(f) == [type |-> "object", fields |-> f]
Path(keys) == [type |-> "path", keys |-> keys]
Failed == [type |-> "failed"]

Has(v, key) == v.type = "object" /\ key \in DOMAIN v.fields

Tagged(v, kind) ==
    Has(v, "_kind") /\ v.fields["_kind"].type = "text" /\ v.fields["_kind"].text = kind

\* A constructor of the office table, with its arguments
Construct(kind, arguments) ==
    Object([key \in {"_kind"} \cup {<<"1", "2">>[i] : i \in DOMAIN arguments} |->
                CASE key = "_kind" -> Text(kind)
                  [] key = "1" -> arguments[1]
                  [] OTHER -> arguments[2]])

Argument == {"1", "2"}

-----------------------------------------------------------------------------
(* The generator *)

kinds == {"request", "field", "optional", "default", "coalesce", "object", "list",
          "string", "number", "date", "context", "url_encode"}

\* validate_mapping
ValidNode(Below(_, _), v, depth) ==
    /\ depth <= kMaximumDepth
    /\ v.type = "object" =>
           /\ Has(v, "_kind") /\ v.fields["_kind"].type = "text" =>
                  v.fields["_kind"].text \in kinds
           /\ \A key \in DOMAIN v.fields : Below(v.fields[key], depth + 1)

\* A list without a mapping of its own maps each item with its own fields.
ImplicitList(v) == Tagged(v, "list") /\ ~Has(v, "1")

\* The lists of that kind that a node leaves for those inside it
ListsNode(Below(_, _), v, lists) ==
    LET left == IF ImplicitList(v) THEN lists - 1 ELSE lists
    IN  /\ left >= 0
        /\ v.type = "object" => \A key \in DOMAIN v.fields : Below(v.fields[key], left)

\* canonical_value, which writes the node and does not look into its texts
CanonicalNode(Below(_, _), v, depth) ==
    /\ depth <= kMaximumDepth
    /\ v.type = "object" => \A key \in DOMAIN v.fields : Below(v.fields[key], depth + 1)

-----------------------------------------------------------------------------
(* The adapter *)

\* parse_json: what was written is JSON unless it has a number that is not
\* finite (Float("inf")), or bytes that are not UTF-8 in a text or in the name
\* of a field.
ParseNode(Below(_), v) ==
    /\ v # Float("inf")
    /\ v.type = "text" => v.text \notin NotUtf8
    /\ v.type = "path" => \A i \in DOMAIN v.keys : v.keys[i] \notin NotUtf8
    /\ v.type = "object" =>
           \A key \in DOMAIN v.fields : key \notin NotUtf8 /\ Below(v.fields[key])

\* The words of a value: its texts, names and numbers
AtomsNode(Below(_), v) ==
    CASE v.type = "object" ->
             {Text(key) : key \in DOMAIN v.fields} \cup
             UNION {Below(v.fields[key]) : key \in DOMAIN v.fields}
      [] v.type = "path" -> {Text(v.keys[i]) : i \in DOMAIN v.keys}
      [] v.type = "text" -> {Text(v.text)}
      [] OTHER -> {v}

\* Those that the generator writes and JSON does not have
Unwritable == {Float("inf")} \cup {Text(s) : s \in NotUtf8}

field_at(source, path) ==
    LET at[n \in 0 .. Len(path)] ==
            IF n = 0 THEN source
            ELSE IF Has(at[n - 1], path[n]) THEN at[n - 1].fields[path[n]] ELSE Failed
    IN  at[Len(path)]

scalar_string(v) ==
    IF v.type = "text" THEN v
    ELSE IF v.type \in {"bool", "number", "float"} THEN Text(ToString(v[v.type]))
    ELSE Failed

evaluate_number(v) ==
    IF v.type \in {"number", "float"} THEN v
    ELSE IF v.type = "text" /\ v.text \in DOMAIN DecimalTexts THEN DecimalTexts[v.text]
    ELSE Failed

DateOf(v) == IF v.type = "text" /\ v.text \in DateTexts THEN v ELSE Failed

Given(v) == v.type \notin {"failed", "null"}

\* depth is the depth still allowed.
evaluate_object(Below(_, _, _, _), node, source, context, depth) ==
    LET keys == DOMAIN node.fields \ ({"_kind"} \cup Argument)
        values == [key \in keys |-> Below(node.fields[key], source, context, depth - 1)]
    IN  IF \E key \in keys : values[key].type = "failed" THEN Failed ELSE Object(values)

\* Fault: an item that does not fit the mapping is left out.
WholeList_Skips(items) == List(SelectSeq(items, LAMBDA v : v.type # "failed"))

WholeList(items) == IF \E i \in DOMAIN items : items[i].type = "failed" THEN Failed ELSE List(items)

evaluate_list(Below(_, _, _, _), node, source, context, depth) ==
    LET selected == IF Has(node, "2") THEN Below(node.fields["2"], source, context, depth - 1)
                    ELSE IF Has(source, "items") THEN source.fields["items"]
                    ELSE source
        mapped(item) == IF Has(node, "1") THEN Below(node.fields["1"], item, context, depth - 1)
                        ELSE evaluate_object(Below, node, item, context, depth - 1)
    IN  IF selected.type # "list" \/ (Has(node, "2") /\ ~Has(node, "1")) THEN Failed
        ELSE WholeList([i \in DOMAIN selected.items |-> mapped(selected.items[i])])

\* The other constructors, whose first argument is there
Applied(Below(_, _, _, _), kind, node, source, context, depth) ==
    LET at(key) == Below(node.fields[key], source, context, depth - 1)
        first == at("1")
    IN  CASE kind \in {"field", "context"} ->
                 IF node.fields["1"].type # "path" THEN Failed
                 ELSE field_at(IF kind = "field" THEN source ELSE context, node.fields["1"].keys)
          [] kind \in {"optional", "default"} ->
                 IF Given(first) THEN first ELSE IF Has(node, "2") THEN at("2") ELSE Null
          [] kind = "coalesce" ->
                 IF Given(first) THEN first
                 ELSE IF Has(node, "2") /\ Given(at("2")) THEN at("2") ELSE Failed
          [] kind = "url_encode" -> first
          [] kind = "string" -> scalar_string(first)
          [] kind = "number" -> evaluate_number(first)
          [] kind = "date" -> DateOf(first)
          [] OTHER -> Failed

\* evaluate
EvaluateNode(Below(_, _, _, _), node, source, context, depth) ==
    LET kind == node.fields["_kind"].text
    IN  IF depth < 0 THEN Failed
        ELSE IF node.type # "object" THEN node
        ELSE IF ~Has(node, "_kind") THEN evaluate_object(Below, node, source, context, depth)
        ELSE IF node.fields["_kind"].type # "text" THEN Failed
        ELSE IF kind = "object" THEN evaluate_object(Below, node, source, context, depth)
        ELSE IF kind = "list" THEN evaluate_list(Below, node, source, context, depth)
        ELSE IF ~Has(node, "1") THEN Failed
        ELSE Applied(Below, kind, node, source, context, depth)

=============================================================================
