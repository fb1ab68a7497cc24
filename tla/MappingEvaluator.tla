--------------------------- MODULE MappingEvaluator ---------------------------
(***************************************************************************)
(* The recursive functions of the mapping language: each does with a node  *)
(* what ProductMapping says, and calls itself on the nodes inside.         *)
(***************************************************************************)
EXTENDS ProductMapping

\* lua_product_loader.cpp
RECURSIVE validate_mapping(_, _)
validate_mapping(v, depth) == ValidNode(validate_mapping, v, depth)

RECURSIVE canonical_value(_, _)
canonical_value(v, depth) == CanonicalNode(canonical_value, v, depth)

\* generated_adapter.cpp
RECURSIVE parse_json(_)
parse_json(v) == ParseNode(parse_json, v)

\* The texts, names and numbers of a descriptor, however deep
RECURSIVE atoms(_)
atoms(v) == AtomsNode(atoms, v)

\* evaluate, with evaluate_object and evaluate_list
RECURSIVE evaluate(_, _, _, _)
evaluate(node, source, context, depth) == EvaluateNode(evaluate, node, source, context, depth)

\* At most so many lists without a mapping of their own inside each other
RECURSIVE lists_within(_, _)
lists_within(v, lists) == ListsNode(lists_within, v, lists)

=============================================================================
