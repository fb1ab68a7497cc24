------------------------ MODULE GeneratedAdapterProofs ------------------------
(***************************************************************************)
(* The way of a product, proved for any packages, answers, documents and   *)
(* recognitions, and any depth.  The recursive functions of the mapping    *)
(* language are constants here; what the proofs use of them is that each   *)
(* does with a node what ProductMapping says, as MappingEvaluator defines  *)
(* them.                                                                   *)
(***************************************************************************)
EXTENDS GeneratedAdapter, SequenceTheorems, WellFoundedInduction, TLAPS

-----------------------------------------------------------------------------
(* The credential *)

RefusalInv ==
    /\ client \in BOOLEAN
    /\ refused \in BOOLEAN
    /\ OnlyRefusalForgets
    /\ state \in {"loading", "current"} => client

LEMMA AnswerIs ==
    ASSUME NEW answer
    PROVE  /\ response_error(answer) \in {"ok", "unauthorized", "unavailable"}
           /\ (answer # None /\ answer.status \in {401, 403})
                  = (response_error(answer) = "unauthorized")
           /\ response_error(answer) = "ok" => answer # None
  BY DEF response_error

\* The outcomes of a request of a load, and of one of a recognition
LEMMA LoadSteps ==
    ASSUME NEW today, NEW answer, AdvanceLoad(today, answer)
    PROVE  \/ LoadFails("invalid_response") /\ UNCHANGED <<heard, refused>>
           \/ /\ refused' = FALSE /\ answer # None
              /\ StageAnswers(Stages[load.completed + 1], answer)
           \/ refused' = FALSE /\ LoadFails("unavailable") /\ UNCHANGED heard
           \/ refused' = TRUE /\ LoadFails("unauthorized") /\ UNCHANGED heard
<1> DEFINE stage == Stages[load.completed + 1]
           result == response_error(answer)
           asks == Sends(product[stage], Object([date |-> Text(today)]))
<1>1. IF ~asks THEN LoadFails("invalid_response") /\ UNCHANGED <<heard, refused>>
      ELSE /\ refused' = (answer # None /\ answer.status \in {401, 403})
           /\ IF result = "ok" THEN StageAnswers(stage, answer)
              ELSE LoadFails(result) /\ UNCHANGED heard
  BY DEF AdvanceLoad
<1>2. /\ result \in {"ok", "unauthorized", "unavailable"}
      /\ (answer # None /\ answer.status \in {401, 403}) = (result = "unauthorized")
      /\ result = "ok" => answer # None
  BY AnswerIs
<1> HIDE DEF stage, result, asks
<1>3. CASE ~asks
  BY <1>1, <1>3
<1>4. CASE asks /\ result = "ok"
  BY <1>1, <1>2, <1>4 DEF stage
<1>5. CASE asks /\ result = "unavailable"
  BY <1>1, <1>2, <1>5
<1>6. CASE asks /\ result = "unauthorized"
  BY <1>1, <1>2, <1>6
<1> QED
  BY <1>2, <1>3, <1>4, <1>5, <1>6

LEMMA SendSteps ==
    ASSUME NEW r, NEW answer, SendRecognition(r, answer)
    PROVE  \/ RecognitionEnds("invalid_response") /\ UNCHANGED refused
           \/ Session("offline", "invalid_response") /\ UNCHANGED <<client, refused>>
           \/ refused' = FALSE /\ \E result \in {"invalid_response", "recognised", "declined"} :
                                    RecognitionEnds(result)
           \/ refused' = FALSE /\ RecognitionEnds("unavailable")
           \/ refused' = TRUE /\ RecognitionEnds("unauthorized")
<1> DEFINE operation == product["recognition"]
           given == RecognitionContext(r)
           body == Evaluate(operation.body, NoSource, given)
           mapped == map_response(operation.response, answer.document)
           result == response_error(answer)
           unfit == ~Supported(r) \/ ~request_for(operation, given) \/ body.type # "object"
           throws == ~Executable(operation, given)
           kept == accepted(mapped) /\ required_string(mapped, "recognition_id")
           verdict == IF mapped.fields["accepted"].bool THEN "recognised" ELSE "declined"
<1>1. IF unfit THEN RecognitionEnds("invalid_response") /\ UNCHANGED refused
      ELSE IF throws THEN Session("offline", "invalid_response") /\ UNCHANGED <<client, refused>>
      ELSE /\ refused' = (answer # None /\ answer.status \in {401, 403})
           /\ IF result # "ok" THEN RecognitionEnds(result)
              ELSE IF ~kept THEN RecognitionEnds("invalid_response")
              ELSE RecognitionEnds(verdict)
  BY DEF SendRecognition
<1>2. /\ result \in {"ok", "unauthorized", "unavailable"}
      /\ (answer # None /\ answer.status \in {401, 403}) = (result = "unauthorized")
  BY AnswerIs
<1>3. verdict \in {"recognised", "declined"}
  OBVIOUS
<1> HIDE DEF operation, given, body, mapped, result, unfit, throws, kept, verdict
<1>4. CASE unfit \/ throws
  BY <1>1, <1>4
<1>5. CASE ~unfit /\ ~throws /\ result = "ok"
  <2>1. refused' = FALSE
    BY <1>1, <1>2, <1>5
  <2>2. RecognitionEnds("invalid_response") \/ RecognitionEnds(verdict)
    BY <1>1, <1>5
  <2> QED
    BY <1>3, <2>1, <2>2
<1>6. CASE ~unfit /\ ~throws /\ result = "unavailable"
  BY <1>1, <1>2, <1>6
<1>7. CASE ~unfit /\ ~throws /\ result = "unauthorized"
  BY <1>1, <1>2, <1>7
<1> QED
  BY <1>2, <1>4, <1>5, <1>6, <1>7

LEMMA RefusalInvInductive == Spec => []RefusalInv
<1>1. Init => RefusalInv
  BY DEF Init, RefusalInv, OnlyRefusalForgets
<1>2. RefusalInv /\ [Next]_vars => RefusalInv'
  <2> SUFFICES ASSUME RefusalInv, [Next]_vars PROVE RefusalInv'
    OBVIOUS
  <2> USE DEF RefusalInv, OnlyRefusalForgets
  <2>1. CASE Generate
    BY <2>1 DEF Generate
  <2>2. CASE StartProgram
    BY <2>2 DEF StartProgram
  <2>3. CASE BeginLoad
    BY <2>3 DEF BeginLoad, Session
  <2>4. ASSUME NEW answer \in Answers, AdvanceLoad("2026-06-17", answer)
        PROVE  RefusalInv'
    <3>1. client /\ ~refused /\ client \in BOOLEAN
      BY <2>4 DEF AdvanceLoad
    <3>2. CASE LoadFails("invalid_response") /\ UNCHANGED refused
      BY <3>1, <3>2 DEF LoadFails, Session
    <3>3. CASE refused' = FALSE /\ \E stage : StageAnswers(stage, answer)
      BY <3>1, <3>3 DEF LoadFails, StageAnswers, Session
    <3>4. CASE refused' = FALSE /\ LoadFails("unavailable")
      BY <3>1, <3>4 DEF LoadFails, Session
    <3>5. CASE refused' = TRUE /\ LoadFails("unauthorized")
      BY <3>1, <3>5 DEF LoadFails, Session
    <3> QED
      BY <2>4, <3>2, <3>3, <3>4, <3>5, LoadSteps
  <2>5. ASSUME NEW r \in Recognitions, NEW answer \in Answers, SendRecognition(r, answer)
        PROVE  RefusalInv'
    <3>1. client /\ ~refused /\ client \in BOOLEAN
      BY <2>5 DEF SendRecognition
    <3>2. CASE RecognitionEnds("invalid_response") /\ UNCHANGED refused
      BY <3>1, <3>2 DEF RecognitionEnds, Session
    <3>3. CASE Session("offline", "invalid_response") /\ UNCHANGED <<client, refused>>
      BY <3>1, <3>3 DEF Session
    <3>4. CASE refused' = FALSE /\ \E result \in {"invalid_response", "recognised", "declined"} :
                                     RecognitionEnds(result)
      BY <3>1, <3>4 DEF RecognitionEnds, Session
    <3>5. CASE refused' = FALSE /\ RecognitionEnds("unavailable")
      BY <3>1, <3>5 DEF RecognitionEnds, Session
    <3>6. CASE refused' = TRUE /\ RecognitionEnds("unauthorized")
      BY <3>1, <3>6 DEF RecognitionEnds, Session
    <3> QED
      BY <2>5, <3>2, <3>3, <3>4, <3>5, <3>6, SendSteps
  <2>6. CASE Done
    BY <2>6 DEF Done, vars
  <2>7. CASE UNCHANGED vars
    BY <2>7 DEF vars
  <2> QED
    BY <2>1, <2>2, <2>3, <2>4, <2>5, <2>6, <2>7 DEF Next
<1> QED
  BY <1>1, <1>2, PTL DEF Spec

\* The console forgets its credential only after the backend has answered with
\* 401 or 403, and after each such answer: DeclarativeDashboardLoad::advance and
\* send_recognition, with what the session makes of their results.
THEOREM RefusalAloneForgets == Spec => []OnlyRefusalForgets
<1>1. RefusalInv => OnlyRefusalForgets
  BY DEF RefusalInv
<1> QED
  BY <1>1, RefusalInvInductive, PTL

-----------------------------------------------------------------------------
(* Induction *)

LEMMA LeastNatural ==
    ASSUME NEW S, S \subseteq Nat, S # {}
    PROVE  \E m \in S : \A n \in S : m <= n
<1> DEFINE R == {p \in Nat \X Nat : p[1] < p[2]}
<1>1. IsWellFoundedOn(R, Nat)
  BY NatLessThanWellFounded DEF OpToRel
<1>2. \E m \in S : \A n \in S : <<n, m>> \notin R
  <2> HIDE DEF R
  <2> QED
    BY <1>1, WFMin
<1>3. \A m, n \in Nat : <<n, m>> \notin R => m <= n
  OBVIOUS
<1> HIDE DEF R
<1> QED
  BY <1>2, <1>3

-----------------------------------------------------------------------------
(* The package *)

BuiltInv ==
    /\ generated \in {"built", "running"} => parse_product(product)
    /\ generated = "running" => adapter = create_declarative_adapter(product)

LEMMA BuiltInvInductive == Spec => []BuiltInv
<1>1. Init => BuiltInv
  BY DEF Init, BuiltInv
<1>2. BuiltInv /\ [Next]_vars => BuiltInv'
  <2> SUFFICES ASSUME BuiltInv, [Next]_vars PROVE BuiltInv'
    OBVIOUS
  <2>1. CASE Generate
    BY <2>1 DEF Generate, BuiltInv
  <2>2. CASE StartProgram
    BY <2>2 DEF StartProgram, BuiltInv
  <2>3. CASE UNCHANGED <<product, generated, adapter>>
    BY <2>3 DEF BuiltInv
  <2>4. Next => Generate \/ StartProgram \/ UNCHANGED <<product, generated, adapter>>
    BY DEF Next, BeginLoad, AdvanceLoad, SendRecognition, Done, vars
  <2> QED
    BY <2>1, <2>2, <2>3, <2>4 DEF vars
<1> QED
  BY <1>1, <1>2, PTL DEF Spec

\* What MappingEvaluator makes of the constants: each recursive function does
\* with a node what ProductMapping says, and calls itself for those inside.
ReadsNodewise ==
    /\ \A v : \A depth \in Int : Canonical(v, depth) <=> CanonicalNode(Canonical, v, depth)
    /\ \A v : Parses(v) <=> ParseNode(Parses, v)
    /\ \A v : Atoms(v) = AtomsNode(Atoms, v)

Readable(v) == Parses(v) <=> Atoms(v) \cap Unwritable = {}

\* A node that may have k levels below it can be read if its words can.
ReadableAt(k) ==
    \A v : \A depth \in Int : kMaximumDepth - depth = k /\ Canonical(v, depth) => Readable(v)

LEMMA NodeReadable ==
    ASSUME ReadsNodewise, NEW v,
           v.type = "object" => \A key \in DOMAIN v.fields : Readable(v.fields[key])
    PROVE  Readable(v)
<1>1. /\ Parses(v) <=> ParseNode(Parses, v)
      /\ Atoms(v) = AtomsNode(Atoms, v)
  BY DEF ReadsNodewise
<1>2. \A s, t : Text(s) = Text(t) => s = t
  <2> SUFFICES ASSUME NEW s, NEW t, Text(s) = Text(t) PROVE s = t
    OBVIOUS
  <2>1. Text(s).text = s /\ Text(t).text = t
    BY DEF Text
  <2> QED
    BY <2>1
<1>3. /\ \A s : Text(s).type = "text" /\ Text(s) # Float("inf")
      /\ Float("inf").type = "float"
  <2>1. Float("inf").type = "float" /\ \A s : Text(s).type = "text"
    BY DEF Text, Float
  <2> QED
    BY <2>1
<1>4. \A s : Text(s) \in Unwritable <=> s \in NotUtf8
  BY <1>2, <1>3 DEF Unwritable
<1>5. CASE v.type = "object"
  <2> DEFINE names == {Text(key) : key \in DOMAIN v.fields}
             inside == UNION {Atoms(v.fields[key]) : key \in DOMAIN v.fields}
  <2>1. Atoms(v) = names \cup inside
    BY <1>1, <1>5 DEF AtomsNode
  <2>2. Parses(v) <=> \A key \in DOMAIN v.fields : key \notin NotUtf8 /\ Parses(v.fields[key])
    BY <1>1, <1>3, <1>5 DEF ParseNode
  <2>3. names \cap Unwritable = {} <=> \A key \in DOMAIN v.fields : key \notin NotUtf8
    BY <1>4
  <2>4. inside \cap Unwritable = {}
            <=> \A key \in DOMAIN v.fields : Atoms(v.fields[key]) \cap Unwritable = {}
    OBVIOUS
  <2>5. \A key \in DOMAIN v.fields :
            Parses(v.fields[key]) <=> Atoms(v.fields[key]) \cap Unwritable = {}
    BY <1>5 DEF Readable
  <2>6. Atoms(v) \cap Unwritable = {}
            <=> names \cap Unwritable = {} /\ inside \cap Unwritable = {}
    BY <2>1
  <2> HIDE DEF names, inside
  <2> QED
    BY <2>2, <2>3, <2>4, <2>5, <2>6 DEF Readable
<1>6. CASE v.type = "path"
  <2>1. Atoms(v) = {Text(v.keys[i]) : i \in DOMAIN v.keys}
    BY <1>1, <1>6 DEF AtomsNode
  <2>2. Parses(v) <=> \A i \in DOMAIN v.keys : v.keys[i] \notin NotUtf8
    BY <1>1, <1>3, <1>6 DEF ParseNode
  <2> QED
    BY <1>4, <2>1, <2>2 DEF Readable
<1>7. CASE v.type = "text"
  <2>1. Atoms(v) = {Text(v.text)}
    BY <1>1, <1>7 DEF AtomsNode
  <2>2. Parses(v) <=> v.text \notin NotUtf8
    BY <1>1, <1>3, <1>7 DEF ParseNode
  <2> QED
    BY <1>4, <2>1, <2>2 DEF Readable
<1>8. CASE v.type \notin {"object", "path", "text"}
  <2>1. Atoms(v) = {v}
    BY <1>1, <1>8 DEF AtomsNode
  <2>2. Parses(v) <=> v # Float("inf")
    BY <1>1, <1>8 DEF ParseNode
  <2>3. v \in Unwritable <=> v = Float("inf")
    BY <1>3, <1>8 DEF Unwritable
  <2> QED
    BY <2>1, <2>2, <2>3 DEF Readable
<1> QED
  BY <1>5, <1>6, <1>7, <1>8

\* Whatever the generator can write is read again but for its words: by
\* induction on the levels that canonical_value allows below a node.
LEMMA ReadableUnlessWords ==
    ASSUME ReadsNodewise, NEW v, Canonical(v, 0)
    PROVE  Readable(v)
<1>1. kMaximumDepth \in Nat
  BY AdapterConstants
<1> DEFINE bad == {k \in Nat : ~ReadableAt(k)}
<1>2. ASSUME NEW k \in bad, \A n \in bad : k <= n
      PROVE  FALSE
  <2>1. k \in Nat /\ ~ReadableAt(k)
    OBVIOUS
  <2>a. PICK w : \E depth \in Int :
            kMaximumDepth - depth = k /\ Canonical(w, depth) /\ ~Readable(w)
    BY <2>1 DEF ReadableAt
  <2>2. PICK depth \in Int : kMaximumDepth - depth = k /\ Canonical(w, depth) /\ ~Readable(w)
    BY <2>a
  <2>3. ASSUME w.type = "object", NEW key \in DOMAIN w.fields
        PROVE  Readable(w.fields[key])
    <3>1. Canonical(w.fields[key], depth + 1)
      BY <2>2, <2>3 DEF ReadsNodewise, CanonicalNode
    <3>2. depth + 1 <= kMaximumDepth
      BY <2>2, <3>1 DEF ReadsNodewise, CanonicalNode
    <3>3. k - 1 \in Nat /\ kMaximumDepth - (depth + 1) = k - 1
      BY <1>1, <2>2, <3>2
    <3>4. ReadableAt(k - 1)
      BY <1>2, <3>3
    <3> QED
      BY <3>1, <3>3, <3>4 DEF ReadableAt
  <2> QED
    BY <2>2, <2>3, NodeReadable
<1>3. bad = {}
  <2> HIDE DEF bad
  <2>1. bad \subseteq Nat
    BY DEF bad
  <2> QED
    BY <1>2, <2>1, LeastNatural
<1>4. ReadableAt(kMaximumDepth)
  BY <1>1, <1>3
<1>5. 0 \in Int /\ kMaximumDepth - 0 = kMaximumDepth
  BY <1>1
<1> HIDE DEF bad
<1> QED
  BY <1>4, <1>5 DEF ReadableAt

\* create_declarative_adapter finds in the descriptors of an accepted product
\* all that parse_product has made sure of: the operations, their methods and
\* their paths.  What it also needs and parse_product does not look at is that
\* every number is finite and every text and name is UTF-8; it returns an adapter
\* exactly for the accepted products that are so.
THEOREM AcceptedAlwaysBuilds == ReadsNodewise => (Spec => []AcceptedProductBuilds)
<1> SUFFICES ASSUME ReadsNodewise PROVE Spec => []AcceptedProductBuilds
  OBVIOUS
<1>1. BuiltInv => AcceptedProductBuilds
  <2> SUFFICES ASSUME BuiltInv, generated = "running"
               PROVE  adapter <=> \A name \in required_operations :
                                      Words(product[name]) \cap Unwritable = {}
    BY DEF AcceptedProductBuilds
  <2> DEFINE fields == {"query", "headers", "body", "response"}
  <2>1. parse_product(product) /\ required_operations \subseteq DOMAIN product
    BY DEF BuiltInv, parse_product
  <2>2. ASSUME NEW name \in required_operations
        PROVE  valid_operation(product[name], required_method(name))
                   <=> Words(product[name]) \cap Unwritable = {}
    <3>1. /\ valid_request(product[name])
          /\ product[name].method = required_method(name)
      BY <2>1 DEF parse_product, validate_generated_adapter_contract
    <3>2. \A field \in fields : Readable(product[name][field])
      BY <3>1, ReadableUnlessWords DEF valid_request
    <3>3. valid_operation(product[name], required_method(name))
              <=> \A field \in fields : Parses(product[name][field])
      BY <3>1 DEF valid_operation, valid_request
    <3>4. Words(product[name]) \cap Unwritable = {}
              <=> \A field \in fields : Atoms(product[name][field]) \cap Unwritable = {}
      BY DEF Words
    <3> HIDE DEF fields
    <3> QED
      BY <3>2, <3>3, <3>4 DEF Readable
  <2>3. adapter = create_declarative_adapter(product)
    BY DEF BuiltInv
  <2> QED
    BY <2>2, <2>3 DEF create_declarative_adapter
<1> QED
  BY <1>1, BuiltInvInductive, PTL

-----------------------------------------------------------------------------
(* The depth *)

\* The same for the functions that validate a mapping and evaluate it
EvaluatesNodewise ==
    /\ \A v : \A depth \in Int : Validates(v, depth) <=> ValidNode(Validates, v, depth)
    /\ \A v : \A lists \in Int : ListsWithin(v, lists) <=> ListsNode(ListsWithin, v, lists)
    /\ \A node, source, given : \A depth \in Int :
           Evaluates(node, source, given, depth)
               = EvaluateNode(Evaluates, node, source, given, depth)

\* Two depths that are both enough for a node that the generator counted at m
\* and that has at most n lists without a mapping inside each other
Enough(m, n, d) == d \in Int /\ d >= kMaximumDepth - m + n

SameValue(node, d, e) ==
    \A source, given : Evaluates(node, source, given, d) = Evaluates(node, source, given, e)

\* They give the same value, if k levels may follow the node.
AgreesAt(k) ==
    \A node : \A m, n, d, e \in Int :
        /\ kMaximumDepth - m = k
        /\ Validates(node, m)
        /\ ListsWithin(node, n)
        /\ Enough(m, n, d) /\ Enough(m, n, e)
        => SameValue(node, d, e)

\* What a node makes of values inside it that do not depend on the depth does
\* not either.
SameNode(node, d, e) ==
    \A source, given : EvaluateNode(Evaluates, node, source, given, d)
                          = EvaluateNode(Evaluates, node, source, given, e)

LEMMA NodeAgrees ==
    ASSUME NEW node, NEW d \in Nat, NEW e \in Nat, NEW b \in Int,
           node.type = "object",
           \A key \in DOMAIN node.fields : \A f, g \in Int :
               f >= b /\ g >= b => SameValue(node.fields[key], f, g),
           d - 1 >= b /\ e - 1 >= b,
           ImplicitList(node) => d - 2 >= b /\ e - 2 >= b
    PROVE  SameNode(node, d, e)
<1> SUFFICES ASSUME NEW source, NEW given
             PROVE  EvaluateNode(Evaluates, node, source, given, d)
                        = EvaluateNode(Evaluates, node, source, given, e)
  BY DEF SameNode
<1>1. ASSUME NEW s, NEW f \in Int, NEW g \in Int, f - 1 >= b, g - 1 >= b
      PROVE  evaluate_object(Evaluates, node, s, given, f)
                 = evaluate_object(Evaluates, node, s, given, g)
  <2> DEFINE keys == DOMAIN node.fields \ ({"_kind"} \cup Argument)
             values(x) == [key \in keys |-> Evaluates(node.fields[key], s, given, x - 1)]
  <2>1. values(f) = values(g)
    <3>1. \A key \in keys : Evaluates(node.fields[key], s, given, f - 1)
                                = Evaluates(node.fields[key], s, given, g - 1)
      BY <1>1 DEF SameValue
    <3> QED
      BY <3>1
  <2>2. \A x : evaluate_object(Evaluates, node, s, given, x)
                  = IF \E key \in keys : values(x)[key].type = "failed" THEN Failed
                    ELSE Object(values(x))
    BY DEF evaluate_object
  <2> HIDE DEF values
  <2> QED
    BY <2>1, <2>2
<1>2. ASSUME NEW key, Has(node, key), NEW s
      PROVE  Evaluates(node.fields[key], s, given, d - 1)
                 = Evaluates(node.fields[key], s, given, e - 1)
  <2>1. key \in DOMAIN node.fields
    BY <1>2 DEF Has
  <2>2. d - 1 \in Int /\ e - 1 \in Int
    OBVIOUS
  <2>3. SameValue(node.fields[key], d - 1, e - 1)
    BY <2>1, <2>2
  <2> QED
    BY <2>3 DEF SameValue
<1>3. ASSUME Tagged(node, "list")
      PROVE  evaluate_list(Evaluates, node, source, given, d)
                 = evaluate_list(Evaluates, node, source, given, e)
  <2> DEFINE selected(x) == IF Has(node, "2")
                            THEN Evaluates(node.fields["2"], source, given, x - 1)
                            ELSE IF Has(source, "items") THEN source.fields["items"] ELSE source
             mapped(x, item) == IF Has(node, "1")
                                THEN Evaluates(node.fields["1"], item, given, x - 1)
                                ELSE evaluate_object(Evaluates, node, item, given, x - 1)
             items(x) == [i \in DOMAIN selected(x).items |-> mapped(x, selected(x).items[i])]
             result(x) == IF selected(x).type # "list" \/ (Has(node, "2") /\ ~Has(node, "1"))
                          THEN Failed ELSE WholeList(items(x))
  <2>1. selected(d) = selected(e)
    BY <1>2
  <2>2. \A item : mapped(d, item) = mapped(e, item)
    <3>1. CASE Has(node, "1")
      BY <1>2, <3>1
    <3>2. CASE ~Has(node, "1")
      <4>1. d - 1 - 1 >= b /\ e - 1 - 1 >= b
        BY <1>3, <3>2 DEF ImplicitList
      <4> QED
        BY <1>1, <3>2, <4>1
    <3> QED
      BY <3>1, <3>2
  <2>3. items(d) = items(e)
    <3> HIDE DEF selected, mapped
    <3> QED
      BY <2>1, <2>2
  <2>4. \A x : evaluate_list(Evaluates, node, source, given, x) = result(x)
    BY DEF evaluate_list
  <2> HIDE DEF selected, mapped, items
  <2>5. result(d) = result(e)
    BY <2>1, <2>3
  <2> HIDE DEF result
  <2> QED
    BY <2>4, <2>5
<1>4. ASSUME NEW kind, Has(node, "1")
      PROVE  Applied(Evaluates, kind, node, source, given, d)
                 = Applied(Evaluates, kind, node, source, given, e)
  <2>1. Evaluates(node.fields["1"], source, given, d - 1)
            = Evaluates(node.fields["1"], source, given, e - 1)
    BY <1>2, <1>4
  <2>2. CASE Has(node, "2")
    <3>1. Evaluates(node.fields["2"], source, given, d - 1)
              = Evaluates(node.fields["2"], source, given, e - 1)
      BY <1>2, <2>2
    <3> QED
      BY <2>1, <2>2, <3>1 DEF Applied
  <2>3. CASE ~Has(node, "2")
    BY <2>1, <2>3 DEF Applied
  <2> QED
    BY <2>2, <2>3
<1>5. evaluate_object(Evaluates, node, source, given, d)
          = evaluate_object(Evaluates, node, source, given, e)
  BY <1>1
<1> DEFINE kind == node.fields["_kind"].text
<1>6. CASE ~Has(node, "_kind") \/ node.fields["_kind"].type # "text" \/ kind = "object"
  BY <1>5, <1>6 DEF EvaluateNode
<1>7. CASE Tagged(node, "list")
  BY <1>3, <1>7 DEF EvaluateNode, Tagged
<1>8. CASE Has(node, "_kind") /\ node.fields["_kind"].type = "text"
           /\ kind \notin {"object", "list"}
  <2>1. CASE Has(node, "1")
    BY <1>4, <1>8, <2>1 DEF EvaluateNode
  <2>2. CASE ~Has(node, "1")
    BY <1>8, <2>2 DEF EvaluateNode
  <2> QED
    BY <2>1, <2>2
<1> QED
  BY <1>6, <1>7, <1>8 DEF Tagged

\* By induction on the levels that may follow: a node inside is one level on
\* for both counts; a list without a mapping is two for the evaluator, and uses
\* up one of the lists.
LEMMA DepthSuffices ==
    ASSUME EvaluatesNodewise, NEW k \in Nat
    PROVE  AgreesAt(k)
<1>0. kMaximumDepth \in Nat
  BY AdapterConstants
<1> DEFINE Bad == {n \in Nat : ~AgreesAt(n)}
<1> SUFFICES ASSUME Bad # {} PROVE FALSE
  OBVIOUS
<1>1. PICK j \in Bad : \A n \in Bad : j <= n
  BY LeastNatural
<1>2. AgreesAt(j)
  <2> SUFFICES ASSUME NEW node, NEW m \in Int, NEW n \in Int, NEW d \in Int, NEW e \in Int,
                      kMaximumDepth - m = j, Validates(node, m), ListsWithin(node, n),
                      Enough(m, n, d), Enough(m, n, e), NEW source, NEW given
               PROVE  Evaluates(node, source, given, d) = Evaluates(node, source, given, e)
    BY DEF AgreesAt, SameValue
  <2> DEFINE left == IF ImplicitList(node) THEN n - 1 ELSE n
             b == j - 1 + left
  <2> USE <1>0
  <2>1. left \in Int /\ left >= 0 /\ n >= 0
    BY DEF EvaluatesNodewise, ListsNode
  <2>2. d \in Nat /\ e \in Nat
    BY <2>1 DEF Enough
  <2>3. /\ Evaluates(node, source, given, d) = EvaluateNode(Evaluates, node, source, given, d)
        /\ Evaluates(node, source, given, e) = EvaluateNode(Evaluates, node, source, given, e)
    BY DEF EvaluatesNodewise
  <2>4. CASE node.type # "object"
    BY <2>2, <2>3, <2>4 DEF EvaluateNode
  <2>5. CASE node.type = "object"
    <3>1. ASSUME NEW key \in DOMAIN node.fields, NEW f \in Int, NEW g \in Int, f >= b, g >= b
          PROVE  SameValue(node.fields[key], f, g)
      <4>1. Validates(node.fields[key], m + 1)
        BY <2>5 DEF EvaluatesNodewise, ValidNode
      <4>2. ListsWithin(node.fields[key], left)
        BY <2>5 DEF EvaluatesNodewise, ListsNode
      <4>3. m + 1 \in Int /\ m + 1 <= kMaximumDepth
        BY <4>1 DEF EvaluatesNodewise, ValidNode
      <4>4. j - 1 \in Nat /\ kMaximumDepth - (m + 1) = j - 1
        BY <4>3
      <4>5. AgreesAt(j - 1)
        BY <1>1, <4>4
      <4>6. Enough(m + 1, left, f) /\ Enough(m + 1, left, g)
        BY <2>1, <3>1, <4>4 DEF Enough
      <4> HIDE DEF left
      <4> QED
        BY <2>1, <4>1, <4>2, <4>3, <4>4, <4>5, <4>6 DEF AgreesAt
    <3>2. d - 1 >= b /\ e - 1 >= b
      BY <2>1 DEF Enough
    <3>3. ImplicitList(node) => d - 2 >= b /\ e - 2 >= b
      BY <2>1 DEF Enough
    <3>4. b \in Int
      BY <2>1
    <3> HIDE DEF b
    <3>5. \A key \in DOMAIN node.fields : \A f, g \in Int :
              f >= b /\ g >= b => SameValue(node.fields[key], f, g)
      BY <3>1
    <3>6. SameNode(node, d, e)
      BY <2>2, <2>5, <3>2, <3>3, <3>4, <3>5, NodeAgrees
    <3> QED
      BY <2>3, <3>6 DEF SameNode
  <2> QED
    BY <2>4, <2>5
<1> QED
  BY <1>1, <1>2

\* evaluate has depth to spare for every mapping that valid_request let through,
\* unless it nests lists without a mapping of their own: the value is the one
\* that more depth would give.
THEOREM EvaluatorAlwaysHasTheDepth ==
    EvaluatesNodewise => (Spec => []EvaluatorHasTheDepth)
<1> SUFFICES ASSUME EvaluatesNodewise PROVE Spec => []EvaluatorHasTheDepth
  OBVIOUS
<1>1. BuiltInv => EvaluatorHasTheDepth
  <2> SUFFICES ASSUME BuiltInv, generated = "built",
                      NEW name \in required_operations, NEW document \in Documents \ {Failed},
                      ListsWithin(product[name].response, 1)
               PROVE  Evaluates(product[name].response, document, NoSource, kMaximumDepth)
                          = Evaluates(product[name].response, document, NoSource, 2 * kMaximumDepth)
    BY DEF EvaluatorHasTheDepth, Evaluate
  <2> DEFINE mapping == product[name].response
  <2>1. Validates(mapping, 1)
    <3>1. valid_request(product[name])
      BY DEF BuiltInv, parse_product
    <3> QED
      BY <3>1 DEF valid_request
  <2> HIDE DEF mapping
  <2>2. kMaximumDepth \in Nat /\ kMaximumDepth >= 1 /\ kMaximumDepth - 1 \in Nat
    BY AdapterConstants
  <2>3. Enough(1, 1, kMaximumDepth) /\ Enough(1, 1, 2 * kMaximumDepth)
    BY <2>2 DEF Enough
  <2>4. AgreesAt(kMaximumDepth - 1)
    BY <2>2, DepthSuffices
  <2>5. ListsWithin(mapping, 1)
    BY DEF mapping
  <2>6. Evaluates(mapping, document, NoSource, kMaximumDepth)
            = Evaluates(mapping, document, NoSource, 2 * kMaximumDepth)
    BY <2>1, <2>2, <2>3, <2>4, <2>5 DEF AgreesAt, SameValue
  <2> QED
    BY <2>6 DEF mapping
<1> QED
  BY <1>1, BuiltInvInductive, PTL

-----------------------------------------------------------------------------
(* The snapshot *)

LEMMA FieldAt ==
    ASSUME NEW source, NEW key
    PROVE  field_at(source, <<key>>) = IF Has(source, key) THEN source.fields[key] ELSE Failed
<1> DEFINE path == <<key>>
           found == IF Has(source, key) THEN source.fields[key] ELSE Failed
           along(f) == [n \in 0 .. Len(path) |->
                            IF n = 0 THEN source
                            ELSE IF Has(f[n - 1], path[n]) THEN f[n - 1].fields[path[n]]
                            ELSE Failed]
           reached == [n \in 0 .. 1 |-> IF n = 0 THEN source ELSE found]
           at == CHOOSE f : f = along(f)
<1>1. Len(path) = 1 /\ path[1] = key /\ 0 .. 1 = {0, 1}
  OBVIOUS
<1>2. reached = along(reached)
  <2> HIDE DEF path, found
  <2> QED
    BY <1>1 DEF found
<1>3. at = along(at)
  BY <1>2
<1>4. at[0] = source
  <2> HIDE DEF at
  <2> QED
    BY <1>1, <1>3
<1>5. at[1] = found
  <2> HIDE DEF at, path
  <2> QED
    BY <1>1, <1>3, <1>4
<1>6. field_at(source, path) = at[Len(path)]
  BY DEF field_at
<1> QED
  BY <1>1, <1>5, <1>6

\* office.field("items")
LEMMA FieldNode ==
    ASSUME NEW node, node = Construct("field", <<Path(<<"items">>)>>)
    PROVE  /\ node.type = "object"
           /\ Tagged(node, "field")
           /\ Has(node, "1")
           /\ node.fields["1"] = Path(<<"items">>)
<1> DEFINE arguments == <<Path(<<"items">>)>>
           keys == {"_kind"} \cup {<<"1", "2">>[i] : i \in DOMAIN arguments}
           fields == [key \in keys |-> CASE key = "_kind" -> Text("field")
                                        [] key = "1" -> arguments[1]
                                        [] OTHER -> arguments[2]]
<1>1. node = Object(fields)
  BY DEF Construct
<1>2. "_kind" \in keys /\ "1" \in keys
  <2>1. 1 \in DOMAIN arguments /\ <<"1", "2">>[1] = "1"
    OBVIOUS
  <2> HIDE DEF arguments
  <2> QED
    BY <2>1
<1>3. DOMAIN fields = keys
  OBVIOUS
<1>4. fields["_kind"] = Text("field")
  <2> HIDE DEF keys, arguments
  <2> QED
    BY <1>2
<1>5. fields["1"] = arguments[1]
  <2> HIDE DEF keys, arguments
  <2> QED
    BY <1>2
<1>6. node.type = "object" /\ node.fields = fields
  BY <1>1 DEF Object
<1> HIDE DEF fields, keys
<1> QED
  BY <1>2, <1>3, <1>4, <1>5, <1>6 DEF Tagged, Has, Text

LEMMA ItemsAreSequences ==
    ASSUME NEW s, IsSequence(s), NEW T, NEW f \in [DOMAIN s -> T]
    PROVE  Len(f) = Len(s)
<1> DEFINE S == {s[i] : i \in DOMAIN s}
<1>1. s \in Seq(S)
  BY DEF IsSequence
<1> HIDE DEF S
<1>2. Len(s) \in Nat /\ DOMAIN s = 1 .. Len(s)
  BY <1>1
<1> QED
  BY <1>2

LEMMA Unfolded ==
    ASSUME EvaluatesNodewise, NEW node, NEW source, NEW given, NEW depth \in Int
    PROVE  Evaluates(node, source, given, depth) =
               EvaluateNode(Evaluates, node, source, given, depth)
  BY DEF EvaluatesNodewise

\* evaluate_list: an item that does not fit the mapping fails the list, and none
\* is left out.
LEMMA ListKeepsItems ==
    ASSUME EvaluatesNodewise, NEW mapping, NEW document \in Documents, ListsItems(mapping),
           NEW v, v = Evaluate(mapping, document, NoSource), v.type = "list"
    PROVE  Len(v.items) = Len(Listed(document))
<1>1. /\ kMaximumDepth \in Nat /\ kMaximumDepth \in Int
      /\ kMaximumDepth - 1 \in Nat /\ kMaximumDepth - 1 \in Int
  BY AdapterConstants
<1> DEFINE source == mapping.fields["2"]
           selected == IF Has(mapping, "2")
                       THEN Evaluates(source, document, NoSource, kMaximumDepth - 1)
                       ELSE IF Has(document, "items") THEN document.fields["items"] ELSE document
           mapped(item) == IF Has(mapping, "1")
                           THEN Evaluates(mapping.fields["1"], item, NoSource, kMaximumDepth - 1)
                           ELSE evaluate_object(Evaluates, mapping, item, NoSource,
                                                kMaximumDepth - 1)
           items == [i \in DOMAIN selected.items |-> mapped(selected.items[i])]
<1>2. v = evaluate_list(Evaluates, mapping, document, NoSource, kMaximumDepth)
  <2>1. v = EvaluateNode(Evaluates, mapping, document, NoSource, kMaximumDepth)
    BY <1>1, Unfolded, Zenon DEF Evaluate
  <2> QED
    BY <1>1, <2>1 DEF EvaluateNode, ListsItems, Tagged, Has
<1>3. selected.type = "list" /\ v = List(items)
  <2>1. v = Failed \/ (selected.type = "list" /\ v = List(items))
    BY <1>2 DEF evaluate_list, WholeList
  <2> QED
    BY <2>1 DEF Failed
<1>4. v.items = items
  BY <1>3 DEF List
<1>5. Has(mapping, "2") =>
          selected = IF Has(document, "items") THEN document.fields["items"] ELSE Failed
  <2> SUFFICES ASSUME Has(mapping, "2")
               PROVE  selected = IF Has(document, "items") THEN document.fields["items"]
                                 ELSE Failed
    OBVIOUS
  <2>1. /\ source.type = "object" /\ Tagged(source, "field") /\ Has(source, "1")
        /\ source.fields["1"] = Path(<<"items">>)
    BY FieldNode DEF ListsItems
  <2> HIDE DEF source
  <2>2. selected = EvaluateNode(Evaluates, source, document, NoSource, kMaximumDepth - 1)
    <3>1. selected = Evaluates(source, document, NoSource, kMaximumDepth - 1)
      OBVIOUS
    <3> HIDE DEF selected
    <3> QED
      BY <1>1, <3>1, Unfolded, Zenon
  <2>3. selected = Applied(Evaluates, "field", source, document, NoSource, kMaximumDepth - 1)
    <3> HIDE DEF selected
    <3>1. /\ Has(source, "_kind") /\ source.fields["_kind"].type = "text"
          /\ source.fields["_kind"].text = "field"
          /\ ~(kMaximumDepth - 1 < 0)
      BY <1>1, <2>1 DEF Tagged
    <3> QED
      BY <2>1, <2>2, <3>1, Zenon DEF EvaluateNode
  <2>4. selected = field_at(document, <<"items">>)
    BY <2>1, <2>3 DEF Applied, Path
  <2> QED
    BY <2>4, FieldAt
<1> HIDE DEF selected
<1>6. selected.items = Listed(document) /\ IsSequence(selected.items)
  <2>1. CASE Has(document, "items")
    <3>1. selected = document.fields["items"]
      BY <1>5, <2>1 DEF selected
    <3>2. document.type = "object"
      BY <2>1 DEF Has
    <3> QED
      BY <1>3, <2>1, <3>1, <3>2, AdapterConstants DEF Listed
  <2>2. CASE ~Has(document, "items")
    <3>1. selected = document
      BY <1>3, <1>5, <2>2 DEF selected, Failed
    <3> QED
      BY <1>3, <3>1, AdapterConstants DEF Listed
  <2> QED
    BY <2>1, <2>2
<1>7. items \in [DOMAIN selected.items -> {mapped(selected.items[i]) : i \in DOMAIN selected.items}]
  OBVIOUS
<1> HIDE DEF items, mapped
<1> QED
  BY <1>4, <1>6, <1>7, ItemsAreSequences

SequenceOf(s, n) == (\E S : s \in Seq(S)) /\ Len(s) = n

Extends(t, s, n, e) ==
    SequenceOf(t, n + 1) /\ t[n + 1] = e /\ \A i \in 1 .. n : t[i] = s[i]

LEMMA Appended ==
    ASSUME NEW s, NEW e, NEW n \in Nat, SequenceOf(s, n)
    PROVE  Extends(Append(s, e), s, n, e)
<1>1. PICK S : s \in Seq(S)
  BY DEF SequenceOf
<1>2. s \in Seq(S \cup {e}) /\ Len(s) = n
  BY <1>1 DEF SequenceOf
<1> QED
  BY <1>2, AppendProperties DEF Extends, SequenceOf

\* What decode_stage and the evaluator leave of a stage's document
PartOf(p, i, v, document) ==
    IF Stages[i] = "profile" THEN mapped_profile(v)
    ELSE ListsItems(p[Stages[i]].response) => Len(v.items) = Len(Listed(document))

\* So many parts, each of the document that was heard for it
PartsOf(p, parts, documents, n) ==
    /\ SequenceOf(parts, n)
    /\ SequenceOf(documents, n)
    /\ \A i \in 1 .. n : PartOf(p, i, parts[i], documents[i])

WholeInv ==
    /\ state = "loading" =>
           /\ update = None
           /\ load.completed \in 0 .. 3
           /\ PartsOf(product, load.snapshot, heard, load.completed)
    /\ update # None => PartsOf(product, update, heard, 4)

LEMMA WholeInvInductive == EvaluatesNodewise => (Spec => []WholeInv)
<1> SUFFICES ASSUME EvaluatesNodewise PROVE Spec => []WholeInv
  OBVIOUS
<1>1. Init => WholeInv
  BY DEF Init, WholeInv
<1>2. WholeInv /\ [Next]_vars => WholeInv'
  <2> SUFFICES ASSUME WholeInv, [Next]_vars PROVE WholeInv'
    OBVIOUS
  <2>1. CASE Generate
    BY <2>1 DEF Generate, WholeInv
  <2>2. CASE StartProgram
    BY <2>2 DEF StartProgram, WholeInv
  <2>3. CASE BeginLoad
    <3>1. load' = [completed |-> 0, snapshot |-> <<>>] /\ heard' = <<>> /\ update' = None
      BY <2>3 DEF BeginLoad
    <3>2. SequenceOf(<<>>, 0) /\ 1 .. 0 = {}
      <4>1. <<>> \in Seq({}) /\ Len(<<>>) = 0
        OBVIOUS
      <4> QED
        BY <4>1 DEF SequenceOf
    <3> QED
      BY <3>1, <3>2 DEF WholeInv, PartsOf
  <2>4. ASSUME NEW answer \in Answers, AdvanceLoad("2026-06-17", answer)
        PROVE  WholeInv'
    <3> DEFINE done == load.completed
               stage == Stages[done + 1]
               mapped == map_response(product[stage].response, answer.document)
    <3>1. /\ update = None /\ done \in 0 .. 3
          /\ PartsOf(product, load.snapshot, heard, done)
          /\ product' = product
      BY <2>4 DEF AdvanceLoad, WholeInv
    <3>2. ASSUME NEW result, LoadFails(result)
          PROVE  WholeInv'
      BY <3>2 DEF LoadFails, Session, WholeInv
    <3>3. CASE answer # None /\ StageAnswers(stage, answer) /\ decode_stage(stage, mapped)
      <4> DEFINE snapshot == Append(load.snapshot, mapped)
                 documents == Append(heard, answer.document)
      <4>0. done \in Nat
        BY <3>1
      <4>1. PartOf(product, done + 1, mapped, answer.document)
        <5>1. CASE stage = "profile"
          BY <3>3, <5>1 DEF PartOf, decode_stage
        <5>2. CASE stage # "profile"
          <6>1. mapped.type = "list"
            BY <3>3, <5>2 DEF decode_stage
          <6>2. mapped = Evaluate(product[stage].response, answer.document, NoSource)
            BY <6>1 DEF map_response, Failed
          <6>3. answer.document \in Documents
            BY <3>3 DEF Documents
          <6> HIDE DEF mapped
          <6> QED
            BY <5>2, <6>1, <6>2, <6>3, ListKeepsItems DEF PartOf
        <5> QED
          BY <5>1, <5>2
      <4> HIDE DEF mapped
      <4>2. PartsOf(product, snapshot, documents, done + 1)
        <5>1. Extends(snapshot, load.snapshot, done, mapped)
          BY <3>1, <4>0, Appended DEF PartsOf
        <5>2. Extends(documents, heard, done, answer.document)
          BY <3>1, <4>0, Appended DEF PartsOf
        <5> HIDE DEF snapshot, documents
        <5>3. ASSUME NEW i \in 1 .. done + 1
              PROVE  PartOf(product, i, snapshot[i], documents[i])
          <6>1. CASE i = done + 1
            BY <4>1, <5>1, <5>2, <6>1 DEF Extends
          <6>2. CASE i # done + 1
            <7>1. i \in 1 .. done
              BY <3>1, <6>2
            <7> QED
              BY <3>1, <5>1, <5>2, <7>1 DEF PartsOf, Extends
          <6> QED
            BY <6>1, <6>2
        <5> QED
          BY <5>1, <5>2, <5>3 DEF PartsOf, Extends
      <4>3. /\ heard' = documents
            /\ IF done + 1 < Len(Stages)
               THEN /\ load' = [completed |-> done + 1, snapshot |-> snapshot]
                    /\ update' = update /\ state' = "loading"
               ELSE update' = snapshot /\ state' = "current"
        BY <3>3 DEF StageAnswers, Session, mapped
      <4>4. Len(Stages) = 4
        BY DEF Stages
      <4> HIDE DEF snapshot, documents, stage
      <4>5. CASE done + 1 < 4
        BY <3>1, <4>2, <4>3, <4>4, <4>5 DEF WholeInv
      <4>6. CASE done + 1 = 4
        BY <3>1, <4>2, <4>3, <4>4, <4>6 DEF WholeInv
      <4> QED
        BY <3>1, <4>5, <4>6
    <3>4. CASE StageAnswers(stage, answer) /\ ~decode_stage(stage, mapped)
      <4>1. LoadFails("invalid_response")
        BY <3>4 DEF StageAnswers
      <4> QED
        BY <3>2, <4>1
    <3> QED
      BY <2>4, <3>2, <3>3, <3>4, LoadSteps
  <2>5. ASSUME NEW r \in Recognitions, NEW answer \in Answers, SendRecognition(r, answer)
        PROVE  WholeInv'
    <3>1. update' = None
      BY <2>5 DEF SendRecognition
    <3>2. state' # "loading"
      BY <2>5, SendSteps DEF RecognitionEnds, Session
    <3> QED
      BY <3>1, <3>2 DEF WholeInv
  <2>6. CASE UNCHANGED vars
    BY <2>6 DEF vars, WholeInv
  <2> QED
    BY <2>1, <2>2, <2>3, <2>4, <2>5, <2>6 DEF Next, Done
<1> QED
  BY <1>1, <1>2, PTL DEF Spec

\* DeclarativeDashboardLoad::advance hands over a snapshot only when every stage
\* of this load has its part, each mapped from the answer to its own request;
\* an item that does not fit ends the load and is not dropped from its list.
THEOREM SnapshotAlwaysWhole == EvaluatesNodewise => (Spec => []SnapshotIsWhole)
<1> SUFFICES ASSUME EvaluatesNodewise PROVE Spec => []SnapshotIsWhole
  OBVIOUS
<1>1. WholeInv => SnapshotIsWhole
  <2> SUFFICES ASSUME WholeInv, update # None
               PROVE  /\ Len(heard) = Len(Stages)
                      /\ DOMAIN update = DOMAIN heard
                      /\ \A i \in DOMAIN update : PartOf(product, i, update[i], heard[i])
    BY DEF SnapshotIsWhole, PartOf
  <2>1. PartsOf(product, update, heard, 4)
    BY DEF WholeInv
  <2>2. DOMAIN update = 1 .. 4 /\ DOMAIN heard = 1 .. 4
    BY <2>1 DEF PartsOf, SequenceOf
  <2> QED
    BY <2>1, <2>2 DEF PartsOf, SequenceOf, Stages
<1> QED
  BY <1>1, WholeInvInductive, PTL

-----------------------------------------------------------------------------
(***************************************************************************)
(* The session.  ProductSession lets an adapter answer anything; here the  *)
(* adapter's answers are computed, and of the session there is what they   *)
(* lead to.  The two agree: a session that holds a usable credential, has  *)
(* no claim under way and a clock that stands still.                       *)
(***************************************************************************)
CONSTANTS MinInt, MaxInt, ValidTokens, Held, Now

Bundle == INSTANCE CredentialBundle

Platform == INSTANCE ProductSession
                WITH Credentials <- {Held},
                     Sources <- {},
                     Times <- {Now},
                     Stages <- Len(Stages),
                     ClearMayFail <- FALSE,
                     adapter <- TRUE,
                     claim <- None,
                     client <- IF client THEN Held ELSE None,
                     expiry <- IF client THEN Bundle!DeviceExpiry(Held) ELSE 0,
                     load <- IF state = "loading" THEN load.completed ELSE None,
                     store <- IF client THEN Held ELSE None,
                     now <- Now,
                     fate <- [source \in {} |-> "unused"],
                     request <- IF outcome \in {"none", "ok"} THEN None ELSE Held,
                     result <- IF outcome \in {"recognised", "declined"} THEN "ok" ELSE outcome,
                     rejected <- IF refused THEN {Held} ELSE {}

HeldIsUsable ==
    /\ None \notin Int
    /\ Held # None
    /\ Bundle!IsCredentialUsable(Held, Now)

\* The load under way has so many of its parts, and one that was reported as
\* done has them all.
StagesInv ==
    /\ state = "loading" => /\ load.completed \in 0 .. 3
                            /\ SequenceOf(load.snapshot, load.completed)
    /\ outcome = "loaded" => state = "current" /\ SequenceOf(update, 4)

LEMMA FourStages == Len(Stages) = 4
  BY DEF Stages

LEMMA EmptyLoad == SequenceOf(<<>>, 0)
<1>1. <<>> \in Seq({}) /\ Len(<<>>) = 0
  OBVIOUS
<1> QED
  BY <1>1 DEF SequenceOf

LEMMA StagesInvInductive == Spec => []StagesInv
<1>1. Init => StagesInv
  BY DEF Init, StagesInv
<1>2. StagesInv /\ [Next]_vars => StagesInv'
  <2> SUFFICES ASSUME StagesInv, [Next]_vars PROVE StagesInv'
    OBVIOUS
  <2>1. CASE UNCHANGED <<state, load, update, outcome>>
    BY <2>1 DEF StagesInv
  <2>2. CASE BeginLoad
    <3>1. load' = [completed |-> 0, snapshot |-> <<>>] /\ outcome' = "ok"
      BY <2>2 DEF BeginLoad, Session
    <3> QED
      BY <3>1, EmptyLoad DEF StagesInv
  <2>3. ASSUME NEW answer \in Answers, AdvanceLoad("2026-06-17", answer)
        PROVE  StagesInv'
    <3> DEFINE done == load.completed
               mapped == map_response(product[Stages[done + 1]].response, answer.document)
               snapshot == Append(load.snapshot, mapped)
    <3>1. done \in 0 .. 3 /\ done \in Nat /\ SequenceOf(load.snapshot, done)
      BY <2>3 DEF AdvanceLoad, StagesInv
    <3>2. ASSUME NEW result \in {"invalid_response", "unavailable", "unauthorized"},
                 LoadFails(result)
          PROVE  StagesInv'
      BY <3>2 DEF LoadFails, Session, StagesInv
    <3>3. CASE /\ StageAnswers(Stages[done + 1], answer)
               /\ decode_stage(Stages[done + 1], mapped)
      <4>1. SequenceOf(snapshot, done + 1)
        BY <3>1, Appended DEF Extends
      <4>2. IF done + 1 < 4
            THEN /\ load' = [completed |-> done + 1, snapshot |-> snapshot]
                 /\ state' = "loading" /\ outcome' = "progress"
            ELSE update' = snapshot /\ state' = "current" /\ outcome' = "loaded"
        BY <3>3, FourStages DEF StageAnswers, Session
      <4> HIDE DEF snapshot
      <4> QED
        BY <3>1, <4>1, <4>2 DEF StagesInv
    <3>4. CASE /\ StageAnswers(Stages[done + 1], answer)
               /\ ~decode_stage(Stages[done + 1], mapped)
      BY <3>2, <3>4 DEF StageAnswers
    <3> QED
      BY <2>3, <3>2, <3>3, <3>4, LoadSteps
  <2>4. ASSUME NEW r \in Recognitions, NEW answer \in Answers, SendRecognition(r, answer)
        PROVE  StagesInv'
    BY <2>4, SendSteps DEF RecognitionEnds, Session, StagesInv
  <2> QED
    BY <2>1, <2>2, <2>3, <2>4 DEF Next, Generate, StartProgram, Done, vars
<1> QED
  BY <1>1, <1>2, PTL DEF Spec

\* The console program takes the snapshot of a load that the session reports as
\* done without asking whether there is one: DeclarativeDashboardLoad::advance
\* has one then, with all its parts.
THEOREM LoadedHasSnapshot ==
    Spec => [](outcome = "loaded" => state = "current" /\ Len(update) = Len(Stages))
<1>1. StagesInv => (outcome = "loaded" => state = "current" /\ Len(update) = Len(Stages))
  BY FourStages DEF StagesInv, SequenceOf
<1> QED
  BY <1>1, StagesInvInductive, PTL

\* One request of a load, and a recognition, for a session that has its client
Answered ==
    Platform!BeginDashboardLoad \/ Platform!AdvanceDashboardLoad \/ Platform!SendRecognition

LEMMA HeldExpiry ==
    ASSUME HeldIsUsable
    PROVE  /\ Bundle!DeviceExpiry(Held) = Platform!DeviceExpiry(Held)
           /\ Bundle!DeviceExpiry(Held) > Now
           /\ client = TRUE => Platform!credential_usable
<1>1. Bundle!DeviceExpiry(Held) = Platform!DeviceExpiry(Held)
  BY DEF Bundle!DeviceExpiry, Bundle!OffsetGuardRejects, Platform!DeviceExpiry,
         Platform!OffsetGuardRejects
<1>2. Bundle!DeviceExpiry(Held) > Now
  BY DEF HeldIsUsable, Bundle!IsCredentialUsable
<1> QED
  BY <1>1, <1>2 DEF HeldIsUsable, Platform!credential_usable

\* The backend refused the credential.
LEMMA RefusalAgrees ==
    ASSUME HeldIsUsable, client = TRUE, refused = FALSE,
           client' = FALSE, refused' = TRUE, state' = "expired", outcome' = "unauthorized"
    PROVE  Platform!BackendRefuses
  BY DEF HeldIsUsable, Platform!BackendRefuses, Platform!expire_credential, Platform!cancel_claim,
         Platform!Settled, Platform!DropClient, Platform!ClearStore

LEMMA SessionSteps ==
    ASSUME HeldIsUsable, RefusalInv, StagesInv, [Next]_vars
    PROVE  [Answered]_(Platform!vars)
<1> USE DEF Platform!vars, Platform!owned
<1>0. None \notin Int /\ Held # None
  BY DEF HeldIsUsable
<1>1. CASE UNCHANGED <<state, client, load, outcome, refused>>
  BY <1>1
<1>2. CASE BeginLoad
  <2>1. client = TRUE /\ client' = TRUE /\ refused' = refused /\ load'.completed = 0
    BY <1>2 DEF BeginLoad, RefusalInv
  <2>2. Platform!BeginDashboardLoad
    BY <1>2, <2>1, HeldExpiry DEF BeginLoad, Session, Platform!BeginDashboardLoad
  <2> QED
    BY <2>2 DEF Answered
<1>3. ASSUME NEW answer \in Answers, AdvanceLoad("2026-06-17", answer)
      PROVE  Platform!AdvanceDashboardLoad
  <2> DEFINE done == load.completed
  <2>1. /\ state = "loading" /\ client = TRUE /\ refused = FALSE
        /\ done \in 0 .. 3
    BY <1>3 DEF AdvanceLoad, RefusalInv, OnlyRefusalForgets, StagesInv
  <2>2. SUFFICES outcome' \notin {"none", "ok"} /\ Platform!LoadAnswers
    BY <1>0, <2>1, HeldExpiry DEF Platform!AdvanceDashboardLoad
  <2>3. CASE refused' = TRUE /\ LoadFails("unauthorized")
    BY <2>1, <2>3, RefusalAgrees DEF LoadFails, Session, Platform!LoadAnswers
  <2>4. ASSUME NEW result \in {"invalid_response", "unavailable"},
               refused' = FALSE, LoadFails(result)
        PROVE  outcome' \notin {"none", "ok"} /\ Platform!LoadAnswers
    BY <2>1, <2>4 DEF LoadFails, Session, Platform!LoadAnswers
  <2>5. CASE refused' = FALSE /\ StageAnswers(Stages[done + 1], answer)
    <3>1. CASE LoadFails("invalid_response")
      BY <2>4, <2>5, <3>1
    <3>2. CASE /\ client' = client
               /\ IF done + 1 < 4
                  THEN /\ load'.completed = done + 1
                       /\ state' = "loading" /\ outcome' = "progress"
                  ELSE state' = "current" /\ outcome' = "loaded"
      BY <2>1, <2>5, <3>2, FourStages DEF Platform!LoadAnswers
    <3> QED
      BY <2>5, <3>1, <3>2, FourStages DEF StageAnswers, Session
  <2> QED
    BY <1>3, <2>1, <2>3, <2>4, <2>5, LoadSteps
<1>4. ASSUME NEW r \in Recognitions, NEW answer \in Answers, SendRecognition(r, answer)
      PROVE  Platform!SendRecognition
  <2>1. state = "current" /\ client = TRUE /\ refused = FALSE
    BY <1>4 DEF SendRecognition, RefusalInv, OnlyRefusalForgets
  <2> DEFINE sends == /\ outcome' \notin {"none", "ok"}
                      /\ \/ Platform!BackendRefuses
                         \/ /\ client' = TRUE /\ refused' = FALSE
                            /\ \/ /\ state' = "offline"
                                  /\ outcome' \in {"unavailable", "invalid_response"}
                               \/ /\ state' = "current"
                                  /\ outcome' \in {"recognised", "declined", "invalid_response"}
  <2>2. sends => Platform!SendRecognition
    BY <1>0, <2>1, HeldExpiry DEF Platform!SendRecognition
  <2>3. CASE refused' = TRUE /\ RecognitionEnds("unauthorized")
    <3>1. client' = FALSE /\ state' = "expired" /\ outcome' = "unauthorized"
      BY <2>3 DEF RecognitionEnds, Session
    <3>2. Platform!BackendRefuses
      BY <2>1, <2>3, <3>1, RefusalAgrees
    <3> QED
      BY <2>2, <3>1, <3>2
  <2>4. CASE refused' = FALSE /\ \/ RecognitionEnds("unavailable")
                                 \/ Session("offline", "invalid_response") /\ UNCHANGED client
    <3>1. /\ client' = TRUE /\ state' = "offline"
          /\ outcome' \in {"unavailable", "invalid_response"}
      BY <2>1, <2>4 DEF RecognitionEnds, Session
    <3> QED
      BY <2>2, <2>4, <3>1
  <2>5. ASSUME NEW result \in {"invalid_response", "recognised", "declined"},
               refused' = FALSE, RecognitionEnds(result)
        PROVE  sends
    BY <2>1, <2>5 DEF RecognitionEnds, Session
  <2> HIDE DEF sends
  <2> QED
    BY <1>4, <2>1, <2>2, <2>3, <2>4, <2>5, SendSteps
<1> QED
  BY <1>1, <1>2, <1>3, <1>4 DEF Next, Generate, StartProgram, Done, vars, Answered

\* What GeneratedAdapter lets the session do, ProductSession does: each of its
\* steps is the beginning of a load, a request of one, or a recognition.  What
\* is proved of the session whatever its adapter answers holds for this one.
THEOREM AdapterKeepsToSession == HeldIsUsable => (Spec => [][Answered]_(Platform!vars))
<1> SUFFICES ASSUME HeldIsUsable PROVE Spec => [][Answered]_(Platform!vars)
  OBVIOUS
<1>1. RefusalInv /\ StagesInv /\ [Next]_vars => [Answered]_(Platform!vars)
  BY SessionSteps
<1> QED
  BY <1>1, RefusalInvInductive, StagesInvInductive, PTL DEF Spec

=============================================================================
