--------------------------- MODULE GeneratedAdapter ---------------------------
(***************************************************************************)
(* A product's way from product.lua to a running console: the generator    *)
(* accepts the package or refuses it; the adapter factory of the generated *)
(* program builds a declarative adapter from the descriptors, or none; and *)
(* the adapter loads dashboards and sends recognitions through the client  *)
(* of the product session.  Of the session (ProductSession models it       *)
(* whole) there is what an adapter's answers lead to.                      *)
(*                                                                         *)
(* The backend may answer each request with anything, or not at all.       *)
(***************************************************************************)
EXTENDS ProductMapping

CONSTANTS
    Validates(_, _),          \* validate_mapping
    Evaluates(_, _, _, _),    \* evaluate: what a mapping makes of a document
    ListsWithin(_, _),        \* whether so many lists without a mapping are nested at most
    Canonical(_, _),  \* canonical_value: whether a descriptor can be written out,
    Parses(_),        \* and parse_json: whether it can be read again
    Atoms(_),         \* the texts, names and numbers of a descriptor
    Products,         \* the packages, as the Lua script returns them
    AbsolutePaths,    \* the paths that start with a slash,
    SafePaths,        \* and those that the client lets through
    Reserved,         \* header names that the client takes for Authorization
    Answers,          \* what a backend may answer to an operation
    Recognitions,     \* the recognitions that the console may send
    kMaximumIdentifier, kMaximumMessage, kMaximumMinutes,
    Int32Range,       \* how many numbers an int32_t has
    None

Documents == {answer.document : answer \in Answers \ {None}}

IsSequence(s) == s \in Seq({s[i] : i \in DOMAIN s})

\* The list in a document is one.
ASSUME AdapterConstants ==
    /\ kMaximumDepth \in Nat \ {0}
    /\ \A document \in Documents :
           /\ document.type = "list" => IsSequence(document.items)
           /\ Has(document, "items") /\ document.fields["items"].type = "list" =>
                  IsSequence(document.fields["items"].items)

VARIABLES
    product,    \* the package
    generated,  \* its program: not built, "refused", or "built"
    adapter,    \* whether the factory returned an adapter
    state,      \* of the session
    client,     \* whether the session still holds a credential
    load,       \* the load under way, or None
    update,     \* the snapshot just delivered, or None
    outcome,    \* what the last operation reported
    heard,      \* history: the documents that the load under way was given
    refused     \* history: whether the backend refused the credential

vars == <<product, generated, adapter, state, client, load, update, outcome, heard, refused>>

-----------------------------------------------------------------------------
(* load_product *)

Stages == <<"profile", "worklog", "absences", "activity">>
required_operations == {Stages[i] : i \in DOMAIN Stages} \cup {"recognition"}
Methods == {"GET", "POST", "PUT", "PATCH", "DELETE"}
required_method(name) == IF name = "recognition" THEN "POST" ELSE "GET"

\* Every set of operations has one that depends on none of the set.
Acyclic(operations) ==
    \A names \in SUBSET DOMAIN operations \ {{}} :
        \E name \in names : operations[name].depends_on \cap names = {}

\* Fault: the depth is counted from the descriptor.
valid_request_FromZero(operation) ==
    /\ operation.method \in Methods
    /\ operation.path \in AbsolutePaths
    /\ \A field \in {"query", "headers", "body", "response"} :
           Validates(operation[field], 0) /\ Canonical(operation[field], 0)

\* One declaration: the depth is counted from the request for the constructors,
\* and from the descriptor when it is written out.
valid_request(operation) ==
    /\ operation.method \in Methods
    /\ operation.path \in AbsolutePaths
    /\ \A field \in {"query", "headers", "body", "response"} :
           Validates(operation[field], 1) /\ Canonical(operation[field], 0)

\* Fault: the methods are not compared.
validate_generated_adapter_contract_AnyMethod(operations) ==
    /\ \A name \in required_operations : operations[name].response # Null
    /\ operations["recognition"].body # Null

validate_generated_adapter_contract(operations) ==
    /\ \A name \in required_operations : /\ operations[name].method = required_method(name)
                                         /\ operations[name].response # Null
    /\ operations["recognition"].body # Null

parse_product(operations) ==
    /\ required_operations \subseteq DOMAIN operations
    /\ \A name \in DOMAIN operations :
           /\ valid_request(operations[name])
           /\ operations[name].depends_on \subseteq DOMAIN operations
    /\ Acyclic(operations)
    /\ validate_generated_adapter_contract(operations)

-----------------------------------------------------------------------------
(* create_declarative_adapter *)

valid_operation(operation, method) ==
    /\ operation.method = method
    /\ operation.path \in AbsolutePaths
    /\ \A field \in {"query", "headers", "body", "response"} : Parses(operation[field])

create_declarative_adapter(operations) ==
    \A name \in required_operations : valid_operation(operations[name], required_method(name))

-----------------------------------------------------------------------------
(* Requests *)

NoSource == Object(<<>>)

Evaluate(mapping, source, context) == Evaluates(mapping, source, context, kMaximumDepth)

\* append_descriptor_values: the names and texts of a descriptor, or Failed
DescriptorValues(descriptor, context) ==
    LET value == Evaluate(descriptor, NoSource, context)
    IN  IF descriptor = Null THEN NoSource
        ELSE IF value.type # "object" THEN Failed
        ELSE IF \E key \in DOMAIN value.fields : scalar_string(value.fields[key]) = Failed
        THEN Failed
        ELSE Object([key \in DOMAIN value.fields |-> scalar_string(value.fields[key])])

request_for(operation, context) ==
    /\ DescriptorValues(operation.query, context) # Failed
    /\ DescriptorValues(operation.headers, context) # Failed

\* DirectApiClient::execute throws on the others.
Executable(operation, context) ==
    /\ operation.path \in SafePaths
    /\ DOMAIN DescriptorValues(operation.headers, context).fields \cap Reserved = {}

\* Fault: every client error counts as a refused credential.
response_error_AnyClientError(answer) ==
    IF answer = None THEN "unavailable"
    ELSE IF answer.status \in 400 .. 499 THEN "unauthorized"
    ELSE IF answer.status \notin 200 .. 299 THEN "unavailable"
    ELSE "ok"

response_error(answer) ==
    IF answer = None THEN "unavailable"
    ELSE IF answer.status \in {401, 403} THEN "unauthorized"
    ELSE IF answer.status \notin 200 .. 299 THEN "unavailable"
    ELSE "ok"

\* A body that is not JSON is the document Failed.
map_response(mapping, document) ==
    IF document = Failed THEN Failed ELSE Evaluate(mapping, document, NoSource)

-----------------------------------------------------------------------------
(* What a stage takes for its part of the snapshot *)

required_string(v, key) == Has(v, key) /\ v.fields[key].type = "text" /\ v.fields[key].text # ""

Int32 == -(Int32Range \div 2) .. Int32Range \div 2 - 1

\* required_int32 has a value.
ReadsInt32(v, key) ==
    Has(v, key) /\ v.fields[key].type = "number" /\ v.fields[key].number \in Int32

\* get<std::int32_t>() keeps the low bits of what does not fit.
Narrowed(n) == ((n + Int32Range \div 2) % Int32Range) - Int32Range \div 2

mapped_profile(v) == required_string(v, "id") /\ required_string(v, "display_name")

\* expected_minutes counts as zero when it is missing, no whole number, or one
\* that does not fit an int32_t.
mapped_worklog(v) ==
    /\ required_string(v, "date")
    /\ ReadsInt32(v, "minutes")
    /\ \A key \in {"minutes", "expected_minutes"} :
           ReadsInt32(v, key) => v.fields[key].number \in 0 .. kMaximumMinutes

mapped_absences(v) ==
    \A key \in {"id", "person_name", "starts_on", "ends_on", "label"} : required_string(v, key)

mapped_activity(v) ==
    /\ \A key \in {"id", "recipient_id", "recipient_name", "occurred_at", "summary"} :
           required_string(v, key)
    /\ Has(v, "allowed_recognition_values")
    /\ LET allowed == v.fields["allowed_recognition_values"]
       IN  /\ allowed.type = "list"
           /\ allowed.items # <<>>
           /\ \A i \in DOMAIN allowed.items : /\ allowed.items[i].type = "number"
                                              /\ Narrowed(allowed.items[i].number) \in {1, 3, 5}

decode_stage(stage, v) ==
    IF stage = "profile" THEN mapped_profile(v)
    ELSE /\ v.type = "list"
         /\ \A i \in DOMAIN v.items : CASE stage = "worklog" -> mapped_worklog(v.items[i])
                                        [] stage = "absences" -> mapped_absences(v.items[i])
                                        [] OTHER -> mapped_activity(v.items[i])

-----------------------------------------------------------------------------
(* The behaviour *)

Init ==
    /\ product \in Products
    /\ generated = "no"
    /\ adapter = FALSE
    /\ state = "ready"
    /\ client = TRUE
    /\ load = None
    /\ update = None
    /\ outcome = "none"
    /\ heard = <<>>
    /\ refused = FALSE

Generate ==
    /\ generated = "no"
    /\ generated' = IF parse_product(product) THEN "built" ELSE "refused"
    /\ UNCHANGED <<product, adapter, state, client, load, update, outcome, heard, refused>>

\* The console constructs its session with what the factory returns.
StartProgram ==
    /\ generated = "built"
    /\ generated' = "running"
    /\ adapter' = create_declarative_adapter(product)
    /\ UNCHANGED <<product, state, client, load, update, outcome, heard, refused>>

Session(to, result) == state' = to /\ outcome' = result

BeginLoad ==
    /\ generated = "running" /\ adapter
    /\ state \in {"ready", "current", "offline"}
    /\ client
    /\ load' = [completed |-> 0, snapshot |-> <<>>]
    /\ Session("loading", "ok")
    /\ heard' = <<>>
    /\ update' = None
    /\ UNCHANGED <<product, generated, adapter, client, refused>>

\* What the session makes of a load that ended early
LoadFails(result) ==
    /\ load' = None
    /\ update' = None
    /\ IF result = "unauthorized"
       THEN client' = FALSE /\ Session("expired", result)
       ELSE UNCHANGED client /\ Session("offline", result)

\* One stage has its answer.
StageAnswers(stage, answer) ==
    LET mapped == map_response(product[stage].response, answer.document)
        snapshot == Append(load.snapshot, mapped)
        completed == load.completed + 1
    IN  IF ~decode_stage(stage, mapped)
        THEN LoadFails("invalid_response") /\ UNCHANGED heard
        ELSE /\ heard' = Append(heard, answer.document)
             /\ IF completed < Len(Stages)
                THEN /\ load' = [completed |-> completed, snapshot |-> snapshot]
                     /\ UNCHANGED update
                     /\ Session("loading", "progress")
                ELSE /\ load' = None
                     /\ update' = snapshot
                     /\ Session("current", "loaded")
             /\ UNCHANGED client

\* The load makes its next request, if its descriptors can be evaluated and the
\* client sends what they make.
Sends(operation, context) == request_for(operation, context) /\ Executable(operation, context)

AdvanceLoad(today, answer) ==
    /\ state = "loading"
    /\ LET stage == Stages[load.completed + 1]
           context == Object([date |-> Text(today)])
           result == response_error(answer)
       IN  IF ~Sends(product[stage], context)
           THEN LoadFails("invalid_response") /\ UNCHANGED <<heard, refused>>
           ELSE /\ refused' = (answer # None /\ answer.status \in {401, 403})
                /\ IF result = "ok" THEN StageAnswers(stage, answer)
                   ELSE LoadFails(result) /\ UNCHANGED heard
    /\ UNCHANGED <<product, generated, adapter>>

Supported(r) ==
    /\ r.value \in {1, 3, 5}
    /\ \A id \in {r.request_id, r.recipient_id, r.activity_id} : Len(id) \in 1 .. kMaximumIdentifier
    /\ Len(r.message) <= kMaximumMessage

RecognitionContext(r) ==
    Object([activity_id |-> Text(r.activity_id), recipient_id |-> Text(r.recipient_id),
            value |-> Number(r.value), message |-> Text(r.message),
            request_id |-> Text(r.request_id)])

\* What the session makes of the answer to a recognition
RecognitionEnds(result) ==
    CASE result = "unauthorized" -> client' = FALSE /\ Session("expired", result)
      [] result = "unavailable" -> UNCHANGED client /\ Session("offline", result)
      [] OTHER -> UNCHANGED client /\ Session("current", result)

accepted(mapped) == Has(mapped, "accepted") /\ mapped.fields["accepted"].type = "bool"

SendRecognition(r, answer) ==
    /\ state = "current"
    /\ LET operation == product["recognition"]
           context == RecognitionContext(r)
           body == Evaluate(operation.body, NoSource, context)
           mapped == map_response(operation.response, answer.document)
           result == response_error(answer)
       IN  IF ~Supported(r) \/ ~request_for(operation, context) \/ body.type # "object"
           THEN RecognitionEnds("invalid_response") /\ UNCHANGED refused
           ELSE IF ~Executable(operation, context)
           THEN Session("offline", "invalid_response") /\ UNCHANGED <<client, refused>>
           ELSE /\ refused' = (answer # None /\ answer.status \in {401, 403})
                /\ IF result # "ok" THEN RecognitionEnds(result)
                   ELSE IF ~accepted(mapped) \/ ~required_string(mapped, "recognition_id")
                   THEN RecognitionEnds("invalid_response")
                   ELSE RecognitionEnds(IF mapped.fields["accepted"].bool
                                        THEN "recognised" ELSE "declined")
    /\ load' = None
    /\ update' = None
    /\ UNCHANGED <<product, generated, adapter, heard>>

Done ==
    /\ generated = "refused" \/ (generated = "running" /\ ~adapter) \/ ~client
    /\ UNCHANGED vars

Next ==
    \/ Generate
    \/ StartProgram
    \/ BeginLoad
    \/ \E answer \in Answers : AdvanceLoad("2026-06-17", answer)
    \/ \E r \in Recognitions, answer \in Answers : SendRecognition(r, answer)
    \/ Done

Spec == Init /\ [][Next]_vars

-----------------------------------------------------------------------------
(* Properties *)

\* The words of an operation that the adapter is to read again
Words(operation) ==
    UNION {Atoms(operation[field]) : field \in {"query", "headers", "body", "response"}}

\* The factory agrees with the generator on every product but one kind: the
\* generator lets through, and the build turns into a program, descriptors with
\* a number that is not finite or a text or name that is not UTF-8
\* (canonical_value and json_string look at neither); the console then runs
\* without an adapter and each of its operations fails.  For nothing else that
\* the generator accepts is there no adapter.
AcceptedProductBuilds ==
    generated = "running" =>
        (adapter <=> \A name \in required_operations : Words(product[name]) \cap Unwritable = {})

\* The console evaluates every response mapping that the generator accepted to
\* the end: the two count the depth from different places, and a list without a mapping
\* of its own costs the evaluator a level more, of which there is one to spare.
EvaluatorHasTheDepth ==
    generated = "built" =>
        \A name \in required_operations, document \in Documents \ {Failed} :
            LET mapping == product[name].response
            IN  ListsWithin(mapping, 1) =>
                    Evaluate(mapping, document, NoSource) =
                        Evaluates(mapping, document, NoSource, 2 * kMaximumDepth)

\* A snapshot that the console shows is whole: all four parts come from answers
\* to this load, and a list made of a document's items has as many entries.
ListsItems(mapping) ==
    /\ Tagged(mapping, "list")
    /\ Has(mapping, "2") => mapping.fields["2"] = Construct("field", <<Path(<<"items">>)>>)

Listed(document) == IF document.type = "list" THEN document.items ELSE document.fields["items"].items

SnapshotIsWhole ==
    update # None =>
        /\ Len(heard) = Len(Stages)
        /\ DOMAIN update = DOMAIN heard
        /\ \A i \in DOMAIN update :
               IF Stages[i] = "profile" THEN mapped_profile(update[i])
               ELSE ListsItems(product[Stages[i]].response) =>
                        Len(update[i].items) = Len(Listed(heard[i]))

\* The credential is forgotten exactly when the backend refused it: not for an
\* answer that is missing, broken or about something else.
OnlyRefusalForgets == client <=> ~refused

=============================================================================
