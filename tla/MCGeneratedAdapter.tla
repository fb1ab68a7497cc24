-------------------------- MODULE MCGeneratedAdapter --------------------------
(***************************************************************************)
(* The demo product of the repository (products/demo/product.lua), and     *)
(* products that differ from it in one thing; a backend that answers like  *)
(* the demo server, with an item missing something, with what is not JSON, *)
(* with an error, or not at all.                                           *)
(***************************************************************************)
EXTENDS GeneratedAdapter, MappingEvaluator

field(key) == Construct("field", <<Path(<<key>>)>>)
context(key) == Construct("context", <<Path(<<key>>)>>)
string(v) == Construct("string", <<v>>)
date(v) == Construct("date", <<v>>)
number(v) == Construct("number", <<v>>)
optional(v, other) == Construct("optional", <<v, other>>)
list(v, source) == Construct("list", <<v, source>>)

\* office.object
object(fields) == Object("_kind" :> Text("object") @@ fields)

Request(response) ==
    [method |-> "GET", path |-> "/v1", query |-> Null, headers |-> Null, body |-> Null,
     response |-> response, depends_on |-> {}]

Day == object([date |-> date(field("date")), minutes |-> number(field("minutes")),
               expected_minutes |-> Construct("default", <<number(field("expected_minutes")),
                                                           Number(0)>>)])

Demo ==
    [profile |-> Request(object([id |-> string(field("id")),
                                 display_name |-> string(field("display_name")),
                                 role |-> optional(string(field("role")), Text(""))])),
     worklog |-> [Request(list(Day, field("items"))) EXCEPT
                      !.query = Object([week |-> Construct("url_encode", <<context("date")>>)]),
                      !.depends_on = {"profile"}],
     absences |-> Request(list(object([id |-> string(field("id")),
                                       person_name |-> string(field("person_name")),
                                       starts_on |-> date(field("starts_on")),
                                       ends_on |-> date(field("starts_on")),
                                       label |-> string(field("label"))]), field("items"))),
     activity |-> Request(list(object([id |-> string(field("id")),
                                       recipient_id |-> string(field("id")),
                                       recipient_name |-> string(field("id")),
                                       occurred_at |-> date(field("starts_on")),
                                       summary |-> string(field("id")),
                                       allowed_recognition_values |-> field("allowed")]),
                               field("items"))),
     recognition |-> [Request(object([accepted |-> Construct("default", <<field("accepted"),
                                                                          Bool(TRUE)>>),
                                      recognition_id |-> string(field("id"))])) EXCEPT
                          !.method = "POST",
                          !.headers = Object("Content-Type" :> Text("application/json")),
                          !.body = object([source_event_id |-> number(context("activity_id")),
                                           value |-> context("value"),
                                           request_id |-> context("request_id")])]]

\* n optional values inside each other
RECURSIVE Nested(_, _)
Nested(v, n) == IF n = 0 THEN v ELSE Nested(optional(v, Null), n - 1)

ListOf(v) == Object([_kind |-> Text("list"), items |-> v])

MCProducts ==
    {Demo,
     [Demo EXCEPT !.profile.method = "POST"],
     [Demo EXCEPT !.profile.method = "HEAD"],
     [Demo EXCEPT !.recognition.body = Null],
     [Demo EXCEPT !.recognition.body = context("message")],
     [Demo EXCEPT !.profile.response = Nested(@, 3)],
     [Demo EXCEPT !.profile.response = Nested(@, 4)],
     [Demo EXCEPT !.profile.depends_on = {"worklog"}],
     [Demo EXCEPT !.profile.depends_on = {"people"}],
     [Demo EXCEPT !.profile.path = "v1"],
     [Demo EXCEPT !.activity.path = "//host"],
     [Demo EXCEPT !.recognition.headers = Object([AUTHORIZATION |-> Text("Bearer")])],
     [Demo EXCEPT !.recognition.query = Object([week |-> Null])],
     [Demo EXCEPT !.absences.query = Object([week |-> context("week")])],
     [Demo EXCEPT !.absences.headers = context("date")],
     [Demo EXCEPT !.worklog.response = Construct("request", <<field("items")>>)],
     [Demo EXCEPT !.worklog.response = Construct("product", <<field("items")>>)],
     [Demo EXCEPT !.worklog.response = ListOf(Day)],
     [Demo EXCEPT !.worklog.response = ListOf(ListOf(Nested(Day, 1)))],
     [Demo EXCEPT !.worklog.response = ListOf(Nested(Number(0), 6))],
     [Demo EXCEPT !.worklog.response = ListOf(Nested(Number(0), 7))],
     [Demo EXCEPT !.profile.response = Construct("coalesce", <<field("nothing"), @>>)],
     [Demo EXCEPT !.profile.response = optional(@, Float("inf"))],
     [Demo EXCEPT !.recognition.headers = Object("Content-Type" :> Text("\\xff"))],
     [Demo EXCEPT !.worklog.query = Object("\\xff" :> context("date"))],
     [Demo EXCEPT !.absences.response = optional(@, field("\\xff"))],
     [name \in DOMAIN Demo \ {"activity"} |-> Demo[name]]}

Item == [date |-> Text("2026-06-17"), minutes |-> Text("420"), id |-> Text("1"),
         person_name |-> Text("Alex"), starts_on |-> Text("2026-06-17"), label |-> Text("away"),
         allowed |-> List(<<Number(5), Number(1)>>)]

\* 4101 is 5 in its low bits, and 5000 does not fit (MCGeneratedAdapter.cfg).
Expected(minutes) == [expected_minutes |-> Number(minutes)]

Items(items) == Object([items |-> List(items)])

Person == Object([id |-> Text("1"), display_name |-> Text("Alex"), role |-> Number(7)])

MCAnswers ==
    {None} \cup [status : {401, 403, 404, 503}, document : {Failed}] \cup
    [status : {200},
     document :
        {Failed, Null, Person, Items(<<>>), Items(<<Object(Item)>>),
         Items(<<Object(Item), Object([Item EXCEPT !.id = Number(2)])>>),
         Items(<<Object(Item), Object([Item EXCEPT !.id = Null, !.minutes = Text("much")])>>),
         Items(<<Object([Item EXCEPT !.allowed = List(<<Number(13)>>), !.minutes = Number(1441)])>>),
         Items(<<Object([Item EXCEPT !.allowed = List(<<Number(4101)>>)] @@ Expected(5000))>>),
         Items(<<Object(Item @@ Expected(1441))>>),
         Object([id |-> Number(4), accepted |-> Bool(FALSE)])}]

Press == [value |-> 5, activity_id |-> "1", recipient_id |-> "r", message |-> "m", request_id |-> "q"]

MCRecognitions ==
    {Press, [Press EXCEPT !.value = 2], [Press EXCEPT !.activity_id = ""],
     [Press EXCEPT !.request_id = "qqq"], [Press EXCEPT !.message = "mmm"],
     [Press EXCEPT !.activity_id = "a"]}

MCNotUtf8 == {"\\xff"}

MCDecimalTexts == ("1" :> Number(1)) @@ ("420" :> Number(420)) @@ ("7.5" :> Float("7.5"))

=============================================================================
