----------------------------- MODULE DemoService -----------------------------
(***************************************************************************)
(* office_3ds_demo_server: any number of serving processes, `reset` and    *)
(* `issue-token`, each with its own connection to one SQLite database in   *)
(* WAL mode.  A process answers one request at a time (its mutex), so what *)
(* can interleave are the SQL statements of different processes.  A step   *)
(* is a statement, or a whole transaction from the moment it has the write *)
(* lock: nobody sees its statements before COMMIT.                         *)
(*                                                                         *)
(* Clients send a submission as often as they like, as the server's README *)
(* invites them to: an answer may be lost with its connection, a commit    *)
(* may fail, and a process may be killed between any two steps.            *)
(***************************************************************************)
EXTENDS FiniteSetsExt, Integers, Sequences, TLC

CONSTANTS
    Servers, Resetter, Issuer,  \* the processes, by their command
    Requests,         \* the bodies that clients submit
    Tokens,           \* the bearer values that issue-token draws
    Seed,             \* seedLocked: [profiles, events]
    Databases,        \* the databases that may be there at first
    Identifiers,      \* the identifiers that validIdentifier accepts
    kMaximumRequestBytes, kMaximumCommentBytes,
    None,
    MaxResets,        \* bound: how often the database is reset
    MaxTroubles       \* bound: processes killed, commits failed, answers lost, tokens expired

Process == Servers \cup {Resetter, Issuer}

MigratedId(id) == "migrated-" \o ToString(id)

ASSUME DemoConstants ==
    /\ Resetter # Issuer /\ Resetter \notin Servers /\ Issuer \notin Servers
    /\ None \notin Tokens \cup Process
    /\ kMaximumCommentBytes \in Nat /\ \A r \in Requests : r.comment \in Nat

kSchemaVersion == 3

\* The columns of the recognitions table in a schema, and the values it allows
Columns(version) ==
    IF version < 2 THEN {"id", "recipient", "comment"}
    ELSE {"id", "request", "event", "recipient", "value", "comment"}

Values(version) == IF version < 3 THEN {"thank_you", "great_work", "helpful"} ELSE {1, 3, 5}

\* The constraints of the recognitions table since the second schema, but for
\* UNIQUE(request_id)
Fits(d) ==
    \A row \in d.rows : /\ row.event \in d.events
                         /\ row.recipient \in d.profiles
                         /\ row.value \in Values(d.version)
                         /\ row.comment <= kMaximumCommentBytes

\* What the tables' own constraints make sure of in any database: ids are a
\* primary key, AUTOINCREMENT counts ahead of them, their spellings differ, and
\* so do the request ids of the later schemas.
Consistent(d) ==
    /\ DOMAIN d = {"version", "profiles", "events", "rows", "sequence", "tokens"}
    /\ d.version \in Nat
    /\ d.tokens \subseteq Tokens
    /\ d.version <= kSchemaVersion =>
           /\ IsFiniteSet(d.rows) /\ d.sequence \in Nat
           /\ \A row \in d.rows : /\ DOMAIN row = Columns(d.version)
                                  /\ row.id \in 1 .. d.sequence
           /\ \A row, other \in d.rows :
                  /\ row.id = other.id => row = other
                  /\ IF d.version < 2 THEN MigratedId(row.id) = MigratedId(other.id) => row = other
                     ELSE row.request = other.request => row = other
           /\ IF d.version = 0 THEN d.rows = {} ELSE d.version >= 2 => Fits(d)

ASSUME DatabaseConstants == \A d \in Databases : Consistent(d)

VARIABLES
    db,         \* the committed database
    writer,     \* the process that holds the write lock, or None
    pc,         \* the next step of each process
    job,        \* the request that a server works on, and its answer
    file,       \* the token in issue-token's --output file, or None
    expired,    \* the tokens whose expires_at has passed
    troubles,
    resets,     \* history: how often the database was reset
    issued,     \* history: what became of each token
    acked,      \* history: the successful answers that clients have got
    revoked,    \* history: by which server, the rows stored for a revoked token
    initial     \* history: the database at first

data == <<db, writer>>
history == <<resets, issued, acked, revoked, initial>>
vars == <<data, pc, job, file, expired, troubles, history>>

NoJob == [request |-> None, token |-> None, status |-> 0, id |-> 0, epoch |-> 0, reads |-> "latest"]

Init ==
    /\ db \in Databases
    /\ writer = None
    /\ pc = [p \in Process |-> "off"]
    /\ job = [s \in Servers |-> NoJob]
    /\ file = None
    /\ expired = {}
    /\ troubles = 0
    /\ resets = 0
    /\ issued = [t \in Tokens |-> IF t \in db.tokens THEN "known" ELSE "no"]
    /\ acked = {}
    /\ revoked = {}
    /\ initial = db

Goto(p, step) == pc' = [pc EXCEPT ![p] = step]

-----------------------------------------------------------------------------
(* SQLite *)

\* BEGIN IMMEDIATE: waits for another writer, and gives up after five seconds.
Begin(p, step, failure) ==
    /\ \/ writer = None /\ writer' = p /\ Goto(p, step)
       \/ writer # None /\ UNCHANGED writer /\ Goto(p, failure)
    /\ UNCHANGED db

\* COMMIT: a statement that is still open in another process keeps reading the
\* database as it was.
Commit(new) ==
    /\ db' = new
    /\ writer' = None

OthersStale(p) ==
    [s \in Servers |-> IF s # p /\ pc[s] = "begin"
                       THEN [job[s] EXCEPT !.reads = "past"] ELSE job[s]]

\* ~Transaction without commit()
Rollback == writer' = None /\ UNCHANGED db

Trouble == troubles < MaxTroubles /\ troubles' = troubles + 1

-----------------------------------------------------------------------------
(* migrateAndSeed: the first thing every process does *)

Seeded(d) == [d EXCEPT !.profiles = @ \cup Seed.profiles, !.events = @ \cup Seed.events]

\* Version 1 knew no events, no values and no request ids.
ToVersion2(d) ==
    LET kept == {r \in d.rows : /\ r.recipient \in d.profiles
                                /\ 1 \in d.events
                                /\ r.comment <= kMaximumCommentBytes}
        Position(r) == Cardinality({q \in kept : q.id <= r.id})
        new == {[id |-> Position(r), request |-> MigratedId(r.id), event |-> 1,
                 recipient |-> r.recipient, value |-> "thank_you",
                 comment |-> r.comment] : r \in kept}
    IN  [d EXCEPT !.version = 2, !.rows = new, !.sequence = Cardinality(kept)]

\* Fault: the ids are not copied.
ToVersion3_Renumbered(d) ==
    LET Position(r) == Cardinality({q \in d.rows : q.id <= r.id})
    IN  [d EXCEPT !.version = 3,
                  !.rows = {[r EXCEPT !.id = Position(r), !.value = 5] : r \in @},
                  !.sequence = Cardinality(d.rows)]

\* The new table's AUTOINCREMENT starts behind the ids copied into it.
ToVersion3(d) ==
    LET Points(text) == CASE text = "helpful" -> 1
                          [] text = "great_work" -> 3
                          [] OTHER -> 5
    IN  [d EXCEPT !.version = 3,
                  !.rows = {[r EXCEPT !.value = Points(r.value)] : r \in @},
                  !.sequence = Max({r.id : r \in d.rows} \cup {0})]

Migrated(d) ==
    LET d1 == IF d.version < 1 THEN [d EXCEPT !.version = 1] ELSE d
        d2 == IF d1.version < 2 THEN ToVersion2(d1) ELSE d1
        d3 == IF d2.version < 3 THEN ToVersion3(d2) ELSE d2
    IN  Seeded(d3)

\* The process opens the database and takes the write lock at once.
Start(p) ==
    /\ pc[p] = "off"
    /\ p = Resetter => resets < MaxResets
    /\ p = Issuer => \E t \in Tokens : issued[t] = "no"
    /\ writer = None
    /\ writer' = p
    /\ Goto(p, "migrate")
    /\ UNCHANGED <<db, job, file, expired, troubles, history>>

Opens(d) == d.version <= kSchemaVersion /\ Fits(Migrated(d))

\* A database from a newer server is left alone, and the process ends.
Migrate(p) ==
    /\ pc[p] = "migrate"
    /\ \/ /\ Opens(db)
          /\ Commit(Migrated(db))
          /\ job' = IF db' = db THEN job ELSE OthersStale(p)
          /\ Goto(p, CASE p \in Servers -> "idle"
                       [] p = Resetter -> "reset_begins"
                       [] OTHER -> "write_file")
       \/ /\ ~Opens(db)
          /\ Rollback
          /\ Goto(p, "off")
          /\ UNCHANGED job
    /\ UNCHANGED <<file, expired, troubles, history>>

-----------------------------------------------------------------------------
(* reset and issue-token *)

BeginReset ==
    /\ pc[Resetter] = "reset_begins"
    /\ Begin(Resetter, "reset", "off")
    /\ UNCHANGED <<job, file, expired, troubles, history>>

\* Fault: the tables are dropped and created again.
Reset_Recreates ==
    /\ pc[Resetter] = "reset"
    /\ Commit(Seeded([db EXCEPT !.profiles = {}, !.events = {}, !.rows = {}, !.tokens = {},
                                !.sequence = 0]))
    /\ job' = OthersStale(Resetter)
    /\ resets' = resets + 1
    /\ issued' = [t \in Tokens |-> IF t \in db.tokens THEN "revoked" ELSE issued[t]]
    /\ revoked' = {}
    /\ Goto(Resetter, "off")
    /\ UNCHANGED <<file, expired, troubles, acked, initial>>

\* DELETE leaves the AUTOINCREMENT counter where it was.
Reset ==
    /\ pc[Resetter] = "reset"
    /\ Commit(Seeded([db EXCEPT !.profiles = {}, !.events = {}, !.rows = {}, !.tokens = {}]))
    /\ job' = OthersStale(Resetter)
    /\ resets' = resets + 1
    /\ issued' = [t \in Tokens |-> IF t \in db.tokens THEN "revoked" ELSE issued[t]]
    /\ revoked' = {}
    /\ Goto(Resetter, "off")
    /\ UNCHANGED <<file, expired, troubles, acked, initial>>

\* writePrivateFile never overwrites the file of an older token.
WriteTokenFile ==
    /\ pc[Issuer] = "write_file"
    /\ \/ /\ file = None
          /\ \E t \in Tokens :
                 /\ issued[t] = "no"
                 /\ file' = t
                 /\ issued' = [issued EXCEPT ![t] = "in_file"]
          /\ Goto(Issuer, "insert_token")
       \/ /\ file # None
          /\ Goto(Issuer, "off")
          /\ UNCHANGED <<file, issued>>
    /\ UNCHANGED <<data, job, expired, troubles, resets, acked, revoked, initial>>

\* Fault: the file stays behind when the INSERT fails.
InsertToken_KeepsFile ==
    /\ pc[Issuer] = "insert_token"
    /\ IF writer = None
       THEN /\ Commit([db EXCEPT !.tokens = @ \cup {file}])
            /\ job' = OthersStale(Issuer)
            /\ issued' = [issued EXCEPT ![file] = "known"]
       ELSE issued' = [issued EXCEPT ![file] = "failed"] /\ UNCHANGED <<data, job>>
    /\ Goto(Issuer, "off")
    /\ UNCHANGED <<file, expired, troubles, resets, acked, revoked, initial>>

\* The INSERT is a transaction of its own.
InsertToken ==
    /\ pc[Issuer] = "insert_token"
    /\ \/ /\ writer = None
          /\ Commit([db EXCEPT !.tokens = @ \cup {file}])
          /\ job' = OthersStale(Issuer)
          /\ issued' = [issued EXCEPT ![file] = "known"]
          /\ UNCHANGED <<file, troubles>>
       \/ /\ IF writer # None THEN UNCHANGED troubles ELSE Trouble
          /\ file' = None
          /\ issued' = [issued EXCEPT ![file] = "failed"]
          /\ UNCHANGED <<data, job>>
    /\ Goto(Issuer, "off")
    /\ UNCHANGED <<expired, resets, acked, revoked, initial>>

-----------------------------------------------------------------------------
(* POST /v1/recognitions *)

\* What createRecognitionLocked says without asking the database
Rejection(r) ==
    CASE r.size \notin 1 .. kMaximumRequestBytes -> 413
      [] ~r.json -> 400
      [] ~r.typed -> 422
      [] \/ {r.request, r.recipient} \cap Identifiers # {r.request, r.recipient}
         \/ r.event <= 0
         \/ r.value \notin {1, 3, 5}
         \/ r.comment > kMaximumCommentBytes -> 422
      [] OTHER -> 0

Row(r, id) == [id |-> id, request |-> r.request, event |-> r.event,
               recipient |-> r.recipient, value |-> r.value, comment |-> r.comment]

Respond(s, status, id) ==
    /\ Goto(s, "answer")
    /\ job' = [job EXCEPT ![s] = [@ EXCEPT !.status = status, !.id = id, !.epoch = resets,
                                           !.token = None, !.reads = "latest"]]

Unstored == UNCHANGED <<data, file, expired, troubles, history>>

\* Fault: a token that was accepted once is not looked up again.
Authorized_Cached(t) == issued[t] \in {"known", "revoked"}

Authorized(t) == t \in db.tokens \ expired

\* handle, up to its first statement: the credential comes before the body.
Authorize(s, r, t) ==
    /\ pc[s] = "idle"
    /\ LET j == [NoJob EXCEPT !.request = r, !.token = t]
           refused == IF Authorized(t) THEN Rejection(r) ELSE 401
       IN  IF refused # 0
           THEN /\ job' = [job EXCEPT ![s] = [NoJob EXCEPT !.status = refused]]
                /\ Goto(s, "answer")
           ELSE /\ job' = [job EXCEPT ![s] = j]
                /\ Goto(s, "lookup")
    /\ Unstored

\* An identical submission is answered with the recognition already stored.
Lookup(s) ==
    /\ pc[s] = "lookup"
    /\ LET r == job[s].request
           existing == {row \in db.rows : row.request = r.request}
       IN  IF existing = {} THEN Goto(s, "check") /\ UNCHANGED job
           ELSE \E row \in existing :
                    IF row = Row(r, row.id) THEN Respond(s, 200, row.id)
                    ELSE Respond(s, 409, 0)
    /\ Unstored

\* Both statements stay open, and the process goes on reading this database.
Check(s) ==
    /\ pc[s] = "check"
    /\ LET r == job[s].request
       IN  IF r.event \in db.events /\ r.recipient \in db.profiles
           THEN Goto(s, "begin") /\ UNCHANGED job
           ELSE Respond(s, 422, 0)
    /\ Unstored

\* Fault: the statements are finalized before the transaction begins.
BeginInsert_Finalized(s) ==
    /\ pc[s] = "begin"
    /\ Begin(s, "insert", "begin")
    /\ UNCHANGED <<job, file, expired, troubles, history>>

\* A reader cannot become the writer while there is another one, nor after one
\* has committed: SQLITE_BUSY at once.
BeginInsert(s) ==
    /\ pc[s] = "begin"
    /\ IF writer = None /\ job[s].reads = "latest"
       THEN writer' = s /\ Goto(s, "insert") /\ UNCHANGED job
       ELSE UNCHANGED writer /\ Respond(s, 500, 0)
    /\ UNCHANGED <<db, file, expired, troubles, history>>

\* Fault: request_id is not declared UNIQUE.
Unique_Undeclared(r) == TRUE

Inserted(r) == [db EXCEPT !.rows = @ \cup {Row(r, db.sequence + 1)}, !.sequence = @ + 1]

Unique(r) == \A row \in db.rows : row.request # r.request

Insert(s) ==
    /\ pc[s] = "insert"
    /\ LET r == job[s].request
           id == db.sequence + 1
           permitted == Unique(r) /\ Fits(Inserted(r))
       IN  \/ /\ permitted
              /\ Commit(Inserted(r))
              /\ job' = [OthersStale(s) EXCEPT
                             ![s] = [@ EXCEPT !.status = 201, !.id = id, !.epoch = resets,
                                              !.token = None]]
              /\ revoked' = IF job[s].token \in db.tokens THEN revoked ELSE revoked \cup {<<s, id>>}
              /\ Goto(s, "answer")
              /\ UNCHANGED troubles
           \/ /\ IF permitted THEN Trouble ELSE UNCHANGED troubles
              /\ Rollback
              /\ Respond(s, 500, 0)
              /\ UNCHANGED revoked
    /\ UNCHANGED <<file, expired, resets, issued, acked, initial>>

\* The answer arrives, or it is lost.
Answer(s) ==
    /\ pc[s] = "answer"
    /\ LET j == job[s]
       IN  \/ /\ acked' = IF j.status \notin {200, 201} THEN acked
                          ELSE acked \cup {[request |-> j.request, id |-> j.id,
                                            epoch |-> j.epoch]}
              /\ UNCHANGED troubles
           \/ Trouble /\ UNCHANGED acked
    /\ job' = [job EXCEPT ![s] = NoJob]
    /\ Goto(s, "idle")
    /\ UNCHANGED <<data, file, expired, resets, issued, revoked, initial>>

-----------------------------------------------------------------------------
(* The environment *)

\* A process is killed; the next one to open the database rolls it back.
Kill(p) ==
    /\ pc[p] # "off"
    /\ Trouble
    /\ Goto(p, "off")
    /\ writer' = IF writer = p THEN None ELSE writer
    /\ job' = IF p \in Servers THEN [job EXCEPT ![p] = NoJob] ELSE job
    /\ issued' = IF p = Issuer /\ pc[p] = "insert_token"
                 THEN [issued EXCEPT ![file] = "interrupted"] ELSE issued
    /\ UNCHANGED <<db, file, expired, resets, acked, revoked, initial>>

Expire ==
    /\ \E t \in db.tokens \ expired : expired' = expired \cup {t}
    /\ Trouble
    /\ UNCHANGED <<data, pc, job, file, history>>

Handle(s) ==
    \/ Lookup(s) \/ Check(s) \/ BeginInsert(s) \/ Insert(s) \/ Answer(s)

Submit(r) == \E s \in Servers, t \in Tokens : Authorize(s, r, t)

Next ==
    \/ \E p \in Process : Start(p) \/ Migrate(p) \/ Kill(p)
    \/ \E r \in Requests : Submit(r)
    \/ \E s \in Servers : Handle(s)
    \/ BeginReset \/ Reset
    \/ WriteTokenFile \/ InsertToken
    \/ Expire

Spec == Init /\ [][Next]_vars

-----------------------------------------------------------------------------
(* Properties *)

\* A recognition that a client was told is stored is stored, as the client sent
\* it and only once, until the database is reset: however often it was sent,
\* to whichever server, and whatever was killed or lost on the way.
AnsweredIsStoredOnce ==
    \A a \in acked : a.epoch = resets =>
        {row \in db.rows : row.request = a.request.request} = {Row(a.request, a.id)}

\* The id in an answer names one submission, also across resets.
IdNamesOneSubmission ==
    \A a, b \in acked : a.id = b.id => Row(a.request, a.id) = Row(b.request, b.id)

\* No constraint of the table is ever in the way: a database of an older schema
\* opens whatever it holds, and a submission whose event was removed is told so
\* or may be tried again; only a request id can be taken at the last moment.
ConstraintsHold ==
    /\ \A p \in Process : pc[p] = "migrate" /\ initial.version <= kSchemaVersion => Opens(db)
    /\ \A s \in Servers : pc[s] = "insert" => Fits(Inserted(job[s].request))

\* An old database keeps each recognition that the new schema can express,
\* under the id and the request id by which it is known, when several programs
\* open it at once and when some are killed before they are done.
Expressible(old) ==
    initial.version = 1 =>
        /\ old.recipient \in initial.profiles
        /\ 1 \in initial.events
        /\ old.comment <= kMaximumCommentBytes

Carries(row, old) ==
    /\ row.recipient = old.recipient
    /\ row.comment = old.comment
    /\ IF initial.version = 1 THEN row.request = MigratedId(old.id)
       ELSE row.id = old.id /\ row.request = old.request /\ row.event = old.event

MigrationKeepsRecognitions ==
    db.version = kSchemaVersion /\ resets = 0 =>
        \A old \in initial.rows : Expressible(old) =>
            Cardinality({row \in db.rows : Carries(row, old)}) = 1

\* A token file that issue-token leaves behind holds a token that the server
\* knows, or has revoked since, unless the command was killed half way.
TokenFileWorks ==
    pc[Issuer] = "off" /\ file # None /\ issued[file] # "interrupted" =>
        file \in db.tokens \/ issued[file] = "revoked"

\* After a reset a server stores at most one submission with a credential that
\* the reset revoked: the one it had already authorised.
RevokedStoresAtMostOne ==
    \A s \in Servers : Cardinality({id \in {row.id : row \in db.rows} : <<s, id>> \in revoked}) <= 1

=============================================================================
