-------------------------- MODULE DemoServiceProofs --------------------------
(***************************************************************************)
(* The demo server's database, proved for any number of serving processes, *)
(* tokens, submissions, resets, kills and lost answers, and any database   *)
(* that is there at first.                                                 *)
(***************************************************************************)
EXTENDS DemoService, FiniteSetTheorems, WellFoundedInduction, TLAPS

Working == {"lookup", "check", "begin", "insert"}

Steps == {"off", "migrate", "idle", "answer", "reset_begins", "reset", "write_file",
          "insert_token"} \cup Working

TypeOK ==
    /\ Consistent(db)
    /\ writer \in Process \cup {None}
    /\ pc \in [Process -> Steps]
    /\ DOMAIN job = Servers
    /\ \A s \in Servers : DOMAIN job[s] = DOMAIN NoJob /\ job[s].epoch \in Nat
    /\ file \in Tokens \cup {None}
    /\ expired \subseteq Tokens
    /\ issued \in [Tokens -> {"no", "in_file", "failed", "interrupted", "known", "revoked"}]
    /\ troubles \in Nat
    /\ resets \in Nat

-----------------------------------------------------------------------------
(* Finite sets of numbers *)

\* A set of natural numbers that is not empty has a least element.
LEMMA LeastNatural ==
    ASSUME NEW S, S \subseteq Nat, S # {}
    PROVE  \E m \in S : \A n \in S : m <= n
<1> DEFINE R == {p \in Nat \X Nat : p[1] < p[2]}
<1>1. IsWellFoundedOn(R, Nat)
  BY NatLessThanWellFounded DEF OpToRel
<1>2. \E m \in S : \A n \in S : <<n, m>> \notin R
  <2> HIDE DEF R
  <2> QED BY <1>1, WFMin
<1>3. \A m, n \in Nat : <<n, m>> \notin R => m <= n
  OBVIOUS
<1> HIDE DEF R
<1> QED BY <1>2, <1>3

\* A finite set of integers that is not empty has a greatest element.
LEMMA MaxOfFinite ==
    ASSUME NEW S, S \subseteq Int, IsFiniteSet(S), S # {}
    PROVE  /\ Max(S) \in S
           /\ \A n \in S : n <= Max(S)
<1> DEFINE Above(n) == {k \in S : k > n}
           Sizes == {Cardinality(Above(n)) : n \in S}
<1>1. \A n \in S : IsFiniteSet(Above(n)) /\ Cardinality(Above(n)) \in Nat
  BY FS_Subset, FS_CardinalityType
<1>2. PICK n \in S : \A k \in S : Cardinality(Above(n)) <= Cardinality(Above(k))
  <2>1. Sizes \subseteq Nat /\ Sizes # {}
    BY <1>1
  <2>2. PICK m \in Sizes : \A k \in Sizes : m <= k
    BY <2>1, LeastNatural
  <2> QED BY <2>2
<1>3. \A k \in S : k <= n
  <2> SUFFICES ASSUME NEW k \in S, k > n PROVE FALSE
    OBVIOUS
  <2>0. k \in Above(n) /\ k \notin Above(k)
    OBVIOUS
  <2>1. Above(k) \subseteq Above(n) /\ Above(k) # Above(n)
    <3>1. Above(k) \subseteq Above(n)
      <4>1. \A j \in S : j \in Int /\ (j > k => j > n)
        OBVIOUS
      <4> QED BY <4>1
    <3> QED BY <3>1, <2>0
  <2>2. Cardinality(Above(k)) < Cardinality(Above(n))
    BY <2>1, <1>1, FS_Subset
  <2> QED BY <2>2, <1>1, <1>2
<1> QED BY <1>3 DEF Max

LEMMA ImageIsFinite ==
    ASSUME NEW S, NEW T, NEW f \in [S -> T], IsFiniteSet(S),
           \A y \in T : \E x \in S : f[x] = y
    PROVE  IsFiniteSet(T)
<1>1. f \in Surjection(S, T)
  BY DEF Surjection
<1> QED BY <1>1, FS_Surjection

-----------------------------------------------------------------------------
(* What a commit leaves of a database *)

\* A database that the current program reads: what Consistent says of it
LEMMA Readable ==
    ASSUME NEW d, DOMAIN d = {"version", "profiles", "events", "rows", "sequence", "tokens"},
           d.version \in 1 .. kSchemaVersion, d.tokens \subseteq Tokens,
           IsFiniteSet(d.rows), d.sequence \in Nat,
           \A row \in d.rows : DOMAIN row = Columns(d.version) /\ row.id \in 1 .. d.sequence,
           \A row, other \in d.rows : row.id = other.id => row = other,
           d.version < 2 => \A row, other \in d.rows :
                                MigratedId(row.id) = MigratedId(other.id) => row = other,
           d.version >= 2 => \A row, other \in d.rows : row.request = other.request => row = other,
           d.version >= 2 => Fits(d)
    PROVE  Consistent(d)
  BY DEF Consistent, kSchemaVersion

LEMMA SeededDatabase ==
    ASSUME NEW d, Consistent(d)
    PROVE  /\ Consistent(Seeded(d))
           /\ Seeded(d).version = d.version
           /\ Seeded(d).tokens = d.tokens
           /\ Seeded(d).rows = d.rows
           /\ Seeded(d).sequence = d.sequence
<1>1. DOMAIN d = {"version", "profiles", "events", "rows", "sequence", "tokens"}
  BY DEF Consistent
<1>2. /\ DOMAIN Seeded(d) = DOMAIN d /\ Seeded(d).version = d.version
      /\ Seeded(d).tokens = d.tokens /\ Seeded(d).rows = d.rows
      /\ Seeded(d).sequence = d.sequence
      /\ d.events \subseteq Seeded(d).events /\ d.profiles \subseteq Seeded(d).profiles
  BY <1>1, Zenon DEF Seeded
<1>3. Fits(d) => Fits(Seeded(d))
  BY <1>2 DEF Fits
<1> QED
  BY <1>2, <1>3 DEF Consistent

LEMMA Schema2 ==
    ASSUME NEW d, Consistent(d), d.version < 2
    PROVE  /\ Consistent(ToVersion2(d))
           /\ ToVersion2(d).version = 2
           /\ ToVersion2(d).tokens = d.tokens
           /\ \A r \in d.rows :
                  r.recipient \in d.profiles /\ 1 \in d.events /\ r.comment <= kMaximumCommentBytes
                  => \E row \in ToVersion2(d).rows : /\ row.request = MigratedId(r.id)
                                                     /\ row.recipient = r.recipient
                                                     /\ row.comment = r.comment
<1> DEFINE kept == {r \in d.rows : /\ r.recipient \in d.profiles
                                   /\ 1 \in d.events
                                   /\ r.comment <= kMaximumCommentBytes}
           UpTo(r) == {q \in kept : q.id <= r.id}
           Position(r) == Cardinality(UpTo(r))
           Copy(r) == [id |-> Position(r), request |-> MigratedId(r.id), event |-> 1,
                       recipient |-> r.recipient, value |-> "thank_you",
                       comment |-> r.comment]
           new == {Copy(r) : r \in kept}
<1>0. /\ DOMAIN d = {"version", "profiles", "events", "rows", "sequence", "tokens"}
      /\ d.tokens \subseteq Tokens /\ IsFiniteSet(d.rows) /\ \A r \in d.rows : r.id \in Nat
      /\ \A r, q \in d.rows : (r.id = q.id \/ MigratedId(r.id) = MigratedId(q.id)) => r = q
  BY DEF Consistent, kSchemaVersion
<1>1. IsFiniteSet(kept) /\ Cardinality(kept) \in Nat
  <2>1. kept \subseteq d.rows
    OBVIOUS
  <2> QED BY <1>0, <2>1, FS_Subset, FS_CardinalityType
<1>2. ASSUME NEW r \in kept
      PROVE  /\ IsFiniteSet(UpTo(r)) /\ Position(r) \in 1 .. Cardinality(kept)
  <2>1. UpTo(r) \subseteq kept /\ r \in UpTo(r)
    BY <1>0
  <2> HIDE DEF kept, UpTo
  <2>2. /\ IsFiniteSet(UpTo(r)) /\ Cardinality(UpTo(r)) <= Cardinality(kept)
    BY <1>1, <2>1, FS_Subset
  <2>3. Cardinality(UpTo(r)) \in Nat /\ Cardinality(UpTo(r)) # 0
    BY <2>1, <2>2, FS_CardinalityType, FS_EmptySet
  <2> QED BY <1>1, <2>2, <2>3
<1>3. ASSUME NEW r \in kept, NEW q \in kept, Position(r) = Position(q)
      PROVE  r = q
  <2>1. ASSUME NEW x \in kept, NEW y \in kept, x.id < y.id
        PROVE  Position(x) < Position(y)
    <3>1. UpTo(x) \subseteq UpTo(y) /\ y \in UpTo(y) /\ y \notin UpTo(x)
      <4>1. \A k \in kept : k.id \in Nat
        BY <1>0
      <4> HIDE DEF kept
      <4> QED BY <2>1, <4>1
    <3>2. /\ IsFiniteSet(UpTo(x)) /\ IsFiniteSet(UpTo(y))
          /\ Cardinality(UpTo(x)) \in Nat /\ Cardinality(UpTo(y)) \in Nat
      BY <1>2, FS_CardinalityType
    <3> HIDE DEF UpTo, kept
    <3>3. /\ Cardinality(UpTo(x)) <= Cardinality(UpTo(y))
          /\ Cardinality(UpTo(y)) = Cardinality(UpTo(x)) => UpTo(y) = UpTo(x)
      BY <3>1, <3>2, FS_Subset
    <3> QED BY <3>1, <3>2, <3>3
  <2>2. r.id \in Nat /\ q.id \in Nat /\ r \in d.rows /\ q \in d.rows
    BY <1>0
  <2>3. Position(r) \in Nat /\ Position(q) \in Nat
    <3>1. /\ Position(r) \in 1 .. Cardinality(kept) /\ Position(q) \in 1 .. Cardinality(kept)
          /\ Cardinality(kept) \in Nat
      BY <1>1, <1>2
    <3> HIDE DEF Position, kept
    <3> QED BY <3>1
  <2> HIDE DEF Position, kept
  <2>4. ~(r.id < q.id) /\ ~(q.id < r.id)
    BY <1>3, <2>1, <2>3
  <2> QED BY <1>0, <2>2, <2>4
<1>4. /\ DOMAIN ToVersion2(d) = DOMAIN d /\ ToVersion2(d).version = 2
      /\ ToVersion2(d).tokens = d.tokens /\ ToVersion2(d).rows = new
      /\ ToVersion2(d).sequence = Cardinality(kept)
      /\ ToVersion2(d).events = d.events /\ ToVersion2(d).profiles = d.profiles
  BY <1>0, Zenon DEF ToVersion2
<1>5. \A r \in kept : /\ r \in d.rows /\ r.recipient \in d.profiles /\ 1 \in d.events
                      /\ r.comment <= kMaximumCommentBytes
  OBVIOUS
<1>6. \A r \in kept : /\ Copy(r).id = Position(r) /\ Copy(r).request = MigratedId(r.id)
                      /\ Copy(r).recipient = r.recipient /\ Copy(r).comment = r.comment
                      /\ Copy(r).event = 1 /\ Copy(r).value = "thank_you"
                      /\ DOMAIN Copy(r) = Columns(2)
  <2> HIDE DEF kept, Position
  <2> QED BY DEF Columns
<1> HIDE DEF Copy, Position
<1>7. IsFiniteSet(new)
  <2> HIDE DEF kept
  <2> DEFINE f == [r \in kept |-> Copy(r)]
  <2>1. f \in [kept -> new] /\ \A y \in new : \E x \in kept : f[x] = y
    OBVIOUS
  <2> HIDE DEF f, new
  <2> QED BY <1>1, <2>1, ImageIsFinite
<1>8. \A r \in d.rows :
          r.recipient \in d.profiles /\ 1 \in d.events /\ r.comment <= kMaximumCommentBytes
          => \E row \in new : /\ row.request = MigratedId(r.id)
                              /\ row.recipient = r.recipient
                              /\ row.comment = r.comment
  BY <1>6
<1> HIDE DEF kept
<1>9. \A row \in new : DOMAIN row = Columns(2) /\ row.id \in 1 .. Cardinality(kept)
  BY <1>2, <1>6
<1>10. \A row, other \in new : row.id = other.id \/ row.request = other.request => row = other
  BY <1>0, <1>3, <1>5, <1>6
<1>11. Fits(ToVersion2(d))
  BY <1>4, <1>5, <1>6 DEF Fits, Values
<1> HIDE DEF new
<1>12. Consistent(ToVersion2(d))
  BY <1>0, <1>1, <1>4, <1>7, <1>9, <1>10, <1>11, Readable DEF kSchemaVersion
<1> QED
  BY <1>4, <1>8, <1>12

LEMMA Schema3 ==
    ASSUME NEW d, Consistent(d), d.version = 2
    PROVE  /\ Consistent(ToVersion3(d))
           /\ ToVersion3(d).version = 3
           /\ ToVersion3(d).tokens = d.tokens
           /\ \A r \in d.rows : \E row \in ToVersion3(d).rows :
                  /\ row.id = r.id /\ row.request = r.request /\ row.event = r.event
                  /\ row.recipient = r.recipient /\ row.comment = r.comment
<1> DEFINE Points(text) == CASE text = "helpful" -> 1
                             [] text = "great_work" -> 3
                             [] OTHER -> 5
           Copy(r) == [r EXCEPT !.value = Points(r.value)]
           new == {Copy(r) : r \in d.rows}
           ids == {r.id : r \in d.rows} \cup {0}
<1>0. /\ DOMAIN d = {"version", "profiles", "events", "rows", "sequence", "tokens"}
      /\ d.tokens \subseteq Tokens /\ IsFiniteSet(d.rows)
      /\ \A r \in d.rows : DOMAIN r = Columns(2) /\ r.id \in Nat /\ r.id >= 1
      /\ \A r, q \in d.rows : (r.id = q.id \/ r.request = q.request) => r = q
      /\ Fits(d)
  BY DEF Consistent, kSchemaVersion
<1>1. /\ DOMAIN ToVersion3(d) = DOMAIN d /\ ToVersion3(d).version = 3
      /\ ToVersion3(d).tokens = d.tokens /\ ToVersion3(d).rows = new
      /\ ToVersion3(d).sequence = Max(ids)
      /\ ToVersion3(d).events = d.events /\ ToVersion3(d).profiles = d.profiles
  BY <1>0, Zenon DEF ToVersion3
<1>2. ASSUME NEW r \in d.rows
      PROVE  /\ DOMAIN Copy(r) = Columns(3) /\ Copy(r).request = r.request
             /\ Copy(r).id = r.id /\ Copy(r).event = r.event /\ Copy(r).value = Points(r.value)
             /\ Copy(r).recipient = r.recipient /\ Copy(r).comment = r.comment
  <2> HIDE DEF Points
  <2>1. DOMAIN r = {"id", "request", "event", "recipient", "value", "comment"}
    BY <1>0 DEF Columns
  <2>2. /\ DOMAIN Copy(r) = DOMAIN r /\ Copy(r).request = r.request
        /\ Copy(r).id = r.id /\ Copy(r).event = r.event /\ Copy(r).value = Points(r.value)
        /\ Copy(r).recipient = r.recipient /\ Copy(r).comment = r.comment
    BY <2>1, Zenon
  <2> QED
    BY <2>1, <2>2 DEF Columns
<1>3. \A r \in d.rows : Points(r.value) \in {1, 3, 5}
  OBVIOUS
<1> HIDE DEF Copy, Points
<1>4. IsFiniteSet(new)
  <2> DEFINE f == [r \in d.rows |-> Copy(r)]
  <2>1. f \in [d.rows -> new] /\ \A y \in new : \E x \in d.rows : f[x] = y
    OBVIOUS
  <2> HIDE DEF f, new
  <2> QED BY <1>0, <2>1, ImageIsFinite
<1>5. Max(ids) \in Nat /\ \A r \in d.rows : r.id <= Max(ids)
  <2>1. ids \subseteq Nat /\ 0 \in ids
    BY <1>0
  <2>2. IsFiniteSet(ids)
    <3> DEFINE T == {r.id : r \in d.rows}
               f == [r \in d.rows |-> r.id]
    <3>1. f \in [d.rows -> T] /\ \A y \in T : \E x \in d.rows : f[x] = y
      OBVIOUS
    <3> HIDE DEF f, T
    <3>2. IsFiniteSet(T)
      BY <1>0, <3>1, ImageIsFinite
    <3> QED BY <3>2, FS_AddElement DEF T
  <2>3. \A r \in d.rows : r.id \in ids
    OBVIOUS
  <2> HIDE DEF ids
  <2>4. ids \subseteq Int /\ ids # {}
    BY <2>1
  <2>5. Max(ids) \in ids /\ \A n \in ids : n <= Max(ids)
    BY <2>2, <2>4, MaxOfFinite
  <2> QED BY <2>1, <2>3, <2>5
<1> HIDE DEF ids
<1>6. \A row \in new : DOMAIN row = Columns(3) /\ row.id \in 1 .. Max(ids)
  BY <1>0, <1>2, <1>5
<1>7. \A row, other \in new : row.id = other.id \/ row.request = other.request => row = other
  BY <1>0, <1>2
<1>8. Fits(ToVersion3(d))
  BY <1>0, <1>1, <1>2, <1>3 DEF Fits, Values
<1>9. \A r \in d.rows : \E row \in new :
          /\ row.id = r.id /\ row.request = r.request /\ row.event = r.event
          /\ row.recipient = r.recipient /\ row.comment = r.comment
  BY <1>2
<1> HIDE DEF new
<1>10. Consistent(ToVersion3(d))
  BY <1>0, <1>1, <1>4, <1>5, <1>6, <1>7, <1>8, Readable DEF kSchemaVersion
<1> QED
  BY <1>1, <1>9, <1>10

\* Opening a database leaves it consistent, in the current schema and with its
\* tokens, and a database of that schema keeps its recognitions.
LEMMA MigratedDatabase ==
    ASSUME NEW d, Consistent(d), d.version <= kSchemaVersion
    PROVE  /\ Consistent(Migrated(d))
           /\ Migrated(d).version = kSchemaVersion
           /\ Migrated(d).tokens = d.tokens
           /\ d.version = kSchemaVersion => /\ Migrated(d).rows = d.rows
                                            /\ Migrated(d).sequence = d.sequence
           /\ Opens(d)
<1> USE DEF kSchemaVersion
<1> DEFINE d1 == IF d.version < 1 THEN [d EXCEPT !.version = 1] ELSE d
           d2 == IF d1.version < 2 THEN ToVersion2(d1) ELSE d1
           d3 == IF d2.version < 3 THEN ToVersion3(d2) ELSE d2
<1>1. /\ Consistent(d1) /\ d1.version \in 1 .. 3 /\ d1.tokens = d.tokens
      /\ d.version = 3 => d1.version = 3 /\ d1.rows = d.rows /\ d1.sequence = d.sequence
  <2> DEFINE e == [d EXCEPT !.version = 1]
  <2>1. DOMAIN d = {"version", "profiles", "events", "rows", "sequence", "tokens"}
    BY DEF Consistent
  <2>2. /\ DOMAIN e = DOMAIN d /\ e.version = 1 /\ e.tokens = d.tokens /\ e.rows = d.rows
        /\ e.sequence = d.sequence
    BY <2>1, Zenon
  <2> HIDE DEF e
  <2>3. d.version < 1 => Consistent(e)
    <3>1. d.version < 1 => d.version = 0 /\ d.rows = {}
      BY DEF Consistent
    <3> QED
      BY <2>2, <3>1 DEF Consistent
  <2>4. d1 = IF d.version < 1 THEN e ELSE d
    BY Zenon DEF e
  <2> HIDE DEF d1
  <2> QED
    BY <2>2, <2>3, <2>4 DEF Consistent
<1>2. /\ Consistent(d2) /\ d2.version \in 2 .. 3 /\ d2.tokens = d.tokens
      /\ d.version = 3 => d2.version = 3 /\ d2.rows = d.rows /\ d2.sequence = d.sequence
  <2> HIDE DEF d1
  <2> QED
    BY <1>1, Schema2
<1>3. /\ Consistent(d3) /\ d3.version = 3 /\ d3.tokens = d.tokens
      /\ d.version = 3 => d3.rows = d.rows /\ d3.sequence = d.sequence
  <2> HIDE DEF d2
  <2> QED
    BY <1>2, Schema3
<1>4. Migrated(d) = Seeded(d3)
  BY Zenon DEF Migrated
<1> HIDE DEF d3
<1>5. /\ Consistent(Migrated(d)) /\ Migrated(d).version = 3
      /\ Migrated(d).tokens = d.tokens
      /\ d.version = 3 => Migrated(d).rows = d.rows /\ Migrated(d).sequence = d.sequence
  BY <1>3, <1>4, SeededDatabase
<1>6. Opens(d)
  BY <1>5 DEF Consistent, Opens
<1> QED
  BY <1>5, <1>6

LEMMA InsertedDatabase ==
    ASSUME Consistent(db), db.version = kSchemaVersion, NEW r, Unique(r), Fits(Inserted(r))
    PROVE  /\ Consistent(Inserted(r))
           /\ Inserted(r).version = kSchemaVersion
           /\ Inserted(r).tokens = db.tokens
           /\ Inserted(r).rows = db.rows \cup {Row(r, db.sequence + 1)}
           /\ Inserted(r).sequence = db.sequence + 1
           /\ Inserted(r).events = db.events /\ Inserted(r).profiles = db.profiles
<1> DEFINE row == Row(r, db.sequence + 1)
<1>1. /\ DOMAIN db = {"version", "profiles", "events", "rows", "sequence", "tokens"}
      /\ db.tokens \subseteq Tokens /\ IsFiniteSet(db.rows) /\ db.sequence \in Nat
      /\ \A old \in db.rows : DOMAIN old = Columns(3) /\ old.id \in 1 .. db.sequence
      /\ \A old, other \in db.rows : (old.id = other.id \/ old.request = other.request) => old = other
  BY DEF Consistent, kSchemaVersion
<1>2. row.request = r.request /\ row.id = db.sequence + 1 /\ DOMAIN row = Columns(3)
  BY DEF Row, Columns
<1>3. /\ DOMAIN Inserted(r) = DOMAIN db /\ Inserted(r).version = db.version
      /\ Inserted(r).tokens = db.tokens /\ Inserted(r).rows = db.rows \cup {row}
      /\ Inserted(r).sequence = db.sequence + 1
      /\ Inserted(r).events = db.events /\ Inserted(r).profiles = db.profiles
  BY <1>1, Zenon DEF Inserted
<1> HIDE DEF row
<1>4. IsFiniteSet(db.rows \cup {row})
  BY <1>1, FS_AddElement
<1> DEFINE new == Inserted(r)
<1>5. /\ \A x \in new.rows : DOMAIN x = Columns(3) /\ x.id \in 1 .. new.sequence
      /\ \A x, y \in new.rows : (x.id = y.id \/ x.request = y.request) => x = y
  BY <1>1, <1>2, <1>3 DEF Unique
<1>6. /\ DOMAIN new = {"version", "profiles", "events", "rows", "sequence", "tokens"}
      /\ new.version = 3 /\ new.tokens \subseteq Tokens /\ IsFiniteSet(new.rows)
      /\ new.sequence \in Nat /\ Fits(new)
  BY <1>1, <1>3, <1>4 DEF kSchemaVersion
<1>7. Consistent(new)
  <2> HIDE DEF new
  <2> QED BY <1>5, <1>6, Readable DEF kSchemaVersion
<1> QED
  BY <1>3, <1>7 DEF row

LEMMA ResetDatabase ==
    ASSUME Consistent(db)
    PROVE  LET d == Seeded([db EXCEPT !.profiles = {}, !.events = {}, !.rows = {}, !.tokens = {}])
           IN  /\ Consistent(d) /\ d.version = db.version /\ d.tokens = {} /\ d.rows = {}
               /\ d.sequence = db.sequence
<1> DEFINE d == [db EXCEPT !.profiles = {}, !.events = {}, !.rows = {}, !.tokens = {}]
<1>1. DOMAIN db = {"version", "profiles", "events", "rows", "sequence", "tokens"}
  BY DEF Consistent
<1>2. /\ DOMAIN d = DOMAIN db /\ d.version = db.version /\ d.rows = {} /\ d.tokens = {}
      /\ d.sequence = db.sequence
  BY <1>1, Zenon
<1> HIDE DEF d
<1>3. IsFiniteSet({})
  BY FS_EmptySet
<1>4. Consistent(d)
  BY <1>2, <1>3 DEF Consistent, Fits
<1> QED
  BY <1>2, <1>4, SeededDatabase DEF d

LEMMA TokenInserted ==
    ASSUME Consistent(db), NEW t \in Tokens
    PROVE  LET d == [db EXCEPT !.tokens = @ \cup {t}]
           IN  /\ Consistent(d) /\ d.version = db.version
               /\ d.tokens = db.tokens \cup {t} /\ d.rows = db.rows /\ d.sequence = db.sequence
               /\ d.events = db.events /\ d.profiles = db.profiles
<1> DEFINE d == [db EXCEPT !.tokens = db.tokens \cup {t}]
<1>1. DOMAIN db = {"version", "profiles", "events", "rows", "sequence", "tokens"}
  BY DEF Consistent
<1>2. /\ DOMAIN d = DOMAIN db /\ d.version = db.version /\ d.rows = db.rows
      /\ d.tokens = db.tokens \cup {t} /\ d.sequence = db.sequence
      /\ d.events = db.events /\ d.profiles = db.profiles
  BY <1>1, Zenon
<1> HIDE DEF d
<1>3. Consistent(d)
  BY <1>2 DEF Consistent, Fits
<1> QED
  BY <1>2, <1>3 DEF d

-----------------------------------------------------------------------------
(* What a step does to the requests that servers work on *)

\* The same request, whether its database is still the latest or not
Same(j, k) ==
    /\ DOMAIN k = DOMAIN j
    /\ k.request = j.request /\ k.token = j.token /\ k.status = j.status
    /\ k.id = j.id /\ k.epoch = j.epoch

LEMMA StaleJobs ==
    ASSUME TypeOK, NEW p
    PROVE  /\ DOMAIN OthersStale(p) = Servers
           /\ \A s \in Servers : Same(job[s], OthersStale(p)[s])
           /\ p \in Servers => OthersStale(p)[p] = job[p]
<1>1. ASSUME NEW s \in Servers
      PROVE  Same(job[s], [job[s] EXCEPT !.reads = "past"])
  <2>1. DOMAIN job[s] = {"request", "token", "status", "id", "epoch", "reads"}
    BY DEF TypeOK, NoJob
  <2> QED
    BY <2>1, Zenon DEF Same
<1> QED
  BY <1>1 DEF OthersStale, Same

LEMMA InsertedJob ==
    ASSUME TypeOK, NEW s \in Servers, NEW id,
           job' = [OthersStale(s) EXCEPT
                       ![s] = [@ EXCEPT !.status = 201, !.id = id, !.epoch = resets,
                                        !.token = None]]
    PROVE  /\ DOMAIN job' = Servers
           /\ \A q \in Servers \ {s} : Same(job[q], job'[q])
           /\ DOMAIN job'[s] = DOMAIN NoJob /\ job'[s].request = job[s].request
           /\ job'[s].id = id /\ job'[s].epoch = resets
<1> DEFINE j == [job[s] EXCEPT !.status = 201, !.id = id, !.epoch = resets, !.token = None]
<1>1. DOMAIN job[s] = {"request", "token", "status", "id", "epoch", "reads"}
  BY DEF TypeOK, NoJob
<1>2. /\ DOMAIN j = DOMAIN job[s] /\ j.request = job[s].request
      /\ j.id = id /\ j.epoch = resets
  BY <1>1, Zenon
<1>3. job' = [OthersStale(s) EXCEPT ![s] = j]
  BY StaleJobs
<1> HIDE DEF j
<1> QED
  BY <1>2, <1>3, StaleJobs DEF TypeOK

LEMMA Response ==
    ASSUME TypeOK, NEW s \in Servers, NEW status, NEW id, Respond(s, status, id)
    PROVE  /\ pc' = [pc EXCEPT ![s] = "answer"]
           /\ DOMAIN job' = Servers
           /\ \A q \in Servers \ {s} : job'[q] = job[q]
           /\ DOMAIN job'[s] = DOMAIN NoJob
           /\ job'[s].request = job[s].request
           /\ job'[s].status = status /\ job'[s].id = id /\ job'[s].epoch = resets
<1>1. DOMAIN job[s] = {"request", "token", "status", "id", "epoch", "reads"}
  BY DEF TypeOK, NoJob
<1> DEFINE j == [job[s] EXCEPT !.status = status, !.id = id, !.epoch = resets,
                               !.token = None, !.reads = "latest"]
<1>2. /\ DOMAIN j = DOMAIN job[s] /\ j.request = job[s].request
      /\ j.status = status /\ j.id = id /\ j.epoch = resets
  BY <1>1, Zenon
<1> HIDE DEF j
<1>3. job' = [job EXCEPT ![s] = j]
  BY Zenon DEF Respond, j
<1> QED
  BY <1>2, <1>3 DEF TypeOK, Respond, Goto

-----------------------------------------------------------------------------
(* Types and the schema *)

\* Whoever works on the database has found or put it in the current schema,
\* and it stays there.
SchemaInv ==
    /\ \A p \in Process : pc[p] \notin {"off", "migrate"} => db.version = kSchemaVersion
    /\ acked # {} => db.version = kSchemaVersion

\* What an answer says is in the database as long as it is of this reset.
AnswerInv ==
    /\ \A s \in Servers :
           /\ job[s].epoch <= resets
           /\ /\ pc[s] = "answer" /\ job[s].status \in {200, 201}
              /\ job[s].epoch = resets
              => Row(job[s].request, job[s].id) \in db.rows
    /\ \A a \in acked :
           /\ a.epoch \in Nat /\ a.epoch <= resets
           /\ a.epoch = resets => Row(a.request, a.id) \in db.rows

\* The history of the tokens is the table of the tokens, and the file of
\* issue-token holds one that this command has not inserted yet, that is or was
\* in the table, or that a killed command left behind.
TokenInv ==
    /\ \A t \in Tokens : t \in db.tokens <=> issued[t] = "known"
    /\ pc[Issuer] = "insert_token" => file \in Tokens /\ issued[file] = "in_file"
    /\ pc[Issuer] # "insert_token" /\ file # None =>
           issued[file] \in {"interrupted", "known", "revoked"}

\* A server that has stored something for a revoked token works on with tokens
\* that are not revoked: it had authorised that one request before the reset.
RevokedInv ==
    \A s \in Servers :
        /\ pc[s] \in Working /\ (\E id : <<s, id>> \in revoked) => job[s].token \in db.tokens
        /\ \A i, k : <<s, i>> \in revoked /\ <<s, k>> \in revoked => i = k

DataInv == TypeOK /\ SchemaInv /\ AnswerInv /\ TokenInv /\ RevokedInv

LEMMA RejectionRange == \A r : Rejection(r) \in {0, 400, 413, 422}
  BY DEF Rejection

\* A request that has just come in, and one that is refused at once
LEMMA FreshJobs ==
    ASSUME NEW r, NEW t, NEW status
    PROVE  LET j == [NoJob EXCEPT !.request = r, !.token = t]
               k == [NoJob EXCEPT !.status = status]
           IN  /\ DOMAIN j = DOMAIN NoJob /\ j.request = r /\ j.token = t /\ j.epoch = 0
               /\ DOMAIN k = DOMAIN NoJob /\ k.status = status /\ k.epoch = 0
               /\ NoJob.epoch = 0 /\ NoJob.status = 0
<1>1. /\ DOMAIN NoJob = {"request", "token", "status", "id", "epoch", "reads"}
      /\ NoJob.epoch = 0 /\ NoJob.status = 0
  BY DEF NoJob
<1> QED
  BY <1>1, Zenon

\* Where authorize leads
LEMMA Authorization ==
    ASSUME TypeOK, NEW s \in Servers, NEW r, NEW t, Authorize(s, r, t)
    PROVE  /\ pc[s] = "idle"
           /\ Unstored
           /\ DOMAIN job' = Servers
           /\ \A q \in Servers \ {s} : job'[q] = job[q]
           /\ DOMAIN job'[s] = DOMAIN NoJob /\ job'[s].epoch = 0
           /\ \/ /\ pc' = [pc EXCEPT ![s] = "answer"]
                 /\ job'[s].status \in {401, 413, 400, 422}
              \/ /\ pc' = [pc EXCEPT ![s] = "lookup"]
                 /\ job'[s].token = t /\ t \in db.tokens
                 /\ job'[s].request = r /\ Rejection(r) = 0
<1> DEFINE j == [NoJob EXCEPT !.request = r, !.token = t]
           refused == IF Authorized(t) THEN Rejection(r) ELSE 401
           k == [NoJob EXCEPT !.status = refused]
<1>1. /\ DOMAIN j = DOMAIN NoJob /\ j.request = r /\ j.token = t /\ j.epoch = 0
      /\ DOMAIN k = DOMAIN NoJob /\ k.status = refused /\ k.epoch = 0
  BY FreshJobs
<1>2. /\ refused \in {0, 400, 401, 413, 422}
      /\ refused = 0 => t \in db.tokens /\ Rejection(r) = 0
  BY RejectionRange DEF Authorized
<1>3. /\ pc[s] = "idle" /\ Unstored
      /\ \/ refused # 0 /\ job' = [job EXCEPT ![s] = k] /\ pc' = [pc EXCEPT ![s] = "answer"]
         \/ refused = 0 /\ job' = [job EXCEPT ![s] = j] /\ pc' = [pc EXCEPT ![s] = "lookup"]
  BY Zenon DEF Authorize, Goto
<1> HIDE DEF j, k, refused
<1> QED
  BY <1>1, <1>2, <1>3 DEF TypeOK

LEMMA TokenInvInductive ==
    ASSUME TypeOK, SchemaInv, TokenInv, [Next]_vars
    PROVE  TokenInv'
<1> USE DemoConstants DEF Process, TypeOK, TokenInv, Goto
<1>1. CASE \E p \in Process : Start(p)
  BY <1>1 DEF Start, history
<1>2. CASE \E p \in Process : Migrate(p)
  <2> PICK p \in Process : Migrate(p)
    BY <1>2
  <2>1. db'.tokens = db.tokens
    BY MigratedDatabase DEF Migrate, Opens, Commit, Rollback
  <2> QED
    BY <2>1 DEF Migrate, history
<1>3. CASE \E p \in Process : Kill(p)
  BY <1>3 DEF Kill
<1>4. CASE \E r \in Requests : Submit(r)
  BY <1>4, Authorization DEF Submit, Unstored, data, history
<1>5. CASE \E s \in Servers : Lookup(s) \/ Check(s) \/ BeginInsert(s)
  <2> PICK s \in Servers : Lookup(s) \/ Check(s) \/ BeginInsert(s)
    BY <1>5
  <2>1. UNCHANGED <<db, file, issued>>
    BY DEF Lookup, Check, BeginInsert, Unstored, data, history
  <2>2. \E step : Goto(s, step)
    BY Zenon DEF Lookup, Check, BeginInsert, Respond, Goto
  <2> QED
    BY <2>1, <2>2
<1>6. CASE \E s \in Servers : Insert(s)
  <2> PICK s \in Servers : Insert(s)
    BY <1>6
  <2>1. db'.tokens = db.tokens
    BY InsertedDatabase DEF Insert, Commit, Rollback, SchemaInv
  <2> QED
    BY <2>1 DEF Insert, Respond
<1>7. CASE \E s \in Servers : Answer(s)
  BY <1>7 DEF Answer, data
<1>8. CASE BeginReset
  BY <1>8 DEF BeginReset, Begin, history
<1>9. CASE Reset
  <2>1. db'.tokens = {}
    BY <1>9, ResetDatabase DEF Reset, Commit
  <2> QED
    BY <1>9, <2>1 DEF Reset
<1>10. CASE WriteTokenFile
  BY <1>10 DEF WriteTokenFile, data
<1>11. CASE InsertToken
  <2>1. CASE db' = [db EXCEPT !.tokens = @ \cup {file}] /\ issued' = [issued EXCEPT ![file] = "known"]
             /\ file' = file
    <3>1. db'.tokens = db.tokens \cup {file}
      BY <1>11, <2>1, TokenInserted DEF InsertToken
    <3> QED
      BY <1>11, <2>1, <3>1 DEF InsertToken
  <2>2. CASE db' = db /\ issued' = [issued EXCEPT ![file] = "failed"] /\ file' = None
    BY <1>11, <2>2 DEF InsertToken
  <2> QED
    BY <1>11, <2>1, <2>2 DEF InsertToken, Commit, data
<1>12. CASE Expire
  BY <1>12 DEF Expire, data, history
<1>13. CASE UNCHANGED vars
  BY <1>13 DEF vars, data, history
<1> QED
  BY <1>1, <1>2, <1>3, <1>4, <1>5, <1>6, <1>7, <1>8, <1>9, <1>10, <1>11, <1>12, <1>13
     DEF Next, Handle

\* A step that stores nothing, revokes nothing and lets no request begin
LEMMA RevokedKept ==
    ASSUME RevokedInv, revoked' = revoked, db.tokens \subseteq db'.tokens,
           \A s \in Servers : pc'[s] \in Working =>
               pc[s] \in Working /\ job'[s].token = job[s].token
    PROVE  RevokedInv'
  BY DEF RevokedInv

LEMMA RevokedInvInductive ==
    ASSUME TypeOK, SchemaInv, TokenInv, RevokedInv, [Next]_vars
    PROVE  RevokedInv'
<1> USE DemoConstants DEF Process, TypeOK, Goto, Working
<1>1. CASE \E p \in Process : Start(p)
  BY <1>1, RevokedKept DEF Start, history
<1>2. CASE \E p \in Process : Migrate(p)
  <2> PICK p \in Process : Migrate(p)
    BY <1>2
  <2>1. db'.tokens = db.tokens
    BY MigratedDatabase DEF Migrate, Opens, Commit, Rollback
  <2>2. \A s \in Servers : job'[s].token = job[s].token
    BY StaleJobs DEF Migrate, Same
  <2>3. revoked' = revoked /\ \E step \in {"off", "idle", "reset_begins", "write_file"} : Goto(p, step)
    BY DEF Migrate, history
  <2>4. \A s \in Servers : pc'[s] \in Working => pc[s] \in Working
    BY <2>3
  <2> QED
    BY <2>1, <2>2, <2>3, <2>4, RevokedKept
<1>3. CASE \E p \in Process : Kill(p)
  <2> PICK p \in Process : Kill(p)
    BY <1>3
  <2>1. \A s \in Servers : pc'[s] \in Working => pc[s] \in Working /\ s # p
    BY DEF Kill
  <2>2. \A s \in Servers : s # p => job'[s] = job[s]
    BY DEF Kill
  <2>3. UNCHANGED <<db, revoked>>
    BY DEF Kill
  <2> QED
    BY <2>1, <2>2, <2>3, RevokedKept
<1>4. CASE \E r \in Requests : Submit(r)
  <2> PICK r \in Requests, s \in Servers, t \in Tokens : Authorize(s, r, t)
    BY <1>4 DEF Submit
  <2>1. UNCHANGED <<db, revoked>>
    BY Authorization DEF Unstored, data, history
  <2>2. pc'[s] \in Working => job'[s].token \in db.tokens
    BY Authorization
  <2>3. \A q \in Servers \ {s} : pc'[q] = pc[q] /\ job'[q] = job[q]
    BY Authorization
  <2> QED
    BY <2>1, <2>2, <2>3 DEF RevokedInv
<1>5. CASE \E s \in Servers : Lookup(s) \/ Check(s) \/ BeginInsert(s)
  <2> PICK s \in Servers : Lookup(s) \/ Check(s) \/ BeginInsert(s)
    BY <1>5
  <2>1. UNCHANGED <<db, revoked>> /\ pc[s] \in Working
    BY DEF Lookup, Check, BeginInsert, Unstored, data, history
  <2>2. \/ UNCHANGED job /\ \E step : Goto(s, step)
        \/ \E status, id : Respond(s, status, id)
    BY Zenon DEF Lookup, Check, BeginInsert
  <2>3. CASE UNCHANGED job /\ \E step : Goto(s, step)
    BY <2>1, <2>3, RevokedKept
  <2>4. CASE \E status, id : Respond(s, status, id)
    <3>1. /\ pc' = [pc EXCEPT ![s] = "answer"]
          /\ \A q \in Servers \ {s} : job'[q] = job[q]
      BY <2>4, Response
    <3> QED
      BY <2>1, <3>1, RevokedKept
  <2> QED
    BY <2>2, <2>3, <2>4
<1>6. CASE \E s \in Servers : Insert(s)
  <2> PICK s \in Servers : Insert(s)
    BY <1>6
  <2>1. db'.tokens = db.tokens
    BY InsertedDatabase DEF Insert, Commit, Rollback, SchemaInv
  <2>2. \A q \in Servers \ {s} : job'[q].token = job[q].token
    <3>1. \/ \E id : job' = [OthersStale(s) EXCEPT
                                  ![s] = [@ EXCEPT !.status = 201, !.id = id, !.epoch = resets,
                                                   !.token = None]]
          \/ Respond(s, 500, 0)
      BY Zenon DEF Insert
    <3>2. CASE Respond(s, 500, 0)
      BY <3>2, Response
    <3>3. ASSUME NEW id,
                 job' = [OthersStale(s) EXCEPT
                             ![s] = [@ EXCEPT !.status = 201, !.id = id, !.epoch = resets,
                                              !.token = None]]
          PROVE  \A q \in Servers \ {s} : job'[q].token = job[q].token
      BY <3>3, InsertedJob DEF Same
    <3> QED
      BY <3>1, <3>2, <3>3
  <2>3. pc[s] = "insert" /\ Goto(s, "answer")
    BY DEF Insert, Respond
  <2>4. \/ revoked' = revoked
        \/ job[s].token \notin db.tokens /\ \E id : revoked' = revoked \cup {<<s, id>>}
    BY DEF Insert
  <2>5. \A q \in Servers : pc'[q] \in Working => q # s /\ pc'[q] = pc[q]
    BY <2>3
  <2>6. CASE revoked' = revoked
    BY <2>1, <2>2, <2>5, <2>6, RevokedKept
  <2>7. ASSUME job[s].token \notin db.tokens, NEW id, revoked' = revoked \cup {<<s, id>>}
        PROVE  RevokedInv'
    <3>1. \A i : <<s, i>> \notin revoked
      BY <2>3, <2>7 DEF RevokedInv
    <3> QED
      BY <2>1, <2>2, <2>5, <2>7, <3>1 DEF RevokedInv
  <2> QED
    BY <2>4, <2>6, <2>7
<1>7. CASE \E s \in Servers : Answer(s)
  BY <1>7, RevokedKept DEF Answer, data
<1>8. CASE BeginReset
  BY <1>8, RevokedKept DEF BeginReset, Begin, history
<1>9. CASE Reset
  BY <1>9 DEF Reset, RevokedInv
<1>10. CASE WriteTokenFile
  BY <1>10, RevokedKept DEF WriteTokenFile, data
<1>11. CASE InsertToken
  <2>1. db.tokens \subseteq db'.tokens
    <3>1. CASE db' = db
      BY <3>1
    <3>2. CASE db' = [db EXCEPT !.tokens = @ \cup {file}]
      <4>1. file \in Tokens
        BY <1>11 DEF InsertToken, TokenInv
      <4>2. db'.tokens = db.tokens \cup {file}
        BY <3>2, <4>1, TokenInserted
      <4> QED
        BY <4>2
    <3> QED
      BY <1>11, <3>1, <3>2 DEF InsertToken, Commit, data
  <2>2. \A s \in Servers : job'[s].token = job[s].token
    BY <1>11, StaleJobs DEF InsertToken, Same
  <2> QED
    BY <1>11, <2>1, <2>2, RevokedKept DEF InsertToken
<1>12. CASE Expire
  BY <1>12, RevokedKept DEF Expire, data, history
<1>13. CASE UNCHANGED vars
  BY <1>13, RevokedKept DEF vars, data, history
<1> QED
  BY <1>1, <1>2, <1>3, <1>4, <1>5, <1>6, <1>7, <1>8, <1>9, <1>10, <1>11, <1>12, <1>13
     DEF Next, Handle

LEMMA DataInvInductive == Spec => []DataInv
<1> USE DemoConstants DEF Process
<1>1. Init => DataInv
  BY DatabaseConstants DEF Init, DataInv, TypeOK, SchemaInv, AnswerInv, TokenInv, RevokedInv, NoJob, Steps, Consistent
<1>2. DataInv /\ [Next]_vars => DataInv'
  <2> SUFFICES ASSUME DataInv, [Next]_vars PROVE TypeOK' /\ SchemaInv' /\ AnswerInv'
    BY TokenInvInductive, RevokedInvInductive DEF DataInv
  <2> USE DEF DataInv
  <2>1. CASE \E p \in Process : Start(p)
    BY <2>1 DEF Start, TypeOK, SchemaInv, AnswerInv, history, Goto, Steps
  <2>2. CASE \E p \in Process : Migrate(p)
    <3> PICK p \in Process : Migrate(p)
      BY <2>2
    <3>1. CASE Opens(db)
      <4>1. /\ Consistent(db') /\ db'.version = kSchemaVersion
            /\ db.version = kSchemaVersion => db'.rows = db.rows
        BY <3>1, MigratedDatabase DEF Migrate, Opens, Commit, TypeOK
      <4>2. DOMAIN job' = Servers /\ \A s \in Servers : Same(job[s], job'[s])
        BY <3>1, StaleJobs DEF Migrate, Same, TypeOK
      <4>3. TypeOK'
        BY <3>1, <4>1, <4>2 DEF Migrate, TypeOK, Same, Commit, Goto, Steps, history
      <4>4. SchemaInv'
        BY <3>1, <4>1 DEF SchemaInv
      <4>5. AnswerInv'
        BY <3>1, <4>1, <4>2 DEF AnswerInv, SchemaInv, Migrate, Same, TypeOK, Goto, history
      <4> QED
        BY <4>3, <4>4, <4>5
    <3>2. CASE ~Opens(db)
      BY <3>2 DEF Migrate, Rollback, TypeOK, SchemaInv, AnswerInv, history, Goto, Steps
    <3> QED
      BY <3>1, <3>2
  <2>3. CASE \E p \in Process : Kill(p)
    <3> PICK p \in Process : Kill(p)
      BY <2>3
    <3>1. /\ DOMAIN job' = Servers
          /\ \A s \in Servers : job'[s] = job[s] \/ (s = p /\ job'[s] = NoJob)
      BY DEF Kill, TypeOK
    <3>2. NoJob.epoch = 0
      BY DEF NoJob
    <3>3. TypeOK'
      <4>1. issued' \in [Tokens -> {"no", "in_file", "failed", "interrupted", "known", "revoked"}]
        BY DEF Kill, TypeOK
      <4>2. troubles' \in Nat /\ writer' \in Process \cup {None}
        BY DEF Kill, Trouble, TypeOK
      <4> QED
        BY <3>1, <3>2, <4>1, <4>2 DEF Kill, TypeOK, Goto, Steps
    <3>4. SchemaInv'
      BY DEF Kill, TypeOK, SchemaInv, Goto
    <3>5. AnswerInv'
      BY <3>1, <3>2 DEF Kill, TypeOK, AnswerInv, Goto
    <3> QED
      BY <3>3, <3>4, <3>5
  <2>4. CASE \E r \in Requests : Submit(r)
    <3> PICK r \in Requests, s \in Servers, t \in Tokens : Authorize(s, r, t)
      BY <2>4 DEF Submit
    <3>1. TypeOK'
      BY Authorization DEF Unstored, data, history, TypeOK, Steps, Working
    <3>2. SchemaInv'
      BY Authorization DEF Unstored, data, history, TypeOK, SchemaInv
    <3>3. AnswerInv'
      BY Authorization DEF Unstored, data, history, TypeOK, AnswerInv
    <3> QED
      BY <3>1, <3>2, <3>3
  <2>5. CASE \E s \in Servers : Lookup(s)
    <3> PICK s \in Servers : Lookup(s)
      BY <2>5
    <3> DEFINE r == job[s].request
               existing == {row \in db.rows : row.request = r.request}
    <3>1. CASE Goto(s, "check") /\ UNCHANGED job
      BY <3>1 DEF Lookup, Unstored, data, history, TypeOK, SchemaInv, AnswerInv, Goto, Steps, Working
    <3>2. ASSUME NEW row \in existing, row = Row(r, row.id), Respond(s, 200, row.id)
          PROVE  TypeOK' /\ SchemaInv' /\ AnswerInv'
      <4>1. TypeOK'
        BY <3>2, Response DEF Lookup, Unstored, data, history, TypeOK, Steps
      <4>2. SchemaInv'
        BY <3>2, Response DEF Lookup, Unstored, data, history, TypeOK, SchemaInv
      <4>3. AnswerInv'
        BY <3>2, Response DEF Lookup, Unstored, data, history, TypeOK, AnswerInv
      <4> QED
        BY <4>1, <4>2, <4>3
    <3>3. CASE Respond(s, 409, 0)
      <4>1. TypeOK'
        BY <3>3, Response DEF Lookup, Unstored, data, history, TypeOK, Steps
      <4>2. SchemaInv'
        BY <3>3, Response DEF Lookup, Unstored, data, history, TypeOK, SchemaInv
      <4>3. AnswerInv'
        BY <3>3, Response DEF Lookup, Unstored, data, history, TypeOK, AnswerInv
      <4> QED
        BY <4>1, <4>2, <4>3
    <3> QED
      BY <3>1, <3>2, <3>3 DEF Lookup
  <2>6. CASE \E s \in Servers : Check(s)
    <3> PICK s \in Servers : Check(s)
      BY <2>6
    <3>1. CASE Goto(s, "begin") /\ UNCHANGED job
      BY <3>1 DEF Check, Unstored, data, history, TypeOK, SchemaInv, AnswerInv, Goto, Steps, Working
    <3>2. CASE Respond(s, 422, 0)
      <4>1. TypeOK'
        BY <3>2, Response DEF Check, Unstored, data, history, TypeOK, Steps
      <4>2. SchemaInv'
        BY <3>2, Response DEF Check, Unstored, data, history, TypeOK, SchemaInv
      <4>3. AnswerInv'
        BY <3>2, Response DEF Check, Unstored, data, history, TypeOK, AnswerInv
      <4> QED
        BY <4>1, <4>2, <4>3
    <3> QED
      BY <3>1, <3>2 DEF Check
  <2>7. CASE \E s \in Servers : BeginInsert(s)
    <3> PICK s \in Servers : BeginInsert(s)
      BY <2>7
    <3>1. CASE writer' = s /\ Goto(s, "insert") /\ UNCHANGED job
      BY <3>1 DEF BeginInsert, history, TypeOK, SchemaInv, AnswerInv, Goto, Steps, Working
    <3>2. CASE UNCHANGED writer /\ Respond(s, 500, 0)
      <4>1. TypeOK'
        BY <3>2, Response DEF BeginInsert, history, TypeOK, Steps
      <4>2. SchemaInv'
        BY <3>2, Response DEF BeginInsert, history, TypeOK, SchemaInv
      <4>3. AnswerInv'
        BY <3>2, Response DEF BeginInsert, history, TypeOK, AnswerInv
      <4> QED
        BY <4>1, <4>2, <4>3
    <3> QED
      BY <3>1, <3>2 DEF BeginInsert
  <2>8. CASE \E s \in Servers : Insert(s)
    <3> PICK s \in Servers : Insert(s)
      BY <2>8
    <3> DEFINE r == job[s].request
               id == db.sequence + 1
               permitted == Unique(r) /\ Fits(Inserted(r))
    <3>1. CASE /\ permitted
               /\ Commit(Inserted(r))
               /\ job' = [OthersStale(s) EXCEPT
                              ![s] = [@ EXCEPT !.status = 201, !.id = id, !.epoch = resets,
                                               !.token = None]]
               /\ Goto(s, "answer")
               /\ UNCHANGED troubles
      <4>1. /\ Consistent(db') /\ db'.version = kSchemaVersion
            /\ db'.rows = db.rows \cup {Row(r, id)}
        BY <3>1, InsertedDatabase DEF Insert, Commit, TypeOK, SchemaInv
      <4>2. /\ DOMAIN job' = Servers
            /\ \A q \in Servers \ {s} : Same(job[q], job'[q])
            /\ DOMAIN job'[s] = DOMAIN NoJob /\ job'[s].request = r
            /\ job'[s].id = id /\ job'[s].epoch = resets
        BY <3>1, InsertedJob DEF TypeOK
      <4>3. TypeOK'
        BY <3>1, <4>1, <4>2 DEF Insert, Commit, TypeOK, Same, Goto, Steps
      <4>4. SchemaInv'
        BY <4>1 DEF SchemaInv
      <4>5. AnswerInv'
        BY <3>1, <4>1, <4>2 DEF Insert, TypeOK, AnswerInv, Same, Goto
      <4> QED
        BY <4>3, <4>4, <4>5
    <3>2. CASE /\ troubles' \in Nat
               /\ Rollback
               /\ Respond(s, 500, 0)
               /\ UNCHANGED revoked
      <4>1. TypeOK'
        BY <3>2, Response DEF Insert, Rollback, TypeOK, Steps
      <4>2. SchemaInv'
        BY <3>2, Response DEF Insert, Rollback, TypeOK, SchemaInv
      <4>3. AnswerInv'
        BY <3>2, Response DEF Insert, Rollback, TypeOK, AnswerInv
      <4> QED
        BY <4>1, <4>2, <4>3
    <3> QED
      <4>1. \/ permitted /\ UNCHANGED troubles
            \/ troubles' \in Nat
        BY DEF Insert, Trouble, TypeOK
      <4> QED
        BY <3>1, <3>2, <4>1 DEF Insert, Trouble, TypeOK
  <2>9. CASE \E s \in Servers : Answer(s)
    <3> PICK s \in Servers : Answer(s)
      BY <2>9
    <3> DEFINE a == [request |-> job[s].request, id |-> job[s].id, epoch |-> job[s].epoch]
    <3>1. NoJob.epoch = 0
      BY DEF NoJob
    <3>2. acked' = acked \/ (job[s].status \in {200, 201} /\ acked' = acked \cup {a})
      BY DEF Answer
    <3>3. TypeOK'
      BY <3>1 DEF Answer, Trouble, TypeOK, Goto, Steps, data
    <3>4. SchemaInv'
      BY DEF Answer, TypeOK, SchemaInv, Goto, data, kSchemaVersion
    <3>5. /\ a.request = job[s].request /\ a.id = job[s].id /\ a.epoch = job[s].epoch
          /\ pc[s] = "answer"
      BY DEF Answer
    <3> HIDE DEF a
    <3>6. AnswerInv'
      BY <3>1, <3>2, <3>5 DEF Answer, TypeOK, AnswerInv, Goto, data
    <3> QED
      BY <3>3, <3>4, <3>6
  <2>10. CASE BeginReset
    BY <2>10 DEF BeginReset, Begin, history, TypeOK, SchemaInv, AnswerInv, Goto, Steps
  <2>11. CASE Reset
    <3>1. Consistent(db') /\ db'.version = kSchemaVersion
      BY <2>11, ResetDatabase DEF Reset, Commit, TypeOK, SchemaInv
    <3>2. DOMAIN job' = Servers /\ \A s \in Servers : Same(job[s], job'[s])
      BY <2>11, StaleJobs DEF Reset
    <3>3. TypeOK'
      BY <2>11, <3>1, <3>2 DEF Reset, Commit, TypeOK, Same, Goto, Steps
    <3>4. SchemaInv'
      BY <3>1 DEF SchemaInv
    <3>5. AnswerInv'
      BY <2>11, <3>2 DEF Reset, TypeOK, AnswerInv, Same
    <3> QED
      BY <3>3, <3>4, <3>5
  <2>12. CASE WriteTokenFile
    BY <2>12 DEF WriteTokenFile, data, TypeOK, SchemaInv, AnswerInv, Goto, Steps
  <2>13. CASE InsertToken
    <3>1. CASE /\ file \in Tokens
               /\ Commit([db EXCEPT !.tokens = @ \cup {file}])
               /\ job' = OthersStale(Issuer)
               /\ issued' = [issued EXCEPT ![file] = "known"]
               /\ UNCHANGED <<file, troubles>>
      <4>1. Consistent(db') /\ db'.version = db.version /\ db'.rows = db.rows
        BY <3>1, TokenInserted DEF Commit, TypeOK
      <4>2. DOMAIN job' = Servers /\ \A s \in Servers : Same(job[s], job'[s])
        BY <3>1, StaleJobs
      <4>3. TypeOK'
        BY <2>13, <3>1, <4>1, <4>2 DEF InsertToken, Commit, TypeOK, Same, Goto, Steps
      <4>4. SchemaInv'
        BY <2>13, <4>1 DEF InsertToken, SchemaInv, TypeOK, Goto
      <4>5. AnswerInv'
        BY <2>13, <4>1, <4>2 DEF InsertToken, TypeOK, AnswerInv, Same, Goto
      <4> QED
        BY <4>3, <4>4, <4>5
    <3>2. CASE /\ troubles' \in Nat
               /\ file' = None
               /\ issued' = [issued EXCEPT ![file] = "failed"]
               /\ UNCHANGED <<data, job>>
      BY <2>13, <3>2 DEF InsertToken, data, TypeOK, SchemaInv, AnswerInv, Goto, Steps
    <3> QED
      BY <2>13, <3>1, <3>2 DEF InsertToken, Trouble, TypeOK, TokenInv
  <2>14. CASE Expire
    <3>1. db.tokens \subseteq Tokens
      BY DEF TypeOK, Consistent
    <3>2. TypeOK'
      BY <2>14, <3>1 DEF Expire, Trouble, data, history, TypeOK
    <3>3. SchemaInv' /\ AnswerInv'
      BY <2>14 DEF Expire, data, history, SchemaInv, AnswerInv
    <3> QED
      BY <3>2, <3>3
  <2>15. CASE UNCHANGED vars
    BY <2>15 DEF vars, data, history, TypeOK, SchemaInv, AnswerInv
  <2> QED
    BY <2>1, <2>2, <2>3, <2>4, <2>5, <2>6, <2>7, <2>8, <2>9, <2>10, <2>11, <2>12, <2>13,
       <2>14, <2>15 DEF Next, Handle
<1> QED
  BY <1>1, <1>2, PTL DEF Spec

-----------------------------------------------------------------------------
(* The first database, and what becomes of its recognitions *)

\* The ways in which a step changes the database
LEMMA Commits ==
    ASSUME DataInv, [Next]_vars
    PROVE  /\ initial' = initial
           /\ \/ db' = db /\ resets' = resets
              \/ db.version <= kSchemaVersion /\ db' = Migrated(db) /\ resets' = resets
              \/ /\ db' = Seeded([db EXCEPT !.profiles = {}, !.events = {}, !.rows = {},
                                            !.tokens = {}])
                 /\ db.version = kSchemaVersion /\ resets' = resets + 1
              \/ /\ \E s \in Servers :
                        /\ Unique(job[s].request) /\ Fits(Inserted(job[s].request))
                        /\ db' = Inserted(job[s].request)
                 /\ db.version = kSchemaVersion /\ resets' = resets
              \/ /\ \E t \in Tokens : db' = [db EXCEPT !.tokens = @ \cup {t}]
                 /\ db.version = kSchemaVersion /\ resets' = resets
<1> USE DEF DataInv, Process
<1>1. CASE \E p \in Process : Start(p)
  BY <1>1 DEF Start, history
<1>2. CASE \E p \in Process : Migrate(p)
  BY <1>2 DEF Migrate, Opens, Commit, Rollback, history
<1>3. CASE \E p \in Process : Kill(p)
  BY <1>3 DEF Kill
<1>4. CASE \E r \in Requests : Submit(r)
  BY <1>4 DEF Submit, Authorize, Unstored, data, history
<1>5. CASE \E s \in Servers : Lookup(s) \/ Check(s)
  BY <1>5 DEF Lookup, Check, Unstored, data, history
<1>6. CASE \E s \in Servers : BeginInsert(s)
  BY <1>6 DEF BeginInsert, history
<1>7. CASE \E s \in Servers : Insert(s)
  <2> PICK s \in Servers : Insert(s)
    BY <1>7
  <2>1. /\ initial' = initial /\ resets' = resets /\ pc[s] = "insert"
        /\ \/ /\ Unique(job[s].request) /\ Fits(Inserted(job[s].request))
              /\ db' = Inserted(job[s].request)
           \/ db' = db
    BY DEF Insert, Commit, Rollback
  <2> QED
    BY <2>1 DEF SchemaInv
<1>8. CASE \E s \in Servers : Answer(s)
  BY <1>8 DEF Answer, data
<1>9. CASE BeginReset
  BY <1>9 DEF BeginReset, Begin, history
<1>10. CASE Reset
  BY <1>10 DEF Reset, Commit, SchemaInv
<1>11. CASE WriteTokenFile
  BY <1>11 DEF WriteTokenFile, data
<1>12. CASE InsertToken
  BY <1>12 DEF InsertToken, Commit, data, SchemaInv, TokenInv
<1>13. CASE Expire
  BY <1>13 DEF Expire, data, history
<1>14. CASE UNCHANGED vars
  BY <1>14 DEF vars, data, history
<1> QED
  BY <1>1, <1>2, <1>3, <1>4, <1>5, <1>6, <1>7, <1>8, <1>9, <1>10, <1>11, <1>12, <1>13,
     <1>14 DEF Next, Handle

LEMMA MigratedKeeps ==
    ASSUME Consistent(initial), initial.version < kSchemaVersion,
           NEW old \in initial.rows, Expressible(old)
    PROVE  \E row \in Migrated(initial).rows : Carries(row, old)
<1> DEFINE d == initial
<1>1. d.version \in {1, 2}
  BY DEF Consistent, kSchemaVersion
<1>2. CASE d.version = 2
  <2>1. Migrated(d) = Seeded(ToVersion3(d))
    BY <1>2 DEF Migrated
  <2>2. Consistent(ToVersion3(d)) /\ Seeded(ToVersion3(d)).rows = ToVersion3(d).rows
    BY <1>2, Schema3, SeededDatabase
  <2> QED
    BY <1>2, <2>1, <2>2, Schema3 DEF Carries
<1>3. CASE d.version = 1
  <2> DEFINE d2 == ToVersion2(d)
  <2>1. Consistent(d2) /\ d2.version = 2
    BY <1>3, Schema2
  <2>2. PICK row2 \in d2.rows : /\ row2.request = MigratedId(old.id)
                                /\ row2.recipient = old.recipient
                                /\ row2.comment = old.comment
    BY <1>3, Schema2 DEF Expressible
  <2>3. Migrated(d) = Seeded(ToVersion3(d2))
    BY <1>3, <2>1 DEF Migrated
  <2> HIDE DEF d2
  <2>4. /\ Consistent(ToVersion3(d2))
        /\ Seeded(ToVersion3(d2)).rows = ToVersion3(d2).rows
    BY <2>1, Schema3, SeededDatabase
  <2>5. PICK row \in ToVersion3(d2).rows : /\ row.request = row2.request
                                           /\ row.recipient = row2.recipient
                                           /\ row.comment = row2.comment
    BY <2>1, Schema3
  <2> QED
    BY <1>3, <2>2, <2>3, <2>4, <2>5 DEF Carries
<1> QED
  BY <1>1, <1>2, <1>3

\* Until the database is in the current schema nobody has changed it; then it
\* holds what it held at first, and more.
InitialInv ==
    /\ initial \in Databases
    /\ db = initial \/ (db.version = kSchemaVersion /\ initial.version <= kSchemaVersion)
    /\ db.version = kSchemaVersion /\ resets = 0 =>
           \A old \in initial.rows :
               Expressible(old) => \E row \in db.rows : Carries(row, old)

LEMMA InitialInvInductive == Spec => []InitialInv
<1>1. Init => InitialInv
  <2> SUFFICES ASSUME Init PROVE InitialInv
    OBVIOUS
  <2>1. initial \in Databases /\ db = initial
    BY DEF Init
  <2>2. ASSUME initial.version = kSchemaVersion, NEW old \in initial.rows
        PROVE  Carries(old, old)
    BY <2>2 DEF Carries, kSchemaVersion
  <2> QED
    BY <2>1, <2>2 DEF InitialInv
<1>2. DataInv /\ InitialInv /\ [Next]_vars => InitialInv'
  <2> SUFFICES ASSUME DataInv, InitialInv, [Next]_vars PROVE InitialInv'
    OBVIOUS
  <2>0. /\ Consistent(db) /\ Consistent(initial) /\ initial' = initial
        /\ db.version \in Nat /\ resets \in Nat
    BY DatabaseConstants, Commits DEF DataInv, TypeOK, InitialInv, Consistent
  <2>1. ASSUME db'.version = db.version, db.version = kSchemaVersion, db.rows \subseteq db'.rows,
               resets' = resets, initial.version <= kSchemaVersion
        PROVE  InitialInv'
    BY <2>0, <2>1 DEF InitialInv, Expressible, Carries
  <2>2. db.version = kSchemaVersion => initial.version <= kSchemaVersion
    BY DEF InitialInv, kSchemaVersion
  <2>3. CASE db' = db /\ resets' = resets
    BY <2>0, <2>3 DEF InitialInv, Expressible, Carries
  <2>4. CASE db.version <= kSchemaVersion /\ db' = Migrated(db) /\ resets' = resets
    <3>1. /\ db'.version = kSchemaVersion
          /\ db.version = kSchemaVersion => db'.rows = db.rows
      BY <2>0, <2>4, MigratedDatabase
    <3>2. CASE db.version = kSchemaVersion
      BY <2>1, <2>2, <2>4, <3>1, <3>2
    <3>3. CASE db.version # kSchemaVersion
      <4>1. db = initial /\ initial.version < kSchemaVersion
        BY <2>0, <2>4, <3>3 DEF InitialInv, kSchemaVersion
      <4>2. \A old \in initial.rows :
                Expressible(old) => \E row \in Migrated(initial).rows : Carries(row, old)
        BY <2>0, <4>1, MigratedKeeps
      <4>3. initial.version <= kSchemaVersion
        BY <2>4, <4>1
      <4> QED
        BY <2>0, <2>4, <3>1, <4>1, <4>2, <4>3 DEF InitialInv, Expressible, Carries
    <3> QED BY <3>2, <3>3
  <2>5. CASE /\ db' = Seeded([db EXCEPT !.profiles = {}, !.events = {}, !.rows = {},
                                        !.tokens = {}])
             /\ db.version = kSchemaVersion /\ resets' = resets + 1
    <3>1. db'.version = kSchemaVersion
      BY <2>0, <2>5, ResetDatabase
    <3> QED
      BY <2>0, <2>2, <2>5, <3>1 DEF InitialInv
  <2>6. CASE /\ \E s \in Servers :
                    /\ Unique(job[s].request) /\ Fits(Inserted(job[s].request))
                    /\ db' = Inserted(job[s].request)
             /\ db.version = kSchemaVersion /\ resets' = resets
    <3>1. db'.version = kSchemaVersion /\ db.rows \subseteq db'.rows
      BY <2>0, <2>6, InsertedDatabase
    <3> QED
      BY <2>1, <2>2, <2>6, <3>1
  <2>7. CASE /\ \E t \in Tokens : db' = [db EXCEPT !.tokens = @ \cup {t}]
             /\ db.version = kSchemaVersion /\ resets' = resets
    <3>1. db'.version = kSchemaVersion /\ db'.rows = db.rows
      BY <2>0, <2>7, TokenInserted
    <3> QED
      BY <2>1, <2>2, <2>7, <3>1
  <2> QED
    BY <2>3, <2>4, <2>5, <2>6, <2>7, Commits
<1> QED
  BY <1>1, <1>2, DataInvInductive, PTL DEF Spec

-----------------------------------------------------------------------------
(* The ids *)

\* All that anybody has been told of, or may still be told of: the rows, the
\* answers that are under way, and those that have arrived.
Named ==
    db.rows
        \cup {Row(job[s].request, job[s].id) :
                  s \in {q \in Servers : pc[q] = "answer" /\ job[q].status \in {200, 201}}}
        \cup {Row(a.request, a.id) : a \in acked}

\* The rows alone would not do: a reset deletes them, and the counter is all
\* that remembers their ids.
IdInv ==
    db.version = kSchemaVersion =>
        /\ \A x \in Named : x.id \in 1 .. db.sequence
        /\ \A x, y \in Named : x.id = y.id => x = y

LEMMA NothingNew ==
    ASSUME DataInv, IdInv, Named' \subseteq Named,
           \/ db' = db
           \/ db'.version = db.version /\ db.version = kSchemaVersion /\ db'.sequence = db.sequence
    PROVE  IdInv'
  BY DEF IdInv

\* An older database knows only the ids in its table.
LEMMA NobodyToldYet ==
    ASSUME DataInv, db.version # kSchemaVersion
    PROVE  /\ Named = db.rows
           /\ \A s \in Servers : pc[s] # "answer"
           /\ acked = {}
  BY DEF DataInv, SchemaInv, Named, Process

\* A server that answers with what it has found or stored
LEMMA NamedByAnswer ==
    ASSUME NEW s \in Servers, NEW rows, db'.rows \subseteq rows, acked' = acked,
           \A q \in Servers \ {s} : pc'[q] = "answer" =>
               /\ pc[q] = "answer" /\ job'[q].status = job[q].status
               /\ job'[q].request = job[q].request /\ job'[q].id = job[q].id,
           pc'[s] = "answer" /\ job'[s].status \in {200, 201} =>
               Row(job'[s].request, job'[s].id) \in rows,
           db.rows \subseteq rows
    PROVE  Named' \subseteq Named \cup rows
<1> SUFFICES ASSUME NEW x \in Named' PROVE x \in Named \cup rows
  OBVIOUS
<1>1. CASE x \in db'.rows
  BY <1>1
<1>2. ASSUME NEW q \in Servers, pc'[q] = "answer", job'[q].status \in {200, 201},
             x = Row(job'[q].request, job'[q].id)
      PROVE  x \in Named \cup rows
  <2>1. CASE q = s
    BY <1>2, <2>1
  <2>2. CASE q # s
    BY <1>2, <2>2 DEF Named
  <2> QED BY <2>1, <2>2
<1>3. ASSUME NEW a \in acked, x = Row(a.request, a.id)
      PROVE  x \in Named
  BY <1>3 DEF Named
<1> QED
  BY <1>1, <1>2, <1>3 DEF Named, Row

\* A step after which no server answers that did not before
LEMMA NamedKept ==
    ASSUME db'.rows \subseteq db.rows, acked' = acked,
           \A q \in Servers : pc'[q] = "answer" =>
               /\ pc[q] = "answer" /\ job'[q].status = job[q].status
               /\ job'[q].request = job[q].request /\ job'[q].id = job[q].id
    PROVE  Named' \subseteq Named
<1> SUFFICES ASSUME NEW x \in Named' PROVE x \in Named
  OBVIOUS
<1>1. CASE x \in db'.rows
  BY <1>1 DEF Named
<1>2. ASSUME NEW q \in Servers, pc'[q] = "answer", job'[q].status \in {200, 201},
             x = Row(job'[q].request, job'[q].id)
      PROVE  x \in Named
  BY <1>2 DEF Named
<1>3. ASSUME NEW a \in acked, x = Row(a.request, a.id)
      PROVE  x \in Named
  BY <1>3 DEF Named
<1> QED
  BY <1>1, <1>2, <1>3 DEF Named

\* A server that answers for what is in the table, or that nothing is
LEMMA NamedAnswer ==
    ASSUME TypeOK, NEW s \in Servers, NEW status, NEW id, Respond(s, status, id),
           db' = db, acked' = acked,
           status \in {200, 201} => Row(job[s].request, id) \in db.rows
    PROVE  Named' \subseteq Named
<1>1. /\ pc' = [pc EXCEPT ![s] = "answer"] /\ pc \in [Process -> Steps]
      /\ \A q \in Servers \ {s} : job'[q] = job[q]
      /\ job'[s].request = job[s].request /\ job'[s].status = status /\ job'[s].id = id
  BY Response DEF TypeOK
<1>2. \A q \in Servers \ {s} : pc'[q] = pc[q]
  BY <1>1 DEF Process
<1>3. Named' \subseteq Named \cup db.rows
  BY <1>1, <1>2, NamedByAnswer
<1> QED
  BY <1>3 DEF Named

LEMMA IdInvInductive == Spec => []IdInv
<1> USE DEF Process
<1>1. Init => IdInv
  <2> SUFFICES ASSUME Init, db.version = kSchemaVersion
               PROVE  /\ \A x \in Named : x.id \in 1 .. db.sequence
                      /\ \A x, y \in Named : x.id = y.id => x = y
    BY DEF IdInv
  <2>1. Named = db.rows
    BY DEF Init, Named
  <2>2. Consistent(db)
    BY DatabaseConstants DEF Init
  <2> QED
    BY <2>1, <2>2 DEF Consistent
<1>2. DataInv /\ IdInv /\ [Next]_vars => IdInv'
  <2> SUFFICES ASSUME DataInv, IdInv, [Next]_vars PROVE IdInv'
    OBVIOUS
  <2>0. /\ TypeOK /\ Consistent(db) /\ pc \in [Process -> Steps]
        /\ \A p \in Process : pc[p] \notin {"off", "migrate"} => db.version = kSchemaVersion
    BY DEF DataInv, TypeOK, SchemaInv
  <2>1. CASE \E p \in Process : Start(p)
    <3>1. Named' \subseteq Named
      BY <2>0, <2>1, NamedKept DEF Start, Goto, history
    <3> QED
      BY <2>1, <3>1, NothingNew DEF Start
  <2>2. CASE \E p \in Process : Migrate(p)
    <3> PICK p \in Process : Migrate(p)
      BY <2>2
    <3>1. /\ acked' = acked
          /\ \A q \in Servers : /\ pc'[q] = "answer" => pc[q] = "answer"
                                /\ Same(job[q], job'[q])
      <4>1. \E step \in {"off", "idle", "reset_begins", "write_file"} : Goto(p, step)
        BY DEF Migrate
      <4>2. \A q \in Servers : Same(job[q], job'[q])
        BY <2>0, StaleJobs DEF Migrate, Same
      <4> QED
        BY <2>0, <4>1, <4>2 DEF Migrate, Goto, history
    <3>2. CASE ~Opens(db)
      <4>1. db' = db
        BY <3>2 DEF Migrate, Rollback
      <4> QED
        BY <3>1, <4>1, NamedKept, NothingNew DEF Same
    <3>3. CASE Opens(db)
      <4>1. db.version <= kSchemaVersion /\ db' = Migrated(db)
        BY <3>3 DEF Migrate, Opens, Commit
      <4>2. /\ Consistent(db') /\ db'.version = kSchemaVersion
            /\ db.version = kSchemaVersion => db'.rows = db.rows /\ db'.sequence = db.sequence
        BY <2>0, <4>1, MigratedDatabase
      <4>3. CASE db.version = kSchemaVersion
        BY <3>1, <4>2, <4>3, NamedKept, NothingNew DEF Same
      <4>4. CASE db.version # kSchemaVersion
        <5>1. Named' = db'.rows
          BY <3>1, <4>4, NobodyToldYet DEF Named
        <5> QED
          BY <4>2, <5>1 DEF IdInv, Consistent
      <4> QED BY <4>3, <4>4
    <3> QED BY <3>2, <3>3
  <2>3. CASE \E p \in Process : Kill(p)
    <3> PICK p \in Process : Kill(p)
      BY <2>3
    <3>1. \A q \in Servers : q # p => job'[q] = job[q] /\ pc'[q] = pc[q]
      BY <2>0 DEF Kill, Goto, TypeOK
    <3>2. pc'[p] = "off"
      BY <2>0 DEF Kill, Goto
    <3>3. Named' \subseteq Named
      BY <3>1, <3>2, NamedKept DEF Kill
    <3> QED
      BY <3>3, NothingNew DEF Kill
  <2>4. CASE \E r \in Requests : Submit(r)
    <3> PICK r \in Requests, s \in Servers, t \in Tokens : Authorize(s, r, t)
      BY <2>4 DEF Submit
    <3>1. db' = db /\ acked' = acked
      BY DEF Authorize, Unstored, data, history
    <3>2. \A q \in Servers \ {s} : pc'[q] = pc[q] /\ job'[q] = job[q]
      BY <2>0, Authorization
    <3>3. pc'[s] = "answer" => job'[s].status \notin {200, 201}
      BY <2>0, Authorization
    <3>4. Named' \subseteq Named \cup db.rows
      BY <3>1, <3>2, <3>3, NamedByAnswer
    <3> QED
      BY <3>1, <3>4, NothingNew DEF Named
  <2>5. CASE \E s \in Servers : Lookup(s)
    <3> PICK s \in Servers : Lookup(s)
      BY <2>5
    <3>1. db' = db /\ acked' = acked
      BY DEF Lookup, Unstored, data, history
    <3>2. \/ Goto(s, "check") /\ UNCHANGED job
          \/ \E row \in db.rows : row = Row(job[s].request, row.id) /\ Respond(s, 200, row.id)
          \/ Respond(s, 409, 0)
      BY DEF Lookup
    <3>3. CASE Goto(s, "check") /\ UNCHANGED job
      <4>1. Named' \subseteq Named
        BY <2>0, <3>1, <3>3, NamedKept DEF Goto
      <4> QED
        BY <3>1, <4>1, NothingNew
    <3>4. CASE Respond(s, 409, 0)
      <4>1. Named' \subseteq Named
        BY <2>0, <3>1, <3>4, NamedAnswer
      <4> QED
        BY <3>1, <4>1, NothingNew
    <3>5. ASSUME NEW row \in db.rows, row = Row(job[s].request, row.id), Respond(s, 200, row.id)
          PROVE  IdInv'
      <4>1. Named' \subseteq Named
        BY <2>0, <3>1, <3>5, NamedAnswer
      <4> QED
        BY <3>1, <4>1, NothingNew
    <3> QED
      BY <3>2, <3>3, <3>4, <3>5
  <2>6. CASE \E s \in Servers : Check(s) \/ BeginInsert(s)
    <3> PICK s \in Servers : Check(s) \/ BeginInsert(s)
      BY <2>6
    <3>1. db' = db /\ acked' = acked
      BY DEF Check, BeginInsert, Unstored, data, history
    <3>2. \/ (Goto(s, "begin") \/ Goto(s, "insert")) /\ UNCHANGED job
          \/ Respond(s, 422, 0) \/ Respond(s, 500, 0)
      BY DEF Check, BeginInsert
    <3>3. Named' \subseteq Named
      <4>1. CASE (Goto(s, "begin") \/ Goto(s, "insert")) /\ UNCHANGED job
        BY <2>0, <3>1, <4>1, NamedKept DEF Goto
      <4>2. CASE Respond(s, 422, 0)
        BY <2>0, <3>1, <4>2, NamedAnswer
      <4>3. CASE Respond(s, 500, 0)
        BY <2>0, <3>1, <4>3, NamedAnswer
      <4> QED BY <3>2, <4>1, <4>2, <4>3
    <3> QED
      BY <3>1, <3>3, NothingNew
  <2>7. CASE \E s \in Servers : Insert(s)
    <3> PICK s \in Servers : Insert(s)
      BY <2>7
    <3> DEFINE r == job[s].request
               id == db.sequence + 1
               inserted == /\ Unique(r) /\ Fits(Inserted(r)) /\ db' = Inserted(r)
                           /\ job' = [OthersStale(s) EXCEPT
                                          ![s] = [@ EXCEPT !.status = 201, !.id = id, !.epoch = resets,
                                                           !.token = None]]
                           /\ Goto(s, "answer")
    <3>1. acked' = acked /\ pc[s] = "insert" /\ db.version = kSchemaVersion
      BY <2>0 DEF Insert
    <3>2. inserted \/ (db' = db /\ Respond(s, 500, 0))
      BY Zenon DEF Insert, Commit, Rollback
    <3>3. CASE db' = db /\ Respond(s, 500, 0)
      <4>1. Named' \subseteq Named
        BY <2>0, <3>1, <3>3, NamedAnswer
      <4> QED
        BY <3>3, <4>1, NothingNew
    <3>4. CASE inserted
      <4> DEFINE new == Row(r, id)
      <4>1. /\ db'.version = kSchemaVersion /\ db'.rows = db.rows \cup {new}
            /\ db'.sequence = db.sequence + 1 /\ db.sequence \in Nat
        BY <2>0, <3>1, <3>4, InsertedDatabase DEF Consistent
      <4>2. /\ \A q \in Servers \ {s} : Same(job[q], job'[q])
            /\ job'[s].request = r /\ job'[s].id = id
        BY <2>0, <3>4, InsertedJob
      <4>3. \A q \in Servers \ {s} : pc'[q] = pc[q]
        BY <2>0, <3>4 DEF Goto
      <4>4. new \in db'.rows
        BY <4>1
      <4>5. Named' \subseteq Named \cup db'.rows
        BY <3>1, <4>1, <4>2, <4>3, <4>4, NamedByAnswer DEF Same
      <4>6. new.id = id
        BY DEF Row
      <4>7. Named' \subseteq Named \cup {new}
        BY <4>1, <4>5 DEF Named
      <4> HIDE DEF new, inserted
      <4>8. /\ \A x \in Named : x.id \in 1 .. db.sequence
            /\ \A x, y \in Named : x.id = y.id => x = y
        BY <3>1 DEF IdInv
      <4>9. /\ \A x \in Named' : x.id \in 1 .. db'.sequence
            /\ \A x, y \in Named' : x.id = y.id => x = y
        BY <4>1, <4>6, <4>7, <4>8
      <4> QED
        BY <4>9 DEF IdInv
    <3> QED BY <3>2, <3>3, <3>4
  <2>8. CASE \E s \in Servers : Answer(s)
    <3> PICK s \in Servers : Answer(s)
      BY <2>8
    <3> DEFINE a == [request |-> job[s].request, id |-> job[s].id, epoch |-> job[s].epoch]
    <3>1. a.request = job[s].request /\ a.id = job[s].id
      OBVIOUS
    <3>2. /\ db' = db /\ pc[s] = "answer"
          /\ acked' = acked \/ (job[s].status \in {200, 201} /\ acked' = acked \cup {a})
      BY DEF Answer, data
    <3>3. /\ pc'[s] = "idle"
          /\ \A q \in Servers \ {s} : pc'[q] = pc[q] /\ job'[q] = job[q]
      BY <2>0 DEF Answer, Goto, TypeOK
    <3> HIDE DEF a
    <3>4. Named' \subseteq Named
      <4> SUFFICES ASSUME NEW x \in Named' PROVE x \in Named
        OBVIOUS
      <4>1. CASE x \in db'.rows
        BY <3>2, <4>1 DEF Named
      <4>2. ASSUME NEW q \in Servers, pc'[q] = "answer", job'[q].status \in {200, 201},
                   x = Row(job'[q].request, job'[q].id)
            PROVE  x \in Named
        BY <3>3, <4>2 DEF Named
      <4>3. ASSUME NEW b \in acked', x = Row(b.request, b.id)
            PROVE  x \in Named
        <5>1. CASE b \in acked
          BY <4>3, <5>1 DEF Named
        <5>2. CASE b \notin acked
          BY <3>1, <3>2, <4>3, <5>2 DEF Named
        <5> QED BY <5>1, <5>2
      <4> QED
        BY <4>1, <4>2, <4>3 DEF Named
    <3> QED
      BY <3>2, <3>4, NothingNew
  <2>9. CASE BeginReset \/ WriteTokenFile
    <3>1. /\ db' = db /\ acked' = acked /\ job' = job
          /\ \E p \in {Resetter, Issuer}, step \in {"reset", "off", "insert_token"} : Goto(p, step)
      BY <2>9 DEF BeginReset, Begin, WriteTokenFile, data, history
    <3>2. Named' \subseteq Named
      BY <2>0, <3>1, NamedKept DEF Goto
    <3> QED
      BY <3>1, <3>2, NothingNew
  <2>10. CASE Reset
    <3>1. /\ db'.version = db.version /\ db'.rows = {} /\ db'.sequence = db.sequence
          /\ db.version = kSchemaVersion /\ acked' = acked
      BY <2>0, <2>10, ResetDatabase DEF Reset, Commit
    <3>2. \A q \in Servers : Same(job[q], job'[q]) /\ (pc'[q] = "answer" => pc[q] = "answer")
      BY <2>0, <2>10, StaleJobs DEF Reset, Goto
    <3>3. Named' \subseteq Named
      BY <3>1, <3>2, NamedKept DEF Same
    <3> QED
      BY <3>1, <3>3, NothingNew
  <2>11. CASE InsertToken
    <3>1. /\ \/ db' = db
             \/ /\ db'.version = db.version /\ db.version = kSchemaVersion
                /\ db'.rows = db.rows /\ db'.sequence = db.sequence
          /\ acked' = acked
      <4>1. file \in Tokens /\ db.version = kSchemaVersion
        BY <2>0, <2>11 DEF InsertToken, DataInv, TokenInv
      <4>2. db' = db \/ db' = [db EXCEPT !.tokens = @ \cup {file}]
        BY <2>11 DEF InsertToken, Commit, data
      <4>3. acked' = acked
        BY <2>11 DEF InsertToken
      <4>4. CASE db' = [db EXCEPT !.tokens = @ \cup {file}]
        BY <2>0, <4>1, <4>3, <4>4, TokenInserted
      <4> QED BY <4>2, <4>3, <4>4
    <3>2. \A q \in Servers : Same(job[q], job'[q]) /\ (pc'[q] = "answer" => pc[q] = "answer")
      <4>1. \A q \in Servers : pc'[q] = "answer" => pc[q] = "answer"
        BY <2>0, <2>11 DEF InsertToken, Goto
      <4> QED
        BY <2>0, <2>11, <4>1, StaleJobs DEF InsertToken, Same
    <3>3. Named' \subseteq Named
      BY <3>1, <3>2, NamedKept DEF Same
    <3> QED
      BY <3>1, <3>3, NothingNew
  <2>12. CASE Expire \/ UNCHANGED vars
    <3>1. UNCHANGED <<db, pc, job, acked>>
      BY <2>12 DEF Expire, vars, data, history
    <3>2. Named' \subseteq Named
      BY <3>1, NamedKept
    <3> QED
      BY <3>1, <3>2, NothingNew
  <2> QED
    BY <2>1, <2>2, <2>3, <2>4, <2>5, <2>6, <2>7, <2>8, <2>9, <2>10, <2>11, <2>12
       DEF Next, Handle
<1> QED
  BY <1>1, <1>2, DataInvInductive, PTL DEF Spec

-----------------------------------------------------------------------------
(* What a server has checked still holds when it inserts *)

\* The steps that are taken with the write lock
WriterInv ==
    \A p \in Process : pc[p] \in {"migrate", "reset", "insert"} => writer = p

\* The event and the recipient are looked up before the transaction begins;
\* they are there as long as the server reads the latest database, and nobody
\* else commits once it has the lock.
Checked(s) ==
    /\ pc[s] \in Working => job[s].request \in Requests /\ Rejection(job[s].request) = 0
    /\ pc[s] = "insert" \/ (pc[s] = "begin" /\ job[s].reads = "latest") =>
           job[s].request.event \in db.events /\ job[s].request.recipient \in db.profiles

CheckedInv == \A s \in Servers : Checked(s)

LEMMA WriterInvInductive == Spec => []WriterInv
<1> USE DemoConstants DEF Process
<1>1. Init => WriterInv
  BY DEF Init, WriterInv
<1>2. DataInv /\ WriterInv /\ [Next]_vars => WriterInv'
  <2> SUFFICES ASSUME DataInv, WriterInv, [Next]_vars PROVE WriterInv'
    OBVIOUS
  <2>0. TypeOK /\ pc \in [Process -> Steps] /\ None \notin Process
    BY DEF DataInv, TypeOK
  <2>1. CASE \E p \in Process : Start(p)
    BY <2>0, <2>1 DEF Start, Goto, WriterInv
  <2>2. CASE \E p \in Process : Migrate(p)
    BY <2>0, <2>2 DEF Migrate, Commit, Rollback, Goto, WriterInv
  <2>3. CASE \E p \in Process : Kill(p)
    BY <2>0, <2>3 DEF Kill, Goto, WriterInv
  <2>4. CASE \E r \in Requests : Submit(r)
    <3> PICK r \in Requests, s \in Servers, t \in Tokens : Authorize(s, r, t)
      BY <2>4 DEF Submit
    <3>1. writer' = writer /\ \E step \in {"answer", "lookup"} : Goto(s, step)
      BY Zenon DEF Authorize, Unstored, data
    <3> QED
      BY <2>0, <3>1 DEF Goto, WriterInv
  <2>5. CASE \E s \in Servers : Lookup(s) \/ Check(s)
    <3> PICK s \in Servers : Lookup(s) \/ Check(s)
      BY <2>5
    <3>1. writer' = writer /\ \E step \in {"answer", "check", "begin"} : Goto(s, step)
      BY DEF Lookup, Check, Respond, Unstored, data
    <3> QED
      BY <2>0, <3>1 DEF Goto, WriterInv
  <2>6. CASE \E s \in Servers : BeginInsert(s)
    BY <2>0, <2>6 DEF BeginInsert, Respond, Goto, WriterInv
  <2>7. CASE \E s \in Servers : Insert(s)
    <3> PICK s \in Servers : Insert(s)
      BY <2>7
    <3>1. pc[s] = "insert" /\ writer' = None /\ Goto(s, "answer")
      BY DEF Insert, Commit, Rollback, Respond
    <3> QED
      BY <2>0, <3>1 DEF Goto, WriterInv
  <2>8. CASE \E s \in Servers : Answer(s)
    BY <2>0, <2>8 DEF Answer, data, Goto, WriterInv
  <2>9. CASE BeginReset
    BY <2>0, <2>9 DEF BeginReset, Begin, Goto, WriterInv
  <2>10. CASE Reset
    BY <2>0, <2>10 DEF Reset, Commit, Goto, WriterInv
  <2>11. CASE WriteTokenFile
    BY <2>0, <2>11 DEF WriteTokenFile, data, Goto, WriterInv
  <2>12. CASE InsertToken
    BY <2>0, <2>12 DEF InsertToken, Commit, data, Goto, WriterInv
  <2>13. CASE Expire \/ UNCHANGED vars
    BY <2>13 DEF Expire, vars, data, WriterInv
  <2> QED
    BY <2>1, <2>2, <2>3, <2>4, <2>5, <2>6, <2>7, <2>8, <2>9, <2>10, <2>11, <2>12, <2>13
       DEF Next, Handle
<1> QED
  BY <1>1, <1>2, DataInvInductive, PTL DEF Spec

\* A server that has no request, or is done with it
LEMMA NothingToCheck ==
    ASSUME NEW s, pc'[s] \notin Working
    PROVE  Checked(s)'
  BY DEF Checked, Working

\* A server while another process takes a step
LEMMA StillChecked ==
    ASSUME NEW s, Checked(s), pc'[s] = pc[s], job'[s].request = job[s].request,
           \/ /\ db.events \subseteq db'.events /\ db.profiles \subseteq db'.profiles
              /\ job'[s].reads = job[s].reads
           \/ pc[s] # "insert" /\ (pc[s] = "begin" => job'[s].reads = "past")
    PROVE  Checked(s)'
  BY DEF Checked

\* After a commit of p, other servers that are about to begin read the past.
LEMMA OthersReadThePast ==
    ASSUME TypeOK, NEW p, job' = OthersStale(p), NEW s \in Servers, s # p
    PROVE  /\ job'[s].request = job[s].request
           /\ pc[s] = "begin" => job'[s].reads = "past"
<1>1. [job[s] EXCEPT !.reads = "past"].reads = "past"
  <2>1. DOMAIN job[s] = {"request", "token", "status", "id", "epoch", "reads"}
    BY DEF TypeOK, NoJob
  <2> QED BY <2>1, Zenon
<1> QED
  BY <1>1, StaleJobs DEF OthersStale, Same

\* What createRecognitionLocked has checked of a request is all that the table
\* asks of it.
LEMMA CheckedFits ==
    ASSUME Consistent(db), db.version = kSchemaVersion, NEW r \in Requests, Rejection(r) = 0,
           r.event \in db.events, r.recipient \in db.profiles
    PROVE  Fits(Inserted(r))
<1> DEFINE row == Row(r, db.sequence + 1)
<1>1. DOMAIN db = {"version", "profiles", "events", "rows", "sequence", "tokens"} /\ Fits(db)
  BY DEF Consistent, kSchemaVersion
<1>2. /\ Inserted(r).version = db.version /\ Inserted(r).rows = db.rows \cup {row}
      /\ Inserted(r).events = db.events /\ Inserted(r).profiles = db.profiles
  BY <1>1, Zenon DEF Inserted
<1>3. /\ row.event = r.event /\ row.recipient = r.recipient /\ row.value = r.value
      /\ row.comment = r.comment
  BY DEF Row
<1>4. r.value \in {1, 3, 5} /\ r.comment <= kMaximumCommentBytes
  BY DemoConstants DEF Rejection
<1> QED
  BY <1>1, <1>2, <1>3, <1>4 DEF Fits, Values, kSchemaVersion

LEMMA CheckedInvInductive == Spec => []CheckedInv
<1> USE DemoConstants DEF Process
<1>1. Init => CheckedInv
  BY DEF Init, CheckedInv, Checked, Working
<1>2. DataInv /\ WriterInv /\ CheckedInv /\ [Next]_vars => CheckedInv'
  <2> SUFFICES ASSUME DataInv, WriterInv, CheckedInv, [Next]_vars, NEW q \in Servers
               PROVE  Checked(q)'
    BY DEF CheckedInv
  <2>0. /\ TypeOK /\ Consistent(db) /\ pc \in [Process -> Steps] /\ DOMAIN job = Servers
        /\ Checked(q) /\ q \in Process /\ q # Resetter /\ q # Issuer
    BY DEF DataInv, TypeOK, CheckedInv
  \* Another process has the write lock.
  <2>1. \A p \in Process \ {q} : pc[p] \in {"migrate", "reset", "insert"} => pc[q] # "insert"
    BY <2>0 DEF WriterInv
  <2>2. ASSUME db' = db, job'[q] = job[q], pc'[q] = pc[q]
        PROVE  Checked(q)'
    BY <2>0, <2>2, StillChecked
  <2>3. CASE \E p \in Process : Start(p)
    <3> PICK p \in Process : Start(p)
      BY <2>3
    <3>1. CASE p = q
      BY <2>0, <3>1, NothingToCheck DEF Start, Goto, Working
    <3>2. CASE p # q
      BY <2>0, <2>2, <3>2 DEF Start, Goto
    <3> QED BY <3>1, <3>2
  <2>4. CASE \E p \in Process : Migrate(p)
    <3> PICK p \in Process : Migrate(p)
      BY <2>4
    <3>1. CASE p = q
      BY <2>0, <3>1, NothingToCheck DEF Migrate, Goto, Working
    <3>2. CASE p # q
      <4>1. pc'[q] = pc[q] /\ pc[q] # "insert"
        BY <2>0, <2>1, <3>2 DEF Migrate, Goto
      <4>2. CASE db' = db /\ job' = job
        BY <2>2, <4>1, <4>2
      <4>3. CASE job' = OthersStale(p)
        BY <2>0, <3>2, <4>1, <4>3, OthersReadThePast, StillChecked
      <4> QED
        BY <4>2, <4>3 DEF Migrate, Rollback
    <3> QED BY <3>1, <3>2
  <2>5. CASE \E p \in Process : Kill(p)
    <3> PICK p \in Process : Kill(p)
      BY <2>5
    <3>1. CASE p = q
      BY <2>0, <3>1, NothingToCheck DEF Kill, Goto, Working
    <3>2. CASE p # q
      BY <2>0, <2>2, <3>2 DEF Kill, Goto
    <3> QED BY <3>1, <3>2
  <2>6. CASE \E r \in Requests : Submit(r)
    <3> PICK r \in Requests, s \in Servers, t \in Tokens : Authorize(s, r, t)
      BY <2>6 DEF Submit
    <3>1. CASE s = q
      <4>1. \/ pc'[q] = "answer"
            \/ pc'[q] = "lookup" /\ job'[q].request = r /\ Rejection(r) = 0
        BY <2>0, <3>1, Authorization
      <4> QED
        BY <4>1 DEF Checked, Working
    <3>2. CASE s # q
      <4>1. db' = db
        BY DEF Authorize, Unstored, data
      <4>2. pc'[q] = pc[q] /\ job'[q] = job[q]
        BY <2>0, <3>2, Authorization
      <4> QED
        BY <2>2, <4>1, <4>2
    <3> QED BY <3>1, <3>2
  <2>7. CASE \E s \in Servers : Lookup(s) \/ Check(s) \/ BeginInsert(s)
    <3> PICK s \in Servers : Lookup(s) \/ Check(s) \/ BeginInsert(s)
      BY <2>7
    <3>0. db' = db
      BY DEF Lookup, Check, BeginInsert, Unstored, data
    <3>1. ASSUME NEW status, NEW id, Respond(s, status, id)
          PROVE  Checked(q)'
      <4>1. /\ pc' = [pc EXCEPT ![s] = "answer"]
            /\ \A p \in Servers \ {s} : job'[p] = job[p]
        BY <2>0, <3>1, Response
      <4>2. CASE s = q
        BY <2>0, <4>1, <4>2, NothingToCheck DEF Working
      <4>3. CASE s # q
        BY <2>0, <2>2, <3>0, <4>1, <4>3
      <4> QED BY <4>2, <4>3
    <3>2. CASE Goto(s, "check") /\ UNCHANGED job /\ pc[s] = "lookup"
      BY <2>0, <2>2, <3>0, <3>2 DEF Checked, Goto, Working
    <3>3. CASE /\ job[s].request.event \in db.events /\ job[s].request.recipient \in db.profiles
               /\ Goto(s, "begin") /\ UNCHANGED job /\ pc[s] = "check"
      BY <2>0, <2>2, <3>0, <3>3 DEF Checked, Goto, Working
    <3>4. CASE /\ job[s].reads = "latest"
               /\ Goto(s, "insert") /\ UNCHANGED job /\ pc[s] = "begin"
      BY <2>0, <2>2, <3>0, <3>4 DEF Checked, Goto, Working
    <3> QED
      BY <3>1, <3>2, <3>3, <3>4 DEF Lookup, Check, BeginInsert
  <2>8. CASE \E s \in Servers : Insert(s)
    <3> PICK s \in Servers : Insert(s)
      BY <2>8
    <3>1. pc[s] = "insert" /\ pc' = [pc EXCEPT ![s] = "answer"]
      BY <2>0 DEF Insert, Goto, Respond
    <3>2. CASE s = q
      BY <2>0, <3>1, <3>2, NothingToCheck DEF Working
    <3>3. CASE s # q
      <4>1. pc'[q] = pc[q] /\ pc[q] # "insert"
        BY <2>0, <2>1, <3>1, <3>3
      <4>2. CASE db' = db /\ Respond(s, 500, 0)
        <5>1. job'[q] = job[q]
          BY <2>0, <3>3, <4>2, Response
        <5> QED
          BY <2>2, <4>1, <4>2, <5>1
      <4>3. ASSUME NEW j, job' = [OthersStale(s) EXCEPT ![s] = j]
            PROVE  Checked(q)'
        <5>1. job'[q] = OthersStale(s)[q]
          BY <2>0, <3>3, <4>3 DEF OthersStale
        <5>2. job'[q].request = job[q].request
          BY <2>0, <5>1, StaleJobs DEF Same
        <5>3. pc[q] = "begin" => job'[q].reads = "past"
          <6>1. [job[q] EXCEPT !.reads = "past"].reads = "past"
            <7>1. DOMAIN job[q] = {"request", "token", "status", "id", "epoch", "reads"}
              BY <2>0 DEF TypeOK, NoJob
            <7> QED BY <7>1, Zenon
          <6> QED
            BY <3>3, <5>1, <6>1 DEF OthersStale
        <5> QED
          BY <2>0, <4>1, <5>2, <5>3, StillChecked
      <4>4. \/ \E j : job' = [OthersStale(s) EXCEPT ![s] = j]
            \/ db' = db /\ Respond(s, 500, 0)
        BY Zenon DEF Insert, Rollback
      <4> QED
        BY <4>2, <4>3, <4>4
    <3> QED BY <3>2, <3>3
  <2>9. CASE \E s \in Servers : Answer(s)
    <3> PICK s \in Servers : Answer(s)
      BY <2>9
    <3>1. CASE s = q
      BY <2>0, <3>1, NothingToCheck DEF Answer, Goto, Working
    <3>2. CASE s # q
      BY <2>0, <2>2, <3>2 DEF Answer, data, Goto
    <3> QED BY <3>1, <3>2
  <2>10. CASE BeginReset \/ WriteTokenFile
    BY <2>0, <2>2, <2>10 DEF BeginReset, Begin, WriteTokenFile, data, Goto
  <2>11. CASE Reset
    <3>1. pc'[q] = pc[q] /\ pc[q] # "insert" /\ job' = OthersStale(Resetter)
      BY <2>0, <2>1, <2>11 DEF Reset, Goto
    <3> QED
      BY <2>0, <3>1, OthersReadThePast, StillChecked
  <2>12. CASE InsertToken
    <3>1. pc'[q] = pc[q]
      BY <2>0, <2>12 DEF InsertToken, Goto
    <3>2. CASE db' = db /\ job' = job
      BY <2>2, <3>1, <3>2
    <3>3. CASE writer = None /\ job' = OthersStale(Issuer)
      <4>1. pc[q] # "insert"
        BY <2>0, <3>3 DEF WriterInv
      <4> QED
        BY <2>0, <3>1, <3>3, <4>1, OthersReadThePast, StillChecked
    <3> QED
      BY <2>12, <3>2, <3>3 DEF InsertToken, data
  <2>13. CASE Expire \/ UNCHANGED vars
    BY <2>2, <2>13 DEF Expire, vars, data
  <2> QED
    BY <2>3, <2>4, <2>5, <2>6, <2>7, <2>8, <2>9, <2>10, <2>11, <2>12, <2>13
       DEF Next, Handle
<1> QED
  BY <1>1, <1>2, DataInvInductive, WriterInvInductive, PTL DEF Spec

-----------------------------------------------------------------------------
(* What the run of MCDemoService checks, for every instance *)

\* The processes and their database never leave their states, and the database
\* satisfies the constraints of its schema through every migration, reset and
\* insertion: the type invariant.
THEOREM DemoServiceTypeCorrect == Spec => []TypeOK
<1>1. DataInv => TypeOK
  BY DEF DataInv
<1> QED
  BY <1>1, DataInvInductive, PTL

\* A recognition that a client was told is stored is stored once and as it was
\* sent, until the next reset, whatever other processes do to the database.
THEOREM AnswersAreStoredOnce == Spec => []AnsweredIsStoredOnce
<1>1. DataInv => AnsweredIsStoredOnce
  <2> SUFFICES ASSUME DataInv, NEW a \in acked, a.epoch = resets
               PROVE  {row \in db.rows : row.request = a.request.request}
                          = {Row(a.request, a.id)}
    BY DEF AnsweredIsStoredOnce
  <2>1. Row(a.request, a.id) \in db.rows
    BY DEF DataInv, AnswerInv
  <2>2. Row(a.request, a.id).request = a.request.request
    BY DEF Row
  <2>3. \A row, other \in db.rows : row.request = other.request => row = other
    BY DEF DataInv, TypeOK, SchemaInv, Consistent, kSchemaVersion
  <2> QED
    BY <2>1, <2>2, <2>3
<1> QED
  BY <1>1, DataInvInductive, PTL

\* The file that issue-token leaves behind holds a token that works until it is
\* revoked or expires, unless the command was killed.
THEOREM TokenFilesWork == Spec => []TokenFileWorks
<1>1. DataInv => TokenFileWorks
  BY DEF DataInv, TypeOK, TokenInv, TokenFileWorks
<1> QED
  BY <1>1, DataInvInductive, PTL

\* No server stores more than the one submission it had authorised before a
\* reset revoked its credential.
THEOREM ServersStoreOneForARevokedToken == Spec => []RevokedStoresAtMostOne
<1>1. DataInv => RevokedStoresAtMostOne
  <2> SUFFICES ASSUME DataInv, NEW s \in Servers
               PROVE  Cardinality({id \in {row.id : row \in db.rows} : <<s, id>> \in revoked}) <= 1
    BY DEF RevokedStoresAtMostOne
  <2> DEFINE ids == {id \in {row.id : row \in db.rows} : <<s, id>> \in revoked}
  <2>1. \A i, k \in ids : i = k
    BY DEF DataInv, RevokedInv
  <2> SUFFICES Cardinality(ids) <= 1
    OBVIOUS
  <2> HIDE DEF ids
  <2>2. CASE ids = {}
    BY <2>2, FS_EmptySet
  <2>3. CASE ids # {}
    <3> PICK i \in ids : TRUE
      BY <2>3
    <3>1. ids = {i}
      BY <2>1
    <3>2. Cardinality({i}) = 1
      BY FS_Singleton
    <3> QED
      BY <3>1, <3>2
  <2> QED
    BY <2>2, <2>3
<1> QED
  BY <1>1, DataInvInductive, PTL

\* An id names one submission for ever: a reset deletes what it named, but does
\* not give it away again.
THEOREM IdsNameOneSubmission == Spec => []IdNamesOneSubmission
<1>1. DataInv /\ IdInv => IdNamesOneSubmission
  <2> SUFFICES ASSUME DataInv, IdInv, NEW a \in acked, NEW b \in acked, a.id = b.id
               PROVE  Row(a.request, a.id) = Row(b.request, b.id)
    BY DEF IdNamesOneSubmission
  <2>1. db.version = kSchemaVersion
    BY DEF DataInv, SchemaInv
  <2>2. Row(a.request, a.id) \in Named /\ Row(b.request, b.id) \in Named
    BY DEF Named
  <2>3. Row(a.request, a.id).id = a.id /\ Row(b.request, b.id).id = b.id
    BY DEF Row
  <2> QED
    BY <2>1, <2>2, <2>3 DEF IdInv
<1> QED
  BY <1>1, DataInvInductive, IdInvInductive, PTL

\* Every older database opens, and what was checked of a submission before its
\* transaction holds in it, whatever other processes have committed since.
THEOREM ConstraintsAlwaysHold == Spec => []ConstraintsHold
<1>1. DataInv /\ InitialInv /\ CheckedInv => ConstraintsHold
  <2> SUFFICES ASSUME DataInv, InitialInv, CheckedInv PROVE ConstraintsHold
    OBVIOUS
  <2>1. Consistent(db)
    BY DEF DataInv, TypeOK
  <2>2. initial.version <= kSchemaVersion => Opens(db)
    BY <2>1, MigratedDatabase DEF InitialInv, kSchemaVersion
  <2>3. ASSUME NEW s \in Servers, pc[s] = "insert"
        PROVE  Fits(Inserted(job[s].request))
    <3>1. db.version = kSchemaVersion
      BY <2>3 DEF DataInv, SchemaInv, Process
    <3>2. /\ job[s].request \in Requests /\ Rejection(job[s].request) = 0
          /\ job[s].request.event \in db.events /\ job[s].request.recipient \in db.profiles
      BY <2>3 DEF CheckedInv, Checked, Working
    <3> QED
      BY <2>1, <3>1, <3>2, CheckedFits
  <2> QED
    BY <2>2, <2>3 DEF ConstraintsHold
<1> QED
  BY <1>1, DataInvInductive, InitialInvInductive, CheckedInvInductive, PTL

\* A migration carries over each recognition that the new schema can express,
\* once, however many programs open the database and are killed over it.
THEOREM MigrationsKeepRecognitions == Spec => []MigrationKeepsRecognitions
<1>1. DataInv /\ InitialInv => MigrationKeepsRecognitions
  <2> SUFFICES ASSUME DataInv, InitialInv, db.version = kSchemaVersion, resets = 0,
                      NEW old \in initial.rows, Expressible(old)
               PROVE  Cardinality({row \in db.rows : Carries(row, old)}) = 1
    BY DEF MigrationKeepsRecognitions
  <2>1. PICK row \in db.rows : Carries(row, old)
    BY DEF InitialInv
  <2>2. \A x, y \in db.rows : (x.id = y.id \/ x.request = y.request) => x = y
    BY DEF DataInv, TypeOK, Consistent, kSchemaVersion
  <2>3. \A x \in db.rows : Carries(x, old) => x = row
    BY <2>1, <2>2 DEF Carries
  <2>4. {x \in db.rows : Carries(x, old)} = {row}
    BY <2>1, <2>3
  <2> QED
    BY <2>4, FS_Singleton
<1> QED
  BY <1>1, DataInvInductive, InitialInvInductive, PTL

=============================================================================
