-------------------------- MODULE AvatarStoreProofs --------------------------
(***************************************************************************)
(* Proofs about AvatarStore, for every number of workers, places, permits  *)
(* and faces: its types, that no wake-up is lost, and what is downloaded   *)
(* and shown.                                                              *)
(***************************************************************************)
EXTENDS AvatarStore, FiniteSetTheorems, TLAPS

\* The counter counts, and who is at work has a job.
CountInv ==
    /\ busy = Cardinality(Working)
    /\ \A w \in Working : job[w] \in Jobs
    /\ call = "off" => shown = None /\ textures = {} /\ \A w \in Workers : worker[w] = "none"

BaseInv == TypeOK /\ CountInv

-----------------------------------------------------------------------------
(* Counting *)

LEMMA WorkersCount ==
    /\ Cardinality(Workers) \in Nat \ {0}
    /\ \A S \in SUBSET Workers :
          IsFiniteSet(S) /\ Cardinality(S) \in 0 .. Cardinality(Workers)
<1>1. Cardinality(Workers) \in Nat \ {0}
    BY StoreConstants, FS_CardinalityType, FS_EmptySet
<1>2. ASSUME NEW S \in SUBSET Workers
      PROVE  IsFiniteSet(S) /\ Cardinality(S) \in 0 .. Cardinality(Workers)
  <2>1. IsFiniteSet(S) /\ Cardinality(S) <= Cardinality(Workers)
    BY StoreConstants, FS_Subset
  <2>2. Cardinality(S) \in Nat
    BY <2>1, FS_CardinalityType
  <2> QED BY <1>1, <2>1, <2>2
<1> QED BY <1>1, <1>2

\* The faces a snapshot asks for are finitely many, and not more than the limit.
LEMMA WantedIsBounded ==
    ASSUME NEW snapshot \in Snapshots
    PROVE  /\ Wanted(snapshot) \subseteq Urls
           /\ IsFiniteSet(Wanted(snapshot))
           /\ Cardinality(Wanted(snapshot)) <= MaximumAvatars
<1> DEFINE n == AtMost(MaximumAvatars, Len(snapshot))
           f == [i \in 1 .. n |-> snapshot[i]]
<1>1. snapshot \in Seq(Urls)
    BY StoreConstants
<1>2. n \in Nat /\ n <= MaximumAvatars /\ n <= Len(snapshot) /\ MaximumAvatars \in Nat
    BY <1>1, StoreConstants DEF AtMost
<1>3. Wanted(snapshot) = {snapshot[i] : i \in 1 .. n}
    BY DEF Wanted
<1>4. Wanted(snapshot) \subseteq Urls
    BY <1>1, <1>2, <1>3
<1>5. f \in Surjection(1 .. n, Wanted(snapshot))
    BY <1>3 DEF Surjection
<1>6. IsFiniteSet(1 .. n) /\ Cardinality(1 .. n) = n
  <2> HIDE DEF n
  <2>1. 1 \in Int /\ n \in Int
    BY <1>2
  <2>2. IsFiniteSet(1 .. n) /\ Cardinality(1 .. n) = IF 1 > n THEN 0 ELSE n - 1 + 1
    BY <2>1, FS_Interval, Zenon
  <2> QED BY <1>2, <2>2
<1>7. IsFiniteSet(Wanted(snapshot)) /\ Cardinality(Wanted(snapshot)) <= n
  <2> HIDE DEF n, f
  <2> QED BY <1>5, <1>6, FS_Surjection
<1>8. Cardinality(Wanted(snapshot)) \in Nat
    BY <1>7, FS_CardinalityType
<1> QED BY <1>2, <1>4, <1>7, <1>8

LEMMA EmptyQueue == <<>> \in Seq(Jobs) /\ Len(<<>>) <= MaximumPrepared
BY StoreConstants

\* Releasing permits keeps the semaphore in its range, and leaves one if any
\* was released.
LEMMA PermitsAreBounded ==
    ASSUME permits \in 0 .. MaxPermits, NEW n \in Nat, ReleasePermits(n)
    PROVE  permits' \in 0 .. MaxPermits /\ (n > 0 => permits' > 0)
BY StoreConstants DEF ReleasePermits, AtMost

-----------------------------------------------------------------------------
(* Types, and the counter of busy workers *)

\* What the workers' places say about the counter, when one of them moves.
LEMMA PlacesCount ==
    ASSUME BaseInv, NEW w \in Workers, NEW place \in
               {"none", "waiting", "woken", "working", "releasing", "gone"},
           Goes(w, place)
    PROVE  /\ worker' \in [Workers -> {"none", "waiting", "woken", "working",
                                       "releasing", "gone"}]
           /\ Working' = IF place = "working" THEN Working \cup {w} ELSE Working \ {w}
           /\ IsFiniteSet(Working)
           /\ Cardinality(Working') \in 0 .. Cardinality(Workers)
           /\ place = "working" /\ worker[w] # "working" =>
                  Cardinality(Working') = Cardinality(Working) + 1
           /\ place # "working" /\ worker[w] = "working" =>
                  Cardinality(Working') = Cardinality(Working) - 1
           /\ place # "working" /\ worker[w] # "working" => Working' = Working
<1>1. worker' \in [Workers -> {"none", "waiting", "woken", "working", "releasing", "gone"}]
    BY DEF Goes, BaseInv, TypeOK
<1>2. worker'[w] = place /\ \A v \in Workers \ {w} : worker'[v] = worker[v]
    BY DEF Goes, BaseInv, TypeOK
<1>3. Working' = IF place = "working" THEN Working \cup {w} ELSE Working \ {w}
    BY <1>2 DEF Working
<1>4. IsFiniteSet(Working) /\ Working' \in SUBSET Workers
    BY WorkersCount DEF Working
<1>5. Cardinality(Working') \in 0 .. Cardinality(Workers)
    BY <1>4, WorkersCount
<1>6. Cardinality(Working \cup {w}) = IF w \in Working THEN Cardinality(Working)
                                                     ELSE Cardinality(Working) + 1
    BY <1>4, FS_AddElement
<1>7. Cardinality(Working \ {w}) = IF w \in Working THEN Cardinality(Working) - 1
                                                  ELSE Cardinality(Working)
    BY <1>4, FS_RemoveElement
<1>8. w \in Working <=> worker[w] = "working"
    BY DEF Working
<1>9. worker[w] # "working" => Working \ {w} = Working
    BY <1>8
<1> QED BY <1>1, <1>3, <1>4, <1>5, <1>6, <1>7, <1>8, <1>9

\* The main thread's actions do not touch the workers, nor they its place.
LEMMA BaseStep == BaseInv /\ [Next]_vars => BaseInv'
<1> SUFFICES ASSUME BaseInv, [Next]_vars PROVE BaseInv'
    OBVIOUS
<1> USE DEF queues, threads, main
<1>a. /\ 0 \in 0 .. Cardinality(Workers) /\ 1 \in 0 .. Cardinality(Workers)
      /\ Cardinality(Workers) \in Nat
    BY WorkersCount
<1>b. ASSUME UNCHANGED <<worker, job, busy>>, call' # "off" PROVE CountInv'
    BY <1>b DEF BaseInv, CountInv, Working
<1>c. ASSUME prepared # <<>>
      PROVE  /\ Head(prepared) \in Jobs
             /\ Tail(prepared) \in Seq(Jobs) /\ Len(Tail(prepared)) <= MaximumPrepared
    BY <1>c, StoreConstants DEF BaseInv, TypeOK
<1>1. CASE Initialize
  <2>1. PICK created \in SUBSET Workers :
            /\ worker' = [w \in Workers |-> IF w \in created THEN "waiting" ELSE "none"]
            /\ \/ call' = "idle" /\ UNCHANGED <<stop, permits>>
               \/ /\ stop' = TRUE /\ ReleasePermits(Cardinality(created))
                  /\ call' = "joining"
    BY <1>1, Zenon DEF Initialize
  <2>2. permits' \in 0 .. MaxPermits
    BY <2>1, WorkersCount, PermitsAreBounded DEF BaseInv, TypeOK
  <2>3. worker' \in [Workers -> {"none", "waiting", "woken", "working", "releasing", "gone"}]
    BY <2>1
  <2>4. cached' \subseteq Urls
    BY <1>1, StoreConstants DEF Initialize
  <2>5. stop' \in BOOLEAN /\ call' \in {"idle", "joining"}
    BY <2>1, Zenon DEF BaseInv, TypeOK
  <2>6. TypeOK'
    BY <1>1, <2>2, <2>3, <2>4, <2>5 DEF Initialize, BaseInv, TypeOK
  <2>7. Working' = {} /\ Working = {}
    BY <1>1, <2>1 DEF Initialize, BaseInv, CountInv, Working
  <2>8. CountInv'
    BY <1>1, <2>5, <2>7 DEF Initialize, BaseInv, CountInv
  <2> QED BY <2>6, <2>8 DEF BaseInv
<1>2. ASSUME NEW snapshot \in Snapshots, Load(snapshot) PROVE BaseInv'
  <2>1. Wanted(snapshot) \subseteq Urls /\ IsFiniteSet(Wanted(snapshot))
    BY WantedIsBounded
  <2>2. cached' \subseteq Urls /\ textures' \subseteq Urls
    BY <1>2, <2>1 DEF Load, KeepInCache, BaseInv, TypeOK
  <2>3. generation' \in Generations
    BY <1>2, StoreConstants DEF Load, BeginGeneration, BaseInv, TypeOK, Generations
  <2>4. pending' \in SUBSET Jobs
    BY <1>2, <2>1, <2>3 DEF Load, Missing, Jobs
  <2>5. due' \in 0 .. Cardinality(Workers)
    <3>1. IsFiniteSet(Missing(Wanted(snapshot)))
        BY <2>1, FS_Subset DEF Missing
    <3>2. Cardinality(Missing(Wanted(snapshot))) \in Nat
        BY <3>1, FS_CardinalityType
    <3> QED BY <1>2, <1>a, <3>2 DEF Load, AtMost
  <2>6. dirty' \in BOOLEAN
    BY <1>2, Zenon DEF Load
  <2>7. prepared' \in Seq(Jobs) /\ Len(prepared') <= MaximumPrepared
    BY <1>2, StoreConstants DEF Load
  <2>8. /\ UNCHANGED <<busy, permits, stop, worker, job>>
        /\ call' = "release" /\ call = "idle"
        /\ shown' = Wanted(snapshot) /\ given_up' = {}
    BY <1>2 DEF Load
  <2>9. TypeOK'
    BY <2>1, <2>2, <2>3, <2>4, <2>5, <2>6, <2>7, <2>8 DEF BaseInv, TypeOK
  <2> QED BY <1>b, <2>8, <2>9 DEF BaseInv
<1>3. CASE Update
  <2>1. /\ textures' \subseteq Urls /\ cached' \subseteq Urls /\ given_up' \subseteq Urls
        /\ prepared' \in Seq(Jobs) /\ Len(prepared') <= MaximumPrepared
    BY <1>3, <1>c DEF Update, Upload, BaseInv, TypeOK, Jobs
  <2>2. dirty' \in BOOLEAN
    BY <1>3, Zenon DEF Update, Upload, BaseInv, TypeOK
  <2>3. CountInv'
    BY <1>3, <1>b DEF Update
  <2> QED BY <1>3, <2>1, <2>2, <2>3 DEF Update, BaseInv, TypeOK
<1>4. CASE UpdateCheck
  <2>1. due' \in 0 .. Cardinality(Workers) /\ CountInv'
    BY <1>4, <1>a, <1>b DEF UpdateCheck
  <2> QED BY <1>4, <2>1 DEF UpdateCheck, BaseInv, TypeOK
<1>5. CASE Release
  <2>1. permits' \in 0 .. MaxPermits
    BY <1>5, <1>a, PermitsAreBounded DEF Release, BaseInv, TypeOK
  <2> QED BY <1>5, <1>a, <1>b, <2>1 DEF Release, BaseInv, TypeOK
<1>6. CASE SaveCache
  <2>1. dirty' \in BOOLEAN
    BY <1>6, Zenon DEF SaveCache, BaseInv, TypeOK
  <2> QED BY <1>6, <1>b, <2>1 DEF SaveCache, BaseInv, TypeOK
<1>7. CASE Clear \/ Joined
  <2>1. CountInv'
    BY <1>7, <1>b DEF Clear, Joined
  <2>2. prepared' \in Seq(Jobs) /\ Len(prepared') <= MaximumPrepared
    BY <1>7, EmptyQueue DEF Clear, Joined
  <2>3. /\ pending' = {} /\ textures' = {} /\ shown' = None /\ given_up' = {}
        /\ call' \in {"idle", "down"}
        /\ UNCHANGED <<busy, generation, permits, stop, threads, due, cached, dirty>>
    BY <1>7 DEF Clear, Joined
  <2> QED BY <2>1, <2>2, <2>3 DEF BaseInv, TypeOK
<1>8. CASE Shutdown
  <2>1. permits' \in 0 .. MaxPermits
    BY <1>8, <1>a, PermitsAreBounded DEF Shutdown, BaseInv, TypeOK
  <2> QED BY <1>8, <1>b, <2>1 DEF Shutdown, BaseInv, TypeOK
<1>9. ASSUME NEW w \in Workers, Work(w) PROVE BaseInv'
  <2>a. call # "off" /\ UNCHANGED call
    BY <1>9 DEF Work, Acquire, Take, Finish, WorkerRelease, BaseInv, CountInv, TypeOK
  <2>b. ASSUME Goes(w, "waiting") \/ Goes(w, "woken") \/ Goes(w, "releasing") \/ Goes(w, "gone"),
               worker[w] # "working", UNCHANGED <<busy, job>>
        PROVE  /\ CountInv'
               /\ worker' \in [Workers -> {"none", "waiting", "woken", "working",
                                           "releasing", "gone"}]
    <3>1. Working' = Working
        BY <2>b, PlacesCount
    <3> QED BY <2>a, <2>b, <3>1, PlacesCount DEF BaseInv, CountInv
  <2>1. CASE Acquire(w)
    <3>1. permits' \in 0 .. MaxPermits
        BY <2>1, StoreConstants DEF Acquire, BaseInv, TypeOK
    <3> QED BY <2>1, <2>b, <3>1 DEF Acquire, BaseInv, TypeOK
  <2>2. CASE Take(w) /\ UNCHANGED <<pending, prepared, busy, job>>
    <3>1. Goes(w, "gone") \/ Goes(w, "waiting")
        BY <2>2, <1>a DEF Take, BaseInv, TypeOK
    <3> QED BY <2>2, <2>b, <3>1 DEF Take, BaseInv, TypeOK
  <2>3. CASE /\ Take(w)
             /\ \E j \in pending : pending' = pending \ {j} /\ job' = [job EXCEPT ![w] = j]
             /\ busy' = busy + 1 /\ Goes(w, "working") /\ UNCHANGED prepared
    <3>1. worker[w] = "woken"
        BY <2>3 DEF Take
    <3>2. PICK j \in Jobs : pending' \subseteq Jobs /\ job' = [job EXCEPT ![w] = j]
        BY <2>3 DEF BaseInv, TypeOK
    <3>3. Working' = Working \cup {w} /\ Cardinality(Working') = Cardinality(Working) + 1
        BY <2>3, <3>1, PlacesCount
    <3>4. job' \in [Workers -> Jobs \cup {None}] /\ \A v \in Working' : job'[v] \in Jobs
        BY <3>2, <3>3 DEF BaseInv, TypeOK, CountInv, Working
    <3>5. CountInv'
        BY <2>3, <2>a, <3>3, <3>4 DEF BaseInv, CountInv
    <3>6. busy' \in 0 .. Cardinality(Workers)
        BY <3>5, <2>3, PlacesCount DEF CountInv
    <3> QED BY <2>3, <3>2, <3>4, <3>5, <3>6, PlacesCount DEF Take, BaseInv, TypeOK
  <2>4. CASE Finish(w)
    <3>1. PICK place \in {"waiting", "releasing"} : Goes(w, place)
        BY <2>4, Zenon DEF Finish
    <3>2. w \in Working /\ worker[w] = "working" /\ job[w] \in Jobs
        BY <2>4 DEF Finish, BaseInv, CountInv, Working
    <3>3. Working' = Working \ {w} /\ Cardinality(Working') = Cardinality(Working) - 1
        BY <3>1, <3>2, PlacesCount
    <3>4. job' \in [Workers -> Jobs \cup {None}] /\ \A v \in Working' : job'[v] \in Jobs
        BY <2>4, <3>3 DEF Finish, BaseInv, TypeOK, CountInv, Working
    <3>5. CountInv'
        BY <2>4, <2>a, <3>3, <3>4 DEF Finish, BaseInv, CountInv
    <3>6. busy' \in 0 .. Cardinality(Workers)
        BY <3>5, <3>1, PlacesCount DEF CountInv
    <3>7. /\ prepared' \in Seq(Jobs) /\ Len(prepared') <= MaximumPrepared
          /\ given_up' \subseteq Urls
      <4>1. Keep(job[w]) \/ Miss(job[w])
        BY <2>4 DEF Finish
      <4>2. /\ prepared \in Seq(Jobs) /\ Len(prepared) <= MaximumPrepared
            /\ given_up \subseteq Urls /\ job[w].url \in Urls
        BY <3>2 DEF BaseInv, TypeOK, Jobs
      <4>3. CASE prepared' = Append(prepared, job[w]) /\ Len(prepared) < MaximumPrepared
                 /\ UNCHANGED given_up
        <5>1. /\ Append(prepared, job[w]) \in Seq(Jobs)
              /\ Len(Append(prepared, job[w])) = Len(prepared) + 1
            BY <3>2, <4>2
        <5> QED BY <4>2, <4>3, <5>1, StoreConstants
      <4>4. CASE UNCHANGED prepared /\ given_up' \in {given_up, given_up \cup {job[w].url}}
        BY <4>2, <4>4
      <4> QED BY <4>1, <4>3, <4>4 DEF Keep, Miss
    <3>8. worker' \in [Workers -> {"none", "waiting", "woken", "working", "releasing", "gone"}]
        BY <3>1, PlacesCount
    <3> QED BY <2>4, <3>4, <3>5, <3>6, <3>7, <3>8 DEF Finish, BaseInv, TypeOK
  <2>5. CASE WorkerRelease(w)
    <3>1. permits' \in 0 .. MaxPermits
        BY <2>5, PermitsAreBounded DEF WorkerRelease, BaseInv, TypeOK
    <3> QED BY <2>5, <2>b, <3>1 DEF WorkerRelease, BaseInv, TypeOK
  <2> QED BY <1>9, <2>1, <2>2, <2>3, <2>4, <2>5 DEF Work, Take
<1>10. CASE Ended \/ UNCHANGED vars
    BY <1>10 DEF Ended, vars, BaseInv, TypeOK, CountInv, Working
<1> QED BY <1>1, <1>2, <1>3, <1>4, <1>5, <1>6, <1>7, <1>8, <1>9, <1>10 DEF Next

LEMMA BaseInit == Init => BaseInv
<1> SUFFICES ASSUME Init PROVE BaseInv
    OBVIOUS
<1>1. Working = {}
    BY DEF Init, Working
<1>2. CountInv
    BY <1>1, FS_EmptySet DEF Init, CountInv
<1>3. 0 \in 0 .. Cardinality(Workers) /\ 0 \in Generations /\ 0 \in 0 .. MaxPermits
    BY WorkersCount, StoreConstants DEF Generations
<1> QED BY <1>2, <1>3, EmptyQueue DEF Init, BaseInv, TypeOK

THEOREM BaseInvariant == Spec => []BaseInv
BY BaseInit, BaseStep, PTL DEF Spec

\* The variables keep their types; in particular never more images are prepared
\* than the limit, nor more permits out than the semaphore counts.
THEOREM AvatarTypeCorrect == Spec => []TypeOK
<1>1. BaseInv => TypeOK
    BY DEF BaseInv
<1> QED BY <1>1, BaseInvariant, PTL

-----------------------------------------------------------------------------
(* No wake-up is lost *)

\* If no further download may be started, an image is prepared or a worker is
\* at work; either will look again.
LEMMA NoPlaceMeansWork ==
    ASSUME BaseInv', pending' # {}, ~MayStartAnother(pending', prepared', busy')
    PROVE  prepared' # <<>> \/ \E w \in Workers : worker'[w] = "working"
<1> SUFFICES ASSUME prepared' = <<>>, Working' = {} PROVE FALSE
    BY DEF Working
<1>1. busy' = 0
    BY FS_EmptySet DEF BaseInv, CountInv
<1>2. Len(prepared') = 0
    OBVIOUS
<1> QED BY <1>1, <1>2, WorkersCount, StoreConstants DEF MayStartAnother

LEMMA WakeStep == BaseInv /\ BaseInv' /\ NoLostWakeup /\ [Next]_vars => NoLostWakeup'
<1> SUFFICES ASSUME BaseInv, BaseInv', NoLostWakeup, [Next]_vars,
                    pending' # {}, ~stop'
             PROVE  \/ permits' > 0
                    \/ \E w \in Workers : worker'[w] \in {"woken", "working", "releasing"}
                    \/ prepared' # <<>>
                    \/ call' = "check"
                    \/ due' > 0
    BY DEF NoLostWakeup
<1> USE DEF queues, threads, main
<1>a. permits \in Nat /\ due \in Nat
    BY WorkersCount, StoreConstants DEF BaseInv, TypeOK
<1>1. ASSUME NEW snapshot \in Snapshots, Load(snapshot) PROVE due' > 0
  <2>1. Missing(Wanted(snapshot)) # {}
    BY <1>1 DEF Load
  <2>2. IsFiniteSet(Missing(Wanted(snapshot)))
    BY WantedIsBounded, FS_Subset DEF Missing
  <2>3. Cardinality(Missing(Wanted(snapshot))) \in Nat \ {0}
    BY <2>1, <2>2, FS_CardinalityType, FS_EmptySet
  <2> QED BY <1>1, <2>3, WorkersCount DEF Load, AtMost
<1>2. CASE UpdateCheck
  <2>1. CASE MayStartAnother(pending, prepared, busy)
    BY <1>2, <2>1 DEF UpdateCheck
  <2>2. CASE ~MayStartAnother(pending, prepared, busy)
    <3>1. prepared' # <<>> \/ \E w \in Workers : worker'[w] = "working"
        BY <1>2, <2>2, NoPlaceMeansWork DEF UpdateCheck
    <3> QED BY <3>1
  <2> QED BY <2>1, <2>2
<1>3. CASE Release
  <2>1. CASE due > 0
    BY <1>3, <1>a, <2>1, PermitsAreBounded DEF Release, BaseInv, TypeOK
  <2>2. CASE ~(due > 0)
    <3>1. UNCHANGED <<pending, stop, worker, prepared>> /\ call = "release"
        BY <1>3 DEF Release
    <3>2. permits > 0 => permits' > 0
        BY <1>3, <1>a, <2>2, StoreConstants DEF Release, ReleasePermits, AtMost
    <3> QED BY <2>2, <3>1, <3>2 DEF NoLostWakeup
  <2> QED BY <2>1, <2>2
<1>4. CASE Clear \/ Joined \/ Shutdown
    BY <1>4 DEF Clear, Joined, Shutdown
<1>5. CASE Update
    BY <1>5 DEF Update
<1>6. CASE SaveCache \/ Ended \/ UNCHANGED vars
  <2>1. \/ UNCHANGED <<pending, stop, worker, prepared, permits, due>> /\ call # "check"
        \/ UNCHANGED vars
    BY <1>6 DEF SaveCache, Ended
  <2> QED BY <2>1 DEF NoLostWakeup, vars
<1>7. CASE Initialize
  <2>1. UNCHANGED <<pending, prepared, due>> /\ call = "off" /\ (~stop' => UNCHANGED permits)
    BY <1>7 DEF Initialize
  <2>2. \A w \in Workers : worker[w] = "none"
    BY <2>1 DEF BaseInv, CountInv
  <2>3. ~stop
    BY <1>7 DEF Initialize, BaseInv, TypeOK
  <2> QED BY <2>1, <2>2, <2>3 DEF NoLostWakeup
<1>8. ASSUME NEW w \in Workers, Work(w)
      PROVE  \/ permits' > 0
             \/ \E v \in Workers : worker'[v] \in {"woken", "working", "releasing"}
             \/ prepared' # <<>>
             \/ call' = "check"
             \/ due' > 0
  <2>a. \A place \in {"woken", "working", "releasing"} : Goes(w, place) => worker'[w] = place
    BY DEF Goes, BaseInv, TypeOK
  <2>1. CASE Acquire(w)
    BY <2>1, <2>a DEF Acquire
  <2>2. CASE Take(w)
    <3>1. CASE Goes(w, "working")
        BY <2>a, <3>1
    <3>2. CASE Len(prepared) >= MaximumPrepared /\ UNCHANGED prepared
      <4>1. Len(prepared') > 0
        BY <3>2, StoreConstants DEF BaseInv, TypeOK
      <4> QED BY <4>1
    <3> QED BY <2>2, <3>1, <3>2 DEF Take
  <2>3. CASE Finish(w)
    <3>1. CASE MayStartAnother(pending, prepared', busy')
        BY <2>3, <2>a, <3>1 DEF Finish
    <3>2. CASE ~MayStartAnother(pending, prepared', busy')
      <4>1. prepared' # <<>> \/ \E v \in Workers : worker'[v] = "working"
        BY <2>3, <3>2, NoPlaceMeansWork DEF Finish
      <4> QED BY <4>1
    <3> QED BY <3>1, <3>2
  <2>4. CASE WorkerRelease(w)
    BY <2>4, PermitsAreBounded DEF WorkerRelease, BaseInv, TypeOK
  <2> QED BY <1>8, <2>1, <2>2, <2>3, <2>4 DEF Work
<1> QED BY <1>1, <1>2, <1>3, <1>4, <1>5, <1>6, <1>7, <1>8 DEF Next

\* While downloads wait, a permit is out, a worker is awake or the main thread
\* is about to look: the three places that count free places between them
\* never leave the workers asleep (update, workerLoop, load).
THEOREM WakeupsAreNotLost == Spec => []NoLostWakeup
<1>1. Init => NoLostWakeup
    BY DEF Init, NoLostWakeup
<1> QED BY <1>1, WakeStep, BaseInvariant, PTL DEF Spec

-----------------------------------------------------------------------------
(* Which faces are shown *)

\* Every download and image carries the generation it was asked for in, and
\* those of the current one are of the snapshot on show.  The cache holds
\* nothing else, so that it has room for each of them.
SnapshotInv ==
    /\ FacesAreOfSnapshot
    /\ FacesAreCached
    /\ shown # None =>
           /\ IsFiniteSet(shown) /\ Cardinality(shown) <= MaximumAvatars
           /\ cached \subseteq shown
    /\ \A j \in pending \cup Prepared : Current(j)
    /\ \A w \in Working : job[w].generation <= generation
    /\ shown # None => \A j \in pending \cup Prepared : j.url \in shown
    /\ shown # None => \A w \in InWork : job[w].url \in shown

\* The first prepared image, and what is left without it.
LEMMA QueueFront ==
    ASSUME BaseInv, prepared # <<>>
    PROVE  /\ Head(prepared) \in Prepared
           /\ \A i \in DOMAIN Tail(prepared) :
                 i + 1 \in DOMAIN prepared /\ Tail(prepared)[i] = prepared[i + 1]
           /\ prepared[1] = Head(prepared) /\ 1 \in DOMAIN prepared
BY DEF Prepared, BaseInv, TypeOK

\* What is in the queue after one more image.
LEMMA QueueBack ==
    ASSUME BaseInv, NEW j \in Jobs, prepared' = Append(prepared, j)
    PROVE  /\ Prepared' = Prepared \cup {j}
           /\ \A i \in DOMAIN prepared' :
                 \/ i \in DOMAIN prepared /\ prepared'[i] = prepared[i]
                 \/ i = Len(prepared) + 1 /\ prepared'[i] = j
<1>1. prepared \in Seq(Jobs)
    BY DEF BaseInv, TypeOK
<1>2. /\ DOMAIN prepared = 1 .. Len(prepared) /\ Len(prepared) \in Nat
      /\ DOMAIN prepared' = 1 .. Len(prepared) + 1
      /\ \A i \in 1 .. Len(prepared) : prepared'[i] = prepared[i]
      /\ prepared'[Len(prepared) + 1] = j
    BY <1>1
<1>3. \A i \in DOMAIN prepared' :
          \/ i \in DOMAIN prepared /\ prepared'[i] = prepared[i]
          \/ i = Len(prepared) + 1 /\ prepared'[i] = j
    BY <1>2
<1> QED BY <1>2, <1>3 DEF Prepared

\* The workers' part changes only where a worker takes or ends a download.
LEMMA InWorkFrame ==
    ASSUME UNCHANGED <<worker, job, generation>>
    PROVE  Working' = Working /\ InWork' = InWork
BY DEF Working, InWork, Current

LEMMA SnapshotStep == BaseInv /\ BaseInv' /\ SnapshotInv /\ [Next]_vars => SnapshotInv'
<1> SUFFICES ASSUME BaseInv, BaseInv', SnapshotInv, [Next]_vars PROVE SnapshotInv'
    OBVIOUS
<1> USE DEF queues, threads, main
\* What leaves the faces alone and asks for nothing new keeps the invariant.
<1>a. ASSUME UNCHANGED <<worker, job, generation, textures, cached, shown>>,
             pending' \subseteq pending, Prepared' \subseteq Prepared
      PROVE  SnapshotInv'
  <2>1. Working' = Working /\ InWork' = InWork
    BY <1>a, InWorkFrame
  <2> QED BY <1>a, <2>1 DEF SnapshotInv, FacesAreOfSnapshot, FacesAreCached, Current
<1>1. ASSUME NEW snapshot \in Snapshots, Load(snapshot) PROVE SnapshotInv'
  <2>1. /\ shown' = Wanted(snapshot) /\ generation' = generation + 1
        /\ cached' \subseteq Wanted(snapshot)
        /\ textures' \subseteq Wanted(snapshot) /\ textures' \subseteq (textures \cap Wanted(snapshot)) \cup cached'
        /\ UNCHANGED <<worker, job>>
    BY <1>1 DEF Load, BeginGeneration, KeepInCache
  <2>2. IsFiniteSet(shown') /\ Cardinality(shown') <= MaximumAvatars /\ shown' # None
    BY <2>1, WantedIsBounded, StoreConstants
  <2>3. textures \cap Wanted(snapshot) \subseteq cached'
    BY <1>1 DEF Load, KeepInCache, SnapshotInv, FacesAreCached
  <2>4. Prepared' = {}
    BY <1>1 DEF Load, Prepared
  <2>5. \A j \in pending' : Current(j)' /\ j.url \in shown'
    BY <1>1 DEF Load, Missing, Current
  <2>6. Working' = Working /\ generation \in Int
    BY <2>1, StoreConstants DEF Working, BaseInv, TypeOK, Generations
  <2>7. \A w \in Working' : job'[w].generation <= generation /\ job[w].generation \in Int
    BY <2>1, <2>6, StoreConstants DEF SnapshotInv, BaseInv, CountInv, Jobs, Generations
  <2>8. InWork' = {}
    BY <2>1, <2>6, <2>7 DEF InWork, Current, Working
  <2> QED BY <2>1, <2>2, <2>3, <2>4, <2>5, <2>6, <2>7, <2>8
          DEF SnapshotInv, FacesAreOfSnapshot, FacesAreCached
<1>2. CASE Update
  <2>a. UNCHANGED <<pending, generation, worker, job, shown>> /\ shown # None
    BY <1>2 DEF Update
  <2>1. CASE prepared = <<>> /\ UNCHANGED <<prepared, textures, cached>>
    BY <2>a, <2>1, <1>a DEF Prepared
  <2>2. CASE prepared # <<>> /\ prepared' = Tail(prepared)
    <3>1. Prepared' \subseteq Prepared
        BY <2>2, QueueFront DEF Prepared
    <3>2. Current(Head(prepared)) /\ Head(prepared).url \in shown
        BY <2>a, <2>2, QueueFront DEF SnapshotInv
    <3>3. CASE UNCHANGED <<textures, cached>>
        BY <2>a, <3>1, <3>3, <1>a
    <3>4. CASE /\ textures' = textures \cup {Head(prepared).url}
               /\ cached' = IF Cardinality(cached) < MaximumAvatars
                            THEN cached \cup {Head(prepared).url} ELSE cached
      <4>1. Head(prepared).url \in cached'
        <5>1. CASE Cardinality(cached) < MaximumAvatars
            BY <3>4, <5>1
        <5>2. CASE ~(Cardinality(cached) < MaximumAvatars)
          <6>1. /\ IsFiniteSet(shown) /\ cached \in SUBSET shown
                /\ Cardinality(shown) <= MaximumAvatars
            BY <2>a DEF SnapshotInv
          <6>2. /\ IsFiniteSet(cached) /\ Cardinality(cached) <= Cardinality(shown)
                /\ Cardinality(shown) = Cardinality(cached) => shown = cached
            BY <6>1, FS_Subset
          <6>3. Cardinality(cached) \in Nat /\ Cardinality(shown) \in Nat
            BY <6>1, <6>2, FS_CardinalityType
          <6>4. shown = cached
            BY <5>2, <6>1, <6>2, <6>3, StoreConstants
          <6> QED BY <3>2, <3>4, <5>2, <6>4
        <5> QED BY <5>1, <5>2
      <4>2. cached \subseteq cached' /\ cached' \subseteq cached \cup {Head(prepared).url}
        BY <3>4
      <4>3. Working' = Working /\ InWork' = InWork
        BY <2>a, InWorkFrame
      <4> QED BY <2>a, <3>1, <3>2, <3>4, <4>1, <4>2, <4>3
              DEF SnapshotInv, FacesAreOfSnapshot, FacesAreCached, Current
    <3> QED BY <1>2, <2>2, <3>2, <3>3, <3>4 DEF Update, Upload
  <2> QED BY <1>2, <2>1, <2>2 DEF Update
<1>3. CASE UpdateCheck \/ Release \/ SaveCache \/ Shutdown \/ Ended \/ UNCHANGED vars
  <2>1. /\ UNCHANGED <<worker, job, generation, textures, cached, shown, prepared>>
        /\ pending' \subseteq pending
    BY <1>3 DEF UpdateCheck, Release, SaveCache, Shutdown, Ended, vars
  <2> QED BY <2>1, <1>a DEF Prepared
<1>4. CASE Clear \/ Joined
  <2>1. /\ UNCHANGED <<worker, job, generation, cached>>
        /\ pending' = {} /\ prepared' = <<>> /\ textures' = {} /\ shown' = None
    BY <1>4 DEF Clear, Joined
  <2>2. Prepared' = {}
    BY <2>1 DEF Prepared
  <2>3. Working' = Working /\ InWork' = InWork
    BY <2>1, InWorkFrame
  <2> QED BY <2>1, <2>2, <2>3 DEF SnapshotInv, FacesAreOfSnapshot, FacesAreCached
<1>5. CASE Initialize
  <2>1. /\ UNCHANGED <<pending, prepared, generation, textures, shown>> /\ call = "off"
        /\ \E created \in SUBSET Workers :
              worker' = [w \in Workers |-> IF w \in created THEN "waiting" ELSE "none"]
    BY <1>5 DEF Initialize
  <2>2. Working' = {} /\ InWork' = {}
    BY <2>1 DEF Working, InWork
  <2>3. shown = None
    BY <2>1 DEF BaseInv, CountInv
  <2> QED BY <2>1, <2>2, <2>3
          DEF SnapshotInv, FacesAreOfSnapshot, FacesAreCached, Prepared, Current
<1>6. ASSUME NEW w \in Workers, Work(w) PROVE SnapshotInv'
  <2>a. UNCHANGED <<generation, textures, cached, shown>>
    BY <1>6 DEF Work, Acquire, Take, Finish, WorkerRelease
  <2>b. ASSUME Working' \subseteq Working, \A v \in Working' : job'[v] = job[v],
               UNCHANGED pending,
               Prepared' \subseteq Prepared \cup {job[v] : v \in InWork}
        PROVE  SnapshotInv'
    <3>1. InWork' \subseteq InWork /\ \A v \in InWork' : job'[v] = job[v]
        BY <2>a, <2>b DEF InWork, Working, Current
    <3> QED BY <2>a, <2>b, <3>1
            DEF SnapshotInv, FacesAreOfSnapshot, FacesAreCached, Current, InWork
  <2>c. \A v \in Workers : v # w => worker'[v] = worker[v]
    BY <1>6 DEF Work, Acquire, Take, Finish, WorkerRelease, Goes, BaseInv, TypeOK
  <2>1. CASE UNCHANGED <<pending, prepared, job>> /\ worker'[w] # "working"
    <3>1. Working' \subseteq Working
        BY <2>1, <2>c DEF Working
    <3> QED BY <2>1, <2>b, <3>1 DEF Prepared
  <2>2. CASE /\ UNCHANGED prepared
             /\ \E j \in pending : pending' = pending \ {j} /\ job' = [job EXCEPT ![w] = j]
    <3>1. PICK j \in pending : pending' = pending \ {j} /\ job' = [job EXCEPT ![w] = j]
        BY <2>2
    <3>2. job'[w] = j /\ \A v \in Workers : v # w => job'[v] = job[v]
        BY <3>1 DEF BaseInv, TypeOK
    <3>3. j.generation = generation /\ (shown # None => j.url \in shown)
        BY DEF SnapshotInv, Current
    <3>4. \A v \in Working' : v = w \/ v \in Working
        BY <2>c DEF Working
    <3>5. \A v \in InWork' : v = w \/ v \in InWork
        BY <2>a, <2>c, <3>2 DEF InWork, Current
    <3>6. generation \in Int /\ Prepared' = Prepared /\ pending' \subseteq pending
        BY <2>2, <3>1, StoreConstants DEF BaseInv, TypeOK, Generations, Prepared
    <3>7. \A v \in Working' : v \in Workers /\ job'[v].generation <= generation
        BY <3>2, <3>3, <3>4, <3>6 DEF SnapshotInv, Working
    <3>8. shown # None => \A v \in InWork' : job'[v].url \in shown
        BY <3>2, <3>3, <3>5 DEF SnapshotInv, InWork
    <3> QED BY <2>a, <3>6, <3>7, <3>8
            DEF SnapshotInv, FacesAreOfSnapshot, FacesAreCached, Current
  <2>3. CASE Finish(w)
    <3>1. worker'[w] # "working" /\ \A v \in Workers : v # w => job'[v] = job[v]
        BY <2>3 DEF Finish, Goes, BaseInv, TypeOK
    <3>2. Working' \subseteq Working /\ \A v \in Working' : job'[v] = job[v]
        BY <2>c, <3>1 DEF Working
    <3>3. job[w] \in Jobs
        BY <2>3 DEF Finish, BaseInv, CountInv, Working
    <3>4. CASE prepared' = Append(prepared, job[w]) /\ Current(job[w])
      <4>1. Prepared' = Prepared \cup {job[w]} /\ w \in InWork
        BY <2>3, <3>3, <3>4, QueueBack DEF Finish, InWork
      <4> QED BY <2>3, <2>b, <3>2, <4>1 DEF Finish
    <3>5. CASE UNCHANGED prepared
        BY <2>3, <2>b, <3>2, <3>5 DEF Finish, Prepared
    <3> QED BY <2>3, <3>4, <3>5 DEF Finish, Keep, Miss
  <2>4. CASE Acquire(w) \/ WorkerRelease(w)
    BY <2>1, <2>4 DEF Acquire, WorkerRelease, Goes, BaseInv, TypeOK
  <2>5. CASE Take(w)
    BY <2>1, <2>2, <2>5 DEF Take, Goes, BaseInv, TypeOK
  <2> QED BY <1>6, <2>3, <2>4, <2>5 DEF Work
<1> QED BY <1>1, <1>2, <1>3, <1>4, <1>5, <1>6 DEF Next

THEOREM SnapshotInvariant == Spec => []SnapshotInv
<1>1. Init => SnapshotInv
    BY DEF Init, SnapshotInv, FacesAreOfSnapshot, FacesAreCached, Prepared, Working, InWork
<1> QED BY <1>1, SnapshotStep, BaseInvariant, PTL DEF Spec

\* No face of a superseded snapshot is ever shown, whatever downloads are still
\* under way when a new snapshot is loaded or the session ends (load, clear).
THEOREM OnlyTheSnapshotsFaces == Spec => []FacesAreOfSnapshot
<1>1. SnapshotInv => FacesAreOfSnapshot
    BY DEF SnapshotInv
<1> QED BY <1>1, SnapshotInvariant, PTL

\* Every face on show is in the cache: its limit never turns one away (upload).
THEOREM ShownFacesAreCached == Spec => []FacesAreCached
<1>1. SnapshotInv => FacesAreCached
    BY DEF SnapshotInv
<1> QED BY <1>1, SnapshotInvariant, PTL

-----------------------------------------------------------------------------
(* No load fetches a face twice *)

\* The faces that the current load waits for, fetches, has prepared and shows
\* are different ones.
OnceInv ==
    /\ \A i, k \in DOMAIN prepared : prepared[i].url = prepared[k].url => i = k
    /\ \A v, w \in InWork : job[v].url = job[w].url => v = w
    /\ \A j \in pending, k \in Prepared : j.url # k.url
    /\ \A w \in InWork : \A k \in pending \cup Prepared : job[w].url # k.url
    /\ \A k \in pending \cup Prepared : k.url \notin textures
    /\ \A w \in InWork : job[w].url \notin textures

LEMMA OnceStep ==
    BaseInv /\ BaseInv' /\ SnapshotInv /\ OnceInv /\ [Next]_vars => OnceInv'
<1> SUFFICES ASSUME BaseInv, BaseInv', SnapshotInv, OnceInv, [Next]_vars PROVE OnceInv'
    OBVIOUS
<1> USE DEF queues, threads, main
\* What only takes away keeps it.
<1>a. ASSUME InWork' \subseteq InWork, \A w \in InWork' : job'[w] = job[w],
             pending' \subseteq pending, UNCHANGED prepared \/ prepared' = <<>>,
             textures' \subseteq textures
      PROVE  OnceInv'
    BY <1>a DEF OnceInv, Prepared
<1>1. ASSUME NEW snapshot \in Snapshots, Load(snapshot) PROVE OnceInv'
  <2>1. /\ generation' = generation + 1 /\ prepared' = <<>>
        /\ \A j \in pending' : j.url \notin textures'
        /\ UNCHANGED <<worker, job>>
    BY <1>1 DEF Load, BeginGeneration, Missing
  <2>2. generation \in Int
    BY StoreConstants DEF BaseInv, TypeOK, Generations
  <2>3. \A w \in Working : job[w].generation <= generation /\ job[w].generation \in Int
    BY StoreConstants DEF SnapshotInv, BaseInv, CountInv, Jobs, Generations
  <2>4. InWork' = {}
    BY <2>1, <2>2, <2>3 DEF InWork, Current, Working
  <2>5. Prepared' = {}
    BY <2>1 DEF Prepared
  <2> QED BY <2>1, <2>4, <2>5 DEF OnceInv
<1>2. CASE Update
  <2>a. UNCHANGED <<pending, generation, worker, job>>
    BY <1>2 DEF Update
  <2>b. InWork' = InWork
    BY <2>a, InWorkFrame
  <2>1. CASE prepared = <<>> /\ UNCHANGED <<prepared, textures>>
    BY <2>a, <2>b, <2>1, <1>a
  <2>2. CASE /\ prepared # <<>> /\ prepared' = Tail(prepared)
             /\ textures' \subseteq textures \cup {Head(prepared).url}
    <3>1. /\ \A i \in DOMAIN prepared' :
                i + 1 \in DOMAIN prepared /\ prepared'[i] = prepared[i + 1]
                /\ i \in Nat /\ i > 0
          /\ prepared[1] = Head(prepared) /\ 1 \in DOMAIN prepared
          /\ Head(prepared) \in Prepared
        BY <2>2, QueueFront DEF BaseInv, TypeOK
    <3>2. \A i, k \in DOMAIN prepared' : prepared'[i].url = prepared'[k].url => i = k
        BY <3>1 DEF OnceInv
    <3>3. \A k \in Prepared' : k \in Prepared /\ k.url # Head(prepared).url
      <4> SUFFICES ASSUME NEW i \in DOMAIN prepared'
                   PROVE  prepared'[i] \in Prepared /\ prepared'[i].url # Head(prepared).url
        BY DEF Prepared
      <4>1. prepared'[i] \in Prepared
        BY <3>1 DEF Prepared
      <4>2. i + 1 # 1
        BY <3>1
      <4>3. prepared[i + 1].url # prepared[1].url
        BY <3>1, <4>2 DEF OnceInv
      <4> QED BY <3>1, <4>1, <4>3
    <3>4. \A k \in pending \cup Prepared' : k.url \notin textures'
        BY <2>2, <3>1, <3>3 DEF OnceInv
    <3>5. \A w \in InWork : job[w].url \notin textures'
        BY <2>2, <3>1 DEF OnceInv
    <3> QED BY <2>a, <2>b, <3>2, <3>3, <3>4, <3>5 DEF OnceInv
  <2> QED BY <1>2, <2>1, <2>2 DEF Update, Upload
<1>3. CASE \/ UpdateCheck \/ Release \/ SaveCache \/ Clear \/ Shutdown \/ Joined
           \/ Ended \/ UNCHANGED vars
  <2>1. /\ UNCHANGED <<worker, job, generation>> /\ pending' \subseteq pending
        /\ UNCHANGED prepared \/ prepared' = <<>>
        /\ textures' \subseteq textures
    BY <1>3 DEF UpdateCheck, Release, SaveCache, Clear, Shutdown, Joined, Ended, vars
  <2> QED BY <2>1, <1>a, InWorkFrame
<1>4. CASE Initialize
  <2>1. InWork' = {}
    BY <1>4 DEF Initialize, InWork
  <2> QED BY <1>4, <2>1, <1>a DEF Initialize
<1>5. ASSUME NEW w \in Workers, Work(w) PROVE OnceInv'
  <2>a. UNCHANGED <<generation, textures>>
    BY <1>5 DEF Work, Acquire, Take, Finish, WorkerRelease
  <2>b. \A v \in Workers : v # w => worker'[v] = worker[v]
    BY <1>5 DEF Work, Acquire, Take, Finish, WorkerRelease, Goes, BaseInv, TypeOK
  <2>1. CASE UNCHANGED <<pending, prepared, job>> /\ worker'[w] # "working"
    <3>1. InWork' \subseteq InWork
        BY <2>a, <2>b, <2>1 DEF InWork, Current
    <3> QED BY <2>a, <2>1, <3>1, <1>a
  <2>2. CASE /\ UNCHANGED prepared
             /\ \E j \in pending : pending' = pending \ {j} /\ job' = [job EXCEPT ![w] = j]
             /\ worker[w] = "woken"
    <3>1. PICK j \in pending : pending' = pending \ {j} /\ job' = [job EXCEPT ![w] = j]
        BY <2>2
    <3>2. job'[w] = j /\ \A v \in Workers : v # w => job'[v] = job[v]
        BY <3>1 DEF BaseInv, TypeOK
    <3>3. \A v \in InWork' : v = w \/ (v \in InWork /\ job'[v] = job[v])
        BY <2>a, <2>b, <3>2 DEF InWork, Current
    <3>4. \A k \in pending' : k.url # j.url
      <4> SUFFICES ASSUME NEW k \in pending, k # j PROVE k.url # j.url
        BY <3>1
      <4>1. k \in Jobs /\ j \in Jobs /\ k.generation = generation /\ j.generation = generation
        BY DEF BaseInv, TypeOK, SnapshotInv, Current
      <4> QED BY <4>1 DEF Jobs
    <3>5. Prepared' = Prepared /\ pending' \subseteq pending
        BY <2>2, <3>1 DEF Prepared
    <3>6. \A u, v \in InWork' : job'[u].url = job'[v].url => u = v
        BY <3>2, <3>3 DEF OnceInv
    <3>7. \A v \in InWork' : \A k \in pending' \cup Prepared' : job'[v].url # k.url
        BY <3>2, <3>3, <3>4, <3>5 DEF OnceInv
    <3>8. \A v \in InWork' : job'[v].url \notin textures'
        BY <2>a, <3>2, <3>3 DEF OnceInv
    <3> QED BY <2>2, <2>a, <3>5, <3>6, <3>7, <3>8 DEF OnceInv
  <2>3. CASE Finish(w)
    <3>1. worker'[w] # "working" /\ \A v \in Workers : v # w => job'[v] = job[v]
        BY <2>3 DEF Finish, Goes, BaseInv, TypeOK
    <3>2. \A v \in InWork' : v \in InWork /\ v # w /\ job'[v] = job[v]
        BY <2>a, <2>b, <3>1 DEF InWork, Current
    <3>3. CASE UNCHANGED prepared
        BY <2>3, <2>a, <3>2, <3>3, <1>a DEF Finish
    <3>4. CASE prepared' = Append(prepared, job[w]) /\ Current(job[w])
      <4>1. w \in InWork /\ job[w] \in Jobs
        BY <2>3, <3>4 DEF Finish, InWork, BaseInv, CountInv, Working
      <4>2. /\ Prepared' = Prepared \cup {job[w]}
            /\ \A i \in DOMAIN prepared' :
                  \/ i \in DOMAIN prepared /\ prepared'[i] = prepared[i]
                  \/ i = Len(prepared) + 1 /\ prepared'[i] = job[w]
        BY <3>4, <4>1, QueueBack
      <4>3. \A i \in DOMAIN prepared : prepared[i].url # job[w].url
        BY <4>1 DEF OnceInv, Prepared
      <4>4. \A i, k \in DOMAIN prepared' : prepared'[i].url = prepared'[k].url => i = k
        BY <4>2, <4>3 DEF OnceInv
      <4>5. UNCHANGED pending
        BY <2>3 DEF Finish
      <4>6. \A v \in InWork' : job'[v].url # job[w].url
        BY <3>2, <4>1 DEF OnceInv
      <4>7. \A u, v \in InWork' : job'[u].url = job'[v].url => u = v
        BY <3>2 DEF OnceInv
      <4>8. \A v \in InWork' : \A k \in pending' \cup Prepared' : job'[v].url # k.url
        BY <3>2, <4>2, <4>5, <4>6 DEF OnceInv
      <4>9. \A j \in pending', k \in Prepared' : j.url # k.url
        BY <4>1, <4>2, <4>5 DEF OnceInv
      <4>10. \A k \in pending' \cup Prepared' : k.url \notin textures'
        BY <2>a, <4>1, <4>2, <4>5 DEF OnceInv
      <4>11. \A v \in InWork' : job'[v].url \notin textures'
        BY <2>a, <3>2 DEF OnceInv
      <4> QED BY <4>4, <4>7, <4>8, <4>9, <4>10, <4>11 DEF OnceInv
    <3> QED BY <2>3, <3>3, <3>4 DEF Finish, Keep, Miss
  <2>4. CASE Acquire(w) \/ WorkerRelease(w)
    BY <2>1, <2>4 DEF Acquire, WorkerRelease, Goes, BaseInv, TypeOK
  <2>5. CASE Take(w)
    BY <2>1, <2>2, <2>5 DEF Take, Goes, BaseInv, TypeOK
  <2> QED BY <1>5, <2>3, <2>4, <2>5 DEF Work
<1> QED BY <1>1, <1>2, <1>3, <1>4, <1>5 DEF Next

\* No two workers have the same download, and what was given up is not asked for
\* again by the same load.
GoneInv ==
    /\ \A v, w \in Working : job[v] = job[w] => v = w
    /\ \A k \in pending \cup Prepared : k.url \notin given_up
    /\ \A w \in InWork : job[w].url \notin given_up
    /\ textures \cap given_up = {}

LEMMA GoneStep ==
    BaseInv /\ BaseInv' /\ SnapshotInv /\ OnceInv /\ GoneInv /\ [Next]_vars => GoneInv'
<1> SUFFICES ASSUME BaseInv, BaseInv', SnapshotInv, OnceInv, GoneInv, [Next]_vars PROVE GoneInv'
    OBVIOUS
<1> USE DEF queues, threads, main
\* What only takes away keeps it.
<1>a. ASSUME Working' \subseteq Working, \A w \in Working' : job'[w] = job[w],
             InWork' \subseteq InWork, InWork' \subseteq Working',
             pending' \subseteq pending, UNCHANGED prepared \/ prepared' = <<>>,
             textures' \subseteq textures, given_up' \subseteq given_up
      PROVE  GoneInv'
    BY <1>a DEF GoneInv, Prepared
<1>b. InWork \subseteq Working /\ InWork' \subseteq Working'
    BY DEF InWork, Working
<1>1. ASSUME NEW snapshot \in Snapshots, Load(snapshot) PROVE GoneInv'
  <2>1. given_up' = {} /\ UNCHANGED <<worker, job>>
    BY <1>1 DEF Load
  <2>2. Working' = Working
    BY <2>1 DEF Working
  <2> QED BY <2>1, <2>2 DEF GoneInv
<1>2. CASE Update
  <2>a. UNCHANGED <<pending, generation, worker, job>>
    BY <1>2 DEF Update
  <2>b. Working' = Working /\ InWork' = InWork
    BY <2>a, InWorkFrame
  <2>1. CASE prepared = <<>> /\ UNCHANGED <<prepared, textures, given_up>>
    BY <2>a, <2>b, <2>1, <1>a, <1>b
  <2>2. CASE /\ prepared # <<>> /\ prepared' = Tail(prepared)
             /\ \/ UNCHANGED <<textures, given_up>>
                \/ UNCHANGED given_up /\ textures' = textures \cup {Head(prepared).url}
                \/ UNCHANGED textures /\ given_up' = given_up \cup {Head(prepared).url}
    <3> DEFINE head == Head(prepared)
    <3>1. /\ head \in Prepared /\ prepared[1] = head /\ 1 \in DOMAIN prepared
          /\ \A i \in DOMAIN prepared' :
                i + 1 \in DOMAIN prepared /\ prepared'[i] = prepared[i + 1]
                /\ i + 1 # 1
        BY <2>2, QueueFront DEF BaseInv, TypeOK
    <3> HIDE DEF head
    <3>2. \A k \in Prepared' : k \in Prepared /\ k.url # head.url
      <4> SUFFICES ASSUME NEW i \in DOMAIN prepared'
                   PROVE  prepared'[i] \in Prepared /\ prepared'[i].url # head.url
        BY DEF Prepared
      <4>1. prepared[i + 1].url # prepared[1].url
        BY <3>1 DEF OnceInv
      <4> QED BY <3>1, <4>1 DEF Prepared
    <3>3. /\ \A k \in pending : k.url # head.url
          /\ \A w \in InWork : job[w].url # head.url
          /\ head.url \notin textures /\ head.url \notin given_up
        BY <3>1 DEF OnceInv, GoneInv
    <3>4. /\ given_up' \subseteq given_up \cup {head.url}
          /\ textures' \cap given_up' = {}
        BY <2>2, <3>3 DEF GoneInv, head
    <3> QED BY <2>a, <2>b, <3>2, <3>3, <3>4 DEF GoneInv
  <2> QED BY <1>2, <2>1, <2>2 DEF Update, Upload
<1>3. CASE \/ UpdateCheck \/ Release \/ SaveCache \/ Clear \/ Shutdown \/ Joined
           \/ Ended \/ UNCHANGED vars
  <2>1. /\ UNCHANGED <<worker, job, generation>> /\ pending' \subseteq pending
        /\ UNCHANGED prepared \/ prepared' = <<>>
        /\ textures' \subseteq textures /\ given_up' \subseteq given_up
    BY <1>3 DEF UpdateCheck, Release, SaveCache, Clear, Shutdown, Joined, Ended, vars
  <2> QED BY <2>1, <1>a, <1>b, InWorkFrame
<1>4. CASE Initialize
  <2>1. Working' = {} /\ InWork' = {}
    BY <1>4 DEF Initialize, InWork, Working
  <2> QED BY <1>4, <2>1, <1>a DEF Initialize
<1>5. ASSUME NEW w \in Workers, Work(w) PROVE GoneInv'
  <2>a. UNCHANGED <<generation, textures>>
    BY <1>5 DEF Work, Acquire, Take, Finish, WorkerRelease
  <2>b. \A v \in Workers : v # w => worker'[v] = worker[v]
    BY <1>5 DEF Work, Acquire, Take, Finish, WorkerRelease, Goes, BaseInv, TypeOK
  <2>1. CASE UNCHANGED <<pending, prepared, job, given_up>> /\ worker'[w] # "working"
    <3>1. Working' \subseteq Working /\ InWork' \subseteq InWork
        BY <2>a, <2>b, <2>1 DEF Working, InWork, Current
    <3> QED BY <2>a, <2>1, <3>1, <1>a, <1>b
  <2>2. CASE /\ UNCHANGED <<prepared, given_up>>
             /\ \E j \in pending : pending' = pending \ {j} /\ job' = [job EXCEPT ![w] = j]
             /\ worker[w] = "woken"
    <3>1. PICK j \in pending : pending' = pending \ {j} /\ job' = [job EXCEPT ![w] = j]
        BY <2>2
    <3>2. job'[w] = j /\ \A v \in Workers : v # w => job'[v] = job[v]
        BY <3>1 DEF BaseInv, TypeOK
    <3>3. \A v \in InWork' : v = w \/ (v \in InWork /\ job'[v] = job[v])
        BY <2>a, <2>b, <3>2 DEF InWork, Current
    <3>4. \A v \in Working' : v = w \/ (v \in Working /\ v # w /\ job'[v] = job[v])
        BY <2>b, <3>2 DEF Working
    <3>5. \A v \in Working : job[v] # j
      <4> SUFFICES ASSUME NEW v \in Working, job[v] = j PROVE FALSE
        OBVIOUS
      <4>1. v \in InWork
        BY <3>1 DEF SnapshotInv, InWork, Working
      <4> QED BY <3>1, <4>1 DEF OnceInv
    <3>6. \A u, v \in Working' : job'[u] = job'[v] => u = v
        BY <3>2, <3>4, <3>5 DEF GoneInv
    <3>7. Prepared' = Prepared /\ pending' \subseteq pending
        BY <2>2, <3>1 DEF Prepared
    <3>8. \A v \in InWork' : job'[v].url \notin given_up'
        BY <2>2, <3>1, <3>2, <3>3 DEF GoneInv
    <3> QED BY <2>2, <2>a, <3>6, <3>7, <3>8 DEF GoneInv
  <2>3. CASE Finish(w)
    <3>1. worker'[w] # "working" /\ \A v \in Workers : v # w => job'[v] = job[v]
        BY <2>3 DEF Finish, Goes, BaseInv, TypeOK
    <3>2. \A v \in InWork' : v \in InWork /\ v # w /\ job'[v] = job[v]
        BY <2>a, <2>b, <3>1 DEF InWork, Current
    <3>3. Working' \subseteq Working /\ \A v \in Working' : job'[v] = job[v]
        BY <2>b, <3>1 DEF Working
    <3>4. UNCHANGED pending
        BY <2>3 DEF Finish
    <3>5. w \in Working /\ job[w] \in Jobs
        BY <2>3 DEF Finish, BaseInv, CountInv, Working
    <3>6. CASE UNCHANGED <<prepared, given_up>>
        BY <2>a, <3>2, <3>3, <3>4, <3>6, <1>a, <1>b
    <3>7. CASE UNCHANGED prepared /\ given_up' = given_up \cup {job[w].url} /\ Current(job[w])
      <4>1. w \in InWork
        BY <3>5, <3>7 DEF InWork, Working
      <4>2. Prepared' = Prepared
        BY <3>7 DEF Prepared
      <4>3. /\ \A k \in pending \cup Prepared : k.url # job[w].url
            /\ job[w].url \notin textures
            /\ \A v \in InWork : v # w => job[v].url # job[w].url
        BY <4>1 DEF OnceInv
      <4> QED BY <2>a, <3>2, <3>3, <3>4, <3>7, <4>2, <4>3 DEF GoneInv
    <3>8. CASE /\ prepared' = Append(prepared, job[w]) /\ Current(job[w])
               /\ UNCHANGED given_up
      <4>1. w \in InWork
        BY <3>5, <3>8 DEF InWork, Working
      <4>2. Prepared' = Prepared \cup {job[w]}
        BY <3>5, <3>8, QueueBack
      <4> QED BY <2>a, <3>2, <3>3, <3>4, <3>8, <4>1, <4>2 DEF GoneInv
    <3> QED BY <2>3, <3>6, <3>7, <3>8 DEF Finish, Keep, Miss
  <2>4. CASE Acquire(w) \/ WorkerRelease(w)
    BY <2>1, <2>4 DEF Acquire, WorkerRelease, Goes, BaseInv, TypeOK
  <2>5. CASE Take(w)
    BY <2>1, <2>2, <2>5 DEF Take, Goes, BaseInv, TypeOK
  <2> QED BY <1>5, <2>3, <2>4, <2>5 DEF Work
<1> QED BY <1>1, <1>2, <1>3, <1>4, <1>5 DEF Next

\* A load downloads each of its faces at most once, whatever comes between:
\* images that find no place, uploads that fail, losses of the session and
\* downloads of earlier loads that are still running, each of which is one
\* worker's alone (load, workerLoop, update, clear).
THEOREM NoLoadFetchesTwice == Spec => []EachLoadFetchesOnce
<1>1. Init => OnceInv /\ GoneInv
    BY DEF Init, OnceInv, GoneInv, Prepared, InWork, Working
<1>2. SnapshotInv /\ OnceInv /\ GoneInv => EachLoadFetchesOnce
  <2> SUFFICES ASSUME SnapshotInv, OnceInv, GoneInv PROVE EachLoadFetchesOnce
    OBVIOUS
  <2>1. ASSUME NEW w \in Working PROVE job[w] \notin pending \cup Prepared
    <3> SUFFICES ASSUME job[w] \in pending \cup Prepared PROVE FALSE
        OBVIOUS
    <3>1. w \in InWork
        BY DEF SnapshotInv, InWork, Working
    <3> QED BY <3>1 DEF OnceInv
  <2>2. pending \cap Prepared = {}
    BY DEF OnceInv
  <2> QED BY <2>1, <2>2 DEF OnceInv, GoneInv, EachLoadFetchesOnce
<1> QED BY <1>1, <1>2, OnceStep, GoneStep, BaseInvariant, SnapshotInvariant, PTL DEF Spec

-----------------------------------------------------------------------------
(* No face is forgotten *)

\* A face that is to come is in exactly the places where somebody will find it.
Coming == {j.url : j \in pending \cup Prepared} \cup {job[w].url : w \in InWork}

LEMMA AccountStep ==
    BaseInv /\ BaseInv' /\ SnapshotInv /\ SnapshotInv' /\ EveryFaceAccountedFor /\ [Next]_vars
        => EveryFaceAccountedFor'
<1> SUFFICES ASSUME BaseInv, BaseInv', SnapshotInv, SnapshotInv', EveryFaceAccountedFor,
                    [Next]_vars, shown' # None, ~stop'
             PROVE  shown' = textures' \cup given_up' \cup Coming'
    BY Zenon DEF EveryFaceAccountedFor, Coming
<1> USE DEF queues, threads, main
<1>a. shown # None /\ ~stop => shown = textures \cup given_up \cup Coming
    BY DEF EveryFaceAccountedFor, Coming
<1>b. ASSUME UNCHANGED <<pending, prepared, worker, job, generation>> PROVE Coming' = Coming
  <2>1. Prepared' = Prepared /\ InWork' = InWork
    BY <1>b, InWorkFrame DEF Prepared
  <2> QED BY <1>b, <2>1 DEF Coming
<1>1. ASSUME NEW snapshot \in Snapshots, Load(snapshot)
      PROVE  shown' = textures' \cup given_up' \cup Coming'
  <2>1. /\ shown' = Wanted(snapshot) /\ given_up' = {} /\ prepared' = <<>>
        /\ textures' \subseteq Wanted(snapshot)
        /\ pending' = [url : Wanted(snapshot) \ textures', generation : {generation'}]
        /\ generation' = generation + 1 /\ UNCHANGED <<worker, job>>
    BY <1>1 DEF Load, BeginGeneration, Missing
  <2>2. Prepared' = {}
    BY <2>1 DEF Prepared
  <2>3. \A w \in Working : job[w].generation <= generation /\ job[w].generation \in Int
    BY StoreConstants DEF SnapshotInv, BaseInv, CountInv, Jobs, Generations
  <2>4. InWork' = {}
    BY <2>1, <2>3, StoreConstants
       DEF InWork, Current, Working, BaseInv, TypeOK, Generations
  <2>5. \A u \in Wanted(snapshot) \ textures' : \E j \in pending' : j.url = u
    <3> SUFFICES ASSUME NEW u \in Wanted(snapshot) \ textures' PROVE \E j \in pending' : j.url = u
        OBVIOUS
    <3>1. [url |-> u, generation |-> generation'] \in pending'
        BY <2>1
    <3> QED BY <3>1
  <2>6. \A j \in pending' : j.url \in Wanted(snapshot) \ textures'
    BY <2>1
  <2>7. Coming' = Wanted(snapshot) \ textures'
    BY <2>2, <2>4, <2>5, <2>6 DEF Coming
  <2> QED BY <2>1, <2>7
<1>2. CASE Update
  <2>a. UNCHANGED <<pending, generation, worker, job, shown, stop>> /\ shown # None
    BY <1>2 DEF Update
  <2>b. InWork' = InWork
    BY <2>a, InWorkFrame
  <2>1. CASE prepared = <<>> /\ UNCHANGED <<prepared, textures, given_up>>
    BY <1>a, <1>b, <2>a, <2>1
  <2>2. CASE prepared # <<>> /\ prepared' = Tail(prepared)
    <3> DEFINE head == Head(prepared)
    <3>1. Prepared = Prepared' \cup {head}
      <4>1. prepared \in Seq(Jobs)
        BY DEF BaseInv, TypeOK
      <4>2. /\ DOMAIN prepared = 1 .. Len(prepared) /\ Len(prepared) \in Nat \ {0}
            /\ DOMAIN Tail(prepared) = 1 .. Len(prepared) - 1
            /\ \A i \in 1 .. Len(prepared) - 1 : Tail(prepared)[i] = prepared[i + 1]
            /\ prepared[1] = head
        BY <4>1, <2>2
      <4>3. \A i \in 2 .. Len(prepared) :
                i - 1 \in 1 .. Len(prepared) - 1 /\ Tail(prepared)[i - 1] = prepared[i]
        BY <4>2
      <4>4. \A i \in 1 .. Len(prepared) : i = 1 \/ i \in 2 .. Len(prepared)
        BY <4>2
      <4>5. ASSUME NEW i \in DOMAIN prepared
            PROVE  prepared[i] = head \/ \E k \in DOMAIN prepared' : prepared'[k] = prepared[i]
        BY <2>2, <4>2, <4>3, <4>4
      <4>6. ASSUME NEW k \in DOMAIN prepared'
            PROVE  \E i \in DOMAIN prepared : prepared[i] = prepared'[k]
        BY <2>2, QueueFront
      <4>7. \E i \in DOMAIN prepared : prepared[i] = head
        BY <2>2, QueueFront
      <4> QED BY <4>5, <4>6, <4>7 DEF Prepared
    <3>2. Current(head)
        BY <3>1 DEF SnapshotInv
    <3>3. \/ textures' = textures \cup {head.url} /\ UNCHANGED given_up
          \/ given_up' = given_up \cup {head.url} /\ UNCHANGED textures
        BY <1>2, <2>2, <3>2 DEF Update, Upload
    <3>4. Coming = Coming' \cup {head.url}
        BY <2>a, <2>b, <3>1 DEF Coming
    <3> QED BY <1>a, <2>a, <3>3, <3>4
  <2> QED BY <1>2, <2>1, <2>2 DEF Update
<1>3. CASE UpdateCheck \/ Release \/ SaveCache \/ Ended \/ UNCHANGED vars
  <2>1. UNCHANGED <<pending, prepared, worker, job, generation, textures, given_up, shown, stop>>
    BY <1>3 DEF UpdateCheck, Release, SaveCache, Ended, vars
  <2> QED BY <2>1, <1>a, <1>b
<1>4. CASE Clear \/ Joined \/ Shutdown
    BY <1>4 DEF Clear, Joined, Shutdown
<1>5. CASE Initialize
    BY <1>5 DEF Initialize, BaseInv, CountInv
<1>6. ASSUME NEW w \in Workers, Work(w)
      PROVE  shown' = textures' \cup given_up' \cup Coming'
  <2>a. UNCHANGED <<generation, textures, shown, stop>>
    BY <1>6 DEF Work, Acquire, Take, Finish, WorkerRelease
  <2>b. \A v \in Workers : v # w => worker'[v] = worker[v]
    BY <1>6 DEF Work, Acquire, Take, Finish, WorkerRelease, Goes, BaseInv, TypeOK
  <2>1. CASE /\ UNCHANGED <<pending, prepared, job, given_up>>
             /\ worker[w] # "working" /\ worker'[w] # "working"
    <3>1. InWork' = InWork
        BY <2>a, <2>b, <2>1 DEF InWork, Current
    <3>2. Coming' = Coming
        BY <2>1, <3>1 DEF Coming, Prepared
    <3> QED BY <1>a, <2>a, <2>1, <3>2
  <2>2. CASE /\ UNCHANGED <<prepared, given_up>> /\ worker[w] = "woken" /\ worker'[w] = "working"
             /\ \E j \in pending : pending' = pending \ {j} /\ job' = [job EXCEPT ![w] = j]
    <3>1. PICK j \in pending : pending' = pending \ {j} /\ job' = [job EXCEPT ![w] = j]
        BY <2>2
    <3>2. job'[w] = j /\ \A v \in Workers : v # w => job'[v] = job[v]
        BY <3>1 DEF BaseInv, TypeOK
    <3>3. Current(j)
        BY DEF SnapshotInv
    <3>4. InWork' = InWork \cup {w} /\ w \notin InWork
        BY <2>a, <2>b, <2>2, <3>2, <3>3 DEF InWork, Current
    <3>5. Prepared' = Prepared
        BY <2>2 DEF Prepared
    <3>6. Coming' = Coming
        BY <3>1, <3>2, <3>4, <3>5 DEF Coming, InWork
    <3> QED BY <1>a, <2>a, <2>2, <3>6
  <2>3. CASE Finish(w)
    <3>1. worker'[w] # "working" /\ \A v \in Workers : v # w => job'[v] = job[v]
        BY <2>3 DEF Finish, Goes, BaseInv, TypeOK
    <3>2. InWork' = InWork \ {w} /\ \A v \in InWork' : job'[v] = job[v]
        BY <2>a, <2>b, <3>1 DEF InWork, Current
    <3>3. w \in InWork <=> Current(job[w])
        BY <2>3 DEF Finish, InWork
    <3>4. UNCHANGED pending /\ job[w] \in Jobs
        BY <2>3 DEF Finish, BaseInv, CountInv, Working
    <3>5. CASE ~Current(job[w]) /\ UNCHANGED <<prepared, given_up>>
      <4>1. InWork' = InWork /\ Prepared' = Prepared
        BY <3>2, <3>3, <3>5 DEF Prepared
      <4>2. Coming' = Coming
        BY <3>2, <3>4, <4>1 DEF Coming
      <4> QED BY <1>a, <2>a, <3>5, <4>2
    <3>6. CASE Current(job[w]) /\ prepared' = Append(prepared, job[w]) /\ UNCHANGED given_up
      <4>1. Prepared' = Prepared \cup {job[w]}
        BY <3>4, <3>6, QueueBack
      <4>2. Coming' = Coming
        BY <3>2, <3>3, <3>4, <3>6, <4>1 DEF Coming
      <4> QED BY <1>a, <2>a, <3>6, <4>2
    <3>7. CASE /\ Current(job[w]) /\ UNCHANGED prepared
               /\ given_up' = given_up \cup {job[w].url}
      <4>1. Prepared' = Prepared
        BY <3>7 DEF Prepared
      <4>2. Coming = Coming' \cup {job[w].url}
        BY <3>2, <3>3, <3>4, <3>7, <4>1 DEF Coming
      <4> QED BY <1>a, <2>a, <3>7, <4>2
    <3> QED BY <2>3, <3>5, <3>6, <3>7 DEF Finish, Keep, Miss
  <2>4. CASE Acquire(w) \/ WorkerRelease(w)
    BY <2>1, <2>4 DEF Acquire, WorkerRelease, Goes, BaseInv, TypeOK
  <2>5. CASE Take(w)
    BY <2>1, <2>2, <2>5 DEF Take, Goes, BaseInv, TypeOK
  <2> QED BY <1>6, <2>3, <2>4, <2>5 DEF Work
<1> QED BY <1>1, <1>2, <1>3, <1>4, <1>5, <1>6 DEF Next

\* Every face the snapshot names is on show, on its way or given up by a step
\* that saw it fail or found no place: none falls between two queues.
THEOREM FacesAreAccountedFor == Spec => []EveryFaceAccountedFor
<1>1. Init => EveryFaceAccountedFor
    BY DEF Init, EveryFaceAccountedFor
<1> QED BY <1>1, AccountStep, BaseInvariant, SnapshotInvariant, PTL DEF Spec

-----------------------------------------------------------------------------
(***************************************************************************)
(* shutdown waits for workers that may be at anything.  That it returns is *)
(* a matter of fairness; that nothing can keep it from returning is not:   *)
(* as soon as it waits there are permits for all workers that still need   *)
(* one to wake up and leave, and each step brings one of them closer.      *)
(***************************************************************************)

\* The workers that will need a permit before they find out
ToWake == {w \in Workers : worker[w] \in {"waiting", "working", "releasing"}}

JoiningInv == call = "joining" => stop = TRUE /\ Cardinality(ToWake) <= permits

LEMMA WakesStep ==
    ASSUME Cardinality(Workers) <= MaxPermits, BaseInv, JoiningInv, [Next]_vars
    PROVE  JoiningInv'
<1> SUFFICES ASSUME call' = "joining" PROVE stop' = TRUE /\ Cardinality(ToWake') <= permits'
    BY DEF JoiningInv
<1> USE DEF queues, threads, main
<1>0. /\ permits \in 0 .. MaxPermits /\ MaxPermits \in Nat
      /\ Cardinality(Workers) \in Nat
    BY StoreConstants, WorkersCount DEF BaseInv, TypeOK
<1>1. /\ IsFiniteSet(ToWake) /\ Cardinality(ToWake) \in 0 .. Cardinality(Workers)
      /\ IsFiniteSet(ToWake') /\ Cardinality(ToWake') \in 0 .. Cardinality(Workers)
    BY WorkersCount DEF ToWake
<1>2. CASE Initialize
  <2>1. PICK created \in SUBSET Workers :
            /\ worker' = [w \in Workers |-> IF w \in created THEN "waiting" ELSE "none"]
            /\ stop' = TRUE
            /\ ReleasePermits(Cardinality(created))
    BY <1>2 DEF Initialize
  <2>2. ToWake' = created
    BY <2>1 DEF ToWake
  <2> QED BY <1>0, <1>1, <2>1, <2>2 DEF ReleasePermits, AtMost
<1>3. CASE Shutdown
  <2>1. stop' = TRUE /\ ToWake' = ToWake
    BY <1>3 DEF Shutdown, ToWake
  <2>2. permits' >= Cardinality(Workers) /\ permits' \in Int
    <3> DEFINE all == Cardinality(Workers)
    <3>1. permits' = AtMost(MaxPermits, permits + all)
      BY <1>3 DEF Shutdown, ReleasePermits
    <3>2. all \in Nat /\ all <= MaxPermits
      BY <1>0
    <3> HIDE DEF all
    <3>3. permits' >= all /\ permits' \in Int
      BY <1>0, <3>1, <3>2 DEF AtMost
    <3> QED BY <3>3 DEF all
  <2> QED BY <1>0, <1>1, <2>1, <2>2
<1>4. ASSUME NEW w \in Workers, Work(w) PROVE stop' = TRUE /\ Cardinality(ToWake') <= permits'
  <2>0. call = "joining" /\ stop = TRUE /\ stop' = TRUE /\ Cardinality(ToWake) <= permits
    BY <1>4 DEF Work, Acquire, Take, Finish, WorkerRelease, JoiningInv
  <2>1. Cardinality(ToWake \ {w}) = IF w \in ToWake THEN Cardinality(ToWake) - 1
                                                  ELSE Cardinality(ToWake)
    BY <1>1, FS_RemoveElement
  <2>2. CASE Acquire(w)
    <3>1. permits' = permits - 1 /\ w \in ToWake /\ ToWake' = ToWake \ {w}
      BY <2>2 DEF Acquire, Goes, ToWake, BaseInv, TypeOK
    <3> QED BY <1>0, <1>1, <2>0, <2>1, <3>1
  <2>3. CASE Take(w)
    <3>1. permits' = permits /\ worker[w] = "woken" /\ worker' = [worker EXCEPT ![w] = "gone"]
      BY <2>0, <2>3 DEF Take, Goes
    <3>2. ToWake' = ToWake
      BY <3>1 DEF ToWake, BaseInv, TypeOK
    <3> QED BY <2>0, <3>1, <3>2
  <2>4. CASE Finish(w)
    <3>1. permits' = permits /\ worker[w] = "working"
      BY <2>4 DEF Finish
    <3>2. PICK place \in {"waiting", "releasing"} : worker' = [worker EXCEPT ![w] = place]
      BY <2>4 DEF Finish, Goes
    <3>3. ToWake' = ToWake
      BY <3>1, <3>2 DEF ToWake, BaseInv, TypeOK
    <3> QED BY <2>0, <3>1, <3>3
  <2>5. CASE WorkerRelease(w)
    <3>1. permits' >= permits
      BY <1>0, <2>5 DEF WorkerRelease, ReleasePermits, AtMost
    <3>2. ToWake' = ToWake
      BY <2>5 DEF WorkerRelease, Goes, ToWake, BaseInv, TypeOK
    <3>3. permits' \in Int
      BY <1>0, <2>5 DEF WorkerRelease, ReleasePermits, AtMost
    <3> QED BY <1>0, <1>1, <2>0, <3>1, <3>2, <3>3
  <2> QED BY <1>4, <2>2, <2>3, <2>4, <2>5 DEF Work
<1>5. CASE UNCHANGED vars
    BY <1>5 DEF vars, JoiningInv, ToWake
<1>6. ~Update /\ ~UpdateCheck /\ ~Release /\ ~SaveCache /\ ~Clear /\ ~Joined
    BY DEF Update, UpdateCheck, Release, SaveCache, Clear, Joined
<1>7. ~\E snapshot \in Snapshots : Load(snapshot)
    BY DEF Load
<1>8. ~Ended
    BY DEF Ended, vars
<1> QED BY <1>2, <1>3, <1>4, <1>5, <1>6, <1>7, <1>8 DEF Next

\* A worker can take its next step, for which it needs a permit if it sleeps.
MayGoOn(w) ==
    \/ worker[w] \in {"woken", "working", "releasing"}
    \/ worker[w] = "waiting" /\ permits > 0

\* While shutdown waits, each worker has left or can go on: none is asleep with
\* nobody to wake it, as there are no fewer permits than workers (shutdown).
THEOREM ShutdownLeavesNoneAsleep ==
    Cardinality(Workers) <= MaxPermits =>
        (Spec => [](call = "joining" =>
                        \A w \in Workers : worker[w] \in {"none", "gone"} \/ MayGoOn(w)))
<1> SUFFICES ASSUME Cardinality(Workers) <= MaxPermits
             PROVE  Spec => [](call = "joining" =>
                        \A w \in Workers : worker[w] \in {"none", "gone"} \/ MayGoOn(w))
    OBVIOUS
<1>1. Init => JoiningInv
    BY DEF Init, JoiningInv
<1>2. BaseInv /\ JoiningInv =>
          (call = "joining" => \A w \in Workers : worker[w] \in {"none", "gone"} \/ MayGoOn(w))
  <2> SUFFICES ASSUME BaseInv, JoiningInv, call = "joining", NEW w \in Workers,
                      worker[w] = "waiting"
               PROVE  permits > 0
    BY DEF BaseInv, TypeOK, MayGoOn
  <2>1. w \in ToWake /\ IsFiniteSet(ToWake)
    BY WorkersCount DEF ToWake
  <2>2. Cardinality(ToWake) \in Nat /\ Cardinality(ToWake) # 0
    BY <2>1, FS_CardinalityType, FS_EmptySet
  <2>3. permits \in Int /\ Cardinality(ToWake) <= permits
    BY StoreConstants DEF BaseInv, TypeOK, JoiningInv
  <2> QED BY <2>2, <2>3
<1> QED BY <1>1, <1>2, WakesStep, BaseInvariant, PTL DEF Spec

\* How many steps a worker is from having left
StepsLeft(place) ==
    IF place = "working" THEN 4
    ELSE IF place = "releasing" THEN 3
    ELSE IF place = "waiting" THEN 2
    ELSE IF place = "woken" THEN 1
    ELSE 0

\* While shutdown waits, nothing happens but that one worker comes closer to
\* leaving, until it returns: it waits for finitely many steps.
Joins ==
    call = "joining" =>
        \/ call' = "down" /\ \A w \in Workers : worker[w] \in {"none", "gone"}
        \/ /\ call' = "joining"
           /\ \E w \in Workers : /\ StepsLeft(worker'[w]) < StepsLeft(worker[w])
                                 /\ \A v \in Workers \ {w} : worker'[v] = worker[v]

THEOREM ShutdownComesCloser ==
    Cardinality(Workers) <= MaxPermits => (Spec => [][Joins]_vars)
<1> SUFFICES ASSUME Cardinality(Workers) <= MaxPermits PROVE Spec => [][Joins]_vars
    OBVIOUS
<1>1. Init => JoiningInv
    BY DEF Init, JoiningInv
<1>2. BaseInv /\ JoiningInv /\ [Next]_vars => [Joins]_vars
  <2> SUFFICES ASSUME BaseInv, JoiningInv, Next, ~UNCHANGED vars, call = "joining" PROVE Joins
    BY DEF Joins
  <2>1. CASE Joined
    BY <2>1 DEF Joined, Joins
  <2>2. ASSUME NEW w \in Workers, Work(w) PROVE Joins
    <3>1. PICK place \in {"waiting", "woken", "releasing", "gone"} :
              /\ worker' = [worker EXCEPT ![w] = place]
              /\ StepsLeft(place) < StepsLeft(worker[w])
      <4>1. CASE Acquire(w)
        <5>1. worker[w] = "waiting" /\ worker' = [worker EXCEPT ![w] = "woken"]
          BY <4>1 DEF Acquire, Goes
        <5> QED BY <5>1 DEF StepsLeft
      <4>2. CASE Take(w)
        <5>1. stop = TRUE
          BY DEF JoiningInv
        <5>2. worker[w] = "woken" /\ worker' = [worker EXCEPT ![w] = "gone"]
          BY <4>2, <5>1 DEF Take, Goes
        <5> QED BY <5>2 DEF StepsLeft
      <4>3. CASE Finish(w)
        <5>1. worker[w] = "working"
          BY <4>3 DEF Finish
        <5>2. PICK next \in {"releasing", "waiting"} : worker' = [worker EXCEPT ![w] = next]
          BY <4>3 DEF Finish, Goes
        <5>3. StepsLeft(next) < StepsLeft(worker[w])
          BY <5>1 DEF StepsLeft
        <5> QED BY <5>2, <5>3, Zenon
      <4>4. CASE WorkerRelease(w)
        <5>1. worker[w] = "releasing" /\ worker' = [worker EXCEPT ![w] = "waiting"]
          BY <4>4 DEF WorkerRelease, Goes
        <5> QED BY <5>1 DEF StepsLeft
      <4> QED BY <2>2, <4>1, <4>2, <4>3, <4>4 DEF Work
    <3>2. /\ worker'[w] = place /\ \A v \in Workers \ {w} : worker'[v] = worker[v]
      BY <3>1 DEF BaseInv, TypeOK
    <3>3. call' = "joining"
      BY <2>2 DEF Work, Acquire, Take, Finish, WorkerRelease
    <3> QED BY <3>1, <3>2, <3>3 DEF Joins
  <2>3. ~Initialize /\ ~Update /\ ~UpdateCheck /\ ~Release /\ ~SaveCache /\ ~Clear
        /\ ~Shutdown /\ ~\E snapshot \in Snapshots : Load(snapshot)
    BY DEF Initialize, Update, UpdateCheck, Release, SaveCache, Clear, Shutdown, Load
  <2>4. ~Ended
    BY DEF Ended
  <2> QED BY <2>1, <2>2, <2>3, <2>4 DEF Next
<1> QED BY <1>1, <1>2, WakesStep, BaseInvariant, PTL DEF Spec

=============================================================================
