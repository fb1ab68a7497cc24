---------------------------- MODULE AvatarStore -----------------------------
(***************************************************************************)
(* platform_3ds::AvatarStore: the faces of the people on the dashboard.    *)
(* Two worker threads download and decode them; the main thread, once per  *)
(* frame, turns at most one prepared image into a texture.  They share two *)
(* queues under one lock, and a counting semaphore that wakes a worker for *)
(* every free place it was told of.                                        *)
(*                                                                         *)
(* A section under the lock is one action; between two of them any other   *)
(* thread may run.  The order of the waiting downloads is left out; a face *)
(* is its address, of which a snapshot names each once.                    *)
(***************************************************************************)
EXTENDS Naturals, Sequences, FiniteSets

CONSTANTS
    Workers,            \* kDownloadWorkerCount threads
    MaximumPrepared,    \* kMaximumPreparedAvatars
    MaximumAvatars,     \* kMaximumAvatarCount
    MaxPermits,         \* the semaphore's maximum
    Urls,               \* the valid addresses
    Snapshots,          \* the addresses a snapshot names, in its order
    StoredCaches,       \* what the cache file may hold
    None,               \* no snapshot, or no job
    MaxLoads            \* bound: how often load is called

ASSUME StoreConstants ==
    /\ IsFiniteSet(Workers) /\ Workers # {}
    /\ {MaximumPrepared, MaximumAvatars, MaxPermits} \subseteq Nat \ {0}
    /\ MaxLoads \in Nat
    /\ Snapshots \subseteq Seq(Urls)
    /\ StoredCaches \subseteq SUBSET Urls
    /\ \A faces \in StoredCaches : Cardinality(faces) <= MaximumAvatars
    /\ \A urls \in SUBSET Urls : urls # None

VARIABLES
    pending,      \* pending_avatars_, as a set
    prepared,     \* prepared_avatars_
    busy,         \* busy_workers_
    generation,   \* generation_
    permits,      \* work_semaphore_'s count
    stop,         \* stop_requested_
    worker,       \* where each worker is
    job,          \* the download each worker is at
    call,         \* where the main thread is
    due,          \* the permits it is about to release
    textures,     \* the faces that have a texture
    cached,       \* cached_avatars_
    dirty,        \* cache_dirty_
    shown,        \* history: the faces the dashboard asked for
    given_up      \* history: those among them that will not come

queues == <<pending, prepared, busy>>
threads == <<worker, job>>
main == <<textures, cached, dirty, shown>>
vars == <<queues, generation, permits, stop, threads, call, due, main, given_up>>

Generations == 0 .. MaxLoads
Jobs == [url : Urls, generation : Generations]

TypeOK ==
    /\ pending \in SUBSET Jobs
    /\ prepared \in Seq(Jobs) /\ Len(prepared) <= MaximumPrepared
    /\ busy \in 0 .. Cardinality(Workers)
    /\ generation \in Generations
    /\ permits \in 0 .. MaxPermits
    /\ stop \in BOOLEAN
    /\ worker \in [Workers -> {"none", "waiting", "woken", "working", "releasing", "gone"}]
    /\ job \in [Workers -> Jobs \cup {None}]
    /\ call \in {"off", "idle", "check", "release", "save", "joining", "down"}
    /\ due \in 0 .. Cardinality(Workers)
    /\ textures \subseteq Urls
    /\ cached \subseteq Urls
    /\ dirty \in BOOLEAN
    /\ shown = None \/ shown \subseteq Urls
    /\ given_up \subseteq Urls

Init ==
    /\ pending = {} /\ prepared = <<>> /\ busy = 0
    /\ generation = 0
    /\ permits = 0
    /\ stop = FALSE
    /\ worker = [w \in Workers |-> "none"]
    /\ job = [w \in Workers |-> None]
    /\ call = "off"
    /\ due = 0
    /\ textures = {}
    /\ cached = {}
    /\ dirty = FALSE
    /\ shown = None
    /\ given_up = {}

-----------------------------------------------------------------------------
(* What the operations have in common *)

AtMost(m, n) == IF n <= m THEN n ELSE m

\* LightSemaphore_Release stops at the maximum.
ReleasePermits(n) == permits' = AtMost(MaxPermits, permits + n)

Current(j) == j.generation = generation

\* schedule_next in update, continue_loading in workerLoop
MayStartAnother(waiting, ready, at_work) ==
    /\ Len(ready) + at_work < MaximumPrepared
    /\ waiting # {}
    /\ at_work < Cardinality(Workers)

-----------------------------------------------------------------------------
(* The main thread *)

\* initialize, with what the cache on the card still holds.  If a thread cannot
\* be created, those before it are told to stop.
Initialize ==
    /\ call = "off"
    /\ cached' \in StoredCaches
    /\ \E created \in SUBSET Workers :
          /\ worker' = [w \in Workers |-> IF w \in created THEN "waiting" ELSE "none"]
          /\ IF created = Workers
             THEN call' = "idle" /\ UNCHANGED <<stop, permits>>
             ELSE /\ stop' = TRUE
                  /\ ReleasePermits(Cardinality(created))
                  /\ call' = "joining"
    /\ UNCHANGED <<queues, generation, job, due, textures, dirty, shown, given_up>>

\* No more faces than the limit are asked for.
Wanted(snapshot) ==
    {snapshot[i] : i \in 1 .. AtMost(MaximumAvatars, Len(snapshot))}

\* Fault: downloads of the snapshot before are taken for this one's.
BeginGeneration_Same == UNCHANGED generation

BeginGeneration == generation' = generation + 1

KeepInCache(wanted) == cached' = cached \cap wanted

\* Fault: the upload of a cached face is taken to have succeeded.
Missing_Cached(wanted) == wanted \ (textures' \cup cached')

Missing(wanted) == wanted \ textures'

\* load: textures and cache keep what the snapshot names, what the cache holds
\* is uploaded if that succeeds, and the rest waits for a worker.
Load(snapshot) ==
    LET wanted == Wanted(snapshot)
        kept == textures \cap wanted
    IN  /\ call = "idle"
        /\ generation < MaxLoads
        /\ BeginGeneration
        /\ KeepInCache(wanted)
        /\ dirty' = (dirty \/ cached' # cached)
        /\ \E uploaded \in SUBSET ((cached' \cap wanted) \ kept) :
              textures' = kept \cup uploaded
        /\ pending' = [url : Missing(wanted), generation : {generation'}]
        /\ prepared' = <<>>
        /\ call' = "release"
        /\ due' = AtMost(Cardinality(Workers), Cardinality(Missing(wanted)))
        /\ shown' = wanted
        /\ given_up' = {}
        /\ UNCHANGED <<busy, permits, stop, threads>>

\* upload for a prepared image: it gets a texture and a place in the cache, or
\* no texture can be made.
Upload(url) ==
    \/ /\ textures' = textures \cup {url}
       /\ cached' = IF Cardinality(cached) < MaximumAvatars THEN cached \cup {url}
                                                            ELSE cached
       /\ dirty' = TRUE
       /\ UNCHANGED given_up
    \/ /\ given_up' = given_up \cup {url}
       /\ UNCHANGED <<textures, cached, dirty>>

\* update, which main calls while the dashboard is on screen
Update ==
    /\ call = "idle"
    /\ shown # None
    /\ call' = "check"
    /\ \/ /\ prepared = <<>>
          /\ UNCHANGED <<prepared, textures, cached, dirty, given_up>>
       \/ /\ prepared # <<>>
          /\ prepared' = Tail(prepared)
          /\ IF Current(Head(prepared)) THEN Upload(Head(prepared).url)
             ELSE UNCHANGED <<textures, cached, dirty, given_up>>
    /\ UNCHANGED <<pending, busy, generation, permits, stop, threads, due, shown>>

\* Fault: update leaves it to the workers to go on.
UpdateCheck_Never ==
    /\ call = "check"
    /\ due' = 0
    /\ call' = "release"
    /\ UNCHANGED <<queues, generation, permits, stop, threads, main, given_up>>

UpdateCheck ==
    /\ call = "check"
    /\ due' = IF MayStartAnother(pending, prepared, busy) THEN 1 ELSE 0
    /\ call' = "release"
    /\ UNCHANGED <<queues, generation, permits, stop, threads, main, given_up>>

Release ==
    /\ call = "release"
    /\ ReleasePermits(due)
    /\ due' = 0
    /\ call' = "save"
    /\ UNCHANGED <<queues, generation, stop, threads, main, given_up>>

Idle == busy = 0 /\ pending = {} /\ prepared = <<>>

\* saveCacheIfComplete; the card may fail.
SaveCache ==
    /\ call = "save"
    /\ call' = "idle"
    /\ UNCHANGED dirty \/ (Idle /\ dirty' = FALSE)
    /\ UNCHANGED <<queues, generation, permits, stop, threads, due, textures,
                   cached, shown, given_up>>

\* clear, which main calls when the session is over
Clear ==
    /\ call = "idle"
    /\ pending' = {} /\ prepared' = <<>>
    /\ textures' = {}
    /\ shown' = None
    /\ given_up' = {}
    /\ UNCHANGED <<busy, generation, permits, stop, threads, call, due, cached, dirty>>

\* Fault: one worker is woken, and left to wake the other.
Shutdown_OnePermit ==
    /\ call = "idle"
    /\ stop' = TRUE
    /\ pending' = {}
    /\ ReleasePermits(1)
    /\ call' = "joining"
    /\ UNCHANGED <<prepared, busy, generation, threads, due, main, given_up>>

\* shutdown, up to the joining of the workers
Shutdown ==
    /\ call = "idle"
    /\ stop' = TRUE
    /\ pending' = {}
    /\ ReleasePermits(Cardinality(Workers))
    /\ call' = "joining"
    /\ UNCHANGED <<prepared, busy, generation, threads, due, main, given_up>>

\* All workers have returned; what they left is cleared.
Joined ==
    /\ call = "joining"
    /\ \A w \in Workers : worker[w] \in {"none", "gone"}
    /\ call' = "down"
    /\ pending' = {} /\ prepared' = <<>>
    /\ textures' = {}
    /\ shown' = None
    /\ given_up' = {}
    /\ UNCHANGED <<busy, generation, permits, stop, threads, due, cached, dirty>>

-----------------------------------------------------------------------------
(* A worker *)

Goes(w, place) == worker' = [worker EXCEPT ![w] = place]

Acquire(w) ==
    /\ worker[w] = "waiting"
    /\ permits > 0
    /\ permits' = permits - 1
    /\ Goes(w, "woken")
    /\ UNCHANGED <<queues, generation, stop, job, call, due, main, given_up>>

\* The first section under the lock
Take(w) ==
    /\ worker[w] = "woken"
    /\ \/ /\ stop
          /\ Goes(w, "gone")
          /\ UNCHANGED <<queues, job>>
       \/ /\ ~stop
          /\ Len(prepared) >= MaximumPrepared \/ pending = {}
          /\ Goes(w, "waiting")
          /\ UNCHANGED <<queues, job>>
       \/ /\ ~stop
          /\ Len(prepared) < MaximumPrepared
          /\ \E j \in pending :
                /\ pending' = pending \ {j}
                /\ job' = [job EXCEPT ![w] = j]
          /\ busy' = busy + 1
          /\ Goes(w, "working")
          /\ UNCHANGED prepared
    /\ UNCHANGED <<generation, permits, stop, call, due, main, given_up>>

\* The image is queued if it is still asked for and there is a place for it.
Keep(j) ==
    IF Current(j) /\ Len(prepared) < MaximumPrepared
    THEN prepared' = Append(prepared, j) /\ UNCHANGED given_up
    ELSE /\ given_up' = IF Current(j) THEN given_up \cup {j.url} ELSE given_up
         /\ UNCHANGED prepared

\* There is no image: the download or the decoding failed.
Miss(j) ==
    /\ given_up' = IF Current(j) THEN given_up \cup {j.url} ELSE given_up
    /\ UNCHANGED prepared

\* The second section under the lock
Finish(w) ==
    /\ worker[w] = "working"
    /\ busy' = busy - 1
    /\ job' = [job EXCEPT ![w] = None]
    /\ Keep(job[w]) \/ Miss(job[w])
    /\ Goes(w, IF MayStartAnother(pending, prepared', busy') THEN "releasing" ELSE "waiting")
    /\ UNCHANGED <<pending, generation, permits, stop, call, due, main>>

WorkerRelease(w) ==
    /\ worker[w] = "releasing"
    /\ ReleasePermits(1)
    /\ Goes(w, "waiting")
    /\ UNCHANGED <<queues, generation, stop, job, call, due, main, given_up>>

-----------------------------------------------------------------------------

Work(w) == Acquire(w) \/ Take(w) \/ Finish(w) \/ WorkerRelease(w)

\* The program has ended.
Ended == call = "down" /\ UNCHANGED vars

Next ==
    \/ Initialize \/ Update \/ UpdateCheck \/ Release \/ SaveCache
    \/ \E snapshot \in Snapshots : Load(snapshot)
    \/ Clear \/ Shutdown \/ Joined \/ Ended
    \/ \E w \in Workers : Work(w)

Spec == Init /\ [][Next]_vars

\* Threads that can run do run, downloads end, the dashboard stays on screen,
\* and the card can be written to now and then.
FairSpec ==
    /\ Spec
    /\ \A w \in Workers : WF_vars(Work(w))
    /\ WF_vars(Update) /\ WF_vars(UpdateCheck) /\ WF_vars(Release) /\ WF_vars(SaveCache)
    /\ WF_vars(Joined)
    /\ SF_vars(SaveCache /\ ~dirty')

-----------------------------------------------------------------------------
(* Properties *)

\* While faces wait to be downloaded, somebody will see to them: a permit is
\* out, a worker is awake, or the main thread is to release a permit or to take
\* a prepared image and then look (update, workerLoop).
NoLostWakeup ==
    pending # {} /\ ~stop =>
        \/ permits > 0
        \/ \E w \in Workers : worker[w] \in {"woken", "working", "releasing"}
        \/ prepared # <<>>
        \/ call = "check"
        \/ due > 0

\* Only faces of the latest snapshot get textures, whichever downloads of
\* earlier ones are still under way (load, update).
FacesAreOfSnapshot ==
    /\ shown # None => textures \subseteq shown
    /\ shown = None => textures = {}

Prepared == {prepared[i] : i \in DOMAIN prepared}
Working == {w \in Workers : worker[w] = "working"}
InWork == {w \in Workers : worker[w] = "working" /\ Current(job[w])}

\* A load fetches each of its faces at most once, and no download is made by two
\* workers, those of earlier loads included (load, workerLoop, update).  A
\* download that a load has superseded does not stop that load from asking for
\* the same face again; its own image is then dropped.
EachLoadFetchesOnce ==
    /\ \A v, w \in Working : job[v] = job[w] => v = w
    /\ \A w \in Working : job[w] \notin pending \cup Prepared
    /\ \A i, k \in DOMAIN prepared : prepared[i] = prepared[k] => i = k
    /\ pending \cap Prepared = {}
    /\ \A j \in pending \cup Prepared \cup {job[w] : w \in InWork} :
           j.url \notin textures \cup given_up
    /\ textures \cap given_up = {}

\* Every face of the snapshot is on show, on its way or given up for a reason
\* the code sees: none falls between two queues.
EveryFaceAccountedFor ==
    shown # None /\ ~stop =>
        shown = textures \cup given_up \cup {j.url : j \in pending \cup Prepared}
                    \cup {job[w].url : w \in InWork}

\* A face on show is in the cache that will be saved: the cache never refuses
\* one for want of room (upload, load).
FacesAreCached == textures \subseteq cached

\* While the dashboard stays, its faces settle and the cache is saved.
FacesSettle == shown # None ~> (Idle /\ ~dirty) \/ shown = None \/ stop

\* shutdown returns: both workers are woken and leave, whatever they were at.
ShutdownEnds == call = "joining" ~> call = "down"

=============================================================================
