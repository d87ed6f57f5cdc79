---------------------------- MODULE MappingCache ----------------------------
(***************************************************************************)
(* The mapping suggestions the tasks of a workspace ask the model for.     *)
(* Each process keeps the futures of its requests in an ordered cache, so  *)
(* that batches with the same fields and columns share one; a pool of      *)
(* threads works on them, and Redis holds results and a lock per key for   *)
(* all processes.  A request is named by the batch that caused it, the     *)
(* task and the place of the batch in the task.                            *)
(***************************************************************************)
EXTENDS Integers, Sequences, FiniteSets

CONSTANTS MapTasks,      \* tasks being analysed
          ProcessOf,     \* task -> the process that analyses it
          BatchesOf,     \* task -> the keys of its batches, in order
          MapThreads,    \* threads of the executor of a process
          TaskShare,     \* futures a task waits for at one time
          CacheSize

MapCalls  == UNION {{<<t, i>> : i \in DOMAIN BatchesOf[t]} : t \in MapTasks}
KeyOfCall(c) == BatchesOf[c[1]][c[2]]
HostOf(c)    == ProcessOf[c[1]]
MapKeys   == {KeyOfCall(c) : c \in MapCalls}
Processes == {ProcessOf[t] : t \in MapTasks}
NoCache   == <<>>

ASSUME MappingCacheAssumption ==
    MapThreads \in Nat \ {0} /\ TaskShare \in Nat \ {0} /\ CacheSize \in Nat \ {0}

VARIABLES
    mapEntries,  \* process -> its cache: futures in order, with their deadlines
    mapCall,     \* request -> where its thread is
    mapCached,   \* requests whose future went into the cache, not yet told done
    mapState,    \* batch -> waiting, running, completed, failed
    mapFuture,   \* batch -> the request it waits for
    mapResult,   \* keys whose result Redis holds
    mapHolder,   \* key -> the requests that hold its Redis lock (one at most)
    mapFull,     \* history: a request was made past a full cache
    mapLapsed    \* history: keys whose lock expired, timed out or was lost

mapVars == <<mapEntries, mapCall, mapCached, mapState, mapFuture, mapResult,
             mapHolder, mapFull, mapLapsed>>

Asking     == {"ask", "ask only"}
HoldingMap == {"look again", "store", "unlock done", "unlock failed"} \cup Asking
EndedCall  == {"done", "failed"}

-----------------------------------------------------------------------------
(* MappingRuntime.submit, under the lock of the runtime.                   *)

WaitsFor(t) == {mapFuture[b] : b \in {b \in MapCalls : b[1] = t /\ mapState[b] = "running"}}

(* The entries at some places of a cache, in their order. *)
EntriesAt(cache, places) ==
    [n \in 1 .. Cardinality(places) |->
        cache[CHOOSE i \in places : Cardinality({j \in places : j <= i}) = n]]

Entry(cache, k) == {i \in DOMAIN cache : KeyOfCall(cache[i].call) = k}
Without(cache, S) == EntriesAt(cache, {i \in DOMAIN cache : cache[i].call \notin S})

(* The cache without the entries that are done and past their deadline. *)
Live(p) ==
    LET cache == mapEntries[p] IN
    EntriesAt(cache, {i \in DOMAIN cache :
                         ~(mapCall[cache[i].call] \in EndedCall /\ cache[i].ends = "past")})

(* Slip: the oldest entries go, done or not. *)
SlipEvicted(cache) ==
    LET over == Len(cache) - CacheSize + 1
    IN  Without(cache, {cache[i].call : i \in {i \in DOMAIN cache : i <= over}})

(* Make room by dropping the oldest done entries, as far as there are any. *)
Evicted(cache) ==
    LET done == {i \in DOMAIN cache : mapCall[cache[i].call] \in EndedCall}
        over == Len(cache) - CacheSize + 1
        gone == {i \in done : Cardinality({j \in done : j <= i}) <= over}
    IN  Without(cache, {cache[i].call : i \in gone})

NextBatch(t) == {b \in MapCalls : b[1] = t /\ mapState[b] = "waiting"
                   /\ \A i \in 1 .. b[2] - 1 : mapState[<<t, i>>] # "waiting"}

(* Slip: a request that failed is shared as well. *)
SlipShare(t) ==
    /\ Cardinality(WaitsFor(t)) < TaskShare
    /\ \E b \in NextBatch(t) :
          LET p == ProcessOf[t] IN
          \E i \in Entry(Live(p), KeyOfCall(b)) :
             /\ mapFuture' = [mapFuture EXCEPT ![b] = Live(p)[i].call]
             /\ mapState' = [mapState EXCEPT ![b] = "running"]
    /\ UNCHANGED <<mapEntries, mapCall, mapCached, mapResult, mapHolder, mapFull, mapLapsed>>

(* A live request of the key is shared, unless it failed; the shared one   *)
(* goes to the end of the cache.                                           *)
Share(t) ==
    /\ Cardinality(WaitsFor(t)) < TaskShare
    /\ \E b \in NextBatch(t) :
          LET p == ProcessOf[t] IN
          \E i \in Entry(Live(p), KeyOfCall(b)) :
             LET e == Live(p)[i] IN
             /\ mapCall[e.call] # "failed"
             /\ mapEntries' = [mapEntries EXCEPT ![p] = Append(Without(Live(p), {e.call}), e)]
             /\ mapFuture' = [mapFuture EXCEPT ![b] = e.call]
             /\ mapState' = [mapState EXCEPT ![b] = "running"]
    /\ UNCHANGED <<mapCall, mapCached, mapResult, mapHolder, mapFull, mapLapsed>>

(* Otherwise a request is made; it is cached if there is room. *)
Submit(t) ==
    /\ Cardinality(WaitsFor(t)) < TaskShare
    /\ \E b \in NextBatch(t) :
          LET p     == ProcessOf[t]
              found == {Live(p)[i].call : i \in Entry(Live(p), KeyOfCall(b))}
              cache == Evicted(Without(Live(p), found))
              room  == Len(cache) < CacheSize
          IN  /\ \A c \in found : mapCall[c] = "failed"
              /\ mapEntries' = [mapEntries EXCEPT ![p] =
                    IF room THEN Append(cache, [call |-> b, ends |-> "never"]) ELSE cache]
              /\ mapCached' = IF room THEN mapCached \cup {b} ELSE mapCached
              /\ mapFull' = (mapFull \/ ~room)
              /\ mapCall' = [mapCall EXCEPT ![b] = "waiting"]
              /\ mapFuture' = [mapFuture EXCEPT ![b] = b]
              /\ mapState' = [mapState EXCEPT ![b] = "running"]
    /\ UNCHANGED <<mapResult, mapHolder, mapLapsed>>

(* _completed, the callback of a cached future: only its own entry is      *)
(* dropped after a failure, or given its deadline.                         *)
Completed(c) ==
    /\ c \in mapCached /\ mapCall[c] \in EndedCall
    /\ mapEntries' = [mapEntries EXCEPT ![HostOf(c)] =
            IF mapCall[c] = "failed" THEN Without(@, {c})
            ELSE [i \in DOMAIN @ |-> IF @[i].call = c THEN [@[i] EXCEPT !.ends = "later"]
                                     ELSE @[i]]]
    /\ mapCached' = mapCached \ {c}
    /\ UNCHANGED <<mapCall, mapState, mapFuture, mapResult, mapHolder, mapFull, mapLapsed>>

DeadlinePasses(p) ==
    \E i \in DOMAIN mapEntries[p] :
       /\ mapEntries[p][i].ends = "later"
       /\ mapEntries' = [mapEntries EXCEPT ![p][i].ends = "past"]
       /\ UNCHANGED <<mapCall, mapCached, mapState, mapFuture, mapResult, mapHolder,
                      mapFull, mapLapsed>>

(* analyze takes the results of the futures that are done. *)
Collect(t) ==
    LET ended == {b \in MapCalls : b[1] = t /\ mapState[b] = "running"
                                   /\ mapCall[mapFuture[b]] \in EndedCall}
    IN  /\ ended # {}
        /\ mapState' = [b \in MapCalls |-> IF b \notin ended THEN mapState[b]
                          ELSE IF mapCall[mapFuture[b]] = "done" THEN "completed" ELSE "failed"]
        /\ UNCHANGED <<mapEntries, mapCall, mapCached, mapFuture, mapResult, mapHolder,
                       mapFull, mapLapsed>>

-----------------------------------------------------------------------------
(* _compute, in a thread of the executor.                                  *)

ComputeVars == <<mapEntries, mapCached, mapState, mapFuture, mapFull>>

Step(c, from, to) == mapCall[c] = from /\ mapCall' = [mapCall EXCEPT ![c] = to]

InThread(p) == {c \in MapCalls : HostOf(c) = p /\ mapCall[c] \notin {"none", "waiting"} \cup EndedCall}

TakeThread(c) ==
    /\ Cardinality(InThread(HostOf(c))) < MapThreads
    /\ Step(c, "waiting", "look")
    /\ UNCHANGED <<mapResult, mapHolder, mapLapsed>> /\ UNCHANGED ComputeVars

Look(c) ==
    /\ Step(c, "look", IF KeyOfCall(c) \in mapResult THEN "done" ELSE "lock")
    /\ UNCHANGED <<mapResult, mapHolder, mapLapsed>> /\ UNCHANGED ComputeVars

(* Slip: the lock is taken from whoever has it. *)
SlipLock(c) ==
    /\ mapHolder' = [mapHolder EXCEPT ![KeyOfCall(c)] = {c}]
    /\ Step(c, "lock", "look again")
    /\ UNCHANGED <<mapResult, mapLapsed>> /\ UNCHANGED ComputeVars

Lock(c) ==
    /\ mapHolder[KeyOfCall(c)] = {}
    /\ mapHolder' = [mapHolder EXCEPT ![KeyOfCall(c)] = {c}]
    /\ Step(c, "lock", "look again")
    /\ UNCHANGED <<mapResult, mapLapsed>> /\ UNCHANGED ComputeVars

LookAgain(c) ==
    /\ Step(c, "look again", IF KeyOfCall(c) \in mapResult THEN "unlock done" ELSE "ask")
    /\ UNCHANGED <<mapResult, mapHolder, mapLapsed>> /\ UNCHANGED ComputeVars

(* The wait of 330 s for the lock is over and the model is asked without   *)
(* it; or Redis fails and is left out from here on.                        *)
GoOnUnlocked(c) ==
    /\ \/ Step(c, "lock", "ask")
       \/ \E at \in {"look", "lock", "look again"} : Step(c, at, "ask only")
    /\ mapLapsed' = mapLapsed \cup {KeyOfCall(c)}
    /\ UNCHANGED <<mapResult, mapHolder>> /\ UNCHANGED ComputeVars

(* The model answers or fails, at the second attempt at the latest. *)
AskModel(c) ==
    /\ \/ Step(c, "ask", "store") \/ Step(c, "ask only", "unlock done")
       \/ \E at \in Asking : Step(c, at, "unlock failed")
    /\ UNCHANGED <<mapResult, mapHolder, mapLapsed>> /\ UNCHANGED ComputeVars

StoreResult(c) ==
    /\ mapResult' \in {mapResult, mapResult \cup {KeyOfCall(c)}}
    /\ Step(c, "store", "unlock done")
    /\ UNCHANGED <<mapHolder, mapLapsed>> /\ UNCHANGED ComputeVars

(* The lock is released by who holds it; for another holder, or without    *)
(* Redis, the release is an error that is ignored.                         *)
Release(c) ==
    /\ Step(c, "unlock done", "done") \/ Step(c, "unlock failed", "failed")
    /\ mapHolder' = [mapHolder EXCEPT ![KeyOfCall(c)] = @ \ {c}]
    /\ UNCHANGED <<mapResult, mapLapsed>> /\ UNCHANGED ComputeVars

(* Redis drops a lock 360 s after it was taken, and a result after its time. *)
LockExpires(k) ==
    /\ mapHolder[k] # {}
    /\ mapHolder' = [mapHolder EXCEPT ![k] = {}]
    /\ mapLapsed' = mapLapsed \cup {k}
    /\ UNCHANGED <<mapCall, mapResult>> /\ UNCHANGED ComputeVars

ResultExpires(k) ==
    /\ k \in mapResult
    /\ mapResult' = mapResult \ {k}
    /\ UNCHANGED <<mapCall, mapHolder, mapLapsed>> /\ UNCHANGED ComputeVars

-----------------------------------------------------------------------------
MapInit ==
    /\ mapEntries = [p \in Processes |-> NoCache]
    /\ mapCall = [c \in MapCalls |-> "none"]
    /\ mapCached = {}
    /\ mapState = [b \in MapCalls |-> "waiting"]
    /\ mapFuture = [b \in MapCalls |-> b]
    /\ mapResult = {}
    /\ mapHolder = [k \in MapKeys |-> {}]
    /\ mapFull = FALSE
    /\ mapLapsed = {}

MapNext ==
    \/ \E t \in MapTasks : Share(t) \/ Submit(t) \/ Collect(t)
    \/ \E c \in MapCalls :
          \/ TakeThread(c) \/ Look(c) \/ Lock(c) \/ LookAgain(c) \/ GoOnUnlocked(c)
          \/ AskModel(c) \/ StoreResult(c) \/ Release(c) \/ Completed(c)
    \/ \E p \in Processes : DeadlinePasses(p)
    \/ \E k \in MapKeys : LockExpires(k) \/ ResultExpires(k)

MapSpec == MapInit /\ [][MapNext]_mapVars

-----------------------------------------------------------------------------
(* Properties.                                                             *)

(* The model is asked for a key by one thread at a time, over all          *)
(* processes, unless the lock of the key lapsed, could not be had in time  *)
(* or Redis failed.                                                        *)
OneAskPerKey ==
    \A c, d \in MapCalls :
        /\ mapCall[c] \in Asking /\ mapCall[d] \in Asking /\ KeyOfCall(c) = KeyOfCall(d)
        => c = d \/ KeyOfCall(c) \in mapLapsed

(* The cache keeps to its size, and the entries of unfinished requests     *)
(* stay in it whatever is evicted, expires or completes: in one process    *)
(* nobody asks twice for what is on its way, unless the cache was full of  *)
(* unfinished requests.                                                    *)
RequestsStayShared ==
    /\ \A p \in Processes : Len(mapEntries[p]) <= CacheSize
    /\ ~mapFull => \A c, d \in MapCalls :
          /\ mapCall[c] \notin EndedCall \cup {"none"} /\ mapCall[d] \notin EndedCall \cup {"none"}
          /\ KeyOfCall(c) = KeyOfCall(d) /\ HostOf(c) = HostOf(d)
          => c = d

(* A batch is answered with the suggestion for its own fields and columns, *)
(* and never waits for a request that had already failed before.           *)
AnswersFitTheBatch ==
    [][\A b \in MapCalls :
          /\ mapState[b] = "waiting" /\ mapState'[b] = "running"
                => mapCall[mapFuture'[b]] # "failed" /\ KeyOfCall(mapFuture'[b]) = KeyOfCall(b)
          /\ mapState[b] = "running" => mapFuture'[b] = mapFuture[b]]_mapVars

(* Shared, locked or evicted, a request is asked for once, and each batch  *)
(* has the answer to its own.                                              *)
BatchesShareAnswers == [](OneAskPerKey /\ RequestsStayShared) /\ AnswersFitTheBatch

=============================================================================
