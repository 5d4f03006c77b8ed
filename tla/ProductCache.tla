---------------------------- MODULE ProductCache ----------------------------
(***************************************************************************)
(* backend::ProductCache and backend::Product: the list of loaded builds,  *)
(* LoadConfiguration as each caller runs it step by step, Product::Load    *)
(* with its _loading flag and its listeners, and the expiry timer.         *)
(*                                                                         *)
(* Neither class takes a lock, and they are called from the Discord        *)
(* threads, from the Ribbit monitor and from the timer, so a caller is     *)
(* interrupted between any two accesses to shared state, and so is the     *)
(* timer between testing a record and removing it.  The search of a caller *)
(* through the std::list is a single step.                                 *)
(*                                                                         *)
(* Time is counted in ticks.  It passes while a caller downloads a product *)
(* or runs a handler, and not between two statements of the cache.         *)
(***************************************************************************)
EXTENDS Integers, Sequences, FiniteSets, SequencesExt

CONSTANTS Callers,          \* threads that call LoadConfiguration
          Builds,           \* ids of builds
          Lifetimes,        \* values of the lifetime parameter, in ticks
          InsertLifetime,   \* the 15min of the insertion, in ticks
          ExpiryPeriod,     \* period of the expiry timer, in ticks
          LoadMayFail,      \* whether downloads can fail
          MaxCalls,         \* bound: calls per caller
          MaxTime,          \* bound: the last tick
          NoBuild, NoRecord

ASSUME CallersAssumption == IsFiniteSet(Callers)
ASSUME NamesAssumption == NoBuild \notin Builds
ASSUME BoundsAssumption == MaxCalls \in Nat /\ MaxTime \in Nat /\ LoadMayFail \in BOOLEAN

\* The listener of new builds asks for 2 minutes and /download for the default,
\* which is the 15 minutes of the insertion.
ASSUME TimesAssumption ==
    /\ {InsertLifetime, ExpiryPeriod} \cup Lifetimes \subseteq Nat \ {0}
    /\ \A l \in Lifetimes : l <= InsertLifetime

Calls == Callers \X (1..MaxCalls)
Records == 1..(Cardinality(Callers) * MaxCalls)

VARIABLES products,   \* ProductCache::_products, records in the order of their insertion
          rec,        \* the records ever allocated, in order of insertion
          now,        \* the clock
          timerAt,    \* expiry of _cacheExpiryTimer
          sweep,      \* where RemoveExpiredEntries is, at which record, what it read
          pc,         \* where each caller is
          call,       \* number of the caller's current call
          arg,        \* its build and its lifetime
          cur,        \* the record the call works on
          todo,       \* listeners Product::Load has still to run
          result,     \* what each call returned
          handled,    \* how many times the handler of each call was invoked
          early,      \* calls whose handler was given a product not loaded
          crashed     \* undefined behaviour ended the process

cacheVars == <<products, rec, now, timerAt, sweep>>
callVars == <<pc, call, arg, cur, todo>>
history == <<result, handled, early>>
vars == <<cacheVars, callVars, history, crashed>>

\* A record: the build of its product, the product's flags and listeners, its
\* expirationTimer, and (history) the instant to which a request asked to keep it.
NewRecord(expiry, asked) ==
    [build |-> NoBuild, loading |-> FALSE, loaded |-> FALSE,
     listeners |-> <<>>, expiry |-> expiry, asked |-> asked]

PCs == {"idle", "scan", "found", "hit", "join", "handling", "miss", "listen", "assign",
        "flag", "loading", "loaded", "cleared", "notify"}

\* The timer sleeps, or walks along the list and is past record `at`; it has found
\* that record expired; it has read its expiry in order to add a minute to it.
Sweeps == [pc : {"wait", "walk", "expired", "prolong"}, at : Nat, seen : Nat]
Asleep == [pc |-> "wait", at |-> 0, seen |-> 0]

\* The constructor runs RemoveExpiredEntries once, which arms the timer.
Init == /\ products = {} /\ rec = <<>>
        /\ now = 0 /\ timerAt = ExpiryPeriod /\ sweep = Asleep
        /\ pc = [t \in Callers |-> "idle"]
        /\ call = [t \in Callers |-> 0]
        /\ arg = [t \in Callers |-> <<NoBuild, 0>>]
        /\ cur = [t \in Callers |-> NoRecord]
        /\ todo = [t \in Callers |-> <<>>]
        /\ result = [k \in Calls |-> "none"]
        /\ handled = [k \in Calls |-> 0]
        /\ early = {}
        /\ crashed = FALSE

GoTo(t, from, to) == /\ ~crashed
                     /\ pc[t] = from
                     /\ pc' = [pc EXCEPT ![t] = to]

ThisCall(t) == <<t, call[t]>>
BuildOf(t) == arg[t][1]
LifetimeOf(t) == arg[t][2]

\* The handler of call k is invoked on the product of record r.
Invoke(k, r) == /\ handled' = [handled EXCEPT ![k] = @ + 1]
                /\ early' = IF rec[r].loaded THEN early ELSE early \cup {k}

Finish(t, value) == result' = [result EXCEPT ![ThisCall(t)] = value]

-----------------------------------------------------------------------------
(* ProductCache::LoadConfiguration                                         *)

Call(t, b, lifetime) ==
    /\ call[t] < MaxCalls
    /\ GoTo(t, "idle", "scan")
    /\ call' = [call EXCEPT ![t] = @ + 1]
    /\ arg' = [arg EXCEPT ![t] = <<b, lifetime>>]
    /\ UNCHANGED <<cacheVars, cur, todo, history, crashed>>

\* Records of the list whose product holds build b, and the first of them.
Matches(b) == {r \in products : rec[r].build = b}
FirstMatch(b) == CHOOSE r \in Matches(b) : \A s \in Matches(b) : r <= s

\* The loop finds the first record of this build.  The loop variable is a
\* shared_ptr: it keeps the record alive.
ScanHit(t) ==
    /\ Matches(BuildOf(t)) # {}
    /\ GoTo(t, "scan", "found")
    /\ cur' = [cur EXCEPT ![t] = FirstMatch(BuildOf(t))]
    /\ UNCHANGED <<cacheVars, call, arg, todo, history, crashed>>

\* The timer has decided about this record already: it is out of the list, or
\* tested and not yet removed or prolonged.
Judged(r) == \/ r \notin products
             \/ sweep.pc \in {"expired", "prolong"} /\ sweep.at = r

\* The record of a request that lets it expire at `due`.
Requested(r, due) ==
    [rec[r] EXCEPT !.expiry = due, !.asked = IF Judged(r) THEN @ ELSE due]

\* Mutated form of Refresh: the expiry is not moved by a request.
RefreshForgotten(t) ==
    /\ GoTo(t, "found", "hit")
    /\ rec' = [rec EXCEPT ![cur[t]].asked = Requested(cur[t], now + LifetimeOf(t)).asked]
    /\ UNCHANGED <<products, now, timerAt, sweep, call, arg, cur, todo, history, crashed>>

\* Then it restarts the expiry of the record.
Refresh(t) ==
    /\ GoTo(t, "found", "hit")
    /\ rec' = [rec EXCEPT ![cur[t]] = Requested(cur[t], now + LifetimeOf(t))]
    /\ UNCHANGED <<products, now, timerAt, sweep, call, arg, cur, todo, history, crashed>>

\* IsLoading() decides: queue the handler, or call it at once.
HitLoading(t) ==
    /\ GoTo(t, "hit", "join")
    /\ rec[cur[t]].loading
    /\ UNCHANGED <<cacheVars, call, arg, cur, todo, history, crashed>>

HitLoaded(t) ==
    /\ GoTo(t, "hit", "handling")
    /\ ~rec[cur[t]].loading
    /\ Invoke(ThisCall(t), cur[t])
    /\ UNCHANGED <<cacheVars, call, arg, cur, todo, result, crashed>>

AddListener(t) == rec' = [rec EXCEPT ![cur[t]].listeners = Append(@, ThisCall(t))]

Join(t) ==
    /\ GoTo(t, "join", "idle")
    /\ AddListener(t)
    /\ Finish(t, "true")
    /\ cur' = [cur EXCEPT ![t] = NoRecord]
    /\ UNCHANGED <<products, now, timerAt, sweep, call, arg, todo, handled, early, crashed>>

HandlerReturns(t) ==
    /\ GoTo(t, "handling", "idle")
    /\ Finish(t, "true")
    /\ cur' = [cur EXCEPT ![t] = NoRecord]
    /\ UNCHANGED <<cacheVars, call, arg, todo, handled, early, crashed>>

\* Mutated form of ScanMiss: the build is not looked for.
ScanMissAlways(t) ==
    /\ GoTo(t, "scan", "miss")
    /\ UNCHANGED <<cacheVars, call, arg, cur, todo, history, crashed>>

ScanMiss(t) ==
    /\ Matches(BuildOf(t)) = {}
    /\ GoTo(t, "scan", "miss")
    /\ UNCHANGED <<cacheVars, call, arg, cur, todo, history, crashed>>

\* No factory is registered for the product (the registrations are not modelled:
\* a miss may find one or not).
NoFactory(t) ==
    /\ GoTo(t, "miss", "idle")
    /\ Finish(t, "false")
    /\ UNCHANGED <<cacheVars, call, arg, cur, todo, handled, early, crashed>>

\* The record is inserted with the literal 15min: lifetime is not used.
Insert(t) ==
    /\ GoTo(t, "miss", "listen")
    /\ rec' = Append(rec, NewRecord(now + InsertLifetime, now + LifetimeOf(t)))
    /\ products' = products \cup {Len(rec')}
    /\ cur' = [cur EXCEPT ![t] = Len(rec')]
    /\ UNCHANGED <<now, timerAt, sweep, call, arg, todo, history, crashed>>

\* Mutated form of Listen: the handler is not registered before loading.
ListenForgotten(t) ==
    /\ GoTo(t, "listen", "assign")
    /\ UNCHANGED <<cacheVars, call, arg, cur, todo, history, crashed>>

Listen(t) ==
    /\ GoTo(t, "listen", "assign")
    /\ AddListener(t)
    /\ UNCHANGED <<products, now, timerAt, sweep, call, arg, cur, todo, history, crashed>>

-----------------------------------------------------------------------------
(* Product::Load, called by the thread that inserted the record.           *)

\* _currentBuild is assigned before _loading is set.
Assign(t) ==
    /\ GoTo(t, "assign", "flag")
    /\ rec' = [rec EXCEPT ![cur[t]].build = BuildOf(t)]
    /\ UNCHANGED <<products, now, timerAt, sweep, call, arg, cur, todo, history, crashed>>

Flag(t) ==
    /\ GoTo(t, "flag", "loading")
    /\ rec' = [rec EXCEPT ![cur[t]].loading = TRUE]
    /\ UNCHANGED <<products, now, timerAt, sweep, call, arg, cur, todo, history, crashed>>

\* The download succeeds...
Download(t) ==
    /\ GoTo(t, "loading", "loaded")
    /\ rec' = [rec EXCEPT ![cur[t]].loaded = TRUE]
    /\ UNCHANGED <<products, now, timerAt, sweep, call, arg, cur, todo, history, crashed>>

\* ... or fails: the record stays in the list with its build and listeners.
DownloadFails(t) ==
    /\ LoadMayFail
    /\ GoTo(t, "loading", "idle")
    /\ rec' = [rec EXCEPT ![cur[t]].loading = FALSE]
    /\ Finish(t, "false")
    /\ cur' = [cur EXCEPT ![t] = NoRecord]
    /\ UNCHANGED <<products, now, timerAt, sweep, call, arg, todo, handled, early, crashed>>

ClearFlag(t) ==
    /\ GoTo(t, "loaded", "cleared")
    /\ rec' = [rec EXCEPT ![cur[t]].loading = FALSE]
    /\ UNCHANGED <<products, now, timerAt, sweep, call, arg, cur, todo, history, crashed>>

\* The range-for fixes begin() and end() of the vector of listeners.
BeginListeners(t) ==
    /\ GoTo(t, "cleared", "notify")
    /\ todo' = [todo EXCEPT ![t] = rec[cur[t]].listeners]
    /\ UNCHANGED <<cacheVars, call, arg, cur, history, crashed>>

RunListener(t) ==
    /\ todo[t] # <<>>
    /\ GoTo(t, "notify", "notify")
    /\ Invoke(Head(todo[t]), cur[t])
    /\ todo' = [todo EXCEPT ![t] = Tail(@)]
    /\ UNCHANGED <<cacheVars, call, arg, cur, result, crashed>>

EndListeners(t) ==
    /\ todo[t] = <<>>
    /\ GoTo(t, "notify", "idle")
    /\ Finish(t, "true")
    /\ cur' = [cur EXCEPT ![t] = NoRecord]
    /\ UNCHANGED <<cacheVars, call, arg, todo, handled, early, crashed>>

\* Records some shared_ptr owns: the list, and the loop variable of a hit.
Alive == products \cup
         {cur[t] : t \in {u \in Callers : pc[u] \in {"found", "hit", "join", "handling"}}}

\* The listener loop goes on over memory it does not own any more: the timer
\* destroyed the record, or an AddListener made the vector reallocate.  The
\* process may end here; or the loop goes on as if nothing happened.
Crash(t) ==
    /\ ~crashed /\ pc[t] = "notify" /\ todo[t] # <<>>
    /\ \/ cur[t] \notin Alive
       \/ Last(rec[cur[t]].listeners) # Last(todo[t])
    /\ crashed' = TRUE
    /\ UNCHANGED <<cacheVars, callVars, history>>

-----------------------------------------------------------------------------
(* ProductCache::RemoveExpiredEntries and time                             *)

Expired(r) == rec[r].expiry <= now

\* The records remove_if has still to look at, and the first of them.
Ahead == {r \in products : r > sweep.at}
NextRecord == CHOOSE r \in Ahead : \A q \in Ahead : r <= q

BeginSweep ==
    /\ ~crashed /\ sweep.pc = "wait" /\ now = timerAt
    /\ sweep' = [sweep EXCEPT !.pc = "walk"]
    /\ UNCHANGED <<products, rec, now, timerAt, callVars, history, crashed>>

\* Mutated form of Examine: the minute of grace is given to every record.
ExamineLate ==
    /\ ~crashed /\ sweep.pc = "walk" /\ Ahead # {}
    /\ sweep' = [sweep EXCEPT !.at = NextRecord,
                              !.pc = IF rec[NextRecord].expiry + ExpiryPeriod <= now
                                     THEN "expired" ELSE "walk"]
    /\ UNCHANGED <<products, rec, now, timerAt, callVars, history, crashed>>

\* The expiry of the next record is compared with the clock.
Examine ==
    /\ ~crashed /\ sweep.pc = "walk" /\ Ahead # {}
    /\ sweep' = [sweep EXCEPT !.at = NextRecord,
                              !.pc = IF Expired(NextRecord) THEN "expired" ELSE "walk"]
    /\ UNCHANGED <<products, rec, now, timerAt, callVars, history, crashed>>

\* The expired record is loading.  `expirationTimer += 1min` (the period of the
\* timer) reads the expiry, which a caller may have moved by now...
Spare ==
    /\ ~crashed /\ sweep.pc = "expired" /\ rec[sweep.at].loading
    /\ sweep' = [sweep EXCEPT !.pc = "prolong", !.seen = rec[sweep.at].expiry]
    /\ UNCHANGED <<products, rec, now, timerAt, callVars, history, crashed>>

\* ... and writes it, whatever a caller wrote in between.
Prolong ==
    /\ ~crashed /\ sweep.pc = "prolong"
    /\ rec' = [rec EXCEPT ![sweep.at].expiry = sweep.seen + ExpiryPeriod]
    /\ sweep' = [sweep EXCEPT !.pc = "walk", !.seen = 0]
    /\ UNCHANGED <<products, now, timerAt, callVars, history, crashed>>

\* Mutated form of Erase: IsLoading is not consulted.
EraseLoading ==
    /\ ~crashed /\ sweep.pc = "expired"
    /\ products' = products \ {sweep.at}
    /\ sweep' = [sweep EXCEPT !.pc = "walk"]
    /\ UNCHANGED <<rec, now, timerAt, callVars, history, crashed>>

\* The expired record is not loading and leaves the list, refreshed or not.
Erase ==
    /\ ~crashed /\ sweep.pc = "expired" /\ ~rec[sweep.at].loading
    /\ products' = products \ {sweep.at}
    /\ sweep' = [sweep EXCEPT !.pc = "walk"]
    /\ UNCHANGED <<rec, now, timerAt, callVars, history, crashed>>

\* The end of the list: the timer is armed again.
EndSweep ==
    /\ ~crashed /\ sweep.pc = "walk" /\ Ahead = {}
    /\ sweep' = Asleep
    /\ timerAt' = now + ExpiryPeriod
    /\ UNCHANGED <<products, rec, now, callVars, history, crashed>>

RemoveExpiredEntries == BeginSweep \/ Examine \/ Spare \/ Prolong \/ Erase \/ EndSweep

\* What ForEachProduct hands to its handler, and what /cache-status says with
\* it: how long each build of the list stays.  A build whose time is over is
\* "currently unloading".
ForEachProduct == {[product |-> r, expirationTimer |-> rec[r].expiry] : r \in products}

CacheStatus == {[build |-> rec[shown.product].build, left |-> shown.expirationTimer - now] :
                   shown \in ForEachProduct}

\* Time passes while nobody is in the middle of the cache's own code, the timer
\* included, which runs as soon as it is due.
Tick ==
    /\ ~crashed
    /\ now < timerAt /\ now < MaxTime
    /\ \A t \in Callers : pc[t] \in {"idle", "loading", "handling", "notify"}
    /\ now' = now + 1
    /\ UNCHANGED <<products, rec, timerAt, sweep, callVars, history, crashed>>

Step(t) == \/ ScanHit(t) \/ Refresh(t) \/ HitLoading(t) \/ HitLoaded(t) \/ Join(t)
           \/ HandlerReturns(t) \/ ScanMiss(t) \/ NoFactory(t) \/ Insert(t)
           \/ Listen(t) \/ Assign(t) \/ Flag(t) \/ Download(t) \/ DownloadFails(t)
           \/ ClearFlag(t) \/ BeginListeners(t) \/ RunListener(t) \/ EndListeners(t)

\* The bounds are reached or the process is gone.
Terminating ==
    /\ \/ crashed
       \/ /\ now = MaxTime /\ now < timerAt
          /\ \A t \in Callers : pc[t] = "idle" /\ call[t] = MaxCalls
    /\ UNCHANGED vars

Next == \/ \E t \in Callers :
             \/ \E b \in Builds, l \in Lifetimes : Call(t, b, l)
             \/ Step(t)
             \/ Crash(t)
        \/ RemoveExpiredEntries
        \/ Tick
        \/ Terminating

Spec == Init /\ [][Next]_vars

-----------------------------------------------------------------------------
(* Properties.                                                             *)

\* Type correctness.
TypeOK ==
    /\ rec \in Seq([build : Builds \cup {NoBuild}, loading : BOOLEAN, loaded : BOOLEAN,
                    listeners : Seq(Calls), expiry : Nat, asked : Nat])
    /\ DOMAIN rec \subseteq Records
    /\ products \subseteq DOMAIN rec
    /\ now \in 0..MaxTime /\ timerAt >= now /\ sweep \in Sweeps
    /\ pc \in [Callers -> PCs]
    /\ call \in [Callers -> 0..MaxCalls]
    /\ cur \in [Callers -> DOMAIN rec \cup {NoRecord}]
    /\ todo \in [Callers -> Seq(Calls)]
    /\ result \in [Calls -> {"none", "true", "false"}]
    /\ handled \in [Calls -> Nat] /\ early \subseteq Calls

\* The thread that inserted a record finds it in the list until its load is
\* over, whatever other callers made of its expiry in the meantime:
\* LoadConfiguration goes on using the iterator of the insertion.  Includes type
\* correctness.
LoaderKeepsRecord ==
    /\ TypeOK
    /\ \A t \in Callers :
          pc[t] \in {"listen", "assign", "flag", "loading", "loaded"}
              => cur[t] \in products

\* No build that /cache-status lists outstays its expiry by more than one period
\* of the timer.
EvictedOnTime == \A line \in CacheStatus : line.left >= -ExpiryPeriod

\* Requests prolong the stay of a build: a record has left the list only when the
\* lifetime given with the last request for it is over.  Only a request that meets
\* the timer between its test of the record and its decision is without effect.
KeptAsLongAsAsked ==
    \A r \in DOMAIN rec \ products : rec[r].asked <= now

\* Callers that miss at the same time insert a build several times, but never
\* more often than there are threads, whatever is loaded, fails or expires.
BoundedDuplication ==
    \A b \in Builds : Cardinality(Matches(b)) <= Cardinality(Callers)

\* The answer of LoadConfiguration is kept.  After true its handler has run, or
\* joined the load of another caller (the first listener is the loader's own);
\* after false it has not run and never will: the caller reports the failure.
\* No handler runs twice, although it may be queued on a record whose loader is
\* running listeners.
AnswerIsKept ==
    \A k \in Calls :
        /\ handled[k] <= 1
        /\ result[k] = "true" /\ handled[k] = 0 =>
               \E r \in DOMAIN rec : /\ rec[r].listeners # <<>>
                                     /\ k \in ToSet(Tail(rec[r].listeners))
        /\ result[k] = "false" => handled[k] = 0

\* A handler is called when the product is done loading.
HandlerSeesLoadedProduct == early = {}
=============================================================================
