------------------------- MODULE ProductCacheProofs -------------------------
(***************************************************************************)
(* The safety properties of ProductCache for every finite set of callers,  *)
(* every set of builds and any number of calls, records and ticks.         *)
(***************************************************************************)
EXTENDS ProductCache, FiniteSetTheorems, SequenceTheorems, TLAPS

RecordType == [build : Builds \cup {NoBuild}, loading : BOOLEAN, loaded : BOOLEAN,
               listeners : Seq(Calls), expiry : Nat, asked : Nat]

\* Places where a caller has its record from the list, and where it is the one
\* that inserted the record and loads it.
Borrowing == {"found", "hit", "join", "handling"}
Inserting == {"listen", "assign", "flag"}
Loading == {"loading", "loaded"}
Owning == Inserting \cup Loading \cup {"cleared", "notify"}

-----------------------------------------------------------------------------
(* The invariant, part by part                                             *)

TypeInv ==
    /\ rec \in Seq(RecordType) /\ products \subseteq DOMAIN rec
    /\ pc \in [Callers -> PCs] /\ call \in [Callers -> 0..MaxCalls]
    /\ cur \in [Callers -> DOMAIN rec \cup {NoRecord}]
    /\ todo \in [Callers -> Seq(Calls)]
    /\ result \in [Calls -> {"none", "true", "false"}]
    /\ handled \in [Calls -> Nat] /\ early \subseteq Calls
    /\ arg \in [Callers -> (Builds \cup {NoBuild}) \X (Lifetimes \cup {0})]
    /\ \A t \in Callers : pc[t] # "idle" =>
          call[t] >= 1 /\ arg[t][1] \in Builds /\ arg[t][2] \in Lifetimes

\* A record belongs to the caller that inserted it until its listeners have run,
\* and that one alone turns the loading flag on and off.
OwnerInv ==
    /\ \A t \in Callers : pc[t] \in Borrowing \cup Owning => cur[t] \in DOMAIN rec
    /\ \A t, u \in Callers : pc[t] \in Owning /\ pc[u] \in Owning /\ cur[t] = cur[u] => t = u
    /\ \A t \in Callers : pc[t] \in Inserting \cup Loading => cur[t] \in products
    /\ \A t \in Callers : pc[t] \in Inserting => rec[cur[t]].expiry > now
    /\ \A t \in Callers : pc[t] \in Loading => rec[cur[t]].loading

\* The timer is due within a period, and what it left in the list had, when it
\* ran, expired by less than one.
TimeInv ==
    /\ now \in 0..MaxTime /\ timerAt \in Nat
    /\ now <= timerAt /\ timerAt <= now + ExpiryPeriod
    /\ \A r \in products : timerAt <= rec[r].expiry + ExpiryPeriod
    /\ \A r \in DOMAIN rec : rec[r].asked <= rec[r].expiry
    /\ \A r \in DOMAIN rec \ products : rec[r].asked <= now

\* While the timer walks along the list the clock stands still.  What it has passed
\* is not expired; the record it has found expired was not asked to stay longer,
\* and is none that a caller has just inserted.
Deciding == sweep.pc \in {"expired", "prolong"}

SweepInv ==
    /\ sweep \in Sweeps
    /\ IF sweep.pc = "wait" THEN sweep.at = 0 ELSE now = timerAt
    /\ \A r \in products : sweep.pc # "wait" /\ r <= sweep.at =>
          timerAt <= rec[r].expiry \/ (Deciding /\ r = sweep.at)
    /\ Deciding => sweep.at \in products /\ rec[sweep.at].asked <= now
    /\ Deciding => \A t \in Callers : pc[t] \in Inserting => cur[t] # sweep.at
    /\ sweep.pc = "prolong" =>
          rec[sweep.at].asked <= sweep.seen /\ now <= sweep.seen + ExpiryPeriod

CacheInv == TypeInv /\ OwnerInv /\ TimeInv /\ SweepInv

-----------------------------------------------------------------------------
(* The steps, as far as the records are concerned                          *)

\* Only record r changes, to v.
Updated(r, v) ==
    /\ r \in DOMAIN rec /\ v \in RecordType /\ rec' \in Seq(RecordType)
    /\ DOMAIN rec' = DOMAIN rec /\ rec'[r] = v
    /\ \A q \in DOMAIN rec : q # r => rec'[q] = rec[q]

LEMMA UpdateFacts ==
    ASSUME rec \in Seq(RecordType), NEW r \in DOMAIN rec, NEW v \in RecordType,
           rec' = [rec EXCEPT ![r] = v]
    PROVE  Updated(r, v)
<1>1. DOMAIN rec = 1..Len(rec)
  BY LenProperties
<1>2. rec' \in Seq(RecordType)
  BY <1>1, ExceptSeq
<1> QED
  BY <1>2 DEF Updated

LEMMA TimesFacts ==
    /\ InsertLifetime \in Nat /\ InsertLifetime >= 1 /\ ExpiryPeriod \in Nat /\ ExpiryPeriod >= 1
    /\ \A l \in Lifetimes : l \in Nat /\ l >= 1 /\ l <= InsertLifetime
<1>1. InsertLifetime \in Nat \ {0} /\ ExpiryPeriod \in Nat \ {0} /\ Lifetimes \subseteq Nat \ {0}
  BY TimesAssumption
<1> QED
  BY <1>1, TimesAssumption

LEMMA TypeInit == Init => CacheInv
<1> SUFFICES ASSUME Init PROVE CacheInv
  OBVIOUS
<1>1. rec \in Seq(RecordType) /\ DOMAIN rec = {}
  BY EmptySeq DEF Init
<1>2. TypeInv
  <2>1. \A t \in Callers : pc[t] = "idle" /\ arg[t] = <<NoBuild, 0>>
    BY DEF Init
  <2>2. todo \in [Callers -> Seq(Calls)]
    BY EmptySeq DEF Init
  <2>3. pc \in [Callers -> PCs] /\ call \in [Callers -> 0..MaxCalls] /\ products = {}
    BY BoundsAssumption DEF Init, PCs
  <2>4. /\ cur \in [Callers -> DOMAIN rec \cup {NoRecord}]
        /\ result \in [Calls -> {"none", "true", "false"}] /\ handled \in [Calls -> Nat] /\ early = {}
    BY DEF Init
  <2>5. arg \in [Callers -> (Builds \cup {NoBuild}) \X (Lifetimes \cup {0})]
    BY DEF Init
  <2> QED
    BY <1>1, <2>1, <2>2, <2>3, <2>4, <2>5 DEF TypeInv
<1>3. OwnerInv
  BY DEF Init, OwnerInv, Borrowing, Owning, Inserting, Loading
<1>4. TimeInv
  BY <1>1, BoundsAssumption, TimesFacts DEF Init, TimeInv
<1>5. SweepInv
  BY <1>1 DEF Init, SweepInv, Sweeps, Asleep, Deciding
<1> QED
  BY <1>2, <1>3, <1>4, <1>5 DEF CacheInv

-----------------------------------------------------------------------------
(* Steps of a caller                                                       *)

\* Caller t goes from one place to another.
Moves(t, from, to) ==
    /\ ~crashed /\ pc[t] = from /\ pc' = [pc EXCEPT ![t] = to] /\ to \in PCs
    /\ \A u \in Callers : u # t => cur'[u] = cur[u]

LEMMA TypeMoves ==
    ASSUME TypeInv, NEW t \in Callers, NEW from, NEW to, Moves(t, from, to), from # "idle",
           UNCHANGED <<call, arg>>, rec' \in Seq(RecordType), products' \subseteq DOMAIN rec',
           cur' \in [Callers -> DOMAIN rec' \cup {NoRecord}], todo' \in [Callers -> Seq(Calls)],
           result' \in [Calls -> {"none", "true", "false"}], handled' \in [Calls -> Nat],
           early' \subseteq Calls
    PROVE  TypeInv'
<1>1. pc' \in [Callers -> PCs] /\ \A u \in Callers : pc'[u] # "idle" => pc[u] # "idle"
  BY DEF TypeInv, Moves
<1> QED
  BY <1>1 DEF TypeInv

\* What a caller has to see to when it goes on and the list stays as it is.
LEMMA OwnerMoves ==
    ASSUME TypeInv, OwnerInv, NEW t \in Callers, NEW from, NEW to, Moves(t, from, to),
           UNCHANGED <<products, now>>, DOMAIN rec' = DOMAIN rec,
           \A q \in DOMAIN rec : rec'[q].expiry = rec[q].expiry,
           \A u \in Callers : u # t /\ pc[u] \in Loading => rec'[cur[u]].loading,
           to \in Borrowing => from \in Borrowing /\ cur'[t] = cur[t],
           to \in Owning => from \in Owning /\ cur'[t] = cur[t],
           to \in Inserting => from \in Inserting,
           to \in Loading => from \in Inserting \cup Loading /\ rec'[cur[t]].loading
    PROVE  OwnerInv'
<1>1. pc'[t] = to /\ \A u \in Callers : u # t => pc'[u] = pc[u] /\ cur'[u] = cur[u]
  BY DEF TypeInv, Moves
<1>2. Inserting \subseteq Owning /\ Loading \subseteq Owning
  BY DEF Owning
<1>3. \A u \in Callers : pc'[u] \in Borrowing \cup Owning => cur'[u] = cur[u] /\ cur[u] \in DOMAIN rec
  BY <1>1 DEF OwnerInv, Moves
<1>4. \A u, w \in Callers : pc'[u] \in Owning /\ pc'[w] \in Owning /\ cur'[u] = cur'[w] => u = w
  BY <1>1 DEF OwnerInv, Moves
<1>5. \A u \in Callers : pc'[u] \in Inserting \cup Loading => cur'[u] \in products
  BY <1>1, <1>2 DEF OwnerInv, Moves
<1>6. \A u \in Callers : pc'[u] \in Inserting => rec'[cur'[u]].expiry > now
  BY <1>1, <1>2, <1>3 DEF OwnerInv, Moves
<1>7. \A u \in Callers : pc'[u] \in Loading => rec'[cur'[u]].loading
  BY <1>1, <1>2, <1>3
<1> QED
  BY <1>3, <1>4, <1>5, <1>6, <1>7 DEF OwnerInv

LEMMA TimeKept ==
    ASSUME TimeInv, UNCHANGED <<products, now, timerAt>>, DOMAIN rec' = DOMAIN rec,
           products \subseteq DOMAIN rec,
           \A q \in DOMAIN rec : rec'[q].expiry = rec[q].expiry /\ rec'[q].asked = rec[q].asked
    PROVE  TimeInv'
  BY DEF TimeInv

LEMMA SweepKept ==
    ASSUME TypeInv, SweepInv, UNCHANGED <<products, now, timerAt, sweep>>, DOMAIN rec' = DOMAIN rec,
           \A q \in DOMAIN rec : rec'[q].expiry = rec[q].expiry /\ rec'[q].asked = rec[q].asked,
           \A u \in Callers : pc'[u] \in Inserting => pc[u] \in Inserting /\ cur'[u] = cur[u]
    PROVE  SweepInv'
<1>1. products \subseteq DOMAIN rec
  BY DEF TypeInv
<1>2. \A r \in products : sweep'.pc # "wait" /\ r <= sweep'.at =>
          timerAt' <= rec'[r].expiry \/ (Deciding' /\ r = sweep'.at)
  BY <1>1 DEF SweepInv, Deciding
<1>3. Deciding' => sweep'.at \in products' /\ rec'[sweep'.at].asked <= now'
  BY <1>1 DEF SweepInv, Deciding
<1>4. Deciding' => \A t \in Callers : pc'[t] \in Inserting => cur'[t] # sweep'.at
  BY DEF SweepInv, Deciding
<1>5. sweep'.pc = "prolong" =>
          rec'[sweep'.at].asked <= sweep'.seen /\ now' <= sweep'.seen + ExpiryPeriod
  BY <1>1 DEF SweepInv, Deciding
<1> QED
  BY <1>2, <1>3, <1>4, <1>5 DEF SweepInv

\* ThisCall(t) is a call once t has called.
LEMMA CallFacts ==
    ASSUME TypeInv, NEW t \in Callers, call[t] >= 1
    PROVE  ThisCall(t) \in Calls
<1>1. call[t] \in 0..MaxCalls /\ MaxCalls \in Nat
  BY BoundsAssumption DEF TypeInv
<1>2. call[t] \in 1..MaxCalls
  BY <1>1
<1> QED
  BY <1>2 DEF ThisCall, Calls

LEMMA CallStep ==
    ASSUME CacheInv, NEW t \in Callers, NEW b \in Builds, NEW l \in Lifetimes,
           Call(t, b, l)
    PROVE  CacheInv'
<1>1. /\ Moves(t, "idle", "scan") /\ call[t] < MaxCalls /\ call' = [call EXCEPT ![t] = @ + 1]
      /\ arg' = [arg EXCEPT ![t] = <<b, l>>]
      /\ UNCHANGED <<products, rec, now, timerAt, sweep, cur, todo, result, handled, early>>
  BY DEF Call, GoTo, Moves, cacheVars, history, PCs
<1>2. OwnerInv'
  BY <1>1, OwnerMoves DEF CacheInv, OwnerInv, Borrowing, Owning, Inserting, Loading
<1>3. TimeInv'
  BY <1>1, TimeKept DEF CacheInv, TypeInv
<1>4. TypeInv'
  <2>1. pc' \in [Callers -> PCs] /\ \A u \in Callers : u # t => pc'[u] = pc[u]
    BY <1>1 DEF CacheInv, TypeInv, Moves
  <2>2. call[t] \in 0..MaxCalls /\ MaxCalls \in Nat
    BY BoundsAssumption DEF CacheInv, TypeInv
  <2>3. call[t] + 1 \in 0..MaxCalls /\ call[t] + 1 >= 1
    BY <1>1, <2>2
  <2>4. call' \in [Callers -> 0..MaxCalls] /\ call'[t] >= 1 /\ \A u \in Callers : u # t => call'[u] = call[u]
    BY <1>1, <2>3 DEF CacheInv, TypeInv
  <2>5. /\ arg' \in [Callers -> (Builds \cup {NoBuild}) \X (Lifetimes \cup {0})]
        /\ arg'[t] = <<b, l>> /\ \A u \in Callers : u # t => arg'[u] = arg[u]
    BY <1>1 DEF CacheInv, TypeInv
  <2>6. \A u \in Callers : pc'[u] # "idle" =>
           call'[u] >= 1 /\ arg'[u][1] \in Builds /\ arg'[u][2] \in Lifetimes
    <3>1. arg'[t][1] \in Builds /\ arg'[t][2] \in Lifetimes
      BY <2>5
    <3>2. \A u \in Callers : pc[u] # "idle" =>
             call[u] >= 1 /\ arg[u][1] \in Builds /\ arg[u][2] \in Lifetimes
      BY DEF CacheInv, TypeInv
    <3> QED
      BY <2>1, <2>4, <2>5, <3>1, <3>2
  <2> QED
    BY <1>1, <2>1, <2>4, <2>5, <2>6 DEF CacheInv, TypeInv
<1>5. SweepInv'
  <2>1. \A u \in Callers : pc'[u] \in Inserting => pc[u] \in Inserting /\ cur'[u] = cur[u]
    BY <1>1 DEF Moves, Inserting, CacheInv, TypeInv
  <2> QED
    BY <1>1, <2>1, SweepKept DEF CacheInv
<1> QED
  BY <1>2, <1>3, <1>4, <1>5 DEF CacheInv

\* Steps that leave the records alone.
LEMMA ReadStep ==
    ASSUME CacheInv, NEW t \in Callers,
           \/ HitLoading(t) \/ HitLoaded(t) \/ HandlerReturns(t) \/ ScanMiss(t) \/ NoFactory(t)
           \/ BeginListeners(t) \/ RunListener(t) \/ EndListeners(t)
    PROVE  CacheInv'
<1>1. UNCHANGED <<products, rec, now, timerAt, sweep, call, arg>>
  BY DEF HitLoading, HitLoaded, HandlerReturns, ScanMiss, NoFactory, BeginListeners, RunListener,
         EndListeners, cacheVars
<1>2. \/ Moves(t, "hit", "join") \/ Moves(t, "hit", "handling") \/ Moves(t, "scan", "miss")
      \/ Moves(t, "cleared", "notify") \/ Moves(t, "notify", "notify")
      \/ Moves(t, "handling", "idle") \/ Moves(t, "miss", "idle") \/ Moves(t, "notify", "idle")
  BY DEF HitLoading, HitLoaded, HandlerReturns, ScanMiss, NoFactory, BeginListeners, RunListener,
         EndListeners, GoTo, Moves, PCs, CacheInv, TypeInv
<1>3. cur' = cur \/ (pc'[t] = "idle" /\ cur' = [cur EXCEPT ![t] = NoRecord])
  BY DEF HitLoading, HitLoaded, HandlerReturns, ScanMiss, NoFactory, BeginListeners, RunListener,
         EndListeners, GoTo, CacheInv, TypeInv
<1>4. PICK from, to : /\ Moves(t, from, to) /\ from # "idle"
                      /\ to \in Borrowing => from \in Borrowing
                      /\ to \in Owning => from \in Owning
                      /\ to \notin Inserting /\ to \notin Loading
  BY <1>2 DEF Borrowing, Owning, Inserting, Loading
<1>5. to = pc'[t] /\ (to # "idle" => cur' = cur)
  BY <1>3, <1>4 DEF Moves, CacheInv, TypeInv
<1>6. OwnerInv'
  <2>1. (to \in Borrowing \/ to \in Owning) => to # "idle"
    BY DEF Borrowing, Owning, Inserting, Loading
  <2>2. \A u \in Callers : pc[u] \in Loading => rec'[cur[u]].loading
    BY <1>1 DEF CacheInv, OwnerInv
  <2> QED
    BY <1>1, <1>4, <1>5, <2>1, <2>2, OwnerMoves DEF CacheInv
<1>7. TimeInv'
  BY <1>1, TimeKept DEF CacheInv, TypeInv
<1>8. TypeInv'
  <2>1. cur' \in [Callers -> DOMAIN rec' \cup {NoRecord}]
    BY <1>1, <1>3 DEF CacheInv, TypeInv
  <2>2. ThisCall(t) \in Calls
    BY <1>4, CallFacts DEF CacheInv, TypeInv, Moves
  <2>3. /\ todo' \in [Callers -> Seq(Calls)] /\ result' \in [Calls -> {"none", "true", "false"}]
        /\ handled' \in [Calls -> Nat] /\ early' \subseteq Calls
    <3>1. CASE HitLoading(t) \/ ScanMiss(t)
      BY <3>1 DEF HitLoading, ScanMiss, history, CacheInv, TypeInv
    <3>2. CASE HitLoaded(t)
      BY <3>2, <2>2 DEF HitLoaded, Invoke, CacheInv, TypeInv
    <3>3. CASE HandlerReturns(t) \/ NoFactory(t) \/ EndListeners(t)
      BY <3>3, <2>2 DEF HandlerReturns, NoFactory, EndListeners, Finish, CacheInv, TypeInv
    <3>4. CASE BeginListeners(t)
      <4>1. rec[cur[t]].listeners \in Seq(Calls)
        <5>1. cur[t] \in DOMAIN rec
          BY <3>4 DEF BeginListeners, GoTo, CacheInv, OwnerInv, Owning
        <5>2. rec[cur[t]] \in RecordType
          BY <5>1, ElementOfSeq, LenProperties DEF CacheInv, TypeInv
        <5> QED
          BY <5>2 DEF RecordType
      <4> QED
        BY <3>4, <4>1 DEF BeginListeners, history, CacheInv, TypeInv
    <3>5. CASE RunListener(t)
      <4>1. todo[t] \in Seq(Calls) /\ todo[t] # <<>>
        BY <3>5 DEF RunListener, CacheInv, TypeInv
      <4>2. Head(todo[t]) \in Calls /\ Tail(todo[t]) \in Seq(Calls)
        BY <4>1, HeadTailProperties
      <4> QED
        BY <3>5, <4>2 DEF RunListener, Invoke, CacheInv, TypeInv
    <3> QED
      BY <3>1, <3>2, <3>3, <3>4, <3>5
  <2>4. rec' \in Seq(RecordType) /\ products' \subseteq DOMAIN rec'
    BY <1>1 DEF CacheInv, TypeInv
  <2> QED
    BY <1>1, <1>4, <2>1, <2>3, <2>4, TypeMoves DEF CacheInv
<1>9. SweepInv'
  <2>1. \A u \in Callers : pc'[u] \in Inserting => pc[u] \in Inserting /\ cur'[u] = cur[u]
    BY <1>4, <1>5 DEF Moves, CacheInv, TypeInv
  <2> QED
    BY <1>1, <2>1, SweepKept DEF CacheInv
<1> QED
  BY <1>6, <1>7, <1>8, <1>9 DEF CacheInv

LEMMA RecordFacts ==
    ASSUME TypeInv, NEW r \in DOMAIN rec
    PROVE  /\ r \in Nat /\ r >= 1 /\ r <= Len(rec) /\ Len(rec) \in Nat /\ DOMAIN rec = 1..Len(rec)
           /\ rec[r] \in RecordType /\ rec[r].listeners \in Seq(Calls)
           /\ rec[r].expiry \in Nat /\ rec[r].asked \in Nat
<1>1. Len(rec) \in Nat /\ DOMAIN rec = 1..Len(rec)
  BY LenProperties DEF TypeInv
<1>2. rec[r] \in RecordType
  BY <1>1, ElementOfSeq DEF TypeInv
<1> QED
  BY <1>1, <1>2 DEF RecordType

\* Steps that change the caller's own record, but not how long it stays.
LEMMA OwnRecordStep ==
    ASSUME CacheInv, NEW t \in Callers, NEW from, NEW to, NEW v \in RecordType, Moves(t, from, to),
           rec' = [rec EXCEPT ![cur[t]] = v],
           v.expiry = rec[cur[t]].expiry, v.asked = rec[cur[t]].asked,
           UNCHANGED <<products, now, timerAt, sweep, call, arg, todo, handled, early>>,
           result' \in [Calls -> {"none", "true", "false"}],
           cur' = cur \/ (to = "idle" /\ cur' = [cur EXCEPT ![t] = NoRecord]),
           from \in {"join"} \cup Inserting \cup Loading, to \notin Borrowing,
           to \in Owning => from \in Owning, to \in Inserting => from \in Inserting,
           to \in Loading => from \in Owning /\ v.loading,
           v.loading = rec[cur[t]].loading \/ from \in Owning
    PROVE  CacheInv' /\ Updated(cur[t], v)
<1>1. from = pc[t] /\ from # "idle" /\ from # "cleared" /\ from # "notify"
  BY DEF Moves, Inserting, Loading
<1>2. cur[t] \in DOMAIN rec
  BY <1>1 DEF CacheInv, OwnerInv, Borrowing, Owning
<1>3. Updated(cur[t], v)
  BY <1>2, UpdateFacts DEF CacheInv, TypeInv
<1>4. DOMAIN rec' = DOMAIN rec /\ rec' \in Seq(RecordType) /\ rec'[cur[t]] = v
      /\ \A q \in DOMAIN rec : q # cur[t] => rec'[q] = rec[q]
  BY <1>3 DEF Updated
<1>5. \A q \in DOMAIN rec : rec'[q].expiry = rec[q].expiry /\ rec'[q].asked = rec[q].asked
  BY <1>4
<1>6. ASSUME NEW u \in Callers, u # t, pc[u] \in Loading PROVE rec'[cur[u]].loading
  <2>1. cur[u] \in DOMAIN rec /\ rec[cur[u]].loading /\ pc[u] \in Owning
    BY <1>6 DEF CacheInv, OwnerInv, Owning
  <2>2. CASE cur[u] # cur[t]
    BY <1>4, <2>1, <2>2
  <2>3. CASE cur[u] = cur[t]
    <3>1. from \notin Owning
      BY <1>1, <1>6, <2>1, <2>3 DEF CacheInv, OwnerInv
    <3> QED
      BY <1>4, <2>1, <2>3, <3>1
  <2> QED
    BY <2>2, <2>3
<1>7. OwnerInv'
  <2>1. to \in Owning => cur'[t] = cur[t]
    BY DEF Owning, Inserting, Loading
  <2>2. to \in Loading => from \in Inserting \cup Loading /\ rec'[cur[t]].loading
    BY <1>1, <1>4 DEF Owning
  <2> QED
    BY <1>4, <1>5, <1>6, <2>1, <2>2, OwnerMoves DEF CacheInv
<1>8. TimeInv'
  BY <1>4, <1>5, TimeKept DEF CacheInv, TypeInv
<1>9. TypeInv'
  <2>1. /\ cur' \in [Callers -> DOMAIN rec' \cup {NoRecord}] /\ products' \subseteq DOMAIN rec'
        /\ todo' \in [Callers -> Seq(Calls)] /\ handled' \in [Calls -> Nat] /\ early' \subseteq Calls
    BY <1>4 DEF CacheInv, TypeInv
  <2> QED
    BY <1>1, <1>4, <2>1, TypeMoves DEF CacheInv
<1>10. SweepInv'
  <2>1. \A u \in Callers : pc'[u] \in Inserting => pc[u] \in Inserting /\ cur'[u] = cur[u]
    <3>1. to \in Inserting => to # "idle"
      BY DEF Inserting
    <3> QED
      BY <1>1, <3>1 DEF Moves, CacheInv, TypeInv
  <2> QED
    BY <1>4, <1>5, <2>1, SweepKept DEF CacheInv
<1> QED
  BY <1>3, <1>7, <1>8, <1>9, <1>10 DEF CacheInv

\* What a caller knows of its own record.
LEMMA OwnFacts ==
    ASSUME CacheInv, NEW t \in Callers, pc[t] \in {"join"} \cup Inserting \cup Loading
    PROVE  /\ cur[t] \in DOMAIN rec /\ rec[cur[t]] \in RecordType
           /\ rec[cur[t]].listeners \in Seq(Calls)
           /\ ThisCall(t) \in Calls /\ BuildOf(t) \in Builds
           /\ Append(rec[cur[t]].listeners, ThisCall(t)) \in Seq(Calls)
<1>1. pc[t] # "idle" /\ cur[t] \in DOMAIN rec
  BY DEF CacheInv, OwnerInv, Borrowing, Owning, Inserting, Loading
<1>2. ThisCall(t) \in Calls /\ BuildOf(t) \in Builds
  BY <1>1, CallFacts DEF CacheInv, TypeInv, BuildOf
<1>3. rec[cur[t]] \in RecordType /\ rec[cur[t]].listeners \in Seq(Calls)
  BY <1>1, RecordFacts DEF CacheInv
<1> QED
  BY <1>1, <1>2, <1>3, AppendProperties

LEMMA AddStep ==
    ASSUME CacheInv, NEW t \in Callers, Join(t) \/ Listen(t)
    PROVE  /\ CacheInv'
           /\ Updated(cur[t], [rec[cur[t]] EXCEPT !.listeners = Append(@, ThisCall(t))])
<1> DEFINE v == [rec[cur[t]] EXCEPT !.listeners = Append(@, ThisCall(t))]
<1>1. /\ rec' = [rec EXCEPT ![cur[t]] = v]
      /\ UNCHANGED <<products, now, timerAt, sweep, call, arg, todo, handled, early>>
      /\ \/ Moves(t, "join", "idle") /\ cur' = [cur EXCEPT ![t] = NoRecord] /\ Finish(t, "true")
         \/ Moves(t, "listen", "assign") /\ UNCHANGED <<cur, result>>
  BY DEF Join, Listen, AddListener, GoTo, Moves, PCs, CacheInv, TypeInv, history
<1>2. pc[t] \in {"join", "listen"} /\ pc[t] \in {"join"} \cup Inserting \cup Loading
  BY <1>1 DEF Moves, Inserting
<1>3. v \in RecordType /\ v.expiry = rec[cur[t]].expiry /\ v.asked = rec[cur[t]].asked
      /\ v.loading = rec[cur[t]].loading
  BY <1>2, OwnFacts DEF RecordType
<1>4. result' \in [Calls -> {"none", "true", "false"}]
  BY <1>1, <1>2, OwnFacts DEF Finish, CacheInv, TypeInv
<1> HIDE DEF v
<1>5. CASE Moves(t, "join", "idle") /\ cur' = [cur EXCEPT ![t] = NoRecord]
  BY <1>1, <1>3, <1>4, <1>5, OwnRecordStep DEF v, Borrowing, Owning, Inserting, Loading
<1>6. CASE Moves(t, "listen", "assign") /\ UNCHANGED <<cur, result>>
  BY <1>1, <1>3, <1>4, <1>6, OwnRecordStep DEF v, Borrowing, Owning, Inserting, Loading
<1> QED
  BY <1>1, <1>5, <1>6

LEMMA AssignStep ==
    ASSUME CacheInv, NEW t \in Callers, Assign(t)
    PROVE  CacheInv' /\ Updated(cur[t], [rec[cur[t]] EXCEPT !.build = BuildOf(t)])
<1> DEFINE v == [rec[cur[t]] EXCEPT !.build = BuildOf(t)]
<1>1. /\ rec' = [rec EXCEPT ![cur[t]] = v] /\ Moves(t, "assign", "flag")
      /\ UNCHANGED <<products, now, timerAt, sweep, call, arg, cur, todo, result, handled, early>>
  BY DEF Assign, GoTo, Moves, PCs, CacheInv, TypeInv, history
<1>2. pc[t] = "assign" /\ pc[t] \in {"join"} \cup Inserting \cup Loading
  BY <1>1 DEF Moves, Inserting
<1>3. v \in RecordType /\ v.expiry = rec[cur[t]].expiry /\ v.asked = rec[cur[t]].asked
  BY <1>2, OwnFacts DEF RecordType
<1>4. result' \in [Calls -> {"none", "true", "false"}]
  BY <1>1 DEF CacheInv, TypeInv
<1> HIDE DEF v
<1> QED
  BY <1>1, <1>3, <1>4, OwnRecordStep DEF v, Borrowing, Owning, Inserting, Loading

\* The flags.
LEMMA FlagStep ==
    ASSUME CacheInv, NEW t \in Callers, Flag(t) \/ Download(t) \/ DownloadFails(t) \/ ClearFlag(t)
    PROVE  /\ CacheInv'
           /\ \E v \in RecordType : /\ Updated(cur[t], v) /\ v.build = rec[cur[t]].build
                                     /\ v.listeners = rec[cur[t]].listeners
<1> DEFINE Flagged == {[rec[cur[t]] EXCEPT !.loading = TRUE], [rec[cur[t]] EXCEPT !.loaded = TRUE],
                       [rec[cur[t]] EXCEPT !.loading = FALSE]}
<1>1. UNCHANGED <<products, now, timerAt, sweep, call, arg, todo, handled, early>>
  BY DEF Flag, Download, DownloadFails, ClearFlag, history
<1>2. PICK v \in Flagged :
         /\ rec' = [rec EXCEPT ![cur[t]] = v]
         /\ \/ Moves(t, "flag", "loading") /\ v.loading /\ UNCHANGED <<cur, result>>
            \/ Moves(t, "loading", "loaded") /\ v.loading = rec[cur[t]].loading /\ UNCHANGED <<cur, result>>
            \/ /\ Moves(t, "loading", "idle") /\ cur' = [cur EXCEPT ![t] = NoRecord]
               /\ Finish(t, "false")
            \/ Moves(t, "loaded", "cleared") /\ UNCHANGED <<cur, result>>
  <2>1. pc[t] \in {"flag", "loading", "loaded"} /\ pc[t] \in {"join"} \cup Inserting \cup Loading
    BY DEF Flag, Download, DownloadFails, ClearFlag, GoTo, Inserting, Loading
  <2>2. rec[cur[t]] \in RecordType
    BY <2>1, OwnFacts
  <2>3. CASE Flag(t)
    <3> WITNESS [rec[cur[t]] EXCEPT !.loading = TRUE] \in Flagged
    <3> QED
      BY <2>2, <2>3 DEF Flag, GoTo, Moves, PCs, CacheInv, TypeInv, history, RecordType
  <2>4. CASE Download(t)
    <3> WITNESS [rec[cur[t]] EXCEPT !.loaded = TRUE] \in Flagged
    <3> QED
      BY <2>2, <2>4 DEF Download, GoTo, Moves, PCs, CacheInv, TypeInv, history, RecordType
  <2>5. CASE DownloadFails(t) \/ ClearFlag(t)
    <3> WITNESS [rec[cur[t]] EXCEPT !.loading = FALSE] \in Flagged
    <3> QED
      BY <2>2, <2>5 DEF DownloadFails, ClearFlag, GoTo, Moves, PCs, CacheInv, TypeInv, history, RecordType
  <2> QED
    BY <2>3, <2>4, <2>5
<1>3. pc[t] \in {"flag", "loading", "loaded"} /\ pc[t] \in {"join"} \cup Inserting \cup Loading
  BY <1>2 DEF Moves, Inserting, Loading
<1>4. /\ v \in RecordType /\ v.expiry = rec[cur[t]].expiry /\ v.asked = rec[cur[t]].asked
      /\ v.build = rec[cur[t]].build /\ v.listeners = rec[cur[t]].listeners
  BY <1>3, OwnFacts DEF RecordType
<1>5. result' \in [Calls -> {"none", "true", "false"}]
  BY <1>2, <1>3, OwnFacts DEF Finish, CacheInv, TypeInv
<1> HIDE DEF Flagged
<1>6. CASE Moves(t, "flag", "loading") /\ v.loading /\ UNCHANGED <<cur, result>>
  BY <1>1, <1>2, <1>4, <1>5, <1>6, OwnRecordStep DEF Borrowing, Owning, Inserting, Loading
<1>7. CASE /\ Moves(t, "loading", "loaded") /\ v.loading = rec[cur[t]].loading
           /\ UNCHANGED <<cur, result>>
  <2>1. v.loading
    BY <1>3, <1>7 DEF CacheInv, OwnerInv, Loading, Moves
  <2> QED
    BY <1>1, <1>2, <1>4, <1>5, <1>7, <2>1, OwnRecordStep DEF Borrowing, Owning, Inserting, Loading
<1>8. CASE Moves(t, "loading", "idle") /\ cur' = [cur EXCEPT ![t] = NoRecord]
  BY <1>1, <1>2, <1>4, <1>5, <1>8, OwnRecordStep DEF Borrowing, Owning, Inserting, Loading
<1>9. CASE Moves(t, "loaded", "cleared") /\ UNCHANGED <<cur, result>>
  BY <1>1, <1>2, <1>4, <1>5, <1>9, OwnRecordStep DEF Borrowing, Owning, Inserting, Loading
<1> QED
  BY <1>2, <1>4, <1>6, <1>7, <1>8, <1>9

\* The first record of a build is one of them.
LEMMA FirstMatchFacts ==
    ASSUME TypeInv, NEW b, Matches(b) # {}
    PROVE  FirstMatch(b) \in Matches(b) /\ FirstMatch(b) \in products /\ FirstMatch(b) \in DOMAIN rec
<1>1. Matches(b) \subseteq Nat /\ Matches(b) \subseteq products /\ products \subseteq DOMAIN rec
  <2>1. DOMAIN rec = 1..Len(rec) /\ Len(rec) \in Nat
    BY LenProperties DEF TypeInv
  <2> QED
    BY <2>1 DEF Matches, TypeInv
<1> DEFINE Less == OpToRel(<, Nat)
<1>2. IsWellFoundedOn(Less, Nat) /\ \A x, y \in Nat : y < x => <<y, x>> \in Less
  BY NatLessThanWellFounded DEF OpToRel
<1> HIDE DEF Less
<1>3. PICK r \in Matches(b) : \A s \in Matches(b) : ~ (<<s, r>> \in Less)
  BY <1>1, <1>2, WFMin
<1>4. \A s \in Matches(b) : ~ (s < r)
  BY <1>1, <1>2, <1>3, Zenon
<1>5. \A s \in Matches(b) : r <= s
  BY <1>1, <1>4
<1>6. FirstMatch(b) \in Matches(b)
  BY <1>5 DEF FirstMatch
<1> QED
  BY <1>1, <1>6

\* A hit gives the caller a record of the list.
LEMMA ScanHitStep ==
    ASSUME CacheInv, NEW t \in Callers, ScanHit(t)
    PROVE  /\ CacheInv' /\ Moves(t, "scan", "found") /\ UNCHANGED <<products, rec, call, arg>>
           /\ cur'[t] = FirstMatch(BuildOf(t))
           /\ FirstMatch(BuildOf(t)) \in Matches(BuildOf(t)) /\ FirstMatch(BuildOf(t)) \in DOMAIN rec
<1> DEFINE r == FirstMatch(BuildOf(t))
<1>1. /\ pc[t] = "scan" /\ Moves(t, "scan", "found") /\ cur' = [cur EXCEPT ![t] = r]
      /\ Matches(BuildOf(t)) # {}
      /\ UNCHANGED <<products, rec, now, timerAt, sweep, call, arg, todo, result, handled, early>>
  BY DEF ScanHit, GoTo, Moves, PCs, CacheInv, TypeInv, history, cacheVars
<1>2. r \in Matches(BuildOf(t)) /\ r \in products /\ r \in DOMAIN rec
  BY <1>1, FirstMatchFacts DEF CacheInv
<1> HIDE DEF r
<1>3. cur'[t] = r /\ pc'[t] = "found" /\ \A u \in Callers : u # t => pc'[u] = pc[u] /\ cur'[u] = cur[u]
  BY <1>1 DEF CacheInv, TypeInv, Moves
<1>4. "found" \notin Owning /\ Inserting \subseteq Owning /\ Loading \subseteq Owning
  BY DEF Owning, Inserting, Loading
<1>5. OwnerInv'
  <2>1. \A u \in Callers : pc'[u] \in Borrowing \cup Owning => cur'[u] \in DOMAIN rec'
    BY <1>1, <1>2, <1>3 DEF CacheInv, OwnerInv
  <2>2. \A u, w \in Callers : pc'[u] \in Owning /\ pc'[w] \in Owning /\ cur'[u] = cur'[w] => u = w
    BY <1>3, <1>4 DEF CacheInv, OwnerInv
  <2>3. \A u \in Callers : pc'[u] \in Inserting \cup Loading => cur'[u] \in products'
    BY <1>1, <1>3, <1>4 DEF CacheInv, OwnerInv
  <2>4. \A u \in Callers : pc'[u] \in Inserting => rec'[cur'[u]].expiry > now'
    BY <1>1, <1>3, <1>4 DEF CacheInv, OwnerInv
  <2>5. \A u \in Callers : pc'[u] \in Loading => rec'[cur'[u]].loading
    BY <1>1, <1>3, <1>4 DEF CacheInv, OwnerInv
  <2> QED
    BY <2>1, <2>2, <2>3, <2>4, <2>5 DEF OwnerInv
<1>6. TimeInv'
  BY <1>1, TimeKept DEF CacheInv, TypeInv
<1>7. TypeInv'
  <2>1. cur' \in [Callers -> DOMAIN rec' \cup {NoRecord}]
    BY <1>1, <1>2 DEF CacheInv, TypeInv
  <2>2. /\ rec' \in Seq(RecordType) /\ products' \subseteq DOMAIN rec' /\ todo' \in [Callers -> Seq(Calls)]
        /\ result' \in [Calls -> {"none", "true", "false"}]
        /\ handled' \in [Calls -> Nat] /\ early' \subseteq Calls
    BY <1>1 DEF CacheInv, TypeInv
  <2> QED
    BY <1>1, <2>1, <2>2, TypeMoves DEF CacheInv
<1>8. SweepInv'
  <2>1. \A u \in Callers : pc'[u] \in Inserting => pc[u] \in Inserting /\ cur'[u] = cur[u]
    BY <1>3, <1>4
  <2> QED
    BY <1>1, <2>1, SweepKept DEF CacheInv
<1> QED
  BY <1>1, <1>2, <1>3, <1>5, <1>6, <1>7, <1>8 DEF CacheInv, r

\* A request moves the expiry of the record to a later instant.  It counts as asked
\* for unless the timer has judged the record.
LEMMA RefreshStep ==
    ASSUME CacheInv, NEW t \in Callers, Refresh(t)
    PROVE  /\ CacheInv' /\ Moves(t, "found", "hit") /\ UNCHANGED <<products, arg, cur>>
           /\ cur[t] \in DOMAIN rec
           /\ \E v \in RecordType : /\ Updated(cur[t], v) /\ v.build = rec[cur[t]].build
                                     /\ v.listeners = rec[cur[t]].listeners
<1> DEFINE r == cur[t]
           due == now + LifetimeOf(t)
           v == Requested(r, due)
<1>1. /\ pc[t] = "found" /\ Moves(t, "found", "hit") /\ rec' = [rec EXCEPT ![r] = v]
      /\ UNCHANGED <<products, now, timerAt, sweep, call, arg, cur, todo, result, handled, early>>
  BY DEF Refresh, GoTo, Moves, PCs, CacheInv, TypeInv, history
<1>2. r \in DOMAIN rec
  BY <1>1 DEF CacheInv, OwnerInv, Borrowing
<1>3. due \in Nat /\ due > now /\ now \in Nat /\ now <= due
  <2>1. arg[t][2] \in Nat /\ arg[t][2] >= 1
    BY <1>1, TimesFacts DEF CacheInv, TypeInv
  <2>2. now \in Nat
    BY BoundsAssumption DEF CacheInv, TimeInv
  <2> QED
    BY <2>1, <2>2 DEF LifetimeOf
<1> HIDE DEF r, due
<1>4. /\ v \in RecordType /\ v.expiry = due /\ v.loading = rec[r].loading
      /\ v.build = rec[r].build /\ v.listeners = rec[r].listeners
      /\ \/ v.asked = due /\ ~Judged(r)
         \/ v.asked = rec[r].asked /\ Judged(r)
  <2>1. rec[r] \in RecordType
    BY <1>2, RecordFacts DEF CacheInv
  <2>2. CASE Judged(r)
    <3>1. v = [rec[r] EXCEPT !.expiry = due]
      BY <2>1, <2>2 DEF Requested, RecordType
    <3> QED
      BY <1>3, <2>1, <2>2, <3>1 DEF RecordType
  <2>3. CASE ~Judged(r)
    <3>1. v = [rec[r] EXCEPT !.expiry = due, !.asked = due]
      BY <2>1, <2>3 DEF Requested, RecordType
    <3> QED
      BY <1>3, <2>1, <2>3, <3>1 DEF RecordType
  <2> QED
    BY <2>2, <2>3
<1> HIDE DEF v
<1>5. Updated(r, v)
  BY <1>1, <1>2, <1>4, UpdateFacts DEF CacheInv, TypeInv
<1>6. /\ DOMAIN rec' = DOMAIN rec /\ rec' \in Seq(RecordType) /\ rec'[r] = v
      /\ \A q \in DOMAIN rec : q # r => rec'[q] = rec[q]
  BY <1>5 DEF Updated
<1>7. pc'[t] = "hit" /\ \A u \in Callers : u # t => pc'[u] = pc[u]
  BY <1>1 DEF CacheInv, TypeInv, Moves
<1>8. /\ "hit" \notin Owning /\ Inserting \subseteq Owning /\ Loading \subseteq Owning
      /\ "hit" \in Borrowing /\ "found" \in Borrowing
  BY DEF Owning, Inserting, Loading, Borrowing
<1>9. OwnerInv'
  <2>1. \A u \in Callers : pc'[u] \in Borrowing \cup Owning => cur'[u] \in DOMAIN rec'
    BY <1>1, <1>2, <1>6, <1>7, <1>8 DEF CacheInv, OwnerInv, r
  <2>2. \A u, w \in Callers : pc'[u] \in Owning /\ pc'[w] \in Owning /\ cur'[u] = cur'[w] => u = w
    BY <1>1, <1>7, <1>8 DEF CacheInv, OwnerInv
  <2>3. \A u \in Callers : pc'[u] \in Inserting \cup Loading => cur'[u] \in products'
    BY <1>1, <1>7, <1>8 DEF CacheInv, OwnerInv
  <2>4. \A q \in DOMAIN rec : rec[q].expiry > now => rec'[q].expiry > now'
    BY <1>1, <1>3, <1>4, <1>6
  <2>5. \A u \in Callers : pc'[u] \in Inserting => rec'[cur'[u]].expiry > now'
    BY <1>1, <1>7, <1>8, <2>4 DEF CacheInv, OwnerInv
  <2>6. \A q \in DOMAIN rec : rec[q].loading => rec'[q].loading
    BY <1>4, <1>6
  <2>7. \A u \in Callers : pc'[u] \in Loading => rec'[cur'[u]].loading
    BY <1>1, <1>7, <1>8, <2>6 DEF CacheInv, OwnerInv
  <2> QED
    BY <2>1, <2>2, <2>3, <2>5, <2>7 DEF OwnerInv
<1>10. \A q \in DOMAIN rec : Judged(q) => rec'[q].asked = rec[q].asked
  BY <1>4, <1>6
<1>11. TimeInv'
  <2>1. ExpiryPeriod \in Nat /\ timerAt \in Nat /\ timerAt <= now + ExpiryPeriod
    BY TimesFacts DEF CacheInv, TimeInv
  <2>2. timerAt <= due + ExpiryPeriod
    BY <1>3, <2>1
  <2>3. \A q \in products : timerAt <= rec'[q].expiry + ExpiryPeriod
    BY <1>4, <1>6, <2>2 DEF CacheInv, TimeInv, TypeInv
  <2>4. \A q \in DOMAIN rec : rec'[q].asked <= rec'[q].expiry
    <3>1. rec[r].asked \in Nat /\ rec[r].asked <= rec[r].expiry
      BY <1>2, RecordFacts DEF CacheInv, TimeInv
    <3>2. CASE v.asked = due
      BY <1>3, <1>4, <1>6, <3>2 DEF CacheInv, TimeInv
    <3>3. CASE v.asked = rec[r].asked /\ Judged(r)
      <4>1. rec[r].asked <= now
        BY <1>2, <3>3 DEF Judged, CacheInv, TimeInv, SweepInv, Deciding
      <4>2. rec[r].asked <= due
        BY <1>3, <3>1, <4>1
      <4> QED
        BY <1>4, <1>6, <3>3, <4>2 DEF CacheInv, TimeInv
    <3> QED
      BY <1>4, <3>2, <3>3
  <2>5. \A q \in DOMAIN rec \ products : rec'[q].asked <= now
    BY <1>10 DEF CacheInv, TimeInv, Judged
  <2> QED
    BY <1>1, <1>6, <2>3, <2>4, <2>5 DEF CacheInv, TimeInv
<1>12. TypeInv'
  <2>1. /\ products' \subseteq DOMAIN rec' /\ todo' \in [Callers -> Seq(Calls)]
        /\ cur' \in [Callers -> DOMAIN rec' \cup {NoRecord}]
        /\ result' \in [Calls -> {"none", "true", "false"}]
        /\ handled' \in [Calls -> Nat] /\ early' \subseteq Calls
    BY <1>1, <1>6 DEF CacheInv, TypeInv
  <2> QED
    BY <1>1, <1>6, <2>1, TypeMoves DEF CacheInv
<1>13. SweepInv'
  <2>1. \A q \in products : sweep.pc # "wait" /\ q <= sweep.at =>
            timerAt <= rec'[q].expiry \/ (Deciding /\ q = sweep.at)
    <3>1. sweep.pc # "wait" => timerAt <= due
      BY <1>3 DEF CacheInv, SweepInv
    <3> QED
      BY <1>4, <1>6, <3>1 DEF CacheInv, SweepInv, TypeInv
  <2>2. Deciding => /\ sweep.at \in products /\ rec[sweep.at].asked <= now
                    /\ rec'[sweep.at].asked = rec[sweep.at].asked
    BY <1>10 DEF CacheInv, SweepInv, TypeInv, Deciding, Judged
  <2>3. Deciding => \A u \in Callers : pc'[u] \in Inserting => cur[u] # sweep.at
    BY <1>7, <1>8 DEF CacheInv, SweepInv
  <2>4. sweep.pc = "prolong" =>
            rec'[sweep.at].asked <= sweep.seen /\ now <= sweep.seen + ExpiryPeriod
    BY <2>2 DEF CacheInv, SweepInv, Deciding
  <2> QED
    BY <1>1, <2>1, <2>2, <2>3, <2>4 DEF CacheInv, SweepInv, Deciding
<1> QED
  BY <1>1, <1>2, <1>4, <1>5, <1>9, <1>11, <1>12, <1>13 DEF CacheInv, r

\* An insertion adds one record, and leaves the others alone.
LEMMA InsertStep ==
    ASSUME CacheInv, NEW t \in Callers, Insert(t)
    PROVE  /\ CacheInv' /\ Len(rec) \in Nat /\ DOMAIN rec = 1..Len(rec)
           /\ DOMAIN rec' = DOMAIN rec \cup {Len(rec) + 1}
           /\ \A q \in DOMAIN rec : rec'[q] = rec[q]
           /\ rec'[Len(rec) + 1] = NewRecord(now + InsertLifetime, now + LifetimeOf(t))
           /\ products' = products \cup {Len(rec) + 1}
           /\ cur' = [cur EXCEPT ![t] = Len(rec) + 1]
<1> DEFINE n == Len(rec) + 1
           v == NewRecord(now + InsertLifetime, now + LifetimeOf(t))
<1>1. /\ pc[t] = "miss" /\ Moves(t, "miss", "listen") /\ cur' = [cur EXCEPT ![t] = Len(rec')]
      /\ rec' = Append(rec, v) /\ products' = products \cup {Len(rec')}
      /\ UNCHANGED <<now, timerAt, sweep, call, arg, todo, result, handled, early>>
  BY DEF Insert, GoTo, Moves, PCs, CacheInv, TypeInv, history
<1>2. /\ now \in Nat /\ LifetimeOf(t) \in Nat /\ LifetimeOf(t) <= InsertLifetime
      /\ InsertLifetime \in Nat /\ InsertLifetime >= 1
  <2>1. arg[t][2] \in Nat /\ arg[t][2] <= InsertLifetime
    BY <1>1, TimesFacts DEF CacheInv, TypeInv
  <2>2. now \in Nat
    BY BoundsAssumption DEF CacheInv, TimeInv
  <2> QED
    BY <2>1, <2>2, TimesFacts DEF LifetimeOf
<1>3. /\ v \in RecordType /\ v.expiry = now + InsertLifetime /\ v.asked = now + LifetimeOf(t)
      /\ v.expiry \in Nat /\ v.expiry > now /\ v.asked <= v.expiry
  BY <1>2, EmptySeq DEF NewRecord, RecordType
<1>4. Len(rec) \in Nat /\ DOMAIN rec = 1..Len(rec) /\ n \notin DOMAIN rec /\ n \in 1..n
  BY LenProperties DEF CacheInv, TypeInv
<1> HIDE DEF v
<1>5. /\ Append(rec, v) \in Seq(RecordType) /\ Len(Append(rec, v)) = n
      /\ \A q \in 1..Len(rec) : Append(rec, v)[q] = rec[q]
      /\ Append(rec, v)[n] = v
  BY <1>3, AppendProperties DEF CacheInv, TypeInv
<1>6. DOMAIN rec' = 1..n
  BY <1>1, <1>5, LenProperties
<1>7. 1..n = 1..Len(rec) \cup {n}
  BY <1>4
<1> HIDE DEF n
<1>8. /\ DOMAIN rec' = DOMAIN rec \cup {n} /\ rec'[n] = v /\ rec' \in Seq(RecordType)
      /\ \A q \in DOMAIN rec : rec'[q] = rec[q]
      /\ products' = products \cup {n} /\ cur' = [cur EXCEPT ![t] = n]
  BY <1>1, <1>4, <1>5, <1>6, <1>7
<1>9. cur'[t] = n /\ pc'[t] = "listen" /\ \A u \in Callers : u # t => pc'[u] = pc[u] /\ cur'[u] = cur[u]
  BY <1>1, <1>8 DEF CacheInv, TypeInv, Moves
<1>10. "listen" \notin Loading /\ Inserting \subseteq Owning /\ Loading \subseteq Owning
  BY DEF Owning, Inserting, Loading
<1>11. OwnerInv'
  <2>1. \A u \in Callers : pc'[u] \in Borrowing \cup Owning => cur'[u] \in DOMAIN rec'
    BY <1>8, <1>9 DEF CacheInv, OwnerInv
  <2>2. \A u \in Callers : u # t /\ pc'[u] \in Owning => cur'[u] \in DOMAIN rec
    BY <1>9 DEF CacheInv, OwnerInv
  <2>3. \A u, w \in Callers : pc'[u] \in Owning /\ pc'[w] \in Owning /\ cur'[u] = cur'[w] => u = w
    <3>1. \A u, w \in Callers : u # t /\ w # t /\ pc'[u] \in Owning /\ pc'[w] \in Owning
             /\ cur'[u] = cur'[w] => u = w
      BY <1>9 DEF CacheInv, OwnerInv
    <3>2. \A u \in Callers : u # t /\ pc'[u] \in Owning => cur'[u] # cur'[t]
      BY <1>4, <1>9, <2>2
    <3> QED
      BY <3>1, <3>2, Zenon
  <2>4. \A u \in Callers : pc'[u] \in Inserting \cup Loading => cur'[u] \in products'
    BY <1>8, <1>9 DEF CacheInv, OwnerInv
  <2>5. \A u \in Callers : pc'[u] \in Inserting => rec'[cur'[u]].expiry > now'
    <3>1. rec'[cur'[t]].expiry > now'
      BY <1>1, <1>3, <1>8, <1>9
    <3>2. \A u \in Callers : u # t /\ pc'[u] \in Inserting => rec'[cur'[u]].expiry > now'
      BY <1>1, <1>8, <1>9, <1>10, <2>2 DEF CacheInv, OwnerInv
    <3> QED
      BY <3>1, <3>2
  <2>6. \A u \in Callers : pc'[u] \in Loading => rec'[cur'[u]].loading
    BY <1>8, <1>9, <1>10, <2>2 DEF CacheInv, OwnerInv
  <2> QED
    BY <2>1, <2>3, <2>4, <2>5, <2>6 DEF OwnerInv
<1>12. TimeInv'
  <2>1. ExpiryPeriod \in Nat /\ timerAt \in Nat /\ timerAt <= now + ExpiryPeriod
    BY TimesFacts DEF CacheInv, TimeInv
  <2>2. timerAt <= v.expiry + ExpiryPeriod
    BY <1>2, <1>3, <2>1
  <2>3. \A q \in products' : timerAt <= rec'[q].expiry + ExpiryPeriod
    BY <1>8, <2>2 DEF CacheInv, TimeInv, TypeInv
  <2>4. \A q \in DOMAIN rec' : rec'[q].asked <= rec'[q].expiry
    BY <1>3, <1>8 DEF CacheInv, TimeInv
  <2>5. \A q \in DOMAIN rec' \ products' : rec'[q].asked <= now
    BY <1>8 DEF CacheInv, TimeInv
  <2> QED
    BY <1>1, <2>3, <2>4, <2>5 DEF CacheInv, TimeInv
<1>13. TypeInv'
  <2>1. cur' \in [Callers -> DOMAIN rec' \cup {NoRecord}]
    BY <1>8 DEF CacheInv, TypeInv
  <2>2. /\ products' \subseteq DOMAIN rec' /\ todo' \in [Callers -> Seq(Calls)]
        /\ result' \in [Calls -> {"none", "true", "false"}]
        /\ handled' \in [Calls -> Nat] /\ early' \subseteq Calls
    BY <1>1, <1>8 DEF CacheInv, TypeInv
  <2> QED
    BY <1>1, <1>8, <2>1, <2>2, TypeMoves DEF CacheInv
<1>14. SweepInv'
  <2>1. sweep.pc # "wait" => timerAt <= v.expiry
    BY <1>2, <1>3 DEF CacheInv, SweepInv
  <2>2. \A q \in products' : sweep.pc # "wait" /\ q <= sweep.at =>
            timerAt <= rec'[q].expiry \/ (Deciding /\ q = sweep.at)
    BY <1>8, <2>1 DEF CacheInv, SweepInv, TypeInv
  <2>3. Deciding => sweep.at \in products /\ sweep.at \in DOMAIN rec /\ sweep.at # n
    BY <1>4 DEF CacheInv, SweepInv, TypeInv, n
  <2>4. Deciding => sweep.at \in products' /\ rec'[sweep.at] = rec[sweep.at]
    BY <1>8, <2>3
  <2>5. Deciding => \A u \in Callers : pc'[u] \in Inserting => cur'[u] # sweep.at
    BY <1>9, <2>3 DEF CacheInv, SweepInv
  <2> QED
    BY <1>1, <2>2, <2>4, <2>5 DEF CacheInv, SweepInv, Deciding
<1> QED
  BY <1>4, <1>8, <1>11, <1>12, <1>13, <1>14 DEF CacheInv, n, v

-----------------------------------------------------------------------------
(* The timer and the clock                                                 *)

LEMMA SweepFacts ==
    ASSUME CacheInv
    PROVE  /\ sweep.pc \in {"wait", "walk", "expired", "prolong"} /\ sweep.at \in Nat /\ sweep.seen \in Nat
           /\ ExpiryPeriod \in Nat /\ ExpiryPeriod >= 1 /\ timerAt \in Nat /\ now \in Nat
           /\ products \subseteq DOMAIN rec /\ products \subseteq Nat
           /\ \A q \in DOMAIN rec : rec[q].expiry \in Nat /\ rec[q].asked \in Nat
<1>1. sweep \in Sweeps
  BY DEF CacheInv, SweepInv
<1>2. ExpiryPeriod \in Nat /\ ExpiryPeriod >= 1 /\ timerAt \in Nat /\ now \in Nat
  BY TimesFacts, BoundsAssumption DEF CacheInv, TimeInv
<1>3. products \subseteq DOMAIN rec /\ products \subseteq Nat
  BY RecordFacts DEF CacheInv, TypeInv
<1>4. \A q \in DOMAIN rec : rec[q].expiry \in Nat /\ rec[q].asked \in Nat
  BY RecordFacts DEF CacheInv
<1> QED
  BY <1>1, <1>2, <1>3, <1>4 DEF Sweeps

\* The record remove_if looks at next is the first of those ahead.
LEMMA NextRecordFacts ==
    ASSUME CacheInv, Ahead # {}
    PROVE  /\ NextRecord \in products /\ NextRecord \in Nat /\ NextRecord > sweep.at
           /\ \A q \in products : q > sweep.at => NextRecord <= q
<1>1. Ahead \subseteq Nat
  BY SweepFacts DEF Ahead
<1> DEFINE Less == OpToRel(<, Nat)
<1>2. IsWellFoundedOn(Less, Nat) /\ \A x, y \in Nat : y < x => <<y, x>> \in Less
  BY NatLessThanWellFounded DEF OpToRel
<1> HIDE DEF Less
<1>3. PICK r \in Ahead : \A s \in Ahead : ~ (<<s, r>> \in Less)
  BY <1>1, <1>2, WFMin
<1>4. \A s \in Ahead : ~ (s < r)
  BY <1>1, <1>2, <1>3, Zenon
<1>5. \A s \in Ahead : r <= s
  BY <1>1, <1>4
<1>6. NextRecord \in Ahead /\ \A q \in Ahead : NextRecord <= q
  BY <1>5 DEF NextRecord
<1> QED
  BY <1>1, <1>6 DEF Ahead

\* What the timer does to itself.
LEMMA WalkStep ==
    ASSUME CacheInv, BeginSweep \/ Examine \/ Spare \/ EndSweep
    PROVE  CacheInv' /\ UNCHANGED <<products, rec>>
<1>1. /\ UNCHANGED <<products, rec, now, pc, call, arg, cur, todo, result, handled, early>>
      /\ EndSweep \/ timerAt' = timerAt
  BY DEF BeginSweep, Examine, Spare, EndSweep, callVars, history
<1>2. TypeInv' /\ OwnerInv'
  BY <1>1 DEF CacheInv, TypeInv, OwnerInv
<1>3. CASE BeginSweep
  <2>1. sweep' = [sweep EXCEPT !.pc = "walk"] /\ sweep.pc = "wait" /\ now = timerAt
    BY <1>3 DEF BeginSweep
  <2>2. sweep' \in Sweeps /\ sweep'.pc = "walk" /\ sweep'.at = 0
    BY <2>1 DEF CacheInv, SweepInv, Sweeps
  <2>3. \A q \in products : ~(q <= 0)
    BY RecordFacts DEF CacheInv, TypeInv
  <2>4. SweepInv'
    BY <1>1, <1>3, <2>1, <2>2, <2>3 DEF SweepInv, Deciding, BeginSweep
  <2>5. TimeInv'
    BY <1>1, <1>3 DEF BeginSweep, CacheInv, TimeInv
  <2> QED
    BY <1>1, <1>2, <2>4, <2>5 DEF CacheInv
<1>4. CASE Examine
  <2> DEFINE r == NextRecord
  <2>1. /\ sweep' = [sweep EXCEPT !.at = r, !.pc = IF Expired(r) THEN "expired" ELSE "walk"]
        /\ sweep.pc = "walk" /\ Ahead # {} /\ timerAt' = timerAt
    BY <1>4 DEF Examine
  <2>2. r \in products /\ r \in Nat /\ r > sweep.at /\ \A q \in products : q > sweep.at => r <= q
    BY <2>1, NextRecordFacts
  <2>3. /\ sweep' \in Sweeps /\ sweep'.at = r
        /\ sweep'.pc = IF Expired(r) THEN "expired" ELSE "walk"
    BY <2>1, <2>2 DEF CacheInv, SweepInv, Sweeps
  <2> HIDE DEF r
  <2>4. now = timerAt /\ r \in DOMAIN rec
    BY <2>1, <2>2, SweepFacts DEF CacheInv, SweepInv
  <2>5. \A q \in products : q <= r /\ q # r => timerAt <= rec[q].expiry
    <3>1. \A q \in products : q <= r /\ q # r => q <= sweep.at
      BY <2>2, SweepFacts
    <3> QED
      BY <2>1, <3>1 DEF CacheInv, SweepInv, Deciding
  <2>6. \A q \in products' : q <= sweep'.at => timerAt' <= rec'[q].expiry \/ q = r
    BY <1>1, <2>1, <2>3, <2>5
  <2>7. ASSUME Expired(r) PROVE SweepInv'
    <3>1. sweep'.pc = "expired"
      BY <2>3, <2>7
    <3>2. rec[r].asked <= now
      <4>1. rec[r].asked <= rec[r].expiry /\ rec[r].expiry <= now
        BY <2>4, <2>7 DEF Expired, CacheInv, TimeInv
      <4> QED
        BY <2>4, <4>1, SweepFacts
    <3>3. \A u \in Callers : pc[u] \in Inserting => cur[u] # r
      <4>1. ~(rec[r].expiry > now)
        BY <2>4, <2>7, SweepFacts DEF Expired
      <4> QED
        BY <4>1 DEF CacheInv, OwnerInv
    <3> QED
      BY <1>1, <2>1, <2>2, <2>3, <2>4, <2>6, <3>1, <3>2, <3>3 DEF SweepInv, Deciding
  <2>8. ASSUME ~Expired(r) PROVE SweepInv'
    <3>1. sweep'.pc = "walk"
      BY <2>3, <2>8
    <3>2. timerAt <= rec[r].expiry
      BY <2>4, <2>8, SweepFacts DEF Expired
    <3> QED
      BY <1>1, <2>1, <2>2, <2>3, <2>4, <2>6, <3>1, <3>2 DEF SweepInv, Deciding
  <2>9. TimeInv'
    BY <1>1, <2>1 DEF CacheInv, TimeInv
  <2> QED
    BY <1>1, <1>2, <2>7, <2>8, <2>9 DEF CacheInv
<1>5. CASE Spare
  <2>1. /\ sweep' = [sweep EXCEPT !.pc = "prolong", !.seen = rec[sweep.at].expiry]
        /\ sweep.pc = "expired" /\ timerAt' = timerAt
    BY <1>5 DEF Spare
  <2>2. sweep.at \in products /\ sweep.at \in DOMAIN rec
    BY <2>1, SweepFacts DEF CacheInv, SweepInv, Deciding
  <2>3. sweep' \in Sweeps /\ sweep'.at = sweep.at /\ sweep'.pc = "prolong" /\ sweep'.seen = rec[sweep.at].expiry
    BY <2>1, <2>2, SweepFacts DEF CacheInv, SweepInv, Sweeps
  <2>4. now = timerAt /\ timerAt <= rec[sweep.at].expiry + ExpiryPeriod
    BY <2>1, <2>2 DEF CacheInv, SweepInv, TimeInv
  <2>5. rec[sweep.at].asked <= rec[sweep.at].expiry
    BY <2>2 DEF CacheInv, TimeInv
  <2>6. SweepInv'
    BY <1>1, <2>1, <2>3, <2>4, <2>5 DEF CacheInv, SweepInv, Deciding
  <2>7. TimeInv'
    BY <1>1, <2>1 DEF CacheInv, TimeInv
  <2> QED
    BY <1>1, <1>2, <2>6, <2>7 DEF CacheInv
<1>6. CASE EndSweep
  <2>1. sweep' = Asleep /\ timerAt' = now + ExpiryPeriod /\ sweep.pc = "walk" /\ Ahead = {}
    BY <1>6 DEF EndSweep
  <2>2. now = timerAt /\ \A q \in products : timerAt <= rec[q].expiry
    <3>1. \A q \in products : q <= sweep.at
      BY <2>1, SweepFacts DEF Ahead
    <3> QED
      BY <2>1, <3>1 DEF CacheInv, SweepInv, Deciding
  <2>3. SweepInv'
    BY <2>1 DEF SweepInv, Deciding, Asleep, Sweeps
  <2>4. \A q \in products : timerAt' <= rec[q].expiry + ExpiryPeriod
    BY <2>1, <2>2, SweepFacts
  <2>5. timerAt' \in Nat /\ now <= timerAt' /\ timerAt' <= now + ExpiryPeriod
    BY <2>1, SweepFacts
  <2>6. TimeInv'
    BY <1>1, <2>4, <2>5 DEF CacheInv, TimeInv
  <2> QED
    BY <1>1, <1>2, <2>3, <2>6 DEF CacheInv
<1> QED
  BY <1>3, <1>4, <1>5, <1>6

LEMMA ProlongStep ==
    ASSUME CacheInv, Prolong
    PROVE  /\ CacheInv' /\ products' = products /\ DOMAIN rec' = DOMAIN rec
           /\ \A q \in DOMAIN rec : rec'[q].build = rec[q].build /\ rec'[q].listeners = rec[q].listeners
<1> DEFINE r == sweep.at
           due == sweep.seen + ExpiryPeriod
           v == [rec[r] EXCEPT !.expiry = due]
<1>1. /\ sweep.pc = "prolong" /\ rec' = [rec EXCEPT ![r] = v]
      /\ sweep' = [sweep EXCEPT !.pc = "walk", !.seen = 0]
      /\ UNCHANGED <<products, now, timerAt, pc, call, arg, cur, todo, result, handled, early>>
  BY DEF Prolong, callVars, history
<1>2. r \in products /\ r \in DOMAIN rec
  BY <1>1, SweepFacts DEF CacheInv, SweepInv, Deciding
<1>3. /\ due \in Nat /\ now <= due /\ now = timerAt /\ rec[r].asked <= due
      /\ \A u \in Callers : pc[u] \in Inserting => cur[u] # r
  <2>1. /\ now <= due /\ now = timerAt /\ rec[r].asked <= sweep.seen
        /\ \A u \in Callers : pc[u] \in Inserting => cur[u] # r
    BY <1>1 DEF CacheInv, SweepInv, Deciding
  <2> QED
    BY <1>2, <2>1, SweepFacts
<1>4. sweep' \in Sweeps /\ sweep'.pc = "walk" /\ sweep'.at = r
  BY <1>1 DEF CacheInv, SweepInv, Sweeps
<1> HIDE DEF r, due
<1>5. /\ v \in RecordType /\ v.expiry = due /\ v.loading = rec[r].loading /\ v.asked = rec[r].asked
      /\ v.build = rec[r].build /\ v.listeners = rec[r].listeners
  BY <1>2, <1>3, RecordFacts DEF RecordType, CacheInv
<1> HIDE DEF v
<1>6. Updated(r, v)
  BY <1>1, <1>2, <1>5, UpdateFacts DEF CacheInv, TypeInv
<1>7. /\ DOMAIN rec' = DOMAIN rec /\ rec' \in Seq(RecordType) /\ rec'[r] = v
      /\ \A q \in DOMAIN rec : q # r => rec'[q] = rec[q]
  BY <1>6 DEF Updated
<1>8. TypeInv'
  BY <1>1, <1>7 DEF CacheInv, TypeInv
<1>9. OwnerInv'
  <2>1. \A u \in Callers : pc[u] \in Inserting => cur[u] \in DOMAIN rec /\ rec'[cur[u]] = rec[cur[u]]
    BY <1>3, <1>7 DEF CacheInv, OwnerInv, Owning
  <2>2. \A u \in Callers : pc[u] \in Inserting => rec'[cur[u]].expiry > now
    BY <2>1 DEF CacheInv, OwnerInv
  <2>3. \A q \in DOMAIN rec : rec[q].loading => rec'[q].loading
    BY <1>5, <1>7
  <2>4. \A u \in Callers : pc[u] \in Loading => rec'[cur[u]].loading
    BY <2>3 DEF CacheInv, OwnerInv, Owning
  <2> QED
    BY <1>1, <1>7, <2>2, <2>4 DEF CacheInv, OwnerInv
<1>10. TimeInv'
  <2>1. timerAt <= due + ExpiryPeriod
    BY <1>3, SweepFacts
  <2>2. \A q \in products : timerAt <= rec'[q].expiry + ExpiryPeriod
    BY <1>5, <1>7, <2>1 DEF CacheInv, TimeInv, TypeInv
  <2>3. \A q \in DOMAIN rec : rec'[q].asked <= rec'[q].expiry
    BY <1>3, <1>5, <1>7 DEF CacheInv, TimeInv
  <2>4. \A q \in DOMAIN rec \ products : rec'[q].asked <= now
    BY <1>5, <1>7 DEF CacheInv, TimeInv
  <2> QED
    BY <1>1, <1>7, <2>2, <2>3, <2>4 DEF CacheInv, TimeInv
<1>11. SweepInv'
  <2>1. \A q \in products : q <= r => timerAt <= rec'[q].expiry
    BY <1>1, <1>3, <1>5, <1>7 DEF CacheInv, SweepInv, TypeInv, r
  <2> QED
    BY <1>1, <1>3, <1>4, <2>1 DEF SweepInv, Deciding
<1> QED
  BY <1>1, <1>5, <1>7, <1>8, <1>9, <1>10, <1>11 DEF CacheInv

LEMMA EraseStep ==
    ASSUME CacheInv, Erase
    PROVE  CacheInv' /\ products' \subseteq products /\ rec' = rec
<1>1. /\ sweep.pc = "expired" /\ ~rec[sweep.at].loading /\ products' = products \ {sweep.at}
      /\ sweep' = [sweep EXCEPT !.pc = "walk"]
      /\ UNCHANGED <<rec, now, timerAt, pc, call, arg, cur, todo, result, handled, early>>
  BY DEF Erase, callVars, history
<1>2. sweep' \in Sweeps /\ sweep'.pc = "walk" /\ sweep'.at = sweep.at
  BY <1>1 DEF CacheInv, SweepInv, Sweeps
<1>3. /\ rec[sweep.at].asked <= now /\ now = timerAt
      /\ \A u \in Callers : pc[u] \in Inserting => cur[u] # sweep.at
  BY <1>1 DEF CacheInv, SweepInv, Deciding
<1>4. \A u \in Callers : pc[u] \in Inserting \cup Loading => cur[u] \in products'
  <2>1. \A u \in Callers : pc[u] \in Loading => cur[u] # sweep.at
    BY <1>1 DEF CacheInv, OwnerInv
  <2> QED
    BY <1>1, <1>3, <2>1 DEF CacheInv, OwnerInv
<1>5. TypeInv' /\ OwnerInv'
  BY <1>1, <1>4 DEF CacheInv, TypeInv, OwnerInv
<1>6. TimeInv'
  BY <1>1, <1>3 DEF CacheInv, TimeInv
<1>7. SweepInv'
  BY <1>1, <1>2, <1>3 DEF CacheInv, SweepInv, Deciding
<1> QED
  BY <1>1, <1>5, <1>6, <1>7 DEF CacheInv

\* The timer takes records out of the list; of the others it changes the expiry.
LEMMA ExpiryStep ==
    ASSUME CacheInv, RemoveExpiredEntries
    PROVE  /\ CacheInv' /\ products' \subseteq products /\ DOMAIN rec' = DOMAIN rec
           /\ \A q \in DOMAIN rec : rec'[q].build = rec[q].build /\ rec'[q].listeners = rec[q].listeners
           /\ UNCHANGED <<pc, call, arg, cur, todo, result, handled>>
<1>1. UNCHANGED <<pc, call, arg, cur, todo, result, handled>>
  BY DEF RemoveExpiredEntries, BeginSweep, Examine, Spare, Prolong, Erase, EndSweep, callVars, history
<1> QED
  BY <1>1, WalkStep, ProlongStep, EraseStep DEF RemoveExpiredEntries

LEMMA TickStep ==
    ASSUME CacheInv, Tick
    PROVE  CacheInv'
<1>1. /\ now < timerAt /\ now < MaxTime /\ now' = now + 1
      /\ \A t \in Callers : pc[t] \in {"idle", "loading", "handling", "notify"}
      /\ UNCHANGED <<products, rec, timerAt, sweep, pc, call, arg, cur, todo, result, handled, early>>
  BY DEF Tick, callVars, history
<1>2. now \in Nat /\ timerAt \in Nat /\ ExpiryPeriod \in Nat /\ MaxTime \in Nat
  BY TimesFacts, BoundsAssumption DEF CacheInv, TimeInv
<1>3. OwnerInv'
  <2>1. \A t \in Callers : pc[t] \notin Inserting
    BY <1>1 DEF Inserting
  <2> QED
    BY <1>1, <2>1 DEF CacheInv, OwnerInv
<1>4. TimeInv'
  <2>1. \A q \in DOMAIN rec \ products : rec[q].asked <= now + 1
    <3>1. \A q \in DOMAIN rec : rec[q].asked \in Nat
      BY RecordFacts DEF CacheInv
    <3> QED
      BY <1>2, <3>1 DEF CacheInv, TimeInv
  <2>2. now' \in 0..MaxTime /\ now' <= timerAt /\ timerAt <= now' + ExpiryPeriod
    BY <1>1, <1>2 DEF CacheInv, TimeInv
  <2> QED
    BY <1>1, <2>1, <2>2 DEF CacheInv, TimeInv
<1>5. TypeInv'
  BY <1>1 DEF CacheInv, TypeInv
<1>6. sweep.pc = "wait"
  BY <1>1, <1>2 DEF CacheInv, SweepInv
<1>7. SweepInv'
  BY <1>1, <1>6 DEF CacheInv, SweepInv, Deciding
<1> QED
  BY <1>3, <1>4, <1>5, <1>7 DEF CacheInv

LEMMA StutterStep ==
    ASSUME CacheInv, UNCHANGED <<cacheVars, callVars, history>>
    PROVE  CacheInv'
<1>1. UNCHANGED <<products, rec, now, timerAt, sweep, pc, call, arg, cur, todo, result, handled, early>>
  BY DEF cacheVars, callVars, history
<1> QED
  BY <1>1 DEF CacheInv, TypeInv, OwnerInv, TimeInv, SweepInv, Deciding

LEMMA CacheNext == CacheInv /\ [Next]_vars => CacheInv'
<1> SUFFICES ASSUME CacheInv, [Next]_vars PROVE CacheInv'
  OBVIOUS
<1>1. ASSUME NEW t \in Callers, Step(t) PROVE CacheInv'
  BY <1>1, ReadStep, AddStep, AssignStep, FlagStep, ScanHitStep, RefreshStep, InsertStep DEF Step
<1>2. ASSUME NEW t \in Callers, NEW b \in Builds, NEW l \in Lifetimes,
             Call(t, b, l)
      PROVE  CacheInv'
  BY <1>2, CallStep
<1>3. ASSUME NEW t \in Callers, Crash(t) PROVE CacheInv'
  BY <1>3, StutterStep DEF Crash
<1>4. CASE UNCHANGED vars
  BY <1>4, StutterStep DEF vars
<1>5. CASE Terminating
  BY <1>4, <1>5 DEF Terminating
<1> QED
  BY <1>1, <1>2, <1>3, <1>4, <1>5, ExpiryStep, TickStep DEF Next

\* In every reachable state the list, the records and the clock agree.
LEMMA CacheIsInvariant == Spec => []CacheInv
<1>1. Init => CacheInv
  BY TypeInit
<1>2. CacheInv /\ [Next]_vars => CacheInv'
  BY CacheNext
<1> QED
  BY <1>1, <1>2, PTL DEF Spec

\* No build of the list outstays its expiry by more than a period of the timer,
\* although a hit moves the expiry and the timer keeps what is loading.
THEOREM CacheEvictsOnTime == Spec => []EvictedOnTime
<1>1. CacheInv => EvictedOnTime
  <2> SUFFICES ASSUME CacheInv, NEW r \in products PROVE rec[r].expiry - now >= -ExpiryPeriod
    BY DEF EvictedOnTime, CacheStatus, ForEachProduct
  <2>1. r \in DOMAIN rec /\ rec[r].expiry \in Nat
    BY RecordFacts DEF CacheInv, TypeInv
  <2>2. now \in Nat /\ timerAt \in Nat /\ ExpiryPeriod \in Nat /\ now <= timerAt
    BY BoundsAssumption, TimesFacts DEF CacheInv, TimeInv
  <2>3. timerAt <= rec[r].expiry + ExpiryPeriod
    BY DEF CacheInv, TimeInv
  <2> QED
    BY <2>1, <2>2, <2>3
<1> QED
  BY <1>1, CacheIsInvariant, PTL

\* With requests and the walk of the timer interleaved access by access, a record
\* that left the list had lived as long as the last request for it asked, unless
\* that request fell between the timer's test of the record and its decision.
THEOREM CacheKeepsAsLongAsAsked == Spec => []KeptAsLongAsAsked
<1>1. CacheInv => KeptAsLongAsAsked
  BY DEF CacheInv, TimeInv, KeptAsLongAsAsked
<1> QED
  BY <1>1, CacheIsInvariant, PTL

-----------------------------------------------------------------------------
(* How often a build is in the list                                        *)

\* Callers that missed build b and have not yet put it on their record.
Missing(b) == {t \in Callers : pc[t] \in {"miss", "listen", "assign"} /\ BuildOf(t) = b}

\* Whoever misses finds no record, and adds one at most.
DuplicationInv ==
    \A b \in Builds : Cardinality(Matches(b)) + Cardinality(Missing(b)) <= Cardinality(Callers)

LEMMA DuplicationFinite ==
    ASSUME TypeInv, NEW b
    PROVE  /\ IsFiniteSet(Matches(b)) /\ Cardinality(Matches(b)) \in Nat
           /\ IsFiniteSet(Missing(b)) /\ Cardinality(Missing(b)) \in Nat
           /\ Cardinality(Missing(b)) <= Cardinality(Callers) /\ Cardinality(Callers) \in Nat
<1>1. IsFiniteSet(DOMAIN rec)
  <2>1. DOMAIN rec = 1..Len(rec) /\ 1 \in Int /\ Len(rec) \in Int
    BY LenProperties DEF TypeInv
  <2>2. IsFiniteSet(1..Len(rec))
    BY <2>1, FS_Interval
  <2> QED
    BY <2>1, <2>2
<1>2. IsFiniteSet(Matches(b))
  BY <1>1, FS_Subset DEF Matches, TypeInv
<1>3. IsFiniteSet(Missing(b)) /\ Cardinality(Missing(b)) <= Cardinality(Callers)
  BY CallersAssumption, FS_Subset DEF Missing
<1> QED
  BY <1>2, <1>3, CallersAssumption, FS_CardinalityType

\* A step that neither adds a record of b nor makes anybody miss it.
LEMMA DuplicationShrinks ==
    ASSUME TypeInv, TypeInv', NEW b \in Builds,
           Cardinality(Matches(b)) + Cardinality(Missing(b)) <= Cardinality(Callers),
           Matches(b)' \subseteq Matches(b), Missing(b)' \subseteq Missing(b)
    PROVE  Cardinality(Matches(b)') + Cardinality(Missing(b)') <= Cardinality(Callers)
<1> DEFINE M == Matches(b)  N == Matches(b)'  S == Missing(b)  T == Missing(b)'
<1>1. /\ IsFiniteSet(M) /\ Cardinality(M) \in Nat /\ IsFiniteSet(S) /\ Cardinality(S) \in Nat
      /\ Cardinality(Callers) \in Nat
  BY DuplicationFinite
<1>2. N \in SUBSET M /\ T \in SUBSET S
  OBVIOUS
<1> HIDE DEF M, N, S, T
<1>3. Cardinality(N) \in Nat /\ Cardinality(N) <= Cardinality(M)
  BY <1>1, <1>2, FS_Subset, FS_CardinalityType
<1>4. Cardinality(T) \in Nat /\ Cardinality(T) <= Cardinality(S)
  BY <1>1, <1>2, FS_Subset, FS_CardinalityType
<1>5. Cardinality(M) + Cardinality(S) <= Cardinality(Callers)
  BY DEF M, S
<1>6. Cardinality(N) + Cardinality(T) <= Cardinality(Callers)
  BY <1>1, <1>3, <1>4, <1>5
<1> QED
  BY <1>6 DEF N, T

\* Whoever goes on without entering "miss" leaves the set of the missing as it
\* was, or leaves it.
LEMMA MissingShrinks ==
    ASSUME TypeInv, NEW t \in Callers, NEW from, NEW to, Moves(t, from, to), arg' = arg,
           to \in {"miss", "listen", "assign"} => from \in {"miss", "listen", "assign"}
    PROVE  \A b \in Builds : Missing(b)' \subseteq Missing(b)
  BY DEF TypeInv, Moves, Missing, BuildOf

LEMMA MatchesKept ==
    ASSUME TypeInv, products' \subseteq products,
           \A q \in DOMAIN rec : rec'[q].build = rec[q].build
    PROVE  \A b \in Builds : Matches(b)' \subseteq Matches(b)
  BY DEF TypeInv, Matches

LEMMA DuplicationNext == CacheInv /\ CacheInv' /\ DuplicationInv /\ [Next]_vars => DuplicationInv'
<1> SUFFICES ASSUME CacheInv, CacheInv', DuplicationInv, [Next]_vars, NEW b \in Builds
             PROVE  Cardinality(Matches(b)') + Cardinality(Missing(b)') <= Cardinality(Callers)
  BY DEF DuplicationInv
<1> DEFINE Goal == Cardinality(Matches(b)') + Cardinality(Missing(b)') <= Cardinality(Callers)
<1> USE DEF CacheInv
<1>1. Cardinality(Matches(b)) + Cardinality(Missing(b)) <= Cardinality(Callers)
  BY DEF DuplicationInv
<1>2. Matches(b)' \subseteq Matches(b) /\ Missing(b)' \subseteq Missing(b) => Goal
  BY <1>1, DuplicationShrinks
<1>3. UNCHANGED <<products, rec>> => Matches(b)' \subseteq Matches(b)
  BY DEF Matches
<1>4. UNCHANGED <<pc, arg>> => Missing(b)' \subseteq Missing(b)
  BY DEF Missing, BuildOf
<1> HIDE DEF Goal
<1>5. ASSUME NEW t \in Callers, NEW c \in Builds, NEW l \in Lifetimes,
             Call(t, c, l)
      PROVE  Goal
  <2>1. /\ pc[t] = "idle" /\ pc' = [pc EXCEPT ![t] = "scan"] /\ UNCHANGED <<products, rec>>
        /\ arg' = [arg EXCEPT ![t] = <<c, l>>]
    BY <1>5 DEF Call, GoTo, cacheVars
  <2>2. pc'[t] = "scan" /\ \A u \in Callers : u # t => pc'[u] = pc[u] /\ arg'[u] = arg[u]
    BY <2>1 DEF TypeInv
  <2>3. Missing(b)' \subseteq Missing(b)
    BY <2>2 DEF Missing, BuildOf
  <2> QED
    BY <1>2, <1>3, <2>1, <2>3
<1>6. ASSUME NEW t \in Callers,
             \/ HitLoading(t) \/ HitLoaded(t) \/ HandlerReturns(t) \/ NoFactory(t)
             \/ BeginListeners(t) \/ RunListener(t) \/ EndListeners(t)
      PROVE  Goal
  <2>1. UNCHANGED <<products, rec, arg>>
    BY <1>6 DEF HitLoading, HitLoaded, HandlerReturns, NoFactory, BeginListeners, RunListener,
                EndListeners, cacheVars
  <2>2. \/ Moves(t, "hit", "join") \/ Moves(t, "hit", "handling") \/ Moves(t, "handling", "idle")
        \/ Moves(t, "miss", "idle") \/ Moves(t, "cleared", "notify") \/ Moves(t, "notify", "notify")
        \/ Moves(t, "notify", "idle")
    BY <1>6, SMTT(30) DEF HitLoading, HitLoaded, HandlerReturns, NoFactory, BeginListeners,
                          RunListener, EndListeners, GoTo, Moves, PCs, TypeInv
  <2> QED
    BY <1>2, <1>3, <2>1, <2>2, MissingShrinks
<1>7. ASSUME NEW t \in Callers, ScanMiss(t) PROVE Goal
  <2>1. b = BuildOf(t) \/ Missing(b)' \subseteq Missing(b)
    BY <1>7 DEF ScanMiss, GoTo, Missing, BuildOf, TypeInv
  <2>2. UNCHANGED <<products, rec>>
    BY <1>7 DEF ScanMiss, cacheVars
  <2>3. CASE b = BuildOf(t)
    <3>1. Matches(b)' = {}
      BY <1>7, <2>2, <2>3 DEF ScanMiss, Matches
    <3>2. Cardinality(Matches(b)') = 0
      BY <3>1, FS_EmptySet
    <3>3. Missing(b)' \in SUBSET Callers
      BY DEF Missing
    <3>4. /\ Cardinality(Missing(b)') \in Nat /\ Cardinality(Callers) \in Nat
          /\ Cardinality(Missing(b)') <= Cardinality(Callers)
      BY <3>3, CallersAssumption, FS_Subset, FS_CardinalityType
    <3> QED
      BY <3>2, <3>4 DEF Goal
  <2> QED
    BY <1>2, <1>3, <2>1, <2>2, <2>3
<1>8. ASSUME NEW t \in Callers, Join(t) \/ Listen(t) PROVE Goal
  <2>1. Updated(cur[t], [rec[cur[t]] EXCEPT !.listeners = Append(@, ThisCall(t))])
    BY <1>8, AddStep
  <2>2. \A q \in DOMAIN rec : rec'[q].build = rec[q].build
    BY <2>1, RecordFacts DEF Updated, RecordType
  <2>3. /\ UNCHANGED <<products, arg>>
        /\ Moves(t, "join", "idle") \/ Moves(t, "listen", "assign")
    BY <1>8 DEF Join, Listen, GoTo, Moves, PCs, TypeInv
  <2> QED
    BY <1>2, <2>2, <2>3, MatchesKept, MissingShrinks
<1>9. ASSUME NEW t \in Callers, Flag(t) \/ Download(t) \/ DownloadFails(t) \/ ClearFlag(t) PROVE Goal
  <2>1. \E v \in RecordType : Updated(cur[t], v) /\ v.build = rec[cur[t]].build
    BY <1>9, FlagStep
  <2>2. \A q \in DOMAIN rec : rec'[q].build = rec[q].build
    BY <2>1 DEF Updated
  <2>3. UNCHANGED <<products, arg>>
        /\ \E from, to : Moves(t, from, to) /\ to \notin {"miss", "listen", "assign"}
    BY <1>9 DEF Flag, Download, DownloadFails, ClearFlag, GoTo, Moves, PCs, TypeInv
  <2> QED
    BY <1>2, <2>2, <2>3, MatchesKept, MissingShrinks
<1>10. ASSUME NEW t \in Callers, ScanHit(t) \/ Refresh(t) PROVE Goal
  <2>1. /\ UNCHANGED <<products, arg>>
        /\ Moves(t, "scan", "found") \/ Moves(t, "found", "hit")
        /\ \A q \in DOMAIN rec : rec'[q].build = rec[q].build
    <3>1. CASE ScanHit(t)
      BY <3>1, ScanHitStep
    <3>2. CASE Refresh(t)
      BY <3>2, RefreshStep DEF Updated
    <3> QED
      BY <1>10, <3>1, <3>2
  <2> QED
    BY <1>2, <2>1, MatchesKept, MissingShrinks
<1>11. ASSUME NEW t \in Callers, Insert(t) PROVE Goal
  <2>1. Moves(t, "miss", "listen") /\ arg' = arg
    BY <1>11 DEF Insert, GoTo, Moves, PCs, TypeInv
  <2>2. /\ products' = products \cup {Len(rec) + 1} /\ \A q \in DOMAIN rec : rec'[q] = rec[q]
        /\ rec'[Len(rec) + 1] = NewRecord(now + InsertLifetime, now + LifetimeOf(t))
    BY <1>11, InsertStep
  <2>3. rec'[Len(rec) + 1].build = NoBuild /\ b # NoBuild
    BY <2>2, NamesAssumption DEF NewRecord
  <2>4. Matches(b)' \subseteq Matches(b)
    BY <2>2, <2>3 DEF Matches, TypeInv
  <2> QED
    BY <1>2, <2>1, <2>4, MissingShrinks
<1>12. ASSUME NEW t \in Callers, Assign(t) PROVE Goal
  <2>1. /\ Moves(t, "assign", "flag") /\ UNCHANGED <<products, arg>> /\ pc[t] = "assign"
    BY <1>12 DEF Assign, GoTo, Moves, PCs, TypeInv
  <2>2. Updated(cur[t], [rec[cur[t]] EXCEPT !.build = BuildOf(t)])
    BY <1>12, AssignStep
  <2>3. CASE b # BuildOf(t)
    <3>1. rec[cur[t]] \in RecordType
      BY <2>2, RecordFacts DEF Updated
    <3>2. rec'[cur[t]].build # b
      BY <2>2, <2>3, <3>1 DEF Updated, RecordType
    <3>3. Matches(b)' \subseteq Matches(b)
      BY <2>1, <2>2, <3>2 DEF Matches, Updated, TypeInv
    <3> QED
      BY <1>2, <2>1, <3>3, MissingShrinks
  <2>4. CASE b = BuildOf(t)
    <3> DEFINE M == Matches(b)  N == Matches(b)'  S == Missing(b)  T == Missing(b)'
    <3>1. N \subseteq M \cup {cur[t]}
      BY <2>1, <2>2 DEF Matches, Updated, TypeInv
    <3>2. t \in S /\ T \subseteq S \ {t}
      BY <2>1, <2>4 DEF Missing, BuildOf, Moves, TypeInv
    <3>3. /\ IsFiniteSet(M) /\ Cardinality(M) \in Nat /\ IsFiniteSet(S) /\ Cardinality(S) \in Nat
          /\ Cardinality(Callers) \in Nat
      BY DuplicationFinite
    <3>4. Cardinality(M) + Cardinality(S) <= Cardinality(Callers)
      BY <1>1
    <3> HIDE DEF M, N, S, T
    <3>5. Cardinality(N) \in Nat /\ Cardinality(N) <= Cardinality(M) + 1
      <4> DEFINE A == M \cup {cur[t]}
      <4>1. IsFiniteSet(A) /\ Cardinality(A) <= Cardinality(M) + 1
        <5>1. /\ IsFiniteSet(A)
              /\ Cardinality(A) = IF cur[t] \in M THEN Cardinality(M) ELSE Cardinality(M) + 1
          BY <3>3, FS_AddElement
        <5> HIDE DEF A
        <5>2. Cardinality(A) = Cardinality(M) \/ Cardinality(A) = Cardinality(M) + 1
          BY <5>1
        <5> QED
          BY <3>3, <5>1, <5>2
      <4>2. N \in SUBSET A
        BY <3>1
      <4> HIDE DEF A
      <4>3. Cardinality(N) \in Nat /\ Cardinality(N) <= Cardinality(A) /\ Cardinality(A) \in Nat
        BY <4>1, <4>2, FS_Subset, FS_CardinalityType
      <4> QED
        BY <3>3, <4>1, <4>3
    <3>6. Cardinality(T) \in Nat /\ Cardinality(T) <= Cardinality(S) - 1
      <4> DEFINE A == S \ {t}
      <4>1. IsFiniteSet(A) /\ Cardinality(A) = Cardinality(S) - 1
        BY <3>2, <3>3, FS_RemoveElement
      <4>2. T \in SUBSET A
        BY <3>2
      <4> HIDE DEF A
      <4>3. Cardinality(T) \in Nat /\ Cardinality(T) <= Cardinality(A)
        BY <4>1, <4>2, FS_Subset, FS_CardinalityType
      <4> QED
        BY <4>1, <4>3
    <3>7. Cardinality(N) + Cardinality(T) <= Cardinality(Callers)
      BY <3>3, <3>4, <3>5, <3>6
    <3> QED
      BY <3>7 DEF Goal, N, T
  <2> QED
    BY <2>3, <2>4
<1>13. ASSUME RemoveExpiredEntries PROVE Goal
  <2>1. products' \subseteq products /\ \A q \in DOMAIN rec : rec'[q].build = rec[q].build
    BY <1>13, ExpiryStep
  <2>2. UNCHANGED <<pc, arg>>
    BY <1>13, ExpiryStep
  <2> QED
    BY <1>2, <1>4, <2>1, <2>2, MatchesKept
<1>14. ASSUME Tick \/ UNCHANGED vars \/ \E t \in Callers : Crash(t) PROVE Goal
  <2>1. UNCHANGED <<products, rec, pc, arg>>
    BY <1>14 DEF Tick, Crash, vars, cacheVars, callVars
  <2> QED
    BY <1>2, <1>3, <1>4, <2>1
<1>15. ASSUME Terminating PROVE Goal
  BY <1>14, <1>15 DEF Terminating
<1>16. ASSUME NEW t \in Callers, Step(t) PROVE Goal
  BY <1>6, <1>7, <1>8, <1>9, <1>10, <1>11, <1>12, <1>16 DEF Step
<1>17. Goal
  BY <1>5, <1>13, <1>14, <1>15, <1>16 DEF Next
<1> QED
  BY <1>17 DEF Goal

\* However the callers interleave, and whatever expires or fails, the list holds
\* a build at most once per thread.
THEOREM CacheBoundedDuplication == Spec => []BoundedDuplication
<1>1. Init => DuplicationInv
  <2> SUFFICES ASSUME Init, NEW b \in Builds
               PROVE  Cardinality(Matches(b)) + Cardinality(Missing(b)) <= Cardinality(Callers)
    BY DEF DuplicationInv
  <2>1. Matches(b) = {} /\ Missing(b) = {}
    BY DEF Init, Matches, Missing
  <2> QED
    BY <2>1, FS_EmptySet, CallersAssumption, FS_CardinalityType
<1>2. CacheInv /\ CacheInv' /\ DuplicationInv /\ [Next]_vars => DuplicationInv'
  BY DuplicationNext
<1>3. CacheInv /\ DuplicationInv => BoundedDuplication
  <2> SUFFICES ASSUME CacheInv, DuplicationInv, NEW b \in Builds
               PROVE  Cardinality(Matches(b)) <= Cardinality(Callers)
    BY DEF BoundedDuplication
  <2> DEFINE m == Cardinality(Matches(b))  n == Cardinality(Missing(b))  c == Cardinality(Callers)
  <2>1. m \in Nat /\ n \in Nat /\ c \in Nat /\ m + n <= c
    BY DuplicationFinite DEF CacheInv, DuplicationInv
  <2> HIDE DEF m, n, c
  <2>2. m <= c
    BY <2>1
  <2> QED
    BY <2>2 DEF m, c
<1> QED
  BY <1>1, <1>2, <1>3, CacheIsInvariant, PTL DEF Spec

-----------------------------------------------------------------------------
(* What becomes of a call                                                  *)

Queued(r) == ToSet(rec[r].listeners)

Fresh(k) == /\ result[k] = "none" /\ handled[k] = 0
            /\ \A r \in DOMAIN rec : k \notin Queued(r)

Pending(k) == handled[k] = 0 /\ result[k] # "false"

\* Places where nobody was given the caller's handler yet.
Asking == {"scan", "found", "hit", "join", "miss", "listen"}

\* No call is queued twice; a record without a listener has just been inserted.
QueueInv ==
    /\ \A r, s \in DOMAIN rec : \A k \in Queued(r) : k \in Queued(s) => r = s
    /\ \A r \in DOMAIN rec : \A i, j \in DOMAIN rec[r].listeners :
          rec[r].listeners[i] = rec[r].listeners[j] => i = j
    /\ \A r \in DOMAIN rec : rec[r].listeners = <<>> =>
          rec[r].build = NoBuild /\ \E t \in Callers : pc[t] = "listen" /\ cur[t] = r

\* Calls to come, and those whose handler nobody was given yet, left no trace.
FreshInv ==
    \A t \in Callers, i \in 1..MaxCalls :
        i > call[t] \/ (i = call[t] /\ pc[t] \in Asking) => Fresh(<<t, i>>)

\* The calls whose handlers caller t runs, unless its load fails.
Awaited(t) == {k \in Calls : \/ pc[t] = "notify" /\ k \in ToSet(todo[t])
                             \/ pc[t] \in Owning \ {"notify"} /\ k \in Queued(cur[t])}

CallerInv(t) ==
    /\ pc[t] # "idle" => result[ThisCall(t)] = "none"
    /\ pc[t] \in {"found", "hit", "join"} => rec[cur[t]].listeners # <<>>
    /\ pc[t] = "handling" => handled[ThisCall(t)] = 1
    /\ \A k \in Awaited(t) : Pending(k) /\ k \in Queued(cur[t])
    /\ pc[t] \in Owning \ {"listen"} => ThisCall(t) \in Awaited(t) \/ handled[ThisCall(t)] = 1
    /\ pc[t] \in Owning \ {"listen", "notify"} => ThisCall(t) \in Queued(cur[t])
    /\ pc[t] = "notify" => \A i, j \in DOMAIN todo[t] : todo[t][i] = todo[t][j] => i = j

AnswerOf(k) ==
    /\ handled[k] <= 1
    /\ result[k] = "true" /\ handled[k] = 0 =>
          \E r \in DOMAIN rec : rec[r].listeners # <<>> /\ k \in ToSet(Tail(rec[r].listeners))
    /\ result[k] = "false" => handled[k] = 0

CallsInv == \A t \in Callers : CallerInv(t)
AnswerInv == QueueInv /\ FreshInv /\ CallsInv /\ \A k \in Calls : AnswerOf(k)

LEMMA AppendSet ==
    ASSUME NEW q \in Seq(Calls), NEW k \in Calls
    PROVE  ToSet(Append(q, k)) = ToSet(q) \cup {k}
<1> DEFINE a == Append(q, k)  n == Len(q)
<1>1. n \in Nat /\ DOMAIN q = 1..n
  BY LenProperties
<1>2. a \in Seq(Calls) /\ Len(a) = n + 1 /\ (\A i \in 1..n : a[i] = q[i]) /\ a[n + 1] = k
  BY AppendProperties
<1>3. DOMAIN a = 1..(n + 1)
  BY <1>2, LenProperties
<1> HIDE DEF a, n
<1>4. 1..(n + 1) = 1..n \cup {n + 1}
  BY <1>1
<1>5. ToSet(a) = ToSet(q) \cup {k}
  BY <1>1, <1>2, <1>3, <1>4 DEF ToSet
<1> QED
  BY <1>5 DEF a

\* What a sequence holds after an Append and after a Tail.
LEMMA QueueFacts ==
    ASSUME NEW q \in Seq(Calls), NEW k \in Calls
    PROVE  /\ ToSet(q) \subseteq Calls /\ (ToSet(q) # {} => q # <<>>)
           /\ Append(q, k) # <<>> /\ ToSet(Append(q, k)) = ToSet(q) \cup {k}
           /\ q # <<>> => ToSet(Tail(Append(q, k))) = ToSet(Tail(q)) \cup {k}
           /\ (\A i, j \in DOMAIN q : q[i] = q[j] => i = j) /\ k \notin ToSet(q) =>
                 \A i, j \in DOMAIN Append(q, k) : Append(q, k)[i] = Append(q, k)[j] => i = j
<1> DEFINE a == Append(q, k)  n == Len(q)
<1>1. n \in Nat /\ DOMAIN q = 1..n /\ \A i \in 1..n : q[i] \in Calls
  BY LenProperties, ElementOfSeq
<1>2. /\ a \in Seq(Calls) /\ a # <<>> /\ Len(a) = n + 1 /\ \A i \in 1..n : a[i] = q[i]
      /\ a[n + 1] = k
  BY AppendProperties
<1>3. DOMAIN a = 1..(n + 1)
  BY <1>2, LenProperties
<1> HIDE DEF a, n
<1>4. 1..(n + 1) = 1..n \cup {n + 1} /\ n + 1 \notin 1..n
  BY <1>1
<1>5. ToSet(q) \subseteq Calls /\ (ToSet(q) # {} => q # <<>>)
  BY <1>1, EmptySeq DEF ToSet
<1>6. ToSet(a) = ToSet(q) \cup {k}
  BY AppendSet DEF a
<1>7. ASSUME q # <<>> PROVE ToSet(Tail(a)) = ToSet(Tail(q)) \cup {k}
  <2>1. Tail(q) \in Seq(Calls) /\ Tail(a) = Append(Tail(q), k)
    BY <1>7, HeadTailProperties, AppendProperties, SMTT(30) DEF a
  <2> QED
    BY <2>1, AppendSet
<1>8. ASSUME \A i, j \in DOMAIN q : q[i] = q[j] => i = j, k \notin ToSet(q),
             NEW i \in DOMAIN a, NEW j \in DOMAIN a, a[i] = a[j]
      PROVE  i = j
  <2>1. \A m \in 1..n : q[m] # k
    BY <1>1, <1>8 DEF ToSet
  <2> QED
    BY <1>1, <1>2, <1>3, <1>4, <1>8, <2>1
<1> QED
  BY <1>2, <1>5, <1>6, <1>7, <1>8 DEF a

\* Nobody's answer or handler changes but those of the calls in K.
OnlyCalls(K) == \A j \in Calls \ K : result'[j] = result[j] /\ handled'[j] = handled[j]

\* Queues grow.
QueuesGrow ==
    \A r \in DOMAIN rec :
        /\ r \in DOMAIN rec' /\ Queued(r) \subseteq ToSet(rec'[r].listeners)
        /\ rec[r].listeners # <<>> =>
              /\ rec'[r].listeners # <<>>
              /\ ToSet(Tail(rec[r].listeners)) \subseteq ToSet(Tail(rec'[r].listeners))

QueuesKept ==
    DOMAIN rec' = DOMAIN rec /\ \A r \in DOMAIN rec : rec'[r].listeners = rec[r].listeners

LEMMA KeptGrows == QueuesKept => QueuesGrow
  BY DEF QueuesKept, QueuesGrow, Queued

\* A caller that does not move, while the answers of the calls in K change.
LEMMA CallerKept ==
    ASSUME CacheInv, NEW u \in Callers, CallerInv(u), NEW K, OnlyCalls(K), QueuesGrow,
           pc'[u] = pc[u], cur'[u] = cur[u], call'[u] = call[u], todo'[u] = todo[u],
           pc[u] # "idle" => ThisCall(u) \notin K, Awaited(u) \cap K = {},
           \A k \in Awaited(u)' : k \in Awaited(u) \/ Pending(k)'
    PROVE  CallerInv(u)'
<1>1. ThisCall(u)' = ThisCall(u) /\ (pc[u] # "idle" => ThisCall(u) \in Calls)
  BY CallFacts DEF ThisCall, CacheInv, TypeInv
<1>2. pc[u] \in Borrowing \cup Owning => cur[u] \in DOMAIN rec
  BY DEF CacheInv, OwnerInv
<1>3. pc[u] \in Owning => Queued(cur[u]) \subseteq ToSet(rec'[cur[u]].listeners)
  BY <1>2 DEF QueuesGrow
<1>4. \A k \in Awaited(u) : Pending(k)' /\ k \in Queued(cur[u])
  BY DEF CallerInv, OnlyCalls, Awaited, Pending
<1>5. Awaited(u) \subseteq Awaited(u)'
  BY <1>3 DEF Awaited, Queued
<1>6. \A k \in Awaited(u)' : k \in Awaited(u) \/ k \in ToSet(rec'[cur[u]].listeners)
  BY DEF Awaited, Queued
<1>7. \A k \in Awaited(u)' : Pending(k)' /\ k \in ToSet(rec'[cur[u]].listeners)
  <2>1. \A k \in Awaited(u) : pc[u] \in Owning
    BY DEF Awaited, Owning
  <2> QED
    BY <1>3, <1>4, <1>6, <2>1
<1>8. pc[u] # "idle" => result'[ThisCall(u)] = "none" /\ handled'[ThisCall(u)] = handled[ThisCall(u)]
  BY <1>1 DEF CallerInv, OnlyCalls
<1>9. pc[u] \in {"found", "hit", "join"} => rec'[cur[u]].listeners # <<>>
  BY <1>2 DEF CallerInv, QueuesGrow, Borrowing
<1>10. Owning \subseteq PCs \ {"idle"}
  BY DEF Owning, Inserting, Loading, PCs
<1>11. pc[u] \in Owning \ {"listen"} => ThisCall(u) \in Awaited(u)' \/ handled'[ThisCall(u)] = 1
  BY <1>5, <1>8, <1>10 DEF CallerInv
<1>12. pc[u] \in Owning \ {"listen", "notify"} => ThisCall(u) \in ToSet(rec'[cur[u]].listeners)
  BY <1>3 DEF CallerInv
<1>13. pc[u] = "handling" => handled'[ThisCall(u)] = 1
  BY <1>8 DEF CallerInv
<1> QED
  BY <1>1, <1>7, <1>8, <1>9, <1>11, <1>12, <1>13 DEF CallerInv, Queued

\* The calls another caller awaits are none of those a step of t is about.
LEMMA NotAwaited ==
    ASSUME CacheInv, AnswerInv, NEW t \in Callers, NEW u \in Callers, u # t, NEW k,
           Fresh(k) \/ handled[k] = 1 \/ (pc[t] \in Owning /\ k \in Queued(cur[t]))
    PROVE  k \notin Awaited(u)
<1> SUFFICES ASSUME k \in Awaited(u) PROVE FALSE
  OBVIOUS
<1>1. pc[u] \in Owning /\ Pending(k) /\ k \in Queued(cur[u])
  BY DEF Awaited, AnswerInv, CallsInv, CallerInv, Owning
<1>2. cur[u] \in DOMAIN rec
  BY <1>1 DEF CacheInv, OwnerInv
<1>3. ~Fresh(k)
  BY <1>1, <1>2 DEF Fresh
<1>4. handled[k] # 1
  BY <1>1 DEF Pending
<1>5. ~(pc[t] \in Owning /\ k \in Queued(cur[t]))
  BY <1>1, <1>2 DEF CacheInv, OwnerInv, AnswerInv, QueueInv
<1> QED
  BY <1>3, <1>4, <1>5

\* Calls that are still fresh after a step.
LEMMA FreshKept ==
    ASSUME CacheInv, FreshInv, NEW K, OnlyCalls(K),
           \A r \in DOMAIN rec' : ToSet(rec'[r].listeners) \subseteq
               K \cup (IF r \in DOMAIN rec THEN Queued(r) ELSE {}),
           \A u \in Callers, i \in 1..MaxCalls :
               i > call'[u] \/ (i = call'[u] /\ pc'[u] \in Asking) =>
                  /\ i > call[u] \/ (i = call[u] /\ pc[u] \in Asking)
                  /\ <<u, i>> \notin K
    PROVE  FreshInv'
<1> SUFFICES ASSUME NEW u \in Callers, NEW i \in 1..MaxCalls,
                    i > call'[u] \/ (i = call'[u] /\ pc'[u] \in Asking)
             PROVE  Fresh(<<u, i>>)'
  BY DEF FreshInv
<1>1. <<u, i>> \notin K /\ Fresh(<<u, i>>)
  BY DEF FreshInv
<1>2. result'[<<u, i>>] = "none" /\ handled'[<<u, i>>] = 0
  BY <1>1 DEF Fresh, OnlyCalls, Calls
<1>3. \A r \in DOMAIN rec' : <<u, i>> \notin ToSet(rec'[r].listeners)
  BY <1>1 DEF Fresh
<1> QED
  BY <1>2, <1>3 DEF Fresh, Queued

LEMMA QueueKept ==
    ASSUME QueueInv, QueuesKept,
           \A r \in DOMAIN rec : rec[r].listeners = <<>> => rec'[r].build = rec[r].build,
           \A u \in Callers : pc[u] = "listen" => pc'[u] = "listen" /\ cur'[u] = cur[u]
    PROVE  QueueInv'
<1>1. \A r \in DOMAIN rec : Queued(r)' = Queued(r)
  BY DEF QueuesKept, Queued
<1>2. \A r, s \in DOMAIN rec' : \A k \in Queued(r)' : k \in Queued(s)' => r = s
  BY <1>1 DEF QueuesKept, QueueInv
<1>3. \A r \in DOMAIN rec' : \A i, j \in DOMAIN rec'[r].listeners :
          rec'[r].listeners[i] = rec'[r].listeners[j] => i = j
  BY DEF QueuesKept, QueueInv
<1>4. \A r \in DOMAIN rec' : rec'[r].listeners = <<>> =>
          rec'[r].build = NoBuild /\ \E t \in Callers : pc'[t] = "listen" /\ cur'[t] = r
  BY DEF QueuesKept, QueueInv
<1> QED
  BY <1>2, <1>3, <1>4 DEF QueueInv

LEMMA AnswersKept ==
    ASSUME \A k \in Calls : AnswerOf(k), NEW K, OnlyCalls(K), QueuesGrow,
           \A k \in Calls \cap K : AnswerOf(k)'
    PROVE  \A k \in Calls : AnswerOf(k)'
<1> SUFFICES ASSUME NEW k \in Calls, k \notin K PROVE AnswerOf(k)'
  OBVIOUS
<1>1. result'[k] = result[k] /\ handled'[k] = handled[k]
  BY DEF OnlyCalls
<1>2. ASSUME NEW r \in DOMAIN rec, rec[r].listeners # <<>>, k \in ToSet(Tail(rec[r].listeners))
      PROVE  r \in DOMAIN rec' /\ rec'[r].listeners # <<>> /\ k \in ToSet(Tail(rec'[r].listeners))
  BY <1>2 DEF QueuesGrow
<1> QED
  BY <1>1, <1>2 DEF AnswerOf

\* What every caller but t keeps while t goes on: a step is about no call, or
\* about one that the others have nothing to do with.
LEMMA OthersKept ==
    ASSUME CacheInv, AnswerInv, NEW t \in Callers, NEW from, NEW to, Moves(t, from, to), NEW K,
           OnlyCalls(K), QueuesGrow,
           \A u \in Callers : u # t => call'[u] = call[u] /\ todo'[u] = todo[u],
           \A k \in K : \/ Fresh(k) \/ handled[k] = 1
                        \/ pc[t] \in Owning /\ k \in Queued(cur[t]),
           \A u \in Callers : u # t /\ pc[u] # "idle" => ThisCall(u) \notin K,
           \A r \in DOMAIN rec : \A k \in ToSet(rec'[r].listeners) : k \in Queued(r) \/ Pending(k)',
           NEW u \in Callers, u # t
    PROVE  CallerInv(u)'
<1>1. pc'[u] = pc[u] /\ cur'[u] = cur[u] /\ call'[u] = call[u] /\ todo'[u] = todo[u]
  BY DEF Moves, CacheInv, TypeInv
<1>2. Awaited(u) \cap K = {}
  BY NotAwaited
<1>3. \A k \in Awaited(u)' : k \in Awaited(u) \/ Pending(k)'
  <2>1. pc[u] \in Owning => cur[u] \in DOMAIN rec
    BY DEF CacheInv, OwnerInv
  <2> QED
    BY <1>1, <2>1 DEF Awaited, Queued
<1>4. CallerInv(u)
  BY DEF AnswerInv, CallsInv
<1> QED
  BY <1>1, <1>2, <1>3, <1>4, CallerKept

\* Caller t goes on and no call is touched.
LEMMA AnswerQuiet ==
    ASSUME CacheInv, AnswerInv, NEW t \in Callers, NEW from, NEW to, Moves(t, from, to), QueuesKept,
           UNCHANGED <<call, todo, result, handled>>,
           \A r \in DOMAIN rec : rec[r].listeners = <<>> => rec'[r].build = rec[r].build,
           from \notin {"listen", "idle"}, to \notin {"handling", "notify", "listen"},
           to \in Asking => from \in Asking,
           to \in {"found", "hit", "join"} => cur'[t] \in DOMAIN rec /\ rec[cur'[t]].listeners # <<>>,
           to \in Owning => from \in Owning \ {"notify"} /\ cur'[t] = cur[t]
    PROVE  AnswerInv'
<1>1. pc[t] = from /\ pc'[t] = to /\ \A u \in Callers : u # t => pc'[u] = pc[u] /\ cur'[u] = cur[u]
  BY DEF Moves, CacheInv, TypeInv
<1>2. OnlyCalls({}) /\ QueuesGrow
  BY KeptGrows DEF OnlyCalls
<1>3. QueueInv'
  <2>1. \A u \in Callers : pc[u] = "listen" => pc'[u] = "listen" /\ cur'[u] = cur[u]
    BY <1>1
  <2> QED
    BY <2>1, QueueKept DEF AnswerInv
<1>4. FreshInv'
  <2>1. \A r \in DOMAIN rec' : ToSet(rec'[r].listeners) \subseteq {} \cup (IF r \in DOMAIN rec THEN Queued(r) ELSE {})
    BY DEF QueuesKept, Queued
  <2>2. \A u \in Callers, i \in 1..MaxCalls :
            i > call'[u] \/ (i = call'[u] /\ pc'[u] \in Asking) =>
               /\ i > call[u] \/ (i = call[u] /\ pc[u] \in Asking)
               /\ <<u, i>> \notin {}
    BY <1>1
  <2> QED
    BY <1>2, <2>1, <2>2, FreshKept DEF AnswerInv
<1>5. CallerInv(t)'
  <2>1. CallerInv(t) /\ ThisCall(t)' = ThisCall(t)
    BY DEF AnswerInv, CallsInv, ThisCall
  <2>2. to \in {"found", "hit", "join"} => rec'[cur'[t]].listeners # <<>>
    BY DEF QueuesKept
  <2>3. to \in Owning => cur'[t] = cur[t] /\ rec'[cur[t]].listeners = rec[cur[t]].listeners
    BY <1>1 DEF QueuesKept, CacheInv, OwnerInv
  <2>4. Awaited(t)' = IF to \in Owning THEN Awaited(t) ELSE {}
    BY <1>1, <2>3 DEF Awaited, Queued
  <2>5. \A k \in Awaited(t)' : Pending(k)' /\ k \in Queued(cur[t])'
    BY <2>1, <2>3, <2>4 DEF CallerInv, Pending, Queued
  <2>6. to \in Owning => /\ ThisCall(t) \in Awaited(t)' \/ handled'[ThisCall(t)] = 1
                         /\ ThisCall(t) \in Queued(cur[t])'
    BY <1>1, <2>1, <2>3, <2>4 DEF CallerInv, Queued
  <2> QED
    BY <1>1, <2>1, <2>2, <2>5, <2>6 DEF CallerInv
<1>6. \A u \in Callers : u # t => CallerInv(u)'
  <2>1. \A r \in DOMAIN rec : \A k \in ToSet(rec'[r].listeners) : k \in Queued(r) \/ Pending(k)'
    BY DEF QueuesKept, Queued
  <2> QED
    BY <1>2, <2>1, OthersKept
<1>7. \A k \in Calls : AnswerOf(k)'
  BY <1>2, AnswersKept DEF AnswerInv
<1> QED
  BY <1>3, <1>4, <1>5, <1>6, <1>7 DEF AnswerInv, CallsInv

\* Nobody goes on, and the queues stay.
LEMMA AnswerStill ==
    ASSUME CacheInv, AnswerInv, QueuesKept, UNCHANGED <<pc, cur, call, todo, result, handled>>,
           \A r \in DOMAIN rec : rec'[r].build = rec[r].build
    PROVE  AnswerInv'
<1>1. OnlyCalls({}) /\ QueuesGrow
  BY KeptGrows DEF OnlyCalls
<1>2. QueueInv'
  BY QueueKept DEF AnswerInv
<1>3. FreshInv'
  <2>1. \A r \in DOMAIN rec' : ToSet(rec'[r].listeners) \subseteq {} \cup (IF r \in DOMAIN rec THEN Queued(r) ELSE {})
    BY DEF QueuesKept, Queued
  <2> QED
    BY <1>1, <2>1, FreshKept DEF AnswerInv
<1>4. ASSUME NEW u \in Callers PROVE CallerInv(u)'
  <2>1. \A k \in Awaited(u)' : k \in Awaited(u)
    <3>1. pc[u] \in Owning => rec'[cur[u]].listeners = rec[cur[u]].listeners
      BY DEF QueuesKept, CacheInv, OwnerInv
    <3> QED
      BY <3>1 DEF Awaited, Queued
  <2> QED
    BY <1>1, <2>1, CallerKept DEF AnswerInv, CallsInv
<1>5. \A k \in Calls : AnswerOf(k)'
  BY <1>1, AnswersKept DEF AnswerInv
<1> QED
  BY <1>2, <1>3, <1>4, <1>5 DEF AnswerInv, CallsInv

\* A call of t that is running is not one of another caller.
LEMMA CallsDiffer ==
    ASSUME NEW t \in Callers, NEW u \in Callers, u # t
    PROVE  ThisCall(u) # ThisCall(t)
  BY DEF ThisCall

\* Caller t returns.
LEMMA AnswerFinish ==
    ASSUME CacheInv, AnswerInv, NEW t \in Callers, NEW from, NEW value, Moves(t, from, "idle"),
           QueuesKept, \A r \in DOMAIN rec : rec'[r].build = rec[r].build,
           UNCHANGED <<call, todo, handled>>, Finish(t, value), from \notin {"listen", "idle"},
           \/ Fresh(ThisCall(t)) \/ handled[ThisCall(t)] = 1
           \/ pc[t] \in Owning /\ ThisCall(t) \in Queued(cur[t]),
           \/ value = "true" /\ handled[ThisCall(t)] = 1
           \/ value = "false" /\ handled[ThisCall(t)] = 0
    PROVE  AnswerInv'
<1> DEFINE K == {ThisCall(t)}
<1>1. /\ pc[t] = from /\ pc'[t] = "idle"
      /\ \A u \in Callers : u # t => pc'[u] = pc[u] /\ cur'[u] = cur[u]
  BY DEF Moves, CacheInv, TypeInv
<1>2. ThisCall(t) \in Calls
  BY <1>1, CallFacts DEF CacheInv, TypeInv
<1>3. OnlyCalls(K) /\ result'[ThisCall(t)] = value
  BY <1>2 DEF OnlyCalls, Finish, CacheInv, TypeInv
<1>4. QueuesGrow
  BY KeptGrows
<1>5. QueueInv'
  <2>1. \A u \in Callers : pc[u] = "listen" => pc'[u] = "listen" /\ cur'[u] = cur[u]
    BY <1>1
  <2> QED
    BY <2>1, QueueKept DEF AnswerInv
<1>6. FreshInv'
  <2>1. \A r \in DOMAIN rec' : ToSet(rec'[r].listeners) \subseteq K \cup (IF r \in DOMAIN rec THEN Queued(r) ELSE {})
    BY DEF QueuesKept, Queued
  <2>2. \A i \in 1..MaxCalls : i > call[t] => <<t, i>> # ThisCall(t)
    BY BoundsAssumption DEF ThisCall, CacheInv, TypeInv
  <2>3. \A u \in Callers, i \in 1..MaxCalls :
            i > call'[u] \/ (i = call'[u] /\ pc'[u] \in Asking) =>
               /\ i > call[u] \/ (i = call[u] /\ pc[u] \in Asking)
               /\ <<u, i>> \notin K
    BY <1>1, <2>2 DEF Asking, ThisCall
  <2> QED
    BY <1>3, <2>1, <2>3, FreshKept DEF AnswerInv
<1>7. CallerInv(t)'
  <2>1. Awaited(t)' = {}
    BY <1>1 DEF Awaited, Owning, Inserting, Loading
  <2>2. "idle" \notin Owning
    BY DEF Owning, Inserting, Loading
  <2> QED
    BY <1>1, <2>1, <2>2 DEF CallerInv
<1>8. \A u \in Callers : u # t => CallerInv(u)'
  <2>1. \A r \in DOMAIN rec : \A k \in ToSet(rec'[r].listeners) : k \in Queued(r) \/ Pending(k)'
    BY DEF QueuesKept, Queued
  <2>2. \A u \in Callers : u # t /\ pc[u] # "idle" => ThisCall(u) \notin K
    BY CallsDiffer
  <2> QED
    BY <1>3, <1>4, <2>1, <2>2, OthersKept
<1>9. \A k \in Calls : AnswerOf(k)'
  <2>1. handled'[ThisCall(t)] <= 1
    OBVIOUS
  <2>2. \A k \in Calls \cap K : AnswerOf(k)'
    BY <1>3, <2>1 DEF AnswerOf
  <2> QED
    BY <1>3, <1>4, <2>2, AnswersKept DEF AnswerInv
<1> QED
  BY <1>5, <1>6, <1>7, <1>8, <1>9 DEF AnswerInv, CallsInv

LEMMA AnswerCall ==
    ASSUME CacheInv, AnswerInv, NEW t \in Callers, NEW b \in Builds, NEW l \in Lifetimes,
           Call(t, b, l)
    PROVE  AnswerInv'
<1>1. /\ Moves(t, "idle", "scan") /\ call[t] < MaxCalls /\ call' = [call EXCEPT ![t] = @ + 1]
      /\ UNCHANGED <<rec, cur, todo, result, handled>>
  BY DEF Call, GoTo, Moves, cacheVars, history, PCs
<1>2. /\ pc'[t] = "scan" /\ call'[t] = call[t] + 1 /\ pc[t] = "idle"
      /\ \A u \in Callers : u # t => pc'[u] = pc[u] /\ call'[u] = call[u]
  BY <1>1 DEF Moves, CacheInv, TypeInv
<1>3. OnlyCalls({}) /\ QueuesKept /\ QueuesGrow
  BY <1>1, KeptGrows DEF OnlyCalls, QueuesKept
<1>4. QueueInv'
  <2>1. \A u \in Callers : pc[u] = "listen" => pc'[u] = "listen" /\ cur'[u] = cur[u]
    BY <1>1, <1>2
  <2> QED
    BY <1>1, <1>3, <2>1, QueueKept DEF AnswerInv
<1>5. call[t] \in Nat /\ MaxCalls \in Nat /\ call[t] + 1 \in 1..MaxCalls /\ call[t] + 1 > call[t]
  BY <1>1, BoundsAssumption DEF CacheInv, TypeInv
<1>6. FreshInv'
  <2>1. \A r \in DOMAIN rec' : ToSet(rec'[r].listeners) \subseteq {} \cup (IF r \in DOMAIN rec THEN Queued(r) ELSE {})
    BY <1>1 DEF Queued
  <2>2. \A i \in 1..MaxCalls : i > call'[t] \/ i = call'[t] => i > call[t]
    BY <1>2, <1>5
  <2>3. \A u \in Callers, i \in 1..MaxCalls :
            i > call'[u] \/ (i = call'[u] /\ pc'[u] \in Asking) =>
               /\ i > call[u] \/ (i = call[u] /\ pc[u] \in Asking)
               /\ <<u, i>> \notin {}
    BY <1>2, <2>2
  <2> QED
    BY <1>3, <2>1, <2>3, FreshKept DEF AnswerInv
<1>7. CallerInv(t)'
  <2>1. Awaited(t)' = {} /\ "scan" \notin Owning
    BY <1>2 DEF Awaited, Owning, Inserting, Loading
  <2>2. result'[ThisCall(t)'] = "none"
    <3>1. Fresh(<<t, call[t] + 1>>)
      BY <1>5 DEF AnswerInv, FreshInv
    <3> QED
      BY <1>1, <1>2, <3>1 DEF Fresh, ThisCall
  <2> QED
    BY <1>2, <2>1, <2>2 DEF CallerInv
<1>8. \A u \in Callers : u # t => CallerInv(u)'
  <2>1. \A r \in DOMAIN rec : \A k \in ToSet(rec'[r].listeners) : k \in Queued(r) \/ Pending(k)'
    BY <1>1 DEF Queued
  <2> QED
    BY <1>1, <1>2, <1>3, <2>1, OthersKept
<1>9. \A k \in Calls : AnswerOf(k)'
  BY <1>3, AnswersKept DEF AnswerInv
<1> QED
  BY <1>4, <1>6, <1>7, <1>8, <1>9 DEF AnswerInv, CallsInv

\* A caller finds a product that is not loading, and runs its own handler.
LEMMA AnswerHitLoaded ==
    ASSUME CacheInv, AnswerInv, NEW t \in Callers, HitLoaded(t)
    PROVE  AnswerInv'
<1> DEFINE K == {ThisCall(t)}
<1>1. /\ Moves(t, "hit", "handling") /\ UNCHANGED <<rec, call, cur, todo, result>>
      /\ handled' = [handled EXCEPT ![ThisCall(t)] = @ + 1]
  BY DEF HitLoaded, GoTo, Invoke, Moves, cacheVars, PCs
<1>2. /\ pc[t] = "hit" /\ pc'[t] = "handling"
      /\ \A u \in Callers : u # t => pc'[u] = pc[u]
  BY <1>1 DEF Moves, CacheInv, TypeInv
<1>3. ThisCall(t) \in Calls /\ Fresh(ThisCall(t)) /\ ThisCall(t)' = ThisCall(t)
  <2>1. call[t] \in 1..MaxCalls
    BY <1>2, BoundsAssumption DEF CacheInv, TypeInv
  <2> QED
    BY <1>1, <1>2, <2>1 DEF AnswerInv, FreshInv, Asking, ThisCall, Calls
<1>4. OnlyCalls(K) /\ result'[ThisCall(t)] = "none" /\ handled'[ThisCall(t)] = 1
  BY <1>1, <1>3 DEF OnlyCalls, Fresh, CacheInv, TypeInv
<1>5. QueuesKept /\ QueuesGrow
  BY <1>1, KeptGrows DEF QueuesKept
<1>6. QueueInv'
  <2>1. \A u \in Callers : pc[u] = "listen" => pc'[u] = "listen" /\ cur'[u] = cur[u]
    BY <1>1, <1>2
  <2> QED
    BY <1>1, <1>5, <2>1, QueueKept DEF AnswerInv
<1>7. FreshInv'
  <2>1. \A r \in DOMAIN rec' : ToSet(rec'[r].listeners) \subseteq K \cup (IF r \in DOMAIN rec THEN Queued(r) ELSE {})
    BY <1>1 DEF Queued
  <2>2. \A i \in 1..MaxCalls : i > call[t] => <<t, i>> # ThisCall(t)
    BY BoundsAssumption DEF ThisCall, CacheInv, TypeInv
  <2>3. \A u \in Callers, i \in 1..MaxCalls :
            i > call'[u] \/ (i = call'[u] /\ pc'[u] \in Asking) =>
               /\ i > call[u] \/ (i = call[u] /\ pc[u] \in Asking)
               /\ <<u, i>> \notin K
    BY <1>1, <1>2, <2>2 DEF Asking, ThisCall
  <2> QED
    BY <1>4, <2>1, <2>3, FreshKept DEF AnswerInv
<1>8. CallerInv(t)'
  <2>1. Awaited(t)' = {} /\ "handling" \notin Owning
    BY <1>2 DEF Awaited, Owning, Inserting, Loading
  <2> QED
    BY <1>2, <1>3, <1>4, <2>1 DEF CallerInv
<1>9. \A u \in Callers : u # t => CallerInv(u)'
  <2>1. \A r \in DOMAIN rec : \A k \in ToSet(rec'[r].listeners) : k \in Queued(r) \/ Pending(k)'
    BY <1>1 DEF Queued
  <2>2. \A u \in Callers : u # t /\ pc[u] # "idle" => ThisCall(u) \notin K
    BY CallsDiffer
  <2> QED
    BY <1>1, <1>3, <1>4, <1>5, <2>1, <2>2, OthersKept
<1>10. \A k \in Calls : AnswerOf(k)'
  <2>1. \A k \in Calls \cap K : AnswerOf(k)'
    BY <1>4 DEF AnswerOf
  <2> QED
    BY <1>4, <1>5, <2>1, AnswersKept DEF AnswerInv
<1> QED
  BY <1>6, <1>7, <1>8, <1>9, <1>10 DEF AnswerInv, CallsInv

\* A caller queues its handler, on the record of another one or on its own.
LEMMA AnswerAdd ==
    ASSUME CacheInv, AnswerInv, NEW t \in Callers, Join(t) \/ Listen(t)
    PROVE  AnswerInv'
<1> DEFINE k == ThisCall(t)
           c == cur[t]
           q == rec[c].listeners
<1>1. /\ UNCHANGED <<call, todo, handled>>
      /\ \/ Moves(t, "join", "idle") /\ Finish(t, "true")
         \/ Moves(t, "listen", "assign") /\ UNCHANGED <<cur, result>>
  BY DEF Join, Listen, GoTo, Moves, PCs, CacheInv, TypeInv, history
<1>2. pc[t] \in {"join", "listen"} /\ pc[t] \in {"join"} \cup Inserting \cup Loading
  BY <1>1 DEF Moves, Inserting
<1>3. c \in DOMAIN rec /\ rec[c] \in RecordType /\ q \in Seq(Calls) /\ k \in Calls
  BY <1>2, OwnFacts
<1>4. Updated(c, [rec[c] EXCEPT !.listeners = Append(@, k)])
  BY AddStep
<1>5. /\ DOMAIN rec' = DOMAIN rec /\ rec'[c].listeners = Append(q, k) /\ rec'[c].build = rec[c].build
      /\ \A r \in DOMAIN rec : r # c => rec'[r] = rec[r]
  BY <1>3, <1>4 DEF Updated, RecordType
<1>6. Fresh(k)
  <2>1. call[t] \in 1..MaxCalls
    BY <1>2, BoundsAssumption DEF CacheInv, TypeInv
  <2> QED
    BY <1>2, <2>1 DEF AnswerInv, FreshInv, Asking, ThisCall
<1>7. handled'[k] = 0 /\ result'[k] \in {"none", "true"} /\ (result'[k] = "true" => pc[t] = "join")
      /\ OnlyCalls({k})
  <2>1. handled'[k] = 0 /\ result[k] = "none"
    BY <1>1, <1>6 DEF Fresh
  <2>2. CASE Moves(t, "join", "idle") /\ Finish(t, "true")
    BY <1>1, <1>3, <2>1, <2>2 DEF Finish, OnlyCalls, CacheInv, TypeInv, Moves
  <2>3. CASE Moves(t, "listen", "assign") /\ UNCHANGED <<cur, result>>
    BY <1>1, <2>1, <2>3 DEF OnlyCalls
  <2> QED
    BY <1>1, <2>2, <2>3
<1>8. /\ pc'[t] \in {"idle", "assign"} /\ ThisCall(t)' = k /\ (pc'[t] = "assign" => result' = result /\ cur'[t] = c)
      /\ (pc[t] = "listen" => pc'[t] = "assign")
      /\ \A u \in Callers : u # t => pc'[u] = pc[u] /\ cur'[u] = cur[u]
  BY <1>1 DEF Moves, CacheInv, TypeInv, ThisCall
<1>9. /\ Append(q, k) # <<>> /\ ToSet(Append(q, k)) = ToSet(q) \cup {k}
      /\ q # <<>> => ToSet(Tail(Append(q, k))) = ToSet(Tail(q)) \cup {k}
      /\ (\A i, j \in DOMAIN q : q[i] = q[j] => i = j) /\ k \notin ToSet(q) =>
            \A i, j \in DOMAIN Append(q, k) : Append(q, k)[i] = Append(q, k)[j] => i = j
  BY <1>3, QueueFacts
<1>10. \A r \in DOMAIN rec : k \notin Queued(r)
  BY <1>6 DEF Fresh
<1>11. Queued(c) = ToSet(q)
  BY DEF Queued
<1> DEFINE a == Append(q, k)
<1> HIDE DEF k, c, q, a
<1>12. ToSet(rec'[c].listeners) = Queued(c) \cup {k}
       /\ \A r \in DOMAIN rec : r # c => ToSet(rec'[r].listeners) = Queued(r)
  BY <1>5, <1>9, <1>11 DEF Queued
<1>13. QueuesGrow
  <2>1. \A r \in DOMAIN rec : r # c => rec'[r].listeners = rec[r].listeners
    BY <1>5
  <2>2. rec'[c].listeners = a /\ a # <<>> /\ (q # <<>> => ToSet(Tail(q)) \subseteq ToSet(Tail(a)))
    BY <1>5, <1>9 DEF a
  <2>3. rec[c].listeners = q
    BY DEF q
  <2> QED
    BY <1>5, <1>12, <2>1, <2>2, <2>3 DEF QueuesGrow
<1>14. QueueInv'
  <2>1. \A r, s \in DOMAIN rec' : \A j \in ToSet(rec'[r].listeners) : j \in ToSet(rec'[s].listeners) => r = s
    <3>1. \A r, s \in DOMAIN rec : \A j \in Queued(r) : j \in Queued(s) => r = s
      BY DEF AnswerInv, QueueInv
    <3>2. \A r \in DOMAIN rec : \A j \in ToSet(rec'[r].listeners) : j \in Queued(r) \/ (j = k /\ r = c)
      BY <1>12
    <3>3. DOMAIN rec' = DOMAIN rec
      BY <1>5
    <3>4. ASSUME NEW r \in DOMAIN rec, NEW s \in DOMAIN rec, NEW j,
                 j \in ToSet(rec'[r].listeners), j \in ToSet(rec'[s].listeners)
          PROVE  r = s
      <4>1. (j \in Queued(r) \/ (j = k /\ r = c)) /\ (j \in Queued(s) \/ (j = k /\ s = c))
        BY <3>2, <3>4
      <4>2. j = k => j \notin Queued(r) /\ j \notin Queued(s)
        BY <1>10
      <4>3. j \in Queued(r) /\ j \in Queued(s) => r = s
        BY <3>1
      <4> QED
        BY <4>1, <4>2, <4>3
    <3> QED
      BY <3>3, <3>4
  <2>2. \A r \in DOMAIN rec' : \A i, j \in DOMAIN rec'[r].listeners :
            rec'[r].listeners[i] = rec'[r].listeners[j] => i = j
    <3>1. \A i, j \in DOMAIN rec'[c].listeners : rec'[c].listeners[i] = rec'[c].listeners[j] => i = j
      <4>1. \A i, j \in DOMAIN q : q[i] = q[j] => i = j
        BY <1>3 DEF AnswerInv, QueueInv, q
      <4> QED
        BY <1>3, <1>5, <1>9, <1>10, <1>11, <4>1
    <3>2. \A r \in DOMAIN rec : r # c => \A i, j \in DOMAIN rec'[r].listeners :
             rec'[r].listeners[i] = rec'[r].listeners[j] => i = j
      BY <1>5 DEF AnswerInv, QueueInv
    <3> QED
      BY <1>5, <3>1, <3>2
  <2>3. \A r \in DOMAIN rec' : rec'[r].listeners = <<>> =>
            rec'[r].build = NoBuild /\ \E u \in Callers : pc'[u] = "listen" /\ cur'[u] = r
    <3> SUFFICES ASSUME NEW r \in DOMAIN rec', rec'[r].listeners = <<>>
                 PROVE  rec'[r].build = NoBuild /\ \E u \in Callers : pc'[u] = "listen" /\ cur'[u] = r
      OBVIOUS
    <3>1. r # c
      BY <1>5, <1>9
    <3>2. r \in DOMAIN rec /\ rec[r].listeners = <<>> /\ rec'[r].build = rec[r].build
      BY <1>5, <3>1
    <3>3. PICK u \in Callers : pc[u] = "listen" /\ cur[u] = r
      BY <3>2 DEF AnswerInv, QueueInv
    <3>4. u # t
      BY <3>1, <3>3 DEF c
    <3> QED
      BY <1>8, <3>2, <3>3, <3>4 DEF AnswerInv, QueueInv
  <2> QED
    BY <2>1, <2>2, <2>3 DEF QueueInv, Queued
<1>15. FreshInv'
  <2>1. \A r \in DOMAIN rec' : ToSet(rec'[r].listeners) \subseteq {k} \cup (IF r \in DOMAIN rec THEN Queued(r) ELSE {})
    BY <1>5, <1>12
  <2>2. \A i \in 1..MaxCalls : i > call[t] => <<t, i>> # k
    BY BoundsAssumption DEF k, ThisCall, CacheInv, TypeInv
  <2>3. \A u \in Callers, i \in 1..MaxCalls :
            i > call'[u] \/ (i = call'[u] /\ pc'[u] \in Asking) =>
               /\ i > call[u] \/ (i = call[u] /\ pc[u] \in Asking)
               /\ <<u, i>> \notin {k}
    <3>1. pc'[t] \notin Asking
      BY <1>8 DEF Asking
    <3>2. \A u \in Callers, i \in 1..MaxCalls : u # t => <<u, i>> # k
      BY DEF k, ThisCall
    <3> QED
      BY <1>1, <1>8, <2>2, <3>1, <3>2
  <2> QED
    BY <1>7, <2>1, <2>3, FreshKept DEF AnswerInv
<1>16. CallerInv(t)'
  <2>1. CASE pc'[t] = "idle"
    <3>1. Awaited(t)' = {} /\ "idle" \notin Owning
      BY <2>1 DEF Awaited, Owning, Inserting, Loading
    <3> QED
      BY <2>1, <3>1 DEF CallerInv
  <2>2. CASE pc'[t] = "assign"
    <3>1. pc[t] = "listen" /\ cur'[t] = c /\ result'[k] = "none"
      BY <1>1, <1>6, <1>8, <2>2 DEF Moves, CacheInv, TypeInv, Fresh
    <3>2. Awaited(t)' = Calls \cap (Queued(c) \cup {k}) /\ Queued(cur[t])' = Queued(c) \cup {k}
      BY <1>12, <2>2, <3>1 DEF Awaited, Queued, Owning, Inserting
    <3>3. \A j \in Calls \cap Queued(c) : Pending(j)
      BY <3>1 DEF AnswerInv, CallsInv, CallerInv, Awaited, Owning, Inserting, c
    <3>4. \A j \in Calls \cap Queued(c) : Pending(j)'
      BY <1>1, <1>3, <1>8, <1>10, <2>2, <3>3 DEF Pending
    <3>5. \A j \in Awaited(t)' : Pending(j)' /\ j \in Queued(cur[t])'
      BY <3>2, <3>4, <1>7 DEF Pending
    <3>6. k \in Awaited(t)' /\ k \in Queued(cur[t])'
      BY <1>3, <3>2
    <3> QED
      BY <1>8, <2>2, <3>1, <3>5, <3>6 DEF CallerInv
  <2> QED
    BY <1>8, <2>1, <2>2
<1>17. \A u \in Callers : u # t => CallerInv(u)'
  <2>1. \A r \in DOMAIN rec : \A j \in ToSet(rec'[r].listeners) : j \in Queued(r) \/ Pending(j)'
    <3>1. \A j : j = k => Pending(j)'
      BY <1>7 DEF Pending
    <3> QED
      BY <1>12, <3>1
  <2>2. \A u \in Callers : u # t /\ pc[u] # "idle" => ThisCall(u) \notin {k}
    BY CallsDiffer DEF k
  <2>3. \E from, to : Moves(t, from, to)
    BY <1>1
  <2> QED
    BY <1>1, <1>6, <1>7, <1>13, <2>1, <2>2, <2>3, OthersKept
<1>18. \A j \in Calls : AnswerOf(j)'
  <2>1. \A j \in Calls \cap {k} : AnswerOf(j)'
    <3>1. ASSUME result'[k] = "true"
          PROVE  c \in DOMAIN rec' /\ rec'[c].listeners # <<>> /\ k \in ToSet(Tail(rec'[c].listeners))
      <4>1. pc[t] = "join" /\ q # <<>>
        BY <1>7, <3>1 DEF AnswerInv, CallsInv, CallerInv, q, c
      <4> QED
        BY <1>3, <1>5, <1>9, <4>1
    <3> QED
      BY <1>7, <3>1 DEF AnswerOf
  <2> QED
    BY <1>7, <1>13, <2>1, AnswersKept DEF AnswerInv
<1> QED
  BY <1>14, <1>15, <1>16, <1>17, <1>18 DEF AnswerInv, CallsInv

LEMMA AnswerInsert ==
    ASSUME CacheInv, AnswerInv, NEW t \in Callers, Insert(t)
    PROVE  AnswerInv'
<1> DEFINE n == Len(rec) + 1
<1>1. Moves(t, "miss", "listen") /\ UNCHANGED <<call, todo, result, handled>>
  BY DEF Insert, GoTo, Moves, PCs, CacheInv, TypeInv, history
<1>2. /\ DOMAIN rec' = DOMAIN rec \cup {n} /\ n \notin DOMAIN rec
      /\ \A q \in DOMAIN rec : rec'[q] = rec[q]
      /\ rec'[n].listeners = <<>> /\ rec'[n].build = NoBuild /\ cur' = [cur EXCEPT ![t] = n]
  <2>1. /\ DOMAIN rec' = DOMAIN rec \cup {n} /\ \A q \in DOMAIN rec : rec'[q] = rec[q]
        /\ rec'[n] = NewRecord(now + InsertLifetime, now + LifetimeOf(t))
        /\ cur' = [cur EXCEPT ![t] = n] /\ Len(rec) \in Nat /\ DOMAIN rec = 1..Len(rec)
    BY InsertStep
  <2>2. n \notin DOMAIN rec
    BY <2>1
  <2>3. rec'[n].listeners = <<>> /\ rec'[n].build = NoBuild
    BY <2>1 DEF NewRecord
  <2> QED
    BY <2>1, <2>2, <2>3
<1> HIDE DEF n
<1>3. /\ pc[t] = "miss" /\ pc'[t] = "listen" /\ cur'[t] = n /\ ThisCall(t)' = ThisCall(t)
      /\ \A u \in Callers : u # t => pc'[u] = pc[u] /\ cur'[u] = cur[u]
  BY <1>1, <1>2 DEF Moves, CacheInv, TypeInv, ThisCall
<1>4. ToSet(rec'[n].listeners) = {} /\ \A r \in DOMAIN rec : ToSet(rec'[r].listeners) = Queued(r)
  <2>1. ToSet(rec'[n].listeners) = {}
    BY <1>2, EmptySeq DEF ToSet
  <2> QED
    BY <1>2, <2>1 DEF Queued
<1>5. OnlyCalls({}) /\ QueuesGrow
  BY <1>1, <1>2 DEF OnlyCalls, QueuesGrow, Queued
<1>6. QueueInv'
  <2>1. \A r, s \in DOMAIN rec' : \A j \in ToSet(rec'[r].listeners) : j \in ToSet(rec'[s].listeners) => r = s
    <3>1. ASSUME NEW r \in DOMAIN rec', NEW s \in DOMAIN rec', NEW j,
                 j \in ToSet(rec'[r].listeners), j \in ToSet(rec'[s].listeners)
          PROVE  r = s
      <4>1. r \in DOMAIN rec /\ s \in DOMAIN rec
        BY <1>2, <1>4, <3>1
      <4>2. j \in Queued(r) /\ j \in Queued(s)
        BY <1>4, <3>1, <4>1
      <4> QED
        BY <4>1, <4>2 DEF AnswerInv, QueueInv
    <3> QED
      BY <3>1
  <2>2. \A r \in DOMAIN rec' : \A i, j \in DOMAIN rec'[r].listeners :
            rec'[r].listeners[i] = rec'[r].listeners[j] => i = j
    <3>1. DOMAIN rec'[n].listeners = {}
      BY <1>2, EmptySeq
    <3>2. \A r \in DOMAIN rec : \A i, j \in DOMAIN rec'[r].listeners :
            rec'[r].listeners[i] = rec'[r].listeners[j] => i = j
      BY <1>2 DEF AnswerInv, QueueInv
    <3> QED
      BY <1>2, <3>1, <3>2
  <2>3. \A r \in DOMAIN rec' : rec'[r].listeners = <<>> =>
            rec'[r].build = NoBuild /\ \E u \in Callers : pc'[u] = "listen" /\ cur'[u] = r
    <3>1. ASSUME NEW r \in DOMAIN rec, rec'[r].listeners = <<>>
          PROVE  rec'[r].build = NoBuild /\ \E u \in Callers : pc'[u] = "listen" /\ cur'[u] = r
      <4>1. rec'[r] = rec[r]
        BY <1>2
      <4>2. rec[r].build = NoBuild /\ \E u \in Callers : pc[u] = "listen" /\ cur[u] = r
        BY <3>1, <4>1 DEF AnswerInv, QueueInv
      <4> QED
        BY <1>3, <4>1, <4>2
    <3> QED
      BY <1>2, <1>3, <3>1
  <2> QED
    BY <2>1, <2>2, <2>3 DEF QueueInv, Queued
<1>7. FreshInv'
  <2>1. \A r \in DOMAIN rec' : ToSet(rec'[r].listeners) \subseteq {} \cup (IF r \in DOMAIN rec THEN Queued(r) ELSE {})
    BY <1>2, <1>4
  <2>2. \A u \in Callers, i \in 1..MaxCalls :
            i > call'[u] \/ (i = call'[u] /\ pc'[u] \in Asking) =>
               /\ i > call[u] \/ (i = call[u] /\ pc[u] \in Asking)
               /\ <<u, i>> \notin {}
    BY <1>1, <1>3 DEF Asking
  <2> QED
    BY <1>5, <2>1, <2>2, FreshKept DEF AnswerInv
<1>8. CallerInv(t)'
  <2>1. Awaited(t)' = {}
    BY <1>3, <1>4 DEF Awaited, Queued
  <2>2. result[ThisCall(t)] = "none"
    BY <1>3 DEF AnswerInv, CallsInv, CallerInv
  <2> QED
    BY <1>1, <1>3, <2>1, <2>2 DEF CallerInv
<1>9. \A u \in Callers : u # t => CallerInv(u)'
  <2>1. \A r \in DOMAIN rec : \A k \in ToSet(rec'[r].listeners) : k \in Queued(r) \/ Pending(k)'
    BY <1>4
  <2> QED
    BY <1>1, <1>5, <2>1, OthersKept
<1>10. \A k \in Calls : AnswerOf(k)'
  BY <1>5, AnswersKept DEF AnswerInv
<1> QED
  BY <1>6, <1>7, <1>8, <1>9, <1>10 DEF AnswerInv, CallsInv

\* The loader takes the listeners of its record.
LEMMA AnswerBegin ==
    ASSUME CacheInv, AnswerInv, NEW t \in Callers, BeginListeners(t)
    PROVE  AnswerInv'
<1>1. /\ Moves(t, "cleared", "notify") /\ UNCHANGED <<rec, call, cur, result, handled>>
      /\ todo' = [todo EXCEPT ![t] = rec[cur[t]].listeners]
  BY DEF BeginListeners, GoTo, Moves, PCs, cacheVars, history
<1>2. /\ pc[t] = "cleared" /\ pc'[t] = "notify" /\ ThisCall(t)' = ThisCall(t)
      /\ todo'[t] = rec[cur[t]].listeners /\ cur[t] \in DOMAIN rec
      /\ \A u \in Callers : u # t => pc'[u] = pc[u] /\ todo'[u] = todo[u]
  BY <1>1 DEF Moves, CacheInv, TypeInv, OwnerInv, Owning, ThisCall
<1>3. OnlyCalls({}) /\ QueuesKept /\ QueuesGrow
  BY <1>1, KeptGrows DEF OnlyCalls, QueuesKept
<1>4. QueueInv'
  <2>1. \A u \in Callers : pc[u] = "listen" => pc'[u] = "listen" /\ cur'[u] = cur[u]
    BY <1>1, <1>2
  <2> QED
    BY <1>1, <1>3, <2>1, QueueKept DEF AnswerInv
<1>5. FreshInv'
  <2>1. \A r \in DOMAIN rec' : ToSet(rec'[r].listeners) \subseteq {} \cup (IF r \in DOMAIN rec THEN Queued(r) ELSE {})
    BY <1>1 DEF Queued
  <2>2. \A u \in Callers, i \in 1..MaxCalls :
            i > call'[u] \/ (i = call'[u] /\ pc'[u] \in Asking) =>
               /\ i > call[u] \/ (i = call[u] /\ pc[u] \in Asking)
               /\ <<u, i>> \notin {}
    BY <1>1, <1>2 DEF Asking
  <2> QED
    BY <1>3, <2>1, <2>2, FreshKept DEF AnswerInv
<1>6. CallerInv(t)'
  <2>1. CallerInv(t) /\ "cleared" \in Owning
    BY DEF AnswerInv, CallsInv, Owning
  <2>2. Awaited(t)' = Awaited(t)
    BY <1>2, <2>1 DEF Awaited, Queued
  <2>3. \A k \in Awaited(t)' : Pending(k)' /\ k \in Queued(cur[t])'
    BY <1>1, <2>1, <2>2 DEF CallerInv, Pending, Queued
  <2>4. ThisCall(t) \in Awaited(t)' \/ handled'[ThisCall(t)] = 1
    BY <1>1, <1>2, <2>1, <2>2 DEF CallerInv
  <2>5. \A i, j \in DOMAIN todo'[t] : todo'[t][i] = todo'[t][j] => i = j
    BY <1>2 DEF AnswerInv, QueueInv
  <2>6. result'[ThisCall(t)] = "none"
    BY <1>1, <1>2, <2>1 DEF CallerInv
  <2> QED
    BY <1>2, <2>3, <2>4, <2>5, <2>6 DEF CallerInv
<1>7. \A u \in Callers : u # t => CallerInv(u)'
  <2>1. \A r \in DOMAIN rec : \A k \in ToSet(rec'[r].listeners) : k \in Queued(r) \/ Pending(k)'
    BY <1>1 DEF Queued
  <2> QED
    BY <1>1, <1>2, <1>3, <2>1, OthersKept
<1>8. \A k \in Calls : AnswerOf(k)'
  BY <1>3, AnswersKept DEF AnswerInv
<1> QED
  BY <1>4, <1>5, <1>6, <1>7, <1>8 DEF AnswerInv, CallsInv

\* The loader runs the next handler.
LEMMA AnswerRun ==
    ASSUME CacheInv, AnswerInv, NEW t \in Callers, RunListener(t)
    PROVE  AnswerInv'
<1> DEFINE q == todo[t]
           k == Head(q)
<1>1. /\ Moves(t, "notify", "notify") /\ UNCHANGED <<rec, call, cur, result>> /\ q # <<>>
      /\ todo' = [todo EXCEPT ![t] = Tail(q)] /\ handled' = [handled EXCEPT ![k] = @ + 1]
  BY DEF RunListener, GoTo, Invoke, Moves, PCs, cacheVars
<1>2. /\ pc[t] = "notify" /\ pc'[t] = "notify" /\ todo'[t] = Tail(q) /\ pc' = pc
      /\ \A u \in Callers : u # t => todo'[u] = todo[u]
      /\ CallerInv(t) /\ "notify" \in Owning /\ ThisCall(t)' = ThisCall(t)
  BY <1>1 DEF Moves, CacheInv, TypeInv, AnswerInv, CallsInv, Owning, ThisCall
<1>3. q \in Seq(Calls)
  BY DEF CacheInv, TypeInv
<1>4. /\ k \in Calls /\ Tail(q) \in Seq(Calls) /\ Len(Tail(q)) = Len(q) - 1
      /\ \A i \in 1..Len(Tail(q)) : Tail(q)[i] = q[i + 1]
  BY <1>1, <1>3, HeadTailProperties
<1>5. /\ Len(q) \in Nat /\ Len(q) >= 1 /\ DOMAIN q = 1..Len(q) /\ DOMAIN Tail(q) = 1..(Len(q) - 1)
      /\ q[1] = k
  BY <1>1, <1>3, <1>4, LenProperties, EmptySeq
<1>6. \A i, j \in DOMAIN q : q[i] = q[j] => i = j
  BY <1>2 DEF CallerInv
<1>7. k \in ToSet(q) /\ k \in Awaited(t)
  BY <1>2, <1>4, <1>5 DEF ToSet, Awaited
<1>8. /\ k \in Queued(cur[t]) /\ Pending(k) /\ handled[k] = 0 /\ result[k] # "false"
  BY <1>2, <1>7 DEF CallerInv, Pending
<1>9. OnlyCalls({k}) /\ handled'[k] = 1 /\ result'[k] # "false"
  BY <1>1, <1>4, <1>8 DEF OnlyCalls, CacheInv, TypeInv
<1> DEFINE w == Tail(q)
<1> HIDE DEF k, q, w
<1>10. /\ \A j \in ToSet(w) : j \in ToSet(q) /\ j # k
       /\ \A j \in ToSet(q) : j # k => j \in ToSet(w)
       /\ \A i, j \in DOMAIN w : w[i] = w[j] => i = j
  <2>1. DOMAIN w = 1..(Len(q) - 1) /\ \A i \in 1..(Len(q) - 1) : w[i] = q[i + 1] /\ i + 1 \in DOMAIN q
    BY <1>4, <1>5 DEF w
  <2>2. \A i \in DOMAIN q : i # 1 => i - 1 \in DOMAIN w /\ w[i - 1] = q[i]
    BY <1>5, <2>1
  <2>3. ASSUME NEW i \in DOMAIN w PROVE w[i] \in ToSet(q) /\ w[i] # k
    <3>1. w[i] = q[i + 1] /\ i + 1 \in DOMAIN q /\ i + 1 # 1 /\ 1 \in DOMAIN q
      BY <1>5, <2>1
    <3> QED
      BY <1>5, <1>6, <3>1 DEF ToSet
  <2>4. ASSUME NEW i \in DOMAIN q, q[i] # k PROVE q[i] \in ToSet(w)
    BY <1>5, <2>2, <2>4 DEF ToSet
  <2>5. ASSUME NEW i \in DOMAIN w, NEW j \in DOMAIN w, w[i] = w[j] PROVE i = j
    <3>1. i + 1 = j + 1
      BY <1>6, <2>1, <2>5
    <3> QED
      BY <1>5, <2>1, <3>1
  <2> QED
    BY <2>3, <2>4, <2>5 DEF ToSet
<1>11. QueuesKept /\ QueuesGrow
  BY <1>1, KeptGrows DEF QueuesKept
<1>12. QueueInv'
  BY <1>1, <1>2, <1>11, QueueKept DEF AnswerInv
<1>13. \A u \in Callers : pc[u] \in Asking \/ u = t \/ pc[u] = "idle" \/ ThisCall(u) # k
  <2> SUFFICES ASSUME NEW u \in Callers, pc[u] \notin Asking, u # t, pc[u] # "idle", ThisCall(u) = k
               PROVE  FALSE
    OBVIOUS
  <2>1. CallerInv(u) /\ pc[u] \in PCs
    BY DEF AnswerInv, CallsInv, CacheInv, TypeInv
  <2>2. pc[u] \in Owning \ {"listen"}
    BY <1>8, <2>1 DEF CallerInv, PCs, Asking, Owning, Inserting, Loading
  <2>3. ThisCall(u) \in Awaited(u)
    BY <1>8, <2>1, <2>2 DEF CallerInv
  <2> QED
    BY <1>2, <1>8, <2>3, NotAwaited
<1>14. \A u \in Callers, i \in 1..MaxCalls :
          i > call[u] \/ (i = call[u] /\ pc[u] \in Asking) => <<u, i>> # k
  <2>1. ~Fresh(k)
    BY <1>2, <1>8 DEF Fresh, CacheInv, OwnerInv
  <2> QED
    BY <2>1 DEF AnswerInv, FreshInv
<1>15. FreshInv'
  <2>1. \A r \in DOMAIN rec' : ToSet(rec'[r].listeners) \subseteq {k} \cup (IF r \in DOMAIN rec THEN Queued(r) ELSE {})
    BY <1>1 DEF Queued
  <2>2. \A u \in Callers, i \in 1..MaxCalls :
            i > call'[u] \/ (i = call'[u] /\ pc'[u] \in Asking) =>
               /\ i > call[u] \/ (i = call[u] /\ pc[u] \in Asking)
               /\ <<u, i>> \notin {k}
    BY <1>1, <1>2, <1>14
  <2> QED
    BY <1>9, <2>1, <2>2, FreshKept DEF AnswerInv
<1>16. CallerInv(t)'
  <2>1. Awaited(t) = ToSet(q) \cap Calls /\ Awaited(t)' = ToSet(w) \cap Calls
    BY <1>2 DEF Awaited, q, w
  <2>2. \A j \in Awaited(t)' : Pending(j)' /\ j \in Queued(cur[t])'
    <3>1. \A j \in Awaited(t)' : j \in Awaited(t) /\ j # k /\ j \in Calls
      BY <1>10, <2>1
    <3>2. \A j \in Awaited(t) : Pending(j) /\ j \in Queued(cur[t])
      BY <1>2 DEF CallerInv
    <3> QED
      BY <1>1, <1>9, <3>1, <3>2 DEF OnlyCalls, Pending, Queued
  <2>3. ThisCall(t) \in Awaited(t)' \/ handled'[ThisCall(t)] = 1
    <3>1. CASE ThisCall(t) = k
      BY <1>9, <3>1
    <3>2. CASE ThisCall(t) # k
      <4>1. ThisCall(t) \in Calls
        BY <1>2, CallFacts DEF CacheInv, TypeInv
      <4>2. ThisCall(t) \in Awaited(t) \/ handled[ThisCall(t)] = 1
        BY <1>2 DEF CallerInv
      <4> QED
        BY <1>9, <1>10, <2>1, <3>2, <4>1, <4>2 DEF OnlyCalls
    <3> QED
      BY <3>1, <3>2
  <2>4. result'[ThisCall(t)] = "none"
    BY <1>1, <1>2 DEF CallerInv
  <2>5. \A i, j \in DOMAIN todo'[t] : todo'[t][i] = todo'[t][j] => i = j
    BY <1>2, <1>10 DEF w
  <2> QED
    BY <1>2, <2>2, <2>3, <2>4, <2>5 DEF CallerInv
<1>17. \A u \in Callers : u # t => CallerInv(u)'
  <2>1. \A r \in DOMAIN rec : \A j \in ToSet(rec'[r].listeners) : j \in Queued(r) \/ Pending(j)'
    BY <1>1 DEF Queued
  <2>2. \A u \in Callers : u # t /\ pc[u] # "idle" => ThisCall(u) \notin {k}
    <3>1. \A u \in Callers : pc[u] \in Asking => ThisCall(u) # k
      <4>1. \A u \in Callers : pc[u] \in Asking => call[u] \in 1..MaxCalls
        BY BoundsAssumption DEF CacheInv, TypeInv, Asking
      <4> QED
        BY <1>14, <4>1 DEF ThisCall
    <3> QED
      BY <1>13, <3>1
  <2> QED
    BY <1>1, <1>2, <1>8, <1>9, <1>11, <2>1, <2>2, OthersKept
<1>18. \A j \in Calls : AnswerOf(j)'
  <2>1. \A j \in Calls \cap {k} : AnswerOf(j)'
    BY <1>9 DEF AnswerOf
  <2> QED
    BY <1>9, <1>11, <2>1, AnswersKept DEF AnswerInv
<1> QED
  BY <1>12, <1>15, <1>16, <1>17, <1>18 DEF AnswerInv, CallsInv

LEMMA AnswerNext == CacheInv /\ AnswerInv /\ [Next]_vars => AnswerInv'
<1> SUFFICES ASSUME CacheInv, AnswerInv, [Next]_vars PROVE AnswerInv'
  OBVIOUS
<1>1. ASSUME NEW t \in Callers, HitLoading(t) \/ ScanMiss(t) PROVE AnswerInv'
  <2>1. /\ UNCHANGED <<rec, cur, call, todo, result, handled>>
        /\ Moves(t, "hit", "join") \/ Moves(t, "scan", "miss")
    BY <1>1 DEF HitLoading, ScanMiss, GoTo, Moves, PCs, cacheVars, history
  <2>2. QueuesKept
    BY <2>1 DEF QueuesKept
  <2>3. CASE Moves(t, "hit", "join")
    <3>1. cur[t] \in DOMAIN rec /\ rec[cur[t]].listeners # <<>>
      BY <2>3 DEF Moves, AnswerInv, CallsInv, CallerInv, CacheInv, OwnerInv, Borrowing
    <3> QED
      BY <2>1, <2>2, <2>3, <3>1, AnswerQuiet DEF Asking, Owning, Inserting, Loading
  <2>4. CASE Moves(t, "scan", "miss")
    BY <2>1, <2>2, <2>4, AnswerQuiet DEF Asking, Owning, Inserting, Loading
  <2> QED
    BY <2>1, <2>3, <2>4
<1>2. ASSUME NEW t \in Callers, ScanHit(t) PROVE AnswerInv'
  <2> DEFINE r == FirstMatch(BuildOf(t))
  <2>1. UNCHANGED <<rec, call, todo, result, handled>> /\ Moves(t, "scan", "found") /\ pc[t] = "scan"
    BY <1>2, ScanHitStep DEF ScanHit, GoTo, history
  <2>2. cur'[t] = r /\ r \in Matches(BuildOf(t)) /\ r \in DOMAIN rec
    BY <1>2, ScanHitStep
  <2>3. rec[r].listeners # <<>>
    <3>1. rec[r].build = BuildOf(t) /\ BuildOf(t) \in Builds
      BY <2>1, <2>2 DEF Matches, BuildOf, CacheInv, TypeInv
    <3> QED
      BY <2>2, <3>1, NamesAssumption DEF AnswerInv, QueueInv
  <2> HIDE DEF r
  <2>4. QueuesKept
    BY <2>1 DEF QueuesKept
  <2> QED
    BY <2>1, <2>2, <2>3, <2>4, AnswerQuiet DEF Asking, Owning, Inserting, Loading
<1>12. ASSUME NEW t \in Callers, Refresh(t) PROVE AnswerInv'
  <2>1. Moves(t, "found", "hit") /\ UNCHANGED <<cur, call, todo, result, handled>>
    BY <1>12, RefreshStep DEF Refresh, history
  <2>2. QueuesKept /\ \A q \in DOMAIN rec : rec'[q].build = rec[q].build
    BY <1>12, RefreshStep DEF Updated, QueuesKept
  <2>3. cur[t] \in DOMAIN rec /\ rec[cur[t]].listeners # <<>>
    BY <1>12, <2>1, RefreshStep DEF Moves, AnswerInv, CallsInv, CallerInv
  <2> QED
    BY <2>1, <2>2, <2>3, AnswerQuiet DEF Asking, Owning, Inserting, Loading
<1>3. ASSUME NEW t \in Callers, Flag(t) \/ Download(t) \/ ClearFlag(t) PROVE AnswerInv'
  <2>1. \E v \in RecordType : /\ Updated(cur[t], v) /\ v.build = rec[cur[t]].build
                              /\ v.listeners = rec[cur[t]].listeners
    BY <1>3, FlagStep
  <2>2. QueuesKept /\ \A q \in DOMAIN rec : rec'[q].build = rec[q].build
    BY <2>1 DEF Updated, QueuesKept
  <2>3. /\ UNCHANGED <<cur, call, todo, result, handled>>
        /\ \/ Moves(t, "flag", "loading") \/ Moves(t, "loading", "loaded") \/ Moves(t, "loaded", "cleared")
    BY <1>3 DEF Flag, Download, ClearFlag, GoTo, Moves, PCs, history
  <2> QED
    BY <2>2, <2>3, AnswerQuiet DEF Asking, Owning, Inserting, Loading
<1>4. ASSUME NEW t \in Callers, Assign(t) PROVE AnswerInv'
  <2>1. Updated(cur[t], [rec[cur[t]] EXCEPT !.build = BuildOf(t)])
    BY <1>4, AssignStep
  <2>2. Moves(t, "assign", "flag") /\ UNCHANGED <<cur, call, todo, result, handled>> /\ pc[t] = "assign"
    BY <1>4 DEF Assign, GoTo, Moves, PCs, history
  <2>3. rec[cur[t]] \in RecordType /\ rec[cur[t]].listeners \in Seq(Calls) /\ ThisCall(t) \in Calls
    BY <2>2, OwnFacts DEF Inserting
  <2>4. QueuesKept /\ \A q \in DOMAIN rec : q # cur[t] => rec'[q].build = rec[q].build
    BY <2>1, <2>3 DEF Updated, QueuesKept, RecordType
  <2>5. rec[cur[t]].listeners # <<>>
    <3>1. ThisCall(t) \in Queued(cur[t])
      BY <2>2 DEF AnswerInv, CallsInv, CallerInv, Owning, Inserting
    <3> QED
      BY <2>3, <3>1, QueueFacts DEF Queued
  <2> QED
    BY <2>2, <2>4, <2>5, AnswerQuiet DEF Asking, Owning, Inserting, Loading
<1>5. ASSUME NEW t \in Callers, HandlerReturns(t) \/ EndListeners(t) PROVE AnswerInv'
  <2>1. /\ UNCHANGED <<rec, call, todo, handled>> /\ Finish(t, "true")
        /\ \/ Moves(t, "handling", "idle")
           \/ Moves(t, "notify", "idle") /\ todo[t] = <<>>
    BY <1>5 DEF HandlerReturns, EndListeners, GoTo, Moves, PCs, cacheVars, CacheInv, TypeInv
  <2>2. handled[ThisCall(t)] = 1
    <3>1. CASE Moves(t, "handling", "idle")
      BY <3>1 DEF Moves, AnswerInv, CallsInv, CallerInv
    <3>2. CASE Moves(t, "notify", "idle") /\ todo[t] = <<>>
      <4>1. ToSet(todo[t]) = {}
        BY <3>2, EmptySeq DEF ToSet
      <4>2. Awaited(t) = {} /\ pc[t] = "notify" /\ "notify" \in Owning
        BY <3>2, <4>1 DEF Awaited, Moves, Owning
      <4> QED
        BY <4>2 DEF AnswerInv, CallsInv, CallerInv
    <3> QED
      BY <2>1, <3>1, <3>2
  <2>3. QueuesKept
    BY <2>1 DEF QueuesKept
  <2> QED
    BY <2>1, <2>2, <2>3, AnswerFinish
<1>6. ASSUME NEW t \in Callers, NoFactory(t) PROVE AnswerInv'
  <2>1. Moves(t, "miss", "idle") /\ UNCHANGED <<rec, call, todo, handled>> /\ Finish(t, "false") /\ pc[t] = "miss"
    BY <1>6 DEF NoFactory, GoTo, Moves, PCs, cacheVars, CacheInv, TypeInv
  <2>2. Fresh(ThisCall(t))
    <3>1. call[t] \in 1..MaxCalls
      BY <2>1, BoundsAssumption DEF CacheInv, TypeInv
    <3> QED
      BY <2>1, <3>1 DEF AnswerInv, FreshInv, Asking, ThisCall
  <2>3. QueuesKept /\ handled[ThisCall(t)] = 0
    BY <2>1, <2>2 DEF QueuesKept, Fresh
  <2> QED
    BY <2>1, <2>2, <2>3, AnswerFinish
<1>7. ASSUME NEW t \in Callers, DownloadFails(t) PROVE AnswerInv'
  <2>1. \E v \in RecordType : /\ Updated(cur[t], v) /\ v.build = rec[cur[t]].build
                              /\ v.listeners = rec[cur[t]].listeners
    BY <1>7, FlagStep
  <2>2. QueuesKept /\ \A q \in DOMAIN rec : rec'[q].build = rec[q].build
    BY <2>1 DEF Updated, QueuesKept
  <2>3. Moves(t, "loading", "idle") /\ UNCHANGED <<call, todo, handled>> /\ Finish(t, "false") /\ pc[t] = "loading"
    BY <1>7 DEF DownloadFails, GoTo, Moves, PCs, CacheInv, TypeInv
  <2>4. pc[t] \in Owning \ {"listen", "notify"} /\ CallerInv(t)
    BY <2>3 DEF Owning, Loading, AnswerInv, CallsInv
  <2>5. ThisCall(t) \in Queued(cur[t])
    BY <2>4 DEF CallerInv
  <2>6. ThisCall(t) \in Calls
    BY <2>3, CallFacts DEF CacheInv, TypeInv
  <2>7. handled[ThisCall(t)] = 0
    BY <2>4, <2>5, <2>6 DEF CallerInv, Awaited, Pending
  <2> QED
    BY <2>2, <2>3, <2>4, <2>5, <2>7, AnswerFinish
<1>8. CASE RemoveExpiredEntries
  <2>1. QueuesKept /\ \A q \in DOMAIN rec : rec'[q].build = rec[q].build
    BY <1>8, ExpiryStep DEF QueuesKept
  <2>2. UNCHANGED <<pc, cur, call, todo, result, handled>>
    BY <1>8, ExpiryStep
  <2> QED
    BY <2>1, <2>2, AnswerStill
<1>9. CASE Tick \/ UNCHANGED vars \/ \E t \in Callers : Crash(t)
  <2>1. UNCHANGED <<rec, pc, cur, call, todo, result, handled>>
    BY <1>9 DEF Tick, Crash, vars, cacheVars, callVars, history
  <2>2. QueuesKept
    BY <2>1 DEF QueuesKept
  <2> QED
    BY <2>1, <2>2, AnswerStill
<1>10. CASE Terminating
  BY <1>9, <1>10 DEF Terminating
<1>11. ASSUME NEW t \in Callers, Step(t) PROVE AnswerInv'
  BY <1>1, <1>2, <1>3, <1>4, <1>5, <1>6, <1>7, <1>11, <1>12, AnswerHitLoaded, AnswerAdd, AnswerInsert,
     AnswerBegin, AnswerRun DEF Step
<1> QED
  BY <1>8, <1>9, <1>10, <1>11, AnswerCall DEF Next

LEMMA AnswerInit == Init => AnswerInv
<1> SUFFICES ASSUME Init PROVE AnswerInv
  OBVIOUS
<1>1. DOMAIN rec = {} /\ \A t \in Callers : pc[t] = "idle" /\ call[t] = 0
  BY EmptySeq DEF Init
<1>2. \A k \in Calls : result[k] = "none" /\ handled[k] = 0
  BY DEF Init
<1>3. QueueInv
  BY <1>1 DEF QueueInv
<1>4. FreshInv
  BY <1>1, <1>2 DEF FreshInv, Fresh, Calls
<1>5. CallsInv
  <2>1. "idle" \notin Owning
    BY DEF Owning, Inserting, Loading
  <2> QED
    BY <1>1, <2>1 DEF CallsInv, CallerInv, Awaited
<1>6. \A k \in Calls : AnswerOf(k)
  BY <1>2 DEF AnswerOf
<1> QED
  BY <1>3, <1>4, <1>5, <1>6 DEF AnswerInv

LEMMA AnswerIsInvariant == Spec => [](CacheInv /\ AnswerInv)
<1>1. Init => CacheInv /\ AnswerInv
  BY TypeInit, AnswerInit
<1>2. CacheInv /\ AnswerInv /\ [Next]_vars => (CacheInv /\ AnswerInv)'
  BY CacheNext, AnswerNext
<1> QED
  BY <1>1, <1>2, PTL DEF Spec

\* LoadConfiguration keeps its answer: no handler runs twice or after false, and
\* after true it has run or waits in the queue behind a loader's own.
THEOREM CacheAnswerIsKept == Spec => []AnswerIsKept
<1>1. AnswerInv => AnswerIsKept
  BY DEF AnswerInv, AnswerOf, AnswerIsKept
<1> QED
  BY <1>1, AnswerIsInvariant, PTL

-----------------------------------------------------------------------------
(* No caller inserts more than one record per call                         *)

\* The call that inserted a record: its first listener, or the call of the
\* caller that is about to become the first.
Inserter(r, k) ==
    IF rec[r].listeners = <<>>
    THEN \E t \in Callers : pc[t] = "listen" /\ cur[t] = r /\ k = ThisCall(t)
    ELSE k = rec[r].listeners[1]

LEMMA RecordsBounded ==
    ASSUME CacheInv, AnswerInv
    PROVE  DOMAIN rec \subseteq Records
<1>1. ASSUME NEW r \in DOMAIN rec
      PROVE  \E k \in Calls : Inserter(r, k) /\ (rec[r].listeners = <<>> => Fresh(k))
                              /\ (rec[r].listeners # <<>> => k \in Queued(r))
  <2>1. CASE rec[r].listeners = <<>>
    <3>1. PICK t \in Callers : pc[t] = "listen" /\ cur[t] = r
      BY <2>1 DEF AnswerInv, QueueInv
    <3>2. call[t] \in 1..MaxCalls
      BY <3>1, BoundsAssumption DEF CacheInv, TypeInv
    <3>3. ThisCall(t) \in Calls /\ Fresh(ThisCall(t))
      BY <3>1, <3>2 DEF AnswerInv, FreshInv, Asking, ThisCall, Calls
    <3> QED
      BY <2>1, <3>1, <3>3 DEF Inserter
  <2>2. CASE rec[r].listeners # <<>>
    <3>1. rec[r].listeners \in Seq(Calls)
      BY RecordFacts DEF CacheInv
    <3>2. 1 \in DOMAIN rec[r].listeners /\ rec[r].listeners[1] \in Calls
      BY <2>2, <3>1, EmptySeq, LenProperties, ElementOfSeq
    <3> QED
      BY <2>2, <3>2 DEF Inserter, Queued, ToSet
  <2> QED
    BY <2>1, <2>2
<1> DEFINE f == [r \in DOMAIN rec |-> CHOOSE k \in Calls :
                    Inserter(r, k) /\ (rec[r].listeners = <<>> => Fresh(k))
                                   /\ (rec[r].listeners # <<>> => k \in Queued(r))]
<1>2. \A r \in DOMAIN rec :
         /\ f[r] \in Calls /\ Inserter(r, f[r]) /\ (rec[r].listeners = <<>> => Fresh(f[r]))
         /\ rec[r].listeners # <<>> => f[r] \in Queued(r)
  BY <1>1
<1>3. f \in [DOMAIN rec -> Calls]
  BY <1>2
<1> HIDE DEF f
<1>4. ASSUME NEW r \in DOMAIN rec, NEW s \in DOMAIN rec, f[r] = f[s] PROVE r = s
  <2>1. CASE rec[r].listeners # <<>> /\ rec[s].listeners # <<>>
    BY <1>2, <1>4, <2>1 DEF AnswerInv, QueueInv
  <2>2. CASE rec[r].listeners = <<>> /\ rec[s].listeners # <<>>
    BY <1>2, <1>4, <2>2 DEF Fresh
  <2>3. CASE rec[r].listeners # <<>> /\ rec[s].listeners = <<>>
    BY <1>2, <1>4, <2>3 DEF Fresh
  <2>4. CASE rec[r].listeners = <<>> /\ rec[s].listeners = <<>>
    <3>1. PICK t \in Callers : cur[t] = r /\ f[r] = ThisCall(t)
      BY <1>2, <2>4 DEF Inserter
    <3>2. PICK u \in Callers : cur[u] = s /\ f[s] = ThisCall(u)
      BY <1>2, <2>4 DEF Inserter
    <3>3. u = t
      BY <1>4, <3>1, <3>2, CallsDiffer
    <3> QED
      BY <3>1, <3>2, <3>3
  <2> QED
    BY <2>1, <2>2, <2>3, <2>4
<1>5. f \in Injection(DOMAIN rec, Calls)
  BY <1>3, <1>4 DEF Injection, IsInjective
<1>6. /\ IsFiniteSet(1..MaxCalls) /\ Cardinality(1..MaxCalls) = MaxCalls /\ MaxCalls \in Nat
      /\ Cardinality(Callers) \in Nat
  <2>1. MaxCalls \in Nat /\ 1 \in Int /\ MaxCalls \in Int
    BY BoundsAssumption
  <2>2. /\ IsFiniteSet(1..MaxCalls)
        /\ Cardinality(1..MaxCalls) = IF 1 > MaxCalls THEN 0 ELSE MaxCalls - 1 + 1
    BY <2>1, FS_Interval
  <2> QED
    BY <2>1, <2>2, CallersAssumption, FS_CardinalityType
<1>7. IsFiniteSet(Calls) /\ Cardinality(Calls) = Cardinality(Callers) * MaxCalls
  <2>1. /\ IsFiniteSet(Callers \X (1..MaxCalls))
        /\ Cardinality(Callers \X (1..MaxCalls)) = Cardinality(Callers) * Cardinality(1..MaxCalls)
    BY <1>6, CallersAssumption, FS_Product
  <2> QED
    BY <1>6, <2>1 DEF Calls
<1>8. Cardinality(DOMAIN rec) <= Cardinality(Calls)
  BY <1>5, <1>7, FS_Injection
<1>9. Len(rec) \in Nat /\ DOMAIN rec = 1..Len(rec) /\ Cardinality(1..Len(rec)) = Len(rec)
  <2>1. Len(rec) \in Nat /\ DOMAIN rec = 1..Len(rec)
    BY LenProperties DEF CacheInv, TypeInv
  <2>2. Cardinality(1..Len(rec)) = IF 1 > Len(rec) THEN 0 ELSE Len(rec) - 1 + 1
    BY <2>1, FS_Interval
  <2> QED
    BY <2>1, <2>2
<1>10. Len(rec) <= Cardinality(Callers) * MaxCalls
  BY <1>7, <1>8, <1>9
<1> DEFINE n == Cardinality(Callers) * MaxCalls
<1>11. n \in Nat
  BY <1>6
<1> HIDE DEF n
<1>12. 1..Len(rec) \subseteq 1..n
  BY <1>9, <1>10, <1>11 DEF n
<1> QED
  BY <1>9, <1>12 DEF Records, n

\* The thread that loads a product finds its record in the list until the load is
\* over: neither the timer nor a hit that shortens the expiry takes it away.
THEOREM CacheLoaderKeepsRecord == Spec => []LoaderKeepsRecord
<1>1. CacheInv /\ AnswerInv => LoaderKeepsRecord
  <2> SUFFICES ASSUME CacheInv, AnswerInv PROVE LoaderKeepsRecord
    OBVIOUS
  <2>1. \A t \in Callers : pc[t] \in {"listen", "assign", "flag", "loading", "loaded"}
            => cur[t] \in products
    BY DEF CacheInv, OwnerInv, Inserting, Loading
  <2>2. now \in 0..MaxTime /\ timerAt >= now /\ sweep \in Sweeps
    BY BoundsAssumption DEF CacheInv, TimeInv, SweepInv
  <2>3. TypeOK
    BY <2>2, RecordsBounded DEF CacheInv, TypeInv, TypeOK, RecordType
  <2> QED
    BY <2>1, <2>3 DEF LoaderKeepsRecord
<1> QED
  BY <1>1, AnswerIsInvariant, PTL
=============================================================================
