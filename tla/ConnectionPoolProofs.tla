------------------------ MODULE ConnectionPoolProofs ------------------------
(***************************************************************************)
(* The safety properties of ConnectionPool for every number of threads,    *)
(* connections, statements and calls, and the refinement of                *)
(* ConnectionRental.                                                       *)
(***************************************************************************)
EXTENDS ConnectionPool, FiniteSetTheorems, SequenceTheorems, TLAPS

\* The inductive core: where the connections are.  TypeOK alone is not
\* inductive: Return would overflow the deque were a connection duplicated.
PlacesInv == TypeOK /\ EachConnectionInOnePlace

\* What start-up establishes: while statements remain to be prepared only Main
\* runs, and what is prepared is prepared everywhere.
StartUpInv ==
    /\ toPrepare # {} => \A t \in Threads : t # Main => pc[t] = "idle"
    /\ \A c \in Connections : Statements \ toPrepare \subseteq prepared[c]
    /\ \A t \in Threads : stmt[t] \notin toPrepare

-----------------------------------------------------------------------------
\* Pigeonhole: a deque of distinct connections that misses one of them has
\* room for it (Pool::Return never grows _pool past its capacity).
LEMMA RoomForMissing ==
    ASSUME NEW s \in Seq(Connections), NEW c \in Connections,
           \A i, j \in 1..Len(s) : s[i] = s[j] => i = j,
           \A i \in 1..Len(s) : s[i] # c
    PROVE  Len(s) < Capacity
<1>1. IsFiniteSet(Connections) /\ Cardinality(Connections) = Capacity
  BY FS_Interval, CapacityAssumption DEF Connections
<1>2. /\ IsFiniteSet(Connections \ {c})
      /\ Cardinality(Connections \ {c}) = Capacity - 1
  BY <1>1, FS_RemoveElement
<1>3. s \in Injection(1..Len(s), Connections \ {c})
  <2>1. s \in [1..Len(s) -> Connections \ {c}]
    BY LenProperties
  <2>2. QED
    BY <2>1 DEF Injection, IsInjective
<1>4. Cardinality(1..Len(s)) <= Cardinality(Connections \ {c})
  BY <1>2, <1>3, FS_Injection
<1>5. Len(s) \in Nat
  BY LenProperties
<1>6. Cardinality(1..Len(s)) = Len(s)
  <2> DEFINE n == Len(s)
  <2>1. n \in Nat
    BY <1>5
  <2> HIDE DEF n
  <2>2. Cardinality(1..n) = IF 1 > n THEN 0 ELSE n - 1 + 1
    BY <2>1, FS_Interval
  <2>3. Cardinality(1..n) = n
    BY <2>1, <2>2
  <2> QED
    BY <2>3 DEF n
<1> QED
  BY <1>2, <1>4, <1>5, <1>6, CapacityAssumption

\* The shapes a step of ConnectionPool can have, one per action.
LEMMA NextCases ==
    ASSUME Next
    PROVE  \/ \E s \in Statements : Prepare(s)
           \/ \E s \in Statements, n \in 0..(Capacity - 1) : PrepareThrows(s, n)
           \/ \E t \in Threads, s \in Statements : Call(t, s)
           \/ \E t \in Threads : SpuriousWakeup(t)
           \/ \E t \in Threads : OpenTake(t)
           \/ \E t \in Threads : OpenWait(t)
           \/ \E t \in Threads : BeginWork(t)
           \/ \E t \in Threads : FinishWork(t)
           \/ \E t \in Threads : Return(t)
           \/ \E t \in Threads : Notify(t)
           \/ UNCHANGED vars
  BY DEF Next, Step, Terminating

\* Every connection starts in the deque, once.
LEMMA PlacesInit == Init => PlacesInv
<1> SUFFICES ASSUME Init PROVE PlacesInv
  OBVIOUS
<1>1. pool \in Seq(Connections) /\ Len(pool) = Capacity
  BY CapacityAssumption, IsASeq DEF Init, Connections
<1>2. TypeOK
  <2>1. ended \in BOOLEAN
    BY DEF Init
  <2>2. prepared \in [Connections -> SUBSET Statements] /\ toPrepare \in SUBSET Statements
    BY DEF Init
  <2> QED
    BY <1>1, <2>1, <2>2, CapacityAssumption, MaxCallsAssumption, NoneAssumption
       DEF Init, TypeOK, PCs, Holding, Connections
<1>3. EachConnectionInOnePlace
  BY <1>1, CapacityAssumption, NoneAssumption
     DEF Init, EachConnectionInOnePlace, Connections
<1> QED
  BY <1>2, <1>3 DEF PlacesInv

\* Pool::Open moves the front connection to the thread that asked.
LEMMA PlacesOpenTake ==
    ASSUME PlacesInv, NEW t \in Threads, OpenTake(t)
    PROVE  PlacesInv'
<1> USE DEF PlacesInv
<1>1. /\ pool # <<>> /\ pc[t] = "open" /\ pool' = Tail(pool)
      /\ pc' = [pc EXCEPT ![t] = "rented"]
      /\ conn' = [conn EXCEPT ![t] = Head(pool)]
      /\ UNCHANGED <<waiters, stmt, inWork, prepared, toPrepare, ended, calls>>
  BY DEF OpenTake, GoTo
<1>2. pool \in Seq(Connections) /\ Len(pool) \in 0..Capacity
  BY DEF TypeOK
<1>3. /\ Head(pool) \in Connections /\ Head(pool) = pool[1]
      /\ pool' \in Seq(Connections) /\ Len(pool') = Len(pool) - 1
      /\ \A i \in 1..Len(pool') : pool'[i] = pool[i + 1]
  BY <1>1, <1>2, HeadTailProperties
<1>4. Len(pool) \in Nat \ {0} /\ Len(pool) <= Capacity
  BY <1>1, <1>2, EmptySeq, CapacityAssumption
<1>5. TypeOK'
  <2>1. Len(pool') \in 0..Capacity
    BY <1>3, <1>4, CapacityAssumption
  <2>2. \A u \in Threads : conn'[u] \in Connections <=> pc'[u] \in Holding
    BY <1>1, <1>3 DEF TypeOK, Holding
  <2>3. waiters' = {u \in Threads : pc'[u] = "waiting"}
    BY <1>1 DEF TypeOK
  <2>4. QED
    BY <1>1, <1>3, <2>1, <2>2, <2>3 DEF TypeOK, PCs
<1>6. EachConnectionInOnePlace'
  <2>1. \A i, j \in 1..Len(pool') : pool'[i] = pool'[j] => i = j
    BY <1>3, <1>4 DEF EachConnectionInOnePlace
  <2>2. \A u \in Threads : conn'[u] = IF u = t THEN pool[1] ELSE conn[u]
    BY <1>1, <1>3 DEF TypeOK
  <2>3. \A u, v \in Threads : conn'[u] = conn'[v] /\ conn'[u] # NoConnection => u = v
    BY <2>2, <1>4 DEF EachConnectionInOnePlace
  <2>4. \A u \in Threads, i \in 1..Len(pool') : pool'[i] # conn'[u]
    BY <2>2, <1>3, <1>4 DEF EachConnectionInOnePlace
  <2>5. ASSUME NEW c \in Connections
        PROVE  \/ \E i \in 1..Len(pool') : pool'[i] = c
               \/ \E u \in Threads : conn'[u] = c
    <3>1. CASE \E u \in Threads : conn[u] = c
      <4>1. PICK u \in Threads : conn[u] = c
        BY <3>1
      <4>2. u # t
        BY <4>1, <1>1 DEF TypeOK, Holding
      <4> QED
        BY <4>1, <4>2, <2>2
    <3>2. CASE \E i \in 1..Len(pool) : pool[i] = c
      <4>1. PICK i \in 1..Len(pool) : pool[i] = c
        BY <3>2
      <4>2. CASE i = 1
        BY <4>1, <4>2, <2>2
      <4>3. CASE i # 1
        <5>1. i - 1 \in 1..Len(pool') /\ pool'[i - 1] = c
          BY <4>1, <4>3, <1>3, <1>4
        <5> QED
          BY <5>1
      <4> QED
        BY <4>2, <4>3
    <3> QED
      BY <3>1, <3>2 DEF EachConnectionInOnePlace
  <2> QED
    BY <2>1, <2>3, <2>4, <2>5 DEF EachConnectionInOnePlace, Connections
<1> QED
  BY <1>5, <1>6

\* Pool::Return moves the thread's connection to the back of the deque.
LEMMA PlacesReturn ==
    ASSUME PlacesInv, NEW t \in Threads, Return(t)
    PROVE  PlacesInv'
<1> USE DEF PlacesInv
<1>1. /\ pc[t] = "done" /\ pool' = Append(pool, conn[t])
      /\ pc' = [pc EXCEPT ![t] = "notify"]
      /\ conn' = [conn EXCEPT ![t] = NoConnection]
      /\ UNCHANGED <<waiters, stmt, inWork, prepared, toPrepare, ended, calls>>
  BY DEF Return, GoTo
<1>2. pool \in Seq(Connections) /\ Len(pool) \in Nat
  BY LenProperties DEF TypeOK
<1>3. conn[t] \in Connections /\ conn[t] # NoConnection
  BY <1>1, NoneAssumption DEF TypeOK, Holding, Connections
<1>4. /\ pool' \in Seq(Connections) /\ Len(pool') = Len(pool) + 1
      /\ \A i \in 1..Len(pool) : pool'[i] = pool[i]
      /\ pool'[Len(pool) + 1] = conn[t]
  BY <1>1, <1>2, <1>3, AppendProperties
<1>5. Len(pool) < Capacity
  BY <1>2, <1>3, RoomForMissing DEF EachConnectionInOnePlace
<1>6. TypeOK'
  <2>1. Len(pool') \in 0..Capacity
    BY <1>2, <1>4, <1>5, CapacityAssumption
  <2>2. \A u \in Threads : conn'[u] \in Connections <=> pc'[u] \in Holding
    BY <1>1, NoneAssumption DEF TypeOK, Holding, Connections
  <2>3. waiters' = {u \in Threads : pc'[u] = "waiting"}
    BY <1>1 DEF TypeOK
  <2>4. QED
    BY <1>1, <1>4, <2>1, <2>2, <2>3 DEF TypeOK, PCs
<1>7. EachConnectionInOnePlace'
  <2>1. \A i, j \in 1..Len(pool') : pool'[i] = pool'[j] => i = j
    BY <1>2, <1>4 DEF EachConnectionInOnePlace
  <2>2. \A u \in Threads : conn'[u] = IF u = t THEN NoConnection ELSE conn[u]
    BY <1>1 DEF TypeOK
  <2>3. \A u, v \in Threads : conn'[u] = conn'[v] /\ conn'[u] # NoConnection => u = v
    BY <2>2 DEF EachConnectionInOnePlace
  <2>4. ASSUME NEW u \in Threads, NEW i \in 1..Len(pool')
        PROVE  pool'[i] # conn'[u]
    <3>1. pool'[i] \in Connections
      BY <1>4
    <3>2. CASE u = t
      BY <3>1, <3>2, <2>2, NoneAssumption DEF Connections
    <3>3. CASE u # t /\ i \in 1..Len(pool)
      BY <3>3, <2>2, <1>4 DEF EachConnectionInOnePlace
    <3>4. CASE u # t /\ i = Len(pool) + 1
      BY <3>4, <2>2, <1>4, <1>3 DEF EachConnectionInOnePlace
    <3> QED
      BY <3>2, <3>3, <3>4, <1>2, <1>4
  <2>5. ASSUME NEW c \in Connections
        PROVE  \/ \E i \in 1..Len(pool') : pool'[i] = c
               \/ \E u \in Threads : conn'[u] = c
    <3>1. CASE c = conn[t]
      <4>1. Len(pool) + 1 \in 1..Len(pool') /\ pool'[Len(pool) + 1] = c
        BY <3>1, <1>2, <1>4
      <4> QED
        BY <4>1
    <3>2. CASE c # conn[t] /\ \E u \in Threads : conn[u] = c
      BY <3>2, <2>2
    <3>3. CASE \E i \in 1..Len(pool) : pool[i] = c
      <4>1. PICK i \in 1..Len(pool) : pool[i] = c
        BY <3>3
      <4>2. i \in 1..Len(pool') /\ pool'[i] = c
        BY <4>1, <1>2, <1>4
      <4> QED
        BY <4>2
    <3> QED
      BY <3>1, <3>2, <3>3 DEF EachConnectionInOnePlace
  <2> QED
    BY <2>1, <2>3, <2>4, <2>5 DEF EachConnectionInOnePlace, Connections
<1> QED
  BY <1>6, <1>7

\* Every action keeps the connections in their places.
LEMMA PlacesStep == PlacesInv /\ [Next]_vars => PlacesInv'
<1> SUFFICES ASSUME PlacesInv, [Next]_vars PROVE PlacesInv'
  OBVIOUS
<1>1. TypeOK /\ EachConnectionInOnePlace
  BY DEF PlacesInv
<1>2. ASSUME NEW s \in Statements, Prepare(s) PROVE PlacesInv'
  BY <1>1, <1>2 DEF Prepare, PlacesInv, TypeOK, EachConnectionInOnePlace
<1>3. ASSUME NEW t \in Threads, NEW s \in Statements, Call(t, s) PROVE PlacesInv'
  <2>1. TypeOK'
    BY <1>1, <1>3, MaxCallsAssumption, NoneAssumption
       DEF Call, GoTo, TypeOK, PCs, Holding
  <2>2. QED
    BY <1>1, <1>3, <2>1 DEF Call, PlacesInv, EachConnectionInOnePlace
<1>4. ASSUME NEW t \in Threads, SpuriousWakeup(t) PROVE PlacesInv'
  BY <1>1, <1>4 DEF SpuriousWakeup, GoTo, PlacesInv, TypeOK, PCs, Holding,
                    EachConnectionInOnePlace
<1>5. ASSUME NEW t \in Threads, OpenTake(t) PROVE PlacesInv'
  BY <1>5, PlacesOpenTake
<1>6. ASSUME NEW t \in Threads, OpenWait(t) PROVE PlacesInv'
  BY <1>1, <1>6 DEF OpenWait, GoTo, PlacesInv, TypeOK, PCs, Holding,
                    EachConnectionInOnePlace
<1>7. ASSUME NEW t \in Threads, BeginWork(t) PROVE PlacesInv'
  <2>1. inWork' \in SUBSET Connections
    BY <1>1, <1>7 DEF BeginWork, GoTo, TypeOK, Holding
  <2>2. TypeOK'
    BY <1>1, <1>7, <2>1 DEF BeginWork, GoTo, TypeOK, PCs, Holding
  <2>3. QED
    BY <1>1, <1>7, <2>2 DEF BeginWork, PlacesInv, EachConnectionInOnePlace
<1>8. ASSUME NEW t \in Threads, FinishWork(t) PROVE PlacesInv'
  BY <1>1, <1>8 DEF FinishWork, GoTo, PlacesInv, TypeOK, PCs, Holding,
                    EachConnectionInOnePlace
<1>9. ASSUME NEW t \in Threads, Return(t) PROVE PlacesInv'
  BY <1>9, PlacesReturn
<1>10. ASSUME NEW t \in Threads, Notify(t) PROVE PlacesInv'
  <2>1. pc' \in [Threads -> PCs] /\ stmt' \in [Threads -> Statements \cup {NoStatement}]
    BY <1>1, <1>10 DEF Notify, TypeOK, PCs
  <2>2. waiters' = {u \in Threads : pc'[u] = "waiting"}
    BY <1>1, <1>10 DEF Notify, TypeOK
  <2>3. \A u \in Threads : conn'[u] \in Connections <=> pc'[u] \in Holding
    <3>1. /\ conn' = conn /\ pc[t] \notin Holding /\ pc'[t] \notin Holding
          /\ \A u \in Threads : \/ pc'[u] = pc[u]
                                \/ pc[u] \in {"notify", "waiting"} /\ pc'[u] \in {"idle", "open"}
      BY <1>1, <1>10 DEF Notify, TypeOK, Holding
    <3>2. \A u \in Threads : pc'[u] \in Holding <=> pc[u] \in Holding
      BY <3>1 DEF Holding
    <3> QED
      BY <1>1, <3>1, <3>2 DEF TypeOK
  <2>4. \A u \in Threads : stmt'[u] \in Statements <=> pc'[u] # "idle"
    BY <1>1, <1>10, NoneAssumption DEF Notify, TypeOK
  <2>5. TypeOK'
    BY <1>1, <1>10, <2>1, <2>2, <2>3, <2>4 DEF Notify, TypeOK
  <2>6. QED
    BY <1>1, <1>10, <2>5 DEF Notify, PlacesInv, EachConnectionInOnePlace
<1>11. CASE UNCHANGED vars
  BY <1>1, <1>11 DEF vars, PlacesInv, TypeOK, EachConnectionInOnePlace
<1>12. ASSUME NEW s \in Statements, NEW n, PrepareThrows(s, n) PROVE PlacesInv'
  BY <1>1, <1>12 DEF PrepareThrows, PlacesInv, TypeOK, EachConnectionInOnePlace
<1> QED
  BY <1>2, <1>3, <1>4, <1>5, <1>6, <1>7, <1>8, <1>9, <1>10, <1>11, <1>12, NextCases

\* The places of the connections are an invariant of the pool.
LEMMA PlacesAlways == Spec => []PlacesInv
  BY PlacesInit, PlacesStep, PTL DEF Spec

\* Pool::Open and Pool::Return never lose, duplicate or share a connection, and
\* the deque never exceeds _poolCapacity; includes type correctness.
THEOREM PoolConservation == Spec => []ConnectionsConserved
<1>1. PlacesInv => ConnectionsConserved
  BY DEF PlacesInv, ConnectionsConserved
<1> QED
  BY <1>1, PlacesAlways, PTL

-----------------------------------------------------------------------------
\* ~Connection runs after the transaction ended, so a connection in the deque
\* or in another thread's hands is never inside a transaction.
THEOREM PoolTransactions == Spec => []TransactionsEndBeforeReturn
<1>1. Init => TransactionsEndBeforeReturn
  BY DEF Init, TransactionsEndBeforeReturn
<1>2. PlacesInv /\ TransactionsEndBeforeReturn /\ [Next]_vars
        => TransactionsEndBeforeReturn'
  <2> SUFFICES ASSUME PlacesInv, TransactionsEndBeforeReturn, [Next]_vars
               PROVE  TransactionsEndBeforeReturn'
    OBVIOUS
  <2> USE DEF TransactionsEndBeforeReturn
  <2>1. TypeOK /\ EachConnectionInOnePlace
    BY DEF PlacesInv
  <2>2. ASSUME NEW s \in Statements, Prepare(s) PROVE TransactionsEndBeforeReturn'
    BY <2>2 DEF Prepare
  <2>3. ASSUME NEW t \in Threads, NEW s \in Statements, Call(t, s)
        PROVE  TransactionsEndBeforeReturn'
    BY <2>1, <2>3 DEF Call, GoTo, TypeOK
  <2>4. ASSUME NEW t \in Threads, SpuriousWakeup(t) PROVE TransactionsEndBeforeReturn'
    BY <2>1, <2>4 DEF SpuriousWakeup, GoTo, TypeOK
  <2>5. ASSUME NEW t \in Threads, OpenTake(t) PROVE TransactionsEndBeforeReturn'
    BY <2>1, <2>5 DEF OpenTake, GoTo, TypeOK
  <2>6. ASSUME NEW t \in Threads, OpenWait(t) PROVE TransactionsEndBeforeReturn'
    BY <2>1, <2>6 DEF OpenWait, GoTo, TypeOK
  <2>7. ASSUME NEW t \in Threads, BeginWork(t) PROVE TransactionsEndBeforeReturn'
    BY <2>1, <2>7 DEF BeginWork, GoTo, TypeOK
  <2>8. ASSUME NEW t \in Threads, FinishWork(t) PROVE TransactionsEndBeforeReturn'
    BY <2>1, <2>8 DEF FinishWork, GoTo, TypeOK, EachConnectionInOnePlace
  <2>9. ASSUME NEW t \in Threads, Return(t) PROVE TransactionsEndBeforeReturn'
    BY <2>1, <2>9 DEF Return, GoTo, TypeOK
  <2>10. ASSUME NEW t \in Threads, Notify(t) PROVE TransactionsEndBeforeReturn'
    BY <2>1, <2>10 DEF Notify, TypeOK
  <2>11. CASE UNCHANGED vars
    BY <2>11 DEF vars
  <2>12. ASSUME NEW s \in Statements, NEW n, PrepareThrows(s, n) PROVE TransactionsEndBeforeReturn'
    BY <2>12 DEF PrepareThrows
  <2> QED
    BY <2>2, <2>3, <2>4, <2>5, <2>6, <2>7, <2>8, <2>9, <2>10, <2>11, <2>12, NextCases
<1> QED
  BY <1>1, <1>2, PlacesAlways, PTL DEF Spec

-----------------------------------------------------------------------------
\* Start-up prepares each statement on all connections while all are at home.
LEMMA StartUpStep == PlacesInv /\ StartUpInv /\ [Next]_vars => StartUpInv'
<1> SUFFICES ASSUME PlacesInv, StartUpInv, [Next]_vars PROVE StartUpInv'
  OBVIOUS
<1> USE DEF StartUpInv
<1>1. TypeOK /\ EachConnectionInOnePlace
  BY DEF PlacesInv
<1>2. ASSUME NEW s \in Statements, Prepare(s) PROVE StartUpInv'
  <2>1. \A t \in Threads : pc[t] = "idle"
    BY <1>2 DEF Prepare
  <2>2. \A t \in Threads : conn[t] \notin Connections
    BY <1>1, <2>1 DEF TypeOK, Holding
  <2>3. ASSUME NEW c \in Connections
        PROVE  \E i \in 1..Capacity : pool[i] = c
    <3>1. PICK i \in 1..Len(pool) : pool[i] = c
      BY <1>1, <2>2 DEF EachConnectionInOnePlace
    <3>2. i \in 1..Capacity
      BY <1>1, <3>1, CapacityAssumption DEF TypeOK
    <3> QED
      BY <3>1, <3>2
  <2>4. \A c \in Connections : prepared'[c] = prepared[c] \cup {s}
    BY <1>2, <2>3 DEF Prepare
  <2> QED
    BY <1>2, <2>4 DEF Prepare
<1>3. ASSUME NEW t \in Threads, NEW s \in Statements, Call(t, s) PROVE StartUpInv'
  BY <1>1, <1>3 DEF Call, GoTo, TypeOK
<1>4. ASSUME NEW t \in Threads, SpuriousWakeup(t) PROVE StartUpInv'
  BY <1>1, <1>4 DEF SpuriousWakeup, GoTo, TypeOK
<1>5. ASSUME NEW t \in Threads, OpenTake(t) PROVE StartUpInv'
  BY <1>1, <1>5 DEF OpenTake, GoTo, TypeOK
<1>6. ASSUME NEW t \in Threads, OpenWait(t) PROVE StartUpInv'
  BY <1>1, <1>6 DEF OpenWait, GoTo, TypeOK
<1>7. ASSUME NEW t \in Threads, BeginWork(t) PROVE StartUpInv'
  BY <1>1, <1>7 DEF BeginWork, GoTo, TypeOK
<1>8. ASSUME NEW t \in Threads, FinishWork(t) PROVE StartUpInv'
  BY <1>1, <1>8 DEF FinishWork, GoTo, TypeOK
<1>9. ASSUME NEW t \in Threads, Return(t) PROVE StartUpInv'
  BY <1>1, <1>9 DEF Return, GoTo, TypeOK
<1>10. ASSUME NEW t \in Threads, Notify(t) PROVE StartUpInv'
  BY <1>1, <1>10, NoneAssumption DEF Notify, TypeOK
<1>11. CASE UNCHANGED vars
  BY <1>11 DEF vars
<1>12. ASSUME NEW s \in Statements, NEW n, PrepareThrows(s, n) PROVE StartUpInv'
  <2>1. \A c \in Connections : prepared[c] \subseteq prepared'[c]
    BY <1>12 DEF PrepareThrows
  <2> QED
    BY <1>12, <2>1 DEF PrepareThrows
<1> QED
  BY <1>2, <1>3, <1>4, <1>5, <1>6, <1>7, <1>8, <1>9, <1>10, <1>11, <1>12, NextCases

\* A statement is executed only on a connection it was prepared on.
THEOREM PoolPrepared == Spec => []PreparedBeforeUse
<1>1. Init => StartUpInv
  BY NoneAssumption DEF Init, StartUpInv
<1>2. PlacesInv /\ StartUpInv => PreparedBeforeUse
  BY DEF PlacesInv, TypeOK, StartUpInv, PreparedBeforeUse, Holding
<1> QED
  BY <1>1, <1>2, StartUpStep, PlacesAlways, PTL DEF Spec

-----------------------------------------------------------------------------
\* The threads that will look at the deque again can be counted.
LEMMA RespondersFinite == IsFiniteSet(Responders) /\ Cardinality(Responders) \in Nat
  BY ThreadsAssumption, FS_Subset, FS_CardinalityType DEF Responders

\* One thread stops responding: Open took a connection or went to wait, or
\* notify_one found nobody.
LEMMA RespondersLeave ==
    ASSUME TypeOK, NEW t \in Responders,
           NEW to \in PCs \ {"open", "notify"}, pc' = [pc EXCEPT ![t] = to]
    PROVE  Cardinality(Responders') = Cardinality(Responders) - 1
<1>1. Responders' = Responders \ {t}
  BY DEF TypeOK, Responders
<1> QED
  BY <1>1, RespondersFinite, FS_RemoveElement

\* One thread starts responding: it called Open, woke up or returned a
\* connection.
LEMMA RespondersJoin ==
    ASSUME TypeOK, NEW t \in Threads, t \notin Responders,
           NEW to \in {"open", "notify"}, pc' = [pc EXCEPT ![t] = to]
    PROVE  Cardinality(Responders') = Cardinality(Responders) + 1
<1>1. Responders' = Responders \cup {t}
  BY DEF TypeOK, Responders
<1> QED
  BY <1>1, RespondersFinite, FS_AddElement

\* Notifying outside the lock loses no wakeup, whoever takes the connection.
THEOREM PoolNoLostWakeup == Spec => []NoLostWakeup
<1>1. Init => NoLostWakeup
  BY DEF Init, NoLostWakeup
<1>2. PlacesInv /\ NoLostWakeup /\ [Next]_vars => NoLostWakeup'
  <2> SUFFICES ASSUME PlacesInv, NoLostWakeup, [Next]_vars PROVE NoLostWakeup'
    OBVIOUS
  <2> USE DEF NoLostWakeup
  <2>1. TypeOK /\ pool \in Seq(Connections) /\ Len(pool) \in Nat
    BY LenProperties DEF PlacesInv, TypeOK
  <2>n. Cardinality(Responders) \in Nat
    BY RespondersFinite
  <2>2. ASSUME NEW s \in Statements, Prepare(s) PROVE NoLostWakeup'
    BY <2>2 DEF Prepare, Responders
  <2>3. ASSUME NEW t \in Threads, NEW s \in Statements, Call(t, s) PROVE NoLostWakeup'
    <3>1. t \notin Responders /\ pc' = [pc EXCEPT ![t] = "open"] /\ UNCHANGED <<pool, waiters>>
      BY <2>3 DEF Call, GoTo, Responders
    <3>2. Cardinality(Responders') = Cardinality(Responders) + 1
      BY <3>1, <2>1, RespondersJoin
    <3> QED
      BY <3>1, <3>2, <2>1, <2>n
  <2>4. ASSUME NEW t \in Threads, SpuriousWakeup(t) PROVE NoLostWakeup'
    <3>1. t \notin Responders /\ pc' = [pc EXCEPT ![t] = "open"] /\ pool' = pool /\ waiters # {}
      BY <2>4 DEF SpuriousWakeup, GoTo, Responders
    <3>2. Cardinality(Responders') = Cardinality(Responders) + 1
      BY <3>1, <2>1, RespondersJoin
    <3> QED
      BY <3>1, <3>2, <2>1, <2>n
  <2>5. ASSUME NEW t \in Threads, OpenTake(t) PROVE NoLostWakeup'
    <3>1. /\ t \in Responders /\ pc' = [pc EXCEPT ![t] = "rented"]
          /\ pool # <<>> /\ pool' = Tail(pool) /\ waiters' = waiters
      BY <2>5 DEF OpenTake, GoTo, Responders
    <3>2. Cardinality(Responders') = Cardinality(Responders) - 1
      BY <3>1, <2>1, RespondersLeave DEF PCs
    <3>3. Len(pool') = Len(pool) - 1
      BY <3>1, <2>1, HeadTailProperties
    <3> QED
      BY <3>1, <3>2, <3>3, <2>1, <2>n
  <2>6. ASSUME NEW t \in Threads, OpenWait(t) PROVE NoLostWakeup'
    <3>1. Len(pool') = 0
      BY <2>6, <2>1, EmptySeq DEF OpenWait
    <3>2. Cardinality(Responders') \in Nat
      <4>1. Responders' \in SUBSET Threads
        BY DEF Responders
      <4> QED
        BY <4>1, ThreadsAssumption, FS_Subset, FS_CardinalityType
    <3> QED
      BY <3>1, <3>2
  <2>7. ASSUME NEW t \in Threads, BeginWork(t) PROVE NoLostWakeup'
    <3>1. Responders' = Responders /\ UNCHANGED <<pool, waiters>>
      BY <2>1, <2>7 DEF BeginWork, GoTo, Responders, TypeOK
    <3> QED
      BY <3>1
  <2>8. ASSUME NEW t \in Threads, FinishWork(t) PROVE NoLostWakeup'
    <3>1. Responders' = Responders /\ UNCHANGED <<pool, waiters>>
      BY <2>1, <2>8 DEF FinishWork, GoTo, Responders, TypeOK
    <3> QED
      BY <3>1
  <2>9. ASSUME NEW t \in Threads, Return(t) PROVE NoLostWakeup'
    <3>1. /\ t \notin Responders /\ pc' = [pc EXCEPT ![t] = "notify"]
          /\ pool' = Append(pool, conn[t]) /\ waiters' = waiters
          /\ conn[t] \in Connections
      BY <2>1, <2>9 DEF Return, GoTo, Responders, TypeOK, Holding
    <3>2. Cardinality(Responders') = Cardinality(Responders) + 1
      BY <3>1, <2>1, RespondersJoin
    <3>3. Len(pool') = Len(pool) + 1
      BY <3>1, <2>1, AppendProperties
    <3> QED
      BY <3>1, <3>2, <3>3, <2>1, <2>n
  <2>10. ASSUME NEW t \in Threads, Notify(t) PROVE NoLostWakeup'
    <3>1. CASE waiters = {} /\ waiters' = waiters
      BY <3>1
    <3>2. CASE \E w \in waiters : pc' = [pc EXCEPT ![t] = "idle", ![w] = "open"]
      <4>1. PICK w \in waiters : pc' = [pc EXCEPT ![t] = "idle", ![w] = "open"]
        BY <3>2
      <4>2. /\ w \in Threads /\ w \notin Responders /\ t \in Responders /\ pool' = pool
        BY <2>1, <2>10 DEF Notify, TypeOK, Responders
      <4>3. Responders' = (Responders \ {t}) \cup {w}
        BY <4>1, <4>2, <2>1, <2>10 DEF Notify, TypeOK, Responders
      <4>4. /\ IsFiniteSet(Responders \ {t})
            /\ Cardinality(Responders \ {t}) = Cardinality(Responders) - 1
        BY <4>2, RespondersFinite, FS_RemoveElement
      <4>5. Cardinality(Responders') = Cardinality(Responders \ {t}) + 1
        BY <4>2, <4>3, <4>4, FS_AddElement
      <4> QED
        BY <4>2, <4>4, <4>5, <2>1, <2>n
    <3> QED
      BY <2>10, <3>1, <3>2 DEF Notify
  <2>11. CASE UNCHANGED vars
    BY <2>11 DEF vars, Responders
  <2>12. ASSUME NEW s \in Statements, NEW n, PrepareThrows(s, n) PROVE NoLostWakeup'
    BY <2>12 DEF PrepareThrows, Responders
  <2> QED
    BY <2>2, <2>3, <2>4, <2>5, <2>6, <2>7, <2>8, <2>9, <2>10, <2>11, <2>12, NextCases
<1> QED
  BY <1>1, <1>2, PlacesAlways, PTL DEF Spec

\* Blocked threads are never alone: while a call of Execute is under way, some
\* thread inside Execute is not blocked in Pool::Open.  Each of the places it can
\* be at has a step whose guard holds.
SomebodyGoesOn ==
    (\E t \in Threads : pc[t] # "idle") => \E t \in Threads : pc[t] \notin {"idle", "waiting"}

\* The callers of Pool::Open never all wait for each other, however few the
\* connections: were everybody else blocked, the deque could not be empty, and
\* a connection in it has a thread that will take it or will wake one.
THEOREM PoolNeverStuck == Spec => []SomebodyGoesOn
<1>1. PlacesInv /\ NoLostWakeup => SomebodyGoesOn
  <2> SUFFICES ASSUME PlacesInv, NoLostWakeup, NEW t \in Threads, pc[t] # "idle",
                      \A u \in Threads : pc[u] \in {"idle", "waiting"}
               PROVE  FALSE
    BY DEF SomebodyGoesOn
  <2>1. TypeOK /\ EachConnectionInOnePlace
    BY DEF PlacesInv
  <2>2. t \in waiters
    BY <2>1 DEF TypeOK
  <2>3. Responders = {}
    BY DEF Responders
  <2>4. Len(pool) = 0
    <3>1. Len(pool) <= Cardinality(Responders)
      BY <2>2 DEF NoLostWakeup
    <3>2. Len(pool) \in Nat
      BY <2>1, LenProperties DEF TypeOK
    <3> QED
      BY <3>1, <3>2, <2>3, FS_EmptySet
  <2>5. 1 \in Connections
    BY CapacityAssumption DEF Connections
  <2>6. PICK u \in Threads : conn[u] = 1
    BY <2>1, <2>4, <2>5 DEF EachConnectionInOnePlace
  <2>7. pc[u] \in Holding
    BY <2>1, <2>5, <2>6 DEF TypeOK
  <2> QED
    BY <2>7 DEF Holding
<1> QED
  BY <1>1, PlacesAlways, PoolNoLostWakeup, PTL

-----------------------------------------------------------------------------
\* The deque with its mutex and condition variable implements the rental of
\* connections: every step of the pool is a rental step or invisible.
THEOREM PoolRefinesRental == Spec => RentalSpec
<1> DEFINE Free == {pool[i] : i \in 1..Len(pool)}
<1>1. Init => Rental!Init
  BY CapacityAssumption DEF Init, Rental!Init, Connections
<1>2. PlacesInv /\ PlacesInv' /\ [Next]_vars => [Rental!Next]_(Rental!vars)
  <2> SUFFICES ASSUME PlacesInv, PlacesInv', [Next]_vars
               PROVE  Rental!Next \/ UNCHANGED Rental!vars
    OBVIOUS
  <2>1. TypeOK /\ EachConnectionInOnePlace
    BY DEF PlacesInv
  <2>2. pool \in Seq(Connections) /\ Len(pool) \in Nat
    BY <2>1, LenProperties DEF TypeOK
  <2>3. ASSUME NEW t \in Threads, OpenTake(t) PROVE Rental!Rent(t)
    <3>1. /\ pool # <<>> /\ pc[t] = "open" /\ pool' = Tail(pool)
          /\ conn' = [conn EXCEPT ![t] = Head(pool)]
      BY <2>3 DEF OpenTake, GoTo
    <3>2. /\ Len(pool) \in Nat \ {0} /\ Head(pool) = pool[1]
          /\ Len(pool') = Len(pool) - 1
          /\ \A i \in 1..Len(pool') : pool'[i] = pool[i + 1]
      BY <3>1, <2>2, HeadTailProperties, EmptySeq
    <3>3. conn[t] = NoConnection
      BY <3>1, <2>1 DEF TypeOK, Holding
    <3>4. Head(pool) \in Free
      BY <3>2
    <3>5. Free' = Free \ {Head(pool)}
      <4>1. ASSUME NEW c \in Free' PROVE c \in Free \ {Head(pool)}
        <5>1. PICK i \in 1..Len(pool') : c = pool'[i]
          BY <4>1
        <5>2. i + 1 \in 1..Len(pool) /\ c = pool[i + 1] /\ i + 1 # 1
          BY <5>1, <3>2
        <5>3. 1 \in 1..Len(pool)
          BY <3>2
        <5>4. c # pool[1]
          BY <5>2, <5>3, <2>1 DEF EachConnectionInOnePlace
        <5> QED
          BY <5>2, <5>4, <3>2
      <4>2. ASSUME NEW c \in Free \ {Head(pool)} PROVE c \in Free'
        <5>1. PICK i \in 1..Len(pool) : c = pool[i]
          BY <4>2
        <5>2. i - 1 \in 1..Len(pool') /\ c = pool'[i - 1]
          BY <5>1, <4>2, <3>2
        <5> QED
          BY <5>2
      <4> QED
        BY <4>1, <4>2
    <3> QED
      BY <3>1, <3>3, <3>4, <3>5 DEF Rental!Rent
  <2>4. ASSUME NEW t \in Threads, Return(t) PROVE Rental!GiveBack(t)
    <3>1. /\ pc[t] = "done" /\ pool' = Append(pool, conn[t])
          /\ conn' = [conn EXCEPT ![t] = NoConnection]
      BY <2>4 DEF Return, GoTo
    <3>2. conn[t] \in Connections /\ conn[t] # NoConnection
      BY <3>1, <2>1, NoneAssumption DEF TypeOK, Holding, Connections
    <3>3. /\ Len(pool') = Len(pool) + 1
          /\ \A i \in 1..Len(pool) : pool'[i] = pool[i]
          /\ pool'[Len(pool) + 1] = conn[t]
      BY <3>1, <3>2, <2>2, AppendProperties
    <3>4. Free' = Free \cup {conn[t]}
      <4>1. ASSUME NEW c \in Free' PROVE c \in Free \cup {conn[t]}
        BY <4>1, <3>3, <2>2
      <4>2. ASSUME NEW c \in Free PROVE c \in Free'
        <5>1. PICK i \in 1..Len(pool) : c = pool[i]
          BY <4>2
        <5>2. i \in 1..Len(pool') /\ c = pool'[i]
          BY <5>1, <3>3, <2>2
        <5> QED
          BY <5>2
      <4>3. conn[t] \in Free'
        <5>1. Len(pool) + 1 \in 1..Len(pool')
          BY <3>3, <2>2
        <5> QED
          BY <5>1, <3>3
      <4> QED
        BY <4>1, <4>2, <4>3
    <3> QED
      BY <3>1, <3>2, <3>4 DEF Rental!GiveBack
  <2>5. CASE UNCHANGED <<pool, conn>>
    BY <2>5 DEF Rental!vars
  <2> QED
    BY <2>3, <2>4, <2>5, NextCases
       DEF Rental!Next, Prepare, PrepareThrows, Call, SpuriousWakeup, OpenWait, BeginWork,
           FinishWork, Notify, vars
<1> QED
  BY <1>1, <1>2, PlacesAlways, PTL DEF Spec, RentalSpec, Rental!Spec
=============================================================================
