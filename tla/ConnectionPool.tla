--------------------------- MODULE ConnectionPool ---------------------------
(***************************************************************************)
(* backend::Pool and backend::Connection (ConnectionPool.hpp/.cpp), and    *)
(* the way PreparedStatement::Execute and ExecuteOne use them.  Each       *)
(* critical section under Pool::_mutex is one action.  Return unlocks      *)
(* before notify_one, so the notification is an action of its own and      *)
(* other threads run in between.                                           *)
(*                                                                         *)
(* The thread Main runs the constructor of Database, which prepares every  *)
(* statement on every connection.  The other threads start calling once    *)
(* that is over: the first of their 60 s refresh timers is assumed not to  *)
(* fire during start-up.  A statement the server refuses ends the program: *)
(* the exception of pqxx leaves the constructor and nobody catches it.     *)
(***************************************************************************)
EXTENDS Integers, Sequences, FiniteSets

CONSTANTS Threads,       \* threads that execute prepared statements
          Main,          \* the one that constructs the Database
          Capacity,      \* Pool::_poolCapacity (10 in the code)
          Statements,    \* the prepared statements of all repositories
          MaxCalls,      \* bound: statements each thread executes
          NoConnection, NoStatement

ASSUME ThreadsAssumption == IsFiniteSet(Threads) /\ Main \in Threads
ASSUME CapacityAssumption == Capacity \in Nat \ {0}
ASSUME MaxCallsAssumption == MaxCalls \in Nat
ASSUME NoneAssumption == NoConnection \notin Nat /\ NoStatement \notin Statements

\* The constructor opens Capacity connections; they are known by number.
Connections == 1..Capacity

VARIABLES pool,        \* Pool::_pool, the deque of connections at home
          waiters,     \* threads blocked in _condition.wait
          pc,          \* where each thread is in Execute
          conn,        \* the Connection local of Execute
          stmt,        \* the statement the thread is executing
          inWork,      \* connections with an open transaction
          prepared,    \* the statements prepared on each connection
          toPrepare,   \* statements the constructor has not prepared yet
          ended,       \* an exception has ended start-up, and the process
          calls        \* statements each thread has started

vars == <<pool, waiters, pc, conn, stmt, inWork, prepared, toPrepare, ended, calls>>

PCs == {"idle", "open", "waiting", "rented", "working", "done", "notify"}

\* Pool::Pool fills the deque.
Init == /\ pool = [i \in 1..Capacity |-> i]
        /\ waiters = {}
        /\ pc = [t \in Threads |-> "idle"]
        /\ conn = [t \in Threads |-> NoConnection]
        /\ stmt = [t \in Threads |-> NoStatement]
        /\ inWork = {}
        /\ prepared = [c \in Connections |-> {}]
        /\ toPrepare = Statements
        /\ ended = FALSE
        /\ calls = [t \in Threads |-> 0]

GoTo(t, from, to) == /\ pc[t] = from
                     /\ pc' = [pc EXCEPT ![t] = to]

-----------------------------------------------------------------------------
(* Pool::Prepare, called by the constructor of every repository.           *)

\* Mutated form of Prepare: the loop stops one connection short.
PrepareOffByOne(s) ==
    /\ ~ended /\ pc[Main] = "idle"
    /\ s \in toPrepare
    /\ prepared' = [c \in Connections |->
                      IF \E i \in 1..(Capacity - 1) : pool[i] = c
                      THEN prepared[c] \cup {s} ELSE prepared[c]]
    /\ toPrepare' = toPrepare \ {s}
    /\ UNCHANGED <<pool, waiters, pc, conn, stmt, inWork, calls, ended>>

\* The loop indexes _pool[i] for every i below the capacity.
Prepare(s) ==
    /\ ~ended /\ pc[Main] = "idle"
    /\ s \in toPrepare
    /\ prepared' = [c \in Connections |->
                      IF \E i \in 1..Capacity : pool[i] = c
                      THEN prepared[c] \cup {s} ELSE prepared[c]]
    /\ toPrepare' = toPrepare \ {s}
    /\ UNCHANGED <<pool, waiters, pc, conn, stmt, inWork, calls, ended>>

\* pqxx::connection::prepare throws, and the loop ends after n connections.
PrepareThrows(s, n) ==
    /\ ~ended /\ pc[Main] = "idle"
    /\ s \in toPrepare
    /\ prepared' = [c \in Connections |->
                      IF \E i \in 1..n : pool[i] = c
                      THEN prepared[c] \cup {s} ELSE prepared[c]]
    /\ ended' = TRUE
    /\ UNCHANGED <<pool, waiters, pc, conn, stmt, inWork, toPrepare, calls>>

-----------------------------------------------------------------------------
(* PreparedStatement::Execute and ExecuteOne.                              *)

\* A thread calls Execute.  During construction only Main does, for
\* statements it has already prepared (Repository's constructor: Prepare,
\* then Refresh_).
Call(t, s) ==
    /\ ~ended /\ calls[t] < MaxCalls
    /\ toPrepare = {} \/ t = Main
    /\ s \notin toPrepare
    /\ GoTo(t, "idle", "open")
    /\ stmt' = [stmt EXCEPT ![t] = s]
    /\ calls' = [calls EXCEPT ![t] = @ + 1]
    /\ UNCHANGED <<pool, waiters, conn, inWork, prepared, toPrepare, ended>>

\* Mutated form of OpenTake: the connection is copied, not popped.
OpenTakeNoPop(t) ==
    /\ pool # <<>>
    /\ GoTo(t, "open", "rented")
    /\ conn' = [conn EXCEPT ![t] = Head(pool)]
    /\ UNCHANGED <<pool, waiters, stmt, inWork, prepared, toPrepare, ended, calls>>

\* Pool::Open finds a connection: move the front one out and pop it.
OpenTake(t) ==
    /\ pool # <<>>
    /\ GoTo(t, "open", "rented")
    /\ conn' = [conn EXCEPT ![t] = Head(pool)]
    /\ pool' = Tail(pool)
    /\ UNCHANGED <<waiters, stmt, inWork, prepared, toPrepare, ended, calls>>

\* Pool::Open finds the deque empty and blocks.
OpenWait(t) ==
    /\ pool = <<>>
    /\ GoTo(t, "open", "waiting")
    /\ waiters' = waiters \cup {t}
    /\ UNCHANGED <<pool, conn, stmt, inWork, prepared, toPrepare, ended, calls>>

\* A wait may return without a notification; the while loop tests again.
SpuriousWakeup(t) ==
    /\ t \in waiters
    /\ GoTo(t, "waiting", "open")
    /\ waiters' = waiters \ {t}
    /\ UNCHANGED <<pool, conn, stmt, inWork, prepared, toPrepare, ended, calls>>

\* The constructor of the transaction; it throws on a broken connection, and
\* then nothing but ~Connection is left to run.
BeginWork(t) ==
    /\ \/ /\ GoTo(t, "rented", "working")
          /\ inWork' = inWork \cup {conn[t]}
       \/ /\ GoTo(t, "rented", "done")
          /\ UNCHANGED inWork
    /\ UNCHANGED <<pool, waiters, conn, stmt, prepared, toPrepare, ended, calls>>

\* Mutated form of FinishWork: the exception path leaves the transaction open.
FinishWorkNoAbort(t) ==
    /\ GoTo(t, "working", "done")
    /\ inWork' \in {inWork, inWork \ {conn[t]}}
    /\ UNCHANGED <<pool, waiters, conn, stmt, prepared, toPrepare, ended, calls>>

\* exec_prepared then commit, or abort in the catch clause: either way the
\* transaction is closed before ~Connection runs.
FinishWork(t) ==
    /\ GoTo(t, "working", "done")
    /\ inWork' = inWork \ {conn[t]}
    /\ UNCHANGED <<pool, waiters, conn, stmt, prepared, toPrepare, ended, calls>>

\* Mutated form of Return: a second Connection object owns the same handle.
ReturnTwice(t) ==
    /\ GoTo(t, "done", "notify")
    /\ pool' = pool \o <<conn[t], conn[t]>>
    /\ conn' = [conn EXCEPT ![t] = NoConnection]
    /\ UNCHANGED <<waiters, stmt, inWork, prepared, toPrepare, ended, calls>>

\* Mutated form of Return: nobody is notified.
ReturnSilently(t) ==
    /\ GoTo(t, "done", "idle")
    /\ pool' = Append(pool, conn[t])
    /\ conn' = [conn EXCEPT ![t] = NoConnection]
    /\ UNCHANGED <<waiters, stmt, inWork, prepared, toPrepare, ended, calls>>

\* ~Connection calls Pool::Return: push the connection back and unlock.
Return(t) ==
    /\ GoTo(t, "done", "notify")
    /\ pool' = Append(pool, conn[t])
    /\ conn' = [conn EXCEPT ![t] = NoConnection]
    /\ UNCHANGED <<waiters, stmt, inWork, prepared, toPrepare, ended, calls>>

\* The end of Pool::Return: notify_one wakes one waiter, or nobody when
\* nobody waits, and the call is over.
Notify(t) ==
    /\ pc[t] = "notify"
    /\ \/ /\ waiters = {}
          /\ pc' = [pc EXCEPT ![t] = "idle"]
          /\ UNCHANGED waiters
       \/ \E w \in waiters : /\ waiters' = waiters \ {w}
                             /\ pc' = [pc EXCEPT ![t] = "idle", ![w] = "open"]
    /\ stmt' = [stmt EXCEPT ![t] = NoStatement]
    /\ UNCHANGED <<pool, conn, inWork, prepared, toPrepare, ended, calls>>

\* What a thread does by itself once it has called Execute.
Step(t) == \/ OpenTake(t)  \/ OpenWait(t) \/ BeginWork(t)
           \/ FinishWork(t) \/ Return(t)  \/ Notify(t)

\* Every thread has made all the calls the bound allows, or the process is gone.
Terminating == /\ ended \/ \A t \in Threads : pc[t] = "idle" /\ calls[t] = MaxCalls
               /\ UNCHANGED vars

Next == \/ \E s \in Statements : Prepare(s)
        \/ \E s \in Statements, n \in 0..(Capacity - 1) : PrepareThrows(s, n)
        \/ \E t \in Threads : \/ \E s \in Statements : Call(t, s)
                              \/ SpuriousWakeup(t)
                              \/ Step(t)
        \/ Terminating

Spec == Init /\ [][Next]_vars

\* A thread inside Execute keeps running; nothing obliges it to call Execute.
Fairness == \A t \in Threads : WF_vars(Step(t))

FairSpec == Spec /\ Fairness

-----------------------------------------------------------------------------
(* Properties.                                                             *)

Holding == {"rented", "working", "done"}   \* pcs of a thread that rents

\* Type correctness: the deque never holds more than the capacity, a thread
\* has a connection exactly while it is between Open and ~Connection, and the
\* wait set is the set of blocked threads.
TypeOK ==
    /\ pool \in Seq(Connections) /\ Len(pool) \in 0..Capacity
    /\ pc \in [Threads -> PCs]
    /\ conn \in [Threads -> Connections \cup {NoConnection}]
    /\ \A t \in Threads : conn[t] \in Connections <=> pc[t] \in Holding
    /\ waiters = {t \in Threads : pc[t] = "waiting"}
    /\ stmt \in [Threads -> Statements \cup {NoStatement}]
    /\ \A t \in Threads : stmt[t] \in Statements <=> pc[t] # "idle"
    /\ inWork \in SUBSET Connections
    /\ prepared \in [Connections -> SUBSET Statements]
    /\ toPrepare \in SUBSET Statements /\ ended \in BOOLEAN
    /\ calls \in [Threads -> 0..MaxCalls]

\* Each connection is in exactly one place: once in the deque, or rented by
\* one thread.
EachConnectionInOnePlace ==
    /\ \A i, j \in 1..Len(pool) : pool[i] = pool[j] => i = j
    /\ \A t, u \in Threads : conn[t] = conn[u] /\ conn[t] # NoConnection => t = u
    /\ \A t \in Threads, i \in 1..Len(pool) : pool[i] # conn[t]
    /\ \A c \in Connections : \/ \E i \in 1..Len(pool) : pool[i] = c
                              \/ \E t \in Threads : conn[t] = c

\* Connections move from Open to ~Connection and back without being lost,
\* duplicated or shared.  Includes type correctness.
ConnectionsConserved == TypeOK /\ EachConnectionInOnePlace

\* A transaction is open only on the connection of the thread that works on
\* it, so Open never hands out a connection inside somebody's transaction,
\* whatever exception ended the previous one.
TransactionsEndBeforeReturn ==
    \A c \in inWork : \E t \in Threads : pc[t] = "working" /\ conn[t] = c

\* The statement a thread executes has been prepared on the very connection it
\* rented (Pool::Prepare reaches all of them; the deque rotates).
PreparedBeforeUse ==
    \A t \in Threads : pc[t] \in Holding => stmt[t] \in prepared[conn[t]]

\* Threads that will take a connection without further notification, or are
\* about to notify.
Responders == {t \in Threads : pc[t] \in {"open", "notify"}}

\* No lost wakeup: while threads are blocked in Open, every connection in the
\* deque has a thread that will take it or will wake a blocked one.  Return
\* notifies outside the lock, and a newcomer may take what was meant for the
\* notified thread.
NoLostWakeup == waiters # {} => Len(pool) <= Cardinality(Responders)

\* Every call of Execute ends: with finitely many calls, no thread stays
\* blocked in Pool::Open.
EveryCallCompletes == \A t \in Threads : pc[t] # "idle" ~> pc[t] = "idle"

\* The pool implements the rental of connections.
Rental == INSTANCE ConnectionRental
            WITH free <- {pool[i] : i \in 1..Len(pool)}, held <- conn

RentalSpec == Rental!Spec
=============================================================================
