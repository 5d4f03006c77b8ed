-------------------------- MODULE ConnectionRental --------------------------
(***************************************************************************)
(* What backend::Pool promises its users, without its deque, its mutex or  *)
(* its condition variable: a fixed set of connections, each of which is    *)
(* either free or rented to exactly one thread.                            *)
(***************************************************************************)
CONSTANTS Threads,       \* the threads that execute statements
          Connections,   \* the connections opened by the constructor
          NoConnection   \* "this thread rents nothing"

VARIABLES free,          \* connections nobody rents
          held           \* the connection each thread rents, if any

vars == <<free, held>>

Init == /\ free = Connections
        /\ held = [t \in Threads |-> NoConnection]

\* Pool::Open returns: the thread now owns a connection that was free.
Rent(t) == /\ held[t] = NoConnection
           /\ \E c \in free : /\ held' = [held EXCEPT ![t] = c]
                              /\ free' = free \ {c}

\* ~Connection: the connection the thread owned becomes free.
GiveBack(t) == /\ held[t] # NoConnection
               /\ free' = free \cup {held[t]}
               /\ held' = [held EXCEPT ![t] = NoConnection]

Next == \E t \in Threads : Rent(t) \/ GiveBack(t)

Spec == Init /\ [][Next]_vars
=============================================================================
