----------------------- MODULE RepositoryCacheProofs ------------------------
(***************************************************************************)
(* The safety properties of RepositoryCache for every set of users, files  *)
(* and channels and any number of commands and pushes.                     *)
(***************************************************************************)
EXTENDS RepositoryCache, SequenceTheorems, TLAPS

\* The states table r may have, and its histories.
Tables(r) == SUBSET Rows[r]
Histories(r) == Seq(Tables(r))

\* What LoadFromDB_ has read, and what Refresh_ made of it, are states the
\* table had, or nothing.
CacheInv ==
    /\ DOMAIN log = Repositories /\ DOMAIN storage = Repositories
    /\ DOMAIN version = Repositories /\ DOMAIN result = Repositories
    /\ timer \in [Repositories -> {"armed", "loaded"}]
    /\ \A r \in Repositories :
          /\ log[r] \in Histories(r) /\ log[r] # <<>>
          /\ version[r] \in 1..Now(r) /\ storage[r] \in {{}, log[r][version[r]]}
          /\ result[r][2] \in 1..Now(r) /\ result[r][1] \in {{}, log[r][result[r][2]]}

\* A command that goes on to a statement is about a file.
UserInv ==
    /\ pc \in [Users -> {"idle", "insert", "delete"}]
    /\ file \in [Users -> Files \cup {NoFile}]
    /\ \A u \in Users : pc[u] # "idle" => file[u] \in Files
    /\ commands \in [Users -> 0..MaxCommands]

\* The mutexes the push handler holds are those of the loops it is in, and the
\* loops are over copies nobody changes.
PushInv ==
    /\ push \in {"idle", "channels", "files"} /\ pushes \in 0..MaxPushes
    /\ locked \in [Repositories -> BOOLEAN]
    /\ locked["files"] <=> push = "files"
    /\ locked["channels"] <=> push # "idle"
    /\ push # "idle" => rows \subseteq storage["channels"]
    /\ push = "files" => paths \subseteq storage["files"] /\ rows # {}

Inv == CacheInv /\ UserInv /\ PushInv

-----------------------------------------------------------------------------
\* The tables only grow in history: no step changes a state a table had.
LogGrows ==
    /\ DOMAIN log' = Repositories
    /\ \A r \in Repositories :
          /\ log'[r] \in Histories(r) /\ log'[r] # <<>>
          /\ Len(log'[r]) \in Nat /\ Len(log'[r]) >= Len(log[r])
          /\ \A n \in 1..Len(log[r]) : log'[r][n] = log[r][n]

\* A history has a length, its positions hold states of the table.
LEMMA LogLength ==
    ASSUME CacheInv, NEW r \in Repositories
    PROVE  /\ Len(log[r]) \in Nat \ {0}
           /\ \A n \in 1..Len(log[r]) : log[r][n] \in Tables(r)
<1>1. log[r] \in Seq(Tables(r)) /\ log[r] # <<>>
  BY DEF CacheInv, Histories
<1> QED
  BY <1>1, EmptySeq, ElementOfSeq

\* A statement that commits, or fails, adds a state of the table or none.
LEMMA CommitGrows ==
    ASSUME CacheInv, NEW r \in Repositories, NEW t \in Tables(r), Commit(r, t)
    PROVE  LogGrows
<1>1. /\ DOMAIN log = Repositories
      /\ \A q \in Repositories : /\ log[q] \in Histories(q) /\ log[q] # <<>>
                                 /\ Len(log[q]) \in Nat
  BY LogLength DEF CacheInv
<1>2. CASE UNCHANGED log
  BY <1>1, <1>2 DEF LogGrows
<1>3. CASE log' = [log EXCEPT ![r] = Append(@, t)]
  <2>1. /\ DOMAIN log' = Repositories /\ log'[r] = Append(log[r], t)
        /\ \A q \in Repositories \ {r} : log'[q] = log[q]
    BY <1>1, <1>3
  <2>2. /\ Append(log[r], t) \in Histories(r) /\ Append(log[r], t) # <<>>
        /\ Len(Append(log[r], t)) = Len(log[r]) + 1
        /\ \A n \in 1..Len(log[r]) : Append(log[r], t)[n] = log[r][n]
    BY <1>1, AppendProperties DEF Histories
  <2>3. ASSUME NEW q \in Repositories
        PROVE  /\ log'[q] \in Histories(q) /\ log'[q] # <<>>
               /\ Len(log'[q]) \in Nat /\ Len(log'[q]) >= Len(log[q])
               /\ \A n \in 1..Len(log[q]) : log'[q][n] = log[q][n]
    <3>1. CASE q = r
      <4>1. Len(log'[r]) = Len(log[r]) + 1 /\ Len(log[r]) \in Nat
        BY <1>1, <2>1, <2>2
      <4>2. Len(log'[r]) \in Nat /\ Len(log'[r]) >= Len(log[r])
        BY <4>1
      <4>3. /\ log'[r] \in Histories(r) /\ log'[r] # <<>>
            /\ \A n \in 1..Len(log[r]) : log'[r][n] = log[r][n]
        BY <2>1, <2>2
      <4> QED
        BY <3>1, <4>2, <4>3
    <3>2. CASE q # r
      BY <1>1, <2>1, <3>2
    <3> QED
      BY <3>1, <3>2
  <2> QED
    BY <2>1, <2>3 DEF LogGrows
<1> QED
  BY <1>2, <1>3 DEF Commit

\* What was read stays a state the table had.
LEMMA CachePreserved ==
    ASSUME CacheInv, LogGrows, UNCHANGED cacheVars
    PROVE  CacheInv'
<1>1. ASSUME NEW r \in Repositories
      PROVE  /\ Len(log[r]) \in Nat /\ Len(log'[r]) \in Nat /\ Len(log[r]) <= Len(log'[r])
             /\ version[r] \in 1..Len(log'[r]) /\ storage[r] \in {{}, log'[r][version[r]]}
             /\ result[r][2] \in 1..Len(log'[r]) /\ result[r][1] \in {{}, log'[r][result[r][2]]}
  BY LogLength DEF CacheInv, LogGrows, Now
<1> QED
  BY <1>1 DEF CacheInv, LogGrows, cacheVars, Now

\* The current state of a table is the last one, and made of rows.
LEMMA TableIsLast ==
    ASSUME CacheInv, NEW r \in Repositories
    PROVE  /\ Now(r) \in Nat \ {0} /\ Table(r) = log[r][Now(r)]
           /\ Table(r) \in Tables(r)
<1>1. Len(log[r]) \in Nat \ {0}
  BY LogLength
<1>2. Len(log[r]) \in 1..Len(log[r])
  BY <1>1
<1> QED
  BY <1>1, <1>2, LogLength DEF Table, Now, Last

-----------------------------------------------------------------------------
LEMMA RepositoryInit == Init => Inv
<1> SUFFICES ASSUME Init PROVE Inv
  OBVIOUS
<1>1. ASSUME NEW r \in Repositories PROVE <<{}>> \in Histories(r)
  <2>1. {} \in Tables(r)
    BY DEF Tables
  <2> QED
    BY <2>1 DEF Histories
<1>2. Len(<<{}>>) = 1 /\ <<{}>>[1] = {} /\ <<{}>> # <<>>
  OBVIOUS
<1>3. CacheInv
  <2>1. \A r \in Repositories : /\ log[r] = <<{}>> /\ storage[r] = {} /\ version[r] = 1
                                /\ result[r] = <<{}, 1>>
    BY DEF Init
  <2>2. <<{}, 1>>[1] = {} /\ <<{}, 1>>[2] = 1
    OBVIOUS
  <2>3. /\ DOMAIN log = Repositories /\ DOMAIN storage = Repositories
        /\ DOMAIN version = Repositories /\ DOMAIN result = Repositories
        /\ timer \in [Repositories -> {"armed", "loaded"}]
    BY DEF Init
  <2>4. 1 \in 1..1
    OBVIOUS
  <2> QED
    BY <1>1, <1>2, <2>1, <2>2, <2>3, <2>4 DEF CacheInv, Now
<1>4. UserInv
  BY BoundsAssumption DEF Init, UserInv
<1>5. PushInv
  BY BoundsAssumption DEF Init, PushInv, Repositories
<1> QED
  BY <1>3, <1>4, <1>5 DEF Inv

\* Refresh_ fills the copy under the mutex, from what LoadFromDB_ returned.
LEMMA RepositoryRefresh ==
    ASSUME Inv, NEW r \in Repositories, Refresh(r)
    PROVE  Inv'
<1> USE DEF Inv
<1>1. Now(r) \in Nat \ {0} /\ Table(r) = log[r][Now(r)]
  BY TableIsLast
<1>2. CASE Load(r)
  BY <1>1, <1>2 DEF Load, CacheInv, UserInv, PushInv, userVars, pushVars, Now
<1>3. CASE LoadFails(r)
  BY <1>1, <1>3 DEF LoadFails, CacheInv, UserInv, PushInv, userVars, pushVars, Now
<1>4. CASE Fill(r)
  <2>1. CacheInv'
    BY <1>4 DEF Fill, CacheInv, Now
  <2>2. UserInv'
    BY <1>4 DEF Fill, UserInv, userVars
  <2>3. PushInv'
    BY <1>4 DEF Fill, WithMutex, CacheInv, PushInv, pushVars
  <2> QED
    BY <2>1, <2>2, <2>3
<1> QED
  BY <1>2, <1>3, <1>4 DEF Refresh

\* A command looks at the copy, then changes the table.
LEMMA RepositoryCommand ==
    ASSUME Inv, NEW u \in Users,
           \/ \E f \in Files : TrackAdd(u, f) \/ TrackRemove(u, f)
           \/ \E c \in Channels : Bind(u, c) \/ Unbind(u, c)
           \/ Command(u)
    PROVE  Inv'
<1> USE DEF Inv
<1>0. \A r \in Repositories : Now(r) \in Nat \ {0} /\ Table(r) \in Tables(r)
  BY TableIsLast
<1>1. CASE \E f \in Files : TrackAdd(u, f) \/ TrackRemove(u, f)
  <2>1. UNCHANGED <<log, cacheVars, pushVars>>
    BY <1>1 DEF TrackAdd, TrackRemove
  <2>2. UserInv'
    BY <1>1, BoundsAssumption DEF TrackAdd, TrackRemove, Start, UserInv
  <2> QED
    BY <2>1, <2>2 DEF CacheInv, PushInv, cacheVars, pushVars, Now
<1>2. ASSUME NEW c \in Channels, Bind(u, c) \/ Unbind(u, c) PROVE Inv'
  <2>1. Rows["channels"] = (Nat \ {0}) \X Channels
    BY DEF Rows
  <2>2. LogGrows
    <3>1. CASE Bind(u, c)
      <4>1. Table("channels") \cup {<<Now("channels"), c>>} \in Tables("channels")
        BY <1>0, <2>1 DEF Repositories, Tables
      <4> QED
        BY <3>1, <4>1, CommitGrows DEF Bind, Repositories
    <3>2. CASE Unbind(u, c)
      <4>1. {row \in Table("channels") : row[2] # c} \in Tables("channels")
        BY <1>0 DEF Repositories, Tables
      <4> QED
        BY <3>2, <4>1, CommitGrows DEF Unbind, Repositories
    <3> QED
      BY <1>2, <3>1, <3>2
  <2>3. UNCHANGED <<pc, file, cacheVars, pushVars>>
    BY <1>2 DEF Bind, Unbind
  <2>4. UserInv'
    BY <1>2, <2>3, BoundsAssumption DEF Bind, Unbind, Start, UserInv
  <2> QED
    BY <2>2, <2>3, <2>4, CachePreserved DEF PushInv, pushVars, cacheVars
<1>3. CASE Command(u)
  <2>1. Rows["files"] = Files
    BY DEF Rows
  <2>2. file[u] \in Files
    BY <1>3 DEF Command, InsertFile, DeleteFile, UserInv
  <2>3. LogGrows
    <3>1. /\ Table("files") \cup {file[u]} \in Tables("files")
          /\ Table("files") \ {file[u]} \in Tables("files")
      BY <1>0, <2>1, <2>2 DEF Repositories, Tables
    <3> QED
      BY <1>3, <3>1, CommitGrows DEF Command, InsertFile, DeleteFile, Repositories
  <2>4. UNCHANGED <<cacheVars, pushVars>>
    BY <1>3 DEF Command, InsertFile, DeleteFile
  <2>5. UserInv'
    BY <1>3 DEF Command, InsertFile, DeleteFile, UserInv
  <2> QED
    BY <2>3, <2>4, <2>5, CachePreserved DEF PushInv, pushVars, cacheVars
<1> QED
  BY <1>1, <1>2, <1>3

\* The push handler takes a copy's mutex before it walks it, and gives it back
\* when the walk is over or left by an exception.
LEMMA RepositoryPush ==
    ASSUME Inv, BeginChannels \/ Push \/ PushThrows
    PROVE  Inv'
<1> USE DEF Inv
<1>1. UNCHANGED <<log, cacheVars, userVars>>
  BY DEF BeginChannels, Push, PushThrows, BeginFiles, PostFile, EndFiles, EndChannels
<1>2. CacheInv' /\ UserInv'
  BY <1>1 DEF CacheInv, UserInv, cacheVars, userVars, Now
<1>3. PushInv'
  <2> USE DEF PushInv, cacheVars, Repositories
  <2>1. CASE BeginChannels
    BY <1>1, <2>1, BoundsAssumption DEF BeginChannels
  <2>2. CASE BeginFiles
    BY <1>1, <2>2 DEF BeginFiles
  <2>3. CASE \E f \in Files : PostFile(f)
    BY <1>1, <2>3 DEF PostFile
  <2>4. CASE \E row \in rows : EndFiles(row)
    BY <1>1, <2>4 DEF EndFiles
  <2>5. CASE EndChannels
    BY <1>1, <2>5 DEF EndChannels
  <2>6. CASE PushThrows
    BY <1>1, <2>6 DEF PushThrows
  <2> QED
    BY <2>1, <2>2, <2>3, <2>4, <2>5, <2>6 DEF Push
<1> QED
  BY <1>2, <1>3

LEMMA RepositoryStep == Inv /\ [Next]_vars => Inv'
<1> SUFFICES ASSUME Inv, [Next]_vars PROVE Inv'
  OBVIOUS
<1>1. CASE UNCHANGED vars
  BY <1>1 DEF vars, cacheVars, userVars, pushVars, Inv, CacheInv, UserInv, PushInv, Now
<1>2. CASE Next
  BY <1>2, RepositoryRefresh, RepositoryCommand, RepositoryPush DEF Next
<1> QED
  BY <1>1, <1>2

LEMMA RepositoryInvariant == Spec => []Inv
  BY RepositoryInit, RepositoryStep, PTL DEF Spec

\* Whatever fails, whoever writes and however the timers interleave, what the
\* readers of a caching repository see is one state of its table, or nothing.
THEOREM RepositorySnapshot == Spec => []CacheIsSnapshot
<1>1. Inv => CacheIsSnapshot
  BY DEF Inv, CacheInv, CacheIsSnapshot
<1> QED
  BY <1>1, RepositoryInvariant, PTL

\* The nested loops of the push handler walk copies that stay as they are for
\* as long as it takes Discord to answer; the state is well typed.
THEOREM RepositoryIterators == Spec => []IteratorsStayValid
<1>1. Inv => IteratorsStayValid
  <2> SUFFICES ASSUME Inv PROVE IteratorsStayValid
    OBVIOUS
  <2>1. ASSUME NEW r \in Repositories
        PROVE  /\ log[r] \in Seq(SUBSET Rows[r]) /\ storage[r] \subseteq Rows[r]
               /\ result[r][1] \subseteq Rows[r]
    <3>1. \A n \in 1..Len(log[r]) : log[r][n] \in Tables(r)
      BY LogLength DEF Inv
    <3>2. {} \in Tables(r)
      BY DEF Tables
    <3>3. storage[r] \in Tables(r) /\ result[r][1] \in Tables(r)
      BY <3>1, <3>2 DEF Inv, CacheInv, Now
    <3>4. log[r] \in Histories(r)
      BY DEF Inv, CacheInv
    <3> QED
      BY <3>3, <3>4 DEF Tables, Histories
  <2>2. locked = [r \in Repositories |-> push = "files" \/ (r = "channels" /\ push # "idle")]
    <3>1. ASSUME NEW r \in Repositories
          PROVE  locked[r] = (push = "files" \/ (r = "channels" /\ push # "idle"))
      BY DEF Inv, PushInv, Repositories
    <3> QED
      BY <3>1 DEF Inv, PushInv
  <2>3. \A r \in Repositories : result[r][2] \in 1..Now(r) /\ version[r] \in 1..Now(r)
    BY DEF Inv, CacheInv
  <2>4. /\ timer \in [Repositories -> {"armed", "loaded"}] /\ UserInv
        /\ push \in {"idle", "channels", "files"} /\ pushes \in 0..MaxPushes
    BY DEF Inv, CacheInv, PushInv
  <2>5. TypeOK
    BY <2>1, <2>2, <2>3, <2>4, Zenon DEF UserInv, TypeOK
  <2> QED
    BY <2>5 DEF Inv, PushInv, IteratorsStayValid
<1> QED
  BY <1>1, RepositoryInvariant, PTL

\* Somebody who holds a mutex of a repository can go on: it is the push handler
\* (nobody else keeps one from step to step), and one of BeginFiles, PostFile,
\* EndFiles and EndChannels has its guard.
HolderGoesOn ==
    (\E r \in Repositories : locked[r]) =>
        \/ push = "channels" /\ (rows = {} \/ WithMutex("files"))
        \/ push = "files" /\ \E f \in Files : f \in paths
        \/ push = "files" /\ paths = {} /\ rows # {}

\* The nested mutexes of the push handler (Program.cpp:252), the timers and the
\* commands cannot wait for each other in a circle: who is kept waiting waits
\* for the handler, which waits for none of them.
THEOREM RepositoryNeverStuck == Spec => []HolderGoesOn
<1>1. Inv => HolderGoesOn
  <2> SUFFICES ASSUME Inv, NEW r \in Repositories, locked[r]
               PROVE  \/ push = "channels" /\ (rows = {} \/ WithMutex("files"))
                      \/ push = "files" /\ \E f \in Files : f \in paths
                      \/ push = "files" /\ paths = {} /\ rows # {}
    BY DEF HolderGoesOn
  <2>1. push \in {"channels", "files"}
    BY DEF Inv, PushInv, Repositories
  <2>2. CASE push = "channels"
    BY <2>2 DEF Inv, PushInv, WithMutex
  <2>3. CASE push = "files"
    <3>1. storage["files"] \in Tables("files")
      <4>1. "files" \in Repositories
        BY DEF Repositories
      <4>2. \A n \in 1..Len(log["files"]) : log["files"][n] \in Tables("files")
        BY <4>1, LogLength DEF Inv
      <4>3. {} \in Tables("files")
        BY DEF Tables
      <4> QED
        BY <4>1, <4>2, <4>3 DEF Inv, CacheInv, Now
    <3>2. paths \subseteq Files /\ rows # {}
      BY <2>3, <3>1 DEF Inv, PushInv, Tables, Rows
    <3> QED
      BY <2>3, <3>2
  <2> QED
    BY <2>1, <2>2, <2>3
<1> QED
  BY <1>1, RepositoryInvariant, PTL
=============================================================================
