--------------------------- MODULE RepositoryCache --------------------------
(***************************************************************************)
(* The caching repositories (backend/db/repository): a copy of a table,    *)
(* guarded by a mutex and replaced by a timer, here for tracked_files and  *)
(* bound_channels.  Users change the tables with /track and /bind, and the *)
(* push handler of Program.cpp walks both copies, one inside the other,    *)
(* with their mutexes held while it talks to Discord.                      *)
(*                                                                         *)
(* Statements are single steps (see ConnectionPool) and may fail.  A       *)
(* critical section that calls nothing slow is one step.  DELETE is the    *)
(* statement meant: as delete/Query.hpp renders it, without a space before *)
(* the name of the table, it always fails, which is one of the outcomes.   *)
(***************************************************************************)
EXTENDS Integers, Sequences, FiniteSets, SequencesExt

CONSTANTS Users,         \* concurrent runs of commands
          Files,         \* files of the product, one product for all
          Channels,      \* Discord channels
          MaxCommands,   \* bound: commands of each user
          MaxPushes,     \* bound: pushes announced
          NoFile

ASSUME BoundsAssumption == {MaxCommands, MaxPushes} \subseteq Nat

Repositories == {"files", "channels"}

VARIABLES log,       \* history: the states each table had, the last is current
          storage,   \* _storage of each repository
          version,   \* history: the state of the table storage was read from
          timer,     \* where Refresh_ is
          result,    \* the local vector of LoadFromDB_, and its version
          locked,    \* _storageMutex is held by the push handler
          pc,        \* where each user's command is
          file,      \* the file it is about
          commands,  \* commands started
          push,      \* where the push handler is
          rows,      \* what is left of the loop over bound_channels
          paths,     \* what is left of the loop over tracked_files
          pushes     \* pushes started

cacheVars == <<storage, version, timer, result>>
userVars == <<pc, file, commands>>
pushVars == <<locked, push, rows, paths, pushes>>
vars == <<log, cacheVars, userVars, pushVars>>

Table(r) == Last(log[r])
Now(r) == Len(log[r])

\* WithMutex_: a callback runs when nobody holds the mutex.
WithMutex(r) == ~locked[r]

\* Database's constructor has filled both copies.
Init == /\ log = [r \in Repositories |-> <<{}>>]
        /\ storage = [r \in Repositories |-> {}]
        /\ version = [r \in Repositories |-> 1]
        /\ timer = [r \in Repositories |-> "armed"]
        /\ result = [r \in Repositories |-> <<{}, 1>>]
        /\ pc = [u \in Users |-> "idle"]
        /\ file = [u \in Users |-> NoFile]
        /\ commands = [u \in Users |-> 0]
        /\ locked = [r \in Repositories |-> FALSE]
        /\ push = "idle" /\ rows = {} /\ paths = {} /\ pushes = 0

-----------------------------------------------------------------------------
(* Refresh_ and LoadFromDB_                                                *)

\* The timer fires and the SELECT returns the table...
Load(r) ==
    /\ timer[r] = "armed"
    /\ result' = [result EXCEPT ![r] = <<Table(r), Now(r)>>]
    /\ timer' = [timer EXCEPT ![r] = "loaded"]
    /\ UNCHANGED <<log, storage, version, userVars, pushVars>>

\* ... or fails: Execute returns an empty vector.
LoadFails(r) ==
    /\ timer[r] = "armed"
    /\ result' = [result EXCEPT ![r] = <<{}, Now(r)>>]
    /\ timer' = [timer EXCEPT ![r] = "loaded"]
    /\ UNCHANGED <<log, storage, version, userVars, pushVars>>

\* Mutated form of Fill: the old entries are not cleared.
FillNoClear(r) ==
    /\ timer[r] = "loaded" /\ ~locked[r]
    /\ storage' = [storage EXCEPT ![r] = @ \cup result[r][1]]
    /\ version' = [version EXCEPT ![r] = result[r][2]]
    /\ timer' = [timer EXCEPT ![r] = "armed"]
    /\ UNCHANGED <<log, result, userVars, pushVars>>

\* Mutated form of Fill: the mutex is not taken.
FillNoLock(r) ==
    /\ timer[r] = "loaded"
    /\ storage' = [storage EXCEPT ![r] = result[r][1]]
    /\ version' = [version EXCEPT ![r] = result[r][2]]
    /\ timer' = [timer EXCEPT ![r] = "armed"]
    /\ UNCHANGED <<log, result, userVars, pushVars>>

\* Under the mutex the copy is cleared and filled; then the timer is armed.
Fill(r) ==
    /\ timer[r] = "loaded" /\ WithMutex(r)
    /\ storage' = [storage EXCEPT ![r] = result[r][1]]
    /\ version' = [version EXCEPT ![r] = result[r][2]]
    /\ timer' = [timer EXCEPT ![r] = "armed"]
    /\ UNCHANGED <<log, result, userVars, pushVars>>

-----------------------------------------------------------------------------
(* TrackFileCommand and BindCommand, run by a thread of Discord's pool     *)

\* The statement commits, or fails and changes nothing.
Commit(r, t) == \/ log' = [log EXCEPT ![r] = Append(@, t)]
                \/ UNCHANGED log

\* Any: whether a row of the copy is one of those wanted.
AnyRow(r, wanted) == \E row \in storage[r] : row \in wanted

Start(u) == /\ pc[u] = "idle" /\ commands[u] < MaxCommands
            /\ commands' = [commands EXCEPT ![u] = @ + 1]

\* "/track add": Any looks in the copy; a file that is there is left alone.
TrackAdd(u, f) ==
    /\ Start(u) /\ WithMutex("files")
    /\ IF AnyRow("files", {f})
       THEN UNCHANGED <<pc, file>>
       ELSE pc' = [pc EXCEPT ![u] = "insert"] /\ file' = [file EXCEPT ![u] = f]
    /\ UNCHANGED <<log, cacheVars, pushVars>>

\* "/track remove": only a file that is in the copy is deleted.
TrackRemove(u, f) ==
    /\ Start(u) /\ WithMutex("files")
    /\ IF AnyRow("files", {f})
       THEN pc' = [pc EXCEPT ![u] = "delete"] /\ file' = [file EXCEPT ![u] = f]
       ELSE UNCHANGED <<pc, file>>
    /\ UNCHANGED <<log, cacheVars, pushVars>>

\* TrackedFile::Insert.  The table has a unique key: a second row is refused.
InsertFile(u) ==
    /\ pc[u] = "insert"
    /\ Commit("files", Table("files") \cup {file[u]})
    /\ pc' = [pc EXCEPT ![u] = "idle"] /\ file' = [file EXCEPT ![u] = NoFile]
    /\ UNCHANGED <<cacheVars, commands, pushVars>>

\* TrackedFile::Delete.
DeleteFile(u) ==
    /\ pc[u] = "delete"
    /\ Commit("files", Table("files") \ {file[u]})
    /\ pc' = [pc EXCEPT ![u] = "idle"] /\ file' = [file EXCEPT ![u] = NoFile]
    /\ UNCHANGED <<cacheVars, commands, pushVars>>

\* "/bind true" inserts whatever is there already; ids number the rows.
Bind(u, c) ==
    /\ Start(u)
    /\ Commit("channels", Table("channels") \cup {<<Now("channels"), c>>})
    /\ UNCHANGED <<pc, file, cacheVars, pushVars>>

\* "/bind false" deletes all the rows of the channel.
Unbind(u, c) ==
    /\ Start(u)
    /\ Commit("channels", {row \in Table("channels") : row[2] # c})
    /\ UNCHANGED <<pc, file, cacheVars, pushVars>>

-----------------------------------------------------------------------------
(* The push handler of Program.cpp                                         *)

\* boundChannels->ForEach takes the mutex for the whole loop.
BeginChannels ==
    /\ push = "idle" /\ pushes < MaxPushes
    /\ WithMutex("channels")
    /\ locked' = [locked EXCEPT !["channels"] = TRUE]
    /\ push' = "channels" /\ rows' = storage["channels"] /\ pushes' = pushes + 1
    /\ UNCHANGED <<log, cacheVars, userVars, paths>>

\* For the next row: create a thread, then trackedFiles->ForEach locks too.
BeginFiles ==
    /\ push = "channels" /\ rows # {}
    /\ WithMutex("files")
    /\ locked' = [locked EXCEPT !["files"] = TRUE]
    /\ push' = "files" /\ paths' = storage["files"]
    /\ UNCHANGED <<log, cacheVars, userVars, rows, pushes>>

\* Mutated form of PostFile: the iterator is not advanced.
PostFileAgain(f) ==
    /\ push = "files" /\ f \in paths
    /\ UNCHANGED paths
    /\ UNCHANGED <<log, cacheVars, userVars, locked, push, rows, pushes>>

\* One message per file (or none, when the build does not have the file).
PostFile(f) ==
    /\ push = "files" /\ f \in paths
    /\ paths' = paths \ {f}
    /\ UNCHANGED <<log, cacheVars, userVars, locked, push, rows, pushes>>

EndFiles(row) ==
    /\ push = "files" /\ paths = {} /\ row \in rows
    /\ locked' = [locked EXCEPT !["files"] = FALSE]
    /\ push' = "channels" /\ rows' = rows \ {row}
    /\ UNCHANGED <<log, cacheVars, userVars, paths, pushes>>

EndChannels ==
    /\ push = "channels" /\ rows = {}
    /\ locked' = [locked EXCEPT !["channels"] = FALSE]
    /\ push' = "idle"
    /\ UNCHANGED <<log, cacheVars, userVars, rows, paths, pushes>>

\* thread_create_sync, before a row's files, or message_create_sync, for one of
\* them, throws: the handler is left, and the guards of both loops unlock.
PushThrows ==
    /\ \/ push = "channels" /\ rows # {}
       \/ push = "files" /\ paths # {}
    /\ locked' = [r \in Repositories |-> FALSE]
    /\ push' = "idle" /\ rows' = {} /\ paths' = {}
    /\ UNCHANGED <<log, cacheVars, userVars, pushes>>

-----------------------------------------------------------------------------
Refresh(r) == Load(r) \/ LoadFails(r) \/ Fill(r)

Command(u) == InsertFile(u) \/ DeleteFile(u)

Push == \/ BeginFiles \/ EndChannels
        \/ \E f \in Files : PostFile(f)
        \/ \E row \in rows : EndFiles(row)

Next == \/ \E r \in Repositories : Refresh(r)
        \/ \E u \in Users : \/ \E f \in Files : TrackAdd(u, f) \/ TrackRemove(u, f)
                            \/ \E c \in Channels : Bind(u, c) \/ Unbind(u, c)
                            \/ Command(u)
        \/ BeginChannels \/ Push \/ PushThrows

Spec == Init /\ [][Next]_vars

\* The timers go on and the SELECT does not fail for ever; a loop that started
\* goes on as soon as its mutex is free.
FairSpec == /\ Spec
            /\ \A r \in Repositories : WF_vars(Refresh(r)) /\ SF_vars(Load(r))
            /\ \A u \in Users : WF_vars(Command(u))
            /\ WF_vars(Push)

-----------------------------------------------------------------------------
(* Properties.                                                             *)

\* What a row of each table is.
Rows == [files |-> Files, channels |-> (Nat \ {0}) \X Channels]

\* Type correctness.  The push handler holds tracked_files' mutex only inside
\* bound_channels' own loop.
TypeOK ==
    /\ \A r \in Repositories :
          /\ log[r] \in Seq(SUBSET Rows[r]) /\ storage[r] \subseteq Rows[r]
          /\ result[r][1] \subseteq Rows[r] /\ result[r][2] \in 1..Now(r)
          /\ version[r] \in 1..Now(r)
    /\ timer \in [Repositories -> {"armed", "loaded"}]
    /\ pc \in [Users -> {"idle", "insert", "delete"}]
    /\ file \in [Users -> Files \cup {NoFile}]
    /\ commands \in [Users -> 0..MaxCommands] /\ pushes \in 0..MaxPushes
    /\ push \in {"idle", "channels", "files"}
    /\ locked = [r \in Repositories |-> push = "files" \/ (r = "channels" /\ push # "idle")]

\* What readers see is the table as it was at one moment, or nothing after a
\* failed SELECT: never a mixture of two refreshes.
CacheIsSnapshot ==
    \A r \in Repositories : storage[r] \in {{}, log[r][version[r]]}

\* While the push handler iterates over a copy, nobody changes the copy: its
\* iterators stay valid although it waits for Discord between two steps.  Includes
\* type correctness.
IteratorsStayValid ==
    /\ TypeOK
    /\ push # "idle" => rows \subseteq storage["channels"]
    /\ push = "files" => paths \subseteq storage["files"]

\* "This may take a minute to apply": once the users are done, the copies show
\* the tables again and again, whatever was refused on a stale copy.
CacheCatchesUp == \A r \in Repositories : []<>(storage[r] = Table(r))

\* A push comes to an end, where no call of Discord has to fail for it: the
\* nested mutexes, the timers and the commands never wait in a circle.
PushesEnd == push # "idle" ~> push = "idle"
=============================================================================
