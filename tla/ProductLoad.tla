---------------------------- MODULE ProductLoad -----------------------------
(***************************************************************************)
(* tact::data::product::Product::Load over the files in tact::Cache: the   *)
(* configurations and manifests one after the other, then the indices of   *)
(* the archives as tasks on the executor, then the root.  Each is looked   *)
(* for on disk and otherwise downloaded over it, host after host.          *)
(*                                                                         *)
(* Loaders share the directory and nothing locks it: a file may be         *)
(* truncated, rewritten or removed while another loader writes it or has   *)
(* it mapped.  Requests fail half-way, and the process may stop at any     *)
(* point (Load is noexcept, so an exception ends it too) and start again   *)
(* on the files it left.                                                   *)
(*                                                                         *)
(* A file is a sequence of parts, each good or bad (a hole, or the text of *)
(* an error response); the CDN's has Size[f] good ones.                    *)
(***************************************************************************)
EXTENDS Integers, Sequences, FiniteSets

CONSTANTS Loaders,      \* products being loaded at the same time
          Monitor,      \* the one the Ribbit monitor loads
          PoolThreads,  \* threads that run the executor
          Configs,      \* sequence: build and CDN configuration
          Manifests,    \* sequence: encoding and install manifests
          Archives,     \* indices of the archives
          FileIndex,    \* index of the loose files: at most one
          Roots,        \* sequence: encoded forms of the root manifest
          Records,      \* records of the CDNs, which share their path
          Hosts,        \* hosts of a record
          Size,         \* parts of each file
          MaxSize,      \* bound: parts of a file
          MaxLoads      \* bound: loads of each loader

Elements(s) == {s[k] : k \in DOMAIN s}
Keyed == Elements(Manifests) \cup Elements(Roots)
Indices == Archives \cup FileIndex
Files == Elements(Configs) \cup Keyed \cup Indices
Inodes == 1..Cardinality(Loaders)

\* Places in Load: how many of the files it resolves one by one have been
\* started, then the indices, then the root.
Sequential == Configs \o Manifests
Idle == -1
InIndices == Len(Sequential) + 1
InRoot == Len(Sequential) + 2

ASSUME BoundsAssumption ==
    /\ {Records, Hosts} \subseteq Nat \ {0} /\ {PoolThreads, MaxLoads, MaxSize} \subseteq Nat
    /\ \A f \in Files : Size[f] \in 1..MaxSize

ASSUME LoadersAssumption == IsFiniteSet(Loaders) /\ Monitor \in Loaders

ASSUME SequencesAssumption ==
    /\ \A s \in {Configs, Manifests, Roots} : s \in Seq(Elements(s))
    /\ Roots # <<>> /\ Sequential # <<>>
    /\ Cardinality(FileIndex) <= 1

\* Configurations, data and indices have directories of their own, and data is
\* found by its key.
ASSUME PathsAssumption ==
    /\ Indices \cap (Elements(Sequential) \cup Elements(Roots)) = {}
    /\ Elements(Sequential) \cap Elements(Roots) = {}

VARIABLES name,    \* the directory: the inode of each file, 0 without one
          data,    \* the parts in each inode
          act,     \* <<loader, file>>: where Resolve of that file is
          stage,   \* where each loader's Load is
          loads,   \* loads started
          alive,   \* the process runs
          calm,    \* history: loaders whose current load met no failure
          hurt,    \* history: files left incomplete by a failure
          unexplained  \* history: Loads that failed although they were calm

diskVars == <<name, data>>
vars == <<diskVars, act, stage, loads, alive, unexplained, calm, hurt>>

Whole(f) == [k \in 1..Size[f] |-> "good"]
Unused == [pc |-> "none", try |-> 0, inode |-> 0, len |-> 0, pos |-> 0, res |-> "none"]

\* An earlier start may have left files whole, or stopped at any of their parts.
Init == /\ \E left \in {h \in [Files -> -1..MaxSize] : \A f \in Files : h[f] <= Size[f]} :
              /\ name = [f \in Files |-> IF left[f] < 0 THEN 0 ELSE 1]
              /\ data = [f \in Files |-> [i \in Inodes |->
                    IF i = 1 /\ left[f] > 0 THEN [k \in 1..left[f] |-> "good"] ELSE <<>>]]
              /\ hurt = {f \in Files : left[f] \in 0..(Size[f] - 1)}
        /\ act = [x \in Loaders \X Files |-> Unused]
        /\ stage = [l \in Loaders |-> Idle]
        /\ loads = [l \in Loaders |-> 0] /\ alive = TRUE
        /\ calm = Loaders /\ unexplained = {}

-----------------------------------------------------------------------------
(* The file system                                                         *)

At(x, here) == act[x].pc = here
Content(x) == data[x[2]][act[x].inode]

\* Activity x becomes a; the path is n and the inodes are d.  An inode without
\* a name goes when nobody has it open.
Becomes(x, a, n, d) ==
    LET f == x[2] IN
    /\ act' = [act EXCEPT ![x] = a]
    /\ name' = [name EXCEPT ![f] = n]
    /\ data' = [data EXCEPT ![f] = [i \in Inodes |->
          IF i = n \/ \E l \in Loaders : act'[<<l, f>>].inode = i THEN d[i] ELSE <<>>]]

\* Only the activity changes.
Moves(x, a) == Becomes(x, a, name[x[2]], data[x[2]])

\* Other loaders that are busy with the file.
Rivals(x) == {l \in Loaders \ {x[1]} : act[<<l, x[2]>>].pc \notin {"none", "done"}}

\* An inode nobody uses.
FreshInode(f) == CHOOSE i \in Inodes : i # name[f] /\ \A l \in Loaders : act[<<l, f>>].inode # i

\* Opens the file for reading and maps what it holds; an empty or missing file
\* gives a stream that is not open, which all the parsers refuse.
Mapped(x, pc) ==
    LET i == name[x[2]] IN
    [act[x] EXCEPT !.pc = pc, !.inode = i, !.len = IF i = 0 THEN 0 ELSE Len(data[x[2]][i])]

\* Mutated form of NextHost: a host that gave nothing is asked again.
NextHostAgain(x) == [act[x] EXCEPT !.pc = "connect", !.inode = 0, !.len = 0, !.pos = 0]

\* No value from this host: the next host, the next record, or nothing.
NextHost(x) ==
    LET n == act[x].try + 1
        b == [act[x] EXCEPT !.try = n, !.inode = 0, !.len = 0, !.pos = 0]
    IN IF n = Records * Hosts THEN [Unused EXCEPT !.pc = "done"]
       ELSE [b EXCEPT !.pc = IF n % Hosts = 0 THEN "look" ELSE "connect"]

\* Mutated form of Refuses: what the cache gave is returned, value or not.
RefusesCached(x) == IF At(x, "cached") THEN [Unused EXCEPT !.pc = "done"] ELSE NextHost(x)

\* No value from the cache: the first host; from a host: the next.
Refuses(x) == IF At(x, "cached") THEN [act[x] EXCEPT !.pc = "connect", !.inode = 0, !.len = 0]
              ELSE NextHost(x)

-----------------------------------------------------------------------------
(* Resolve, Cache::Resolve and FileDownloadTask, for x = <<loader, file>>  *)

Look(x) ==
    /\ At(x, "look")
    /\ Moves(x, IF name[x[2]] = 0 THEN [act[x] EXCEPT !.pc = "connect"] ELSE Mapped(x, "cached"))
    /\ UNCHANGED <<stage, loads, alive, unexplained, calm, hurt>>

\* An Index takes every open stream: without a valid footer it is empty.
ParsedIndex(f, parts) == {IF parts = Whole(f) THEN "whole" ELSE "part"}

\* Configurations carry no checksum: one that is cut short may pass.
ParsedConfig(f, parts) == IF parts = Whole(f) THEN {"whole", "none"} ELSE {"part", "none"}

\* Mutated form of Parsed: manifests are not checked against their keys.
ParsedUnkeyed(f, parts) ==
    IF parts = <<>> THEN {"none"}
    ELSE IF f \in Indices THEN ParsedIndex(f, parts)
    ELSE ParsedConfig(f, parts)

\* What a parser may make of a mapped file.  Manifests are checked against
\* their keys and the checksums of their chunks, the root against the latter
\* (which is enough for a file that is cut short); they may refuse a file for
\* reasons of their own.
Parsed(f, parts) ==
    IF parts = <<>> THEN {"none"}
    ELSE IF f \in Indices THEN ParsedIndex(f, parts)
    ELSE IF f \in Keyed THEN (IF parts = Whole(f) THEN {"whole", "none"} ELSE {"none"})
    ELSE ParsedConfig(f, parts)

\* The parser reads the mapping.  Part of a file that was truncated in the
\* meantime cannot be read: see Fault.
Parse(x) ==
    /\ act[x].pc \in {"cached", "fresh"}
    /\ act[x].len > 0 => Len(Content(x)) >= act[x].len
    /\ LET parts == IF act[x].len = 0 THEN <<>> ELSE SubSeq(Content(x), 1, act[x].len) IN
       \E r \in Parsed(x[2], parts) :
          /\ Moves(x, IF r = "none" THEN Refuses(x)
                      ELSE [Unused EXCEPT !.pc = "done", !.res = r])
          /\ calm' = IF r = "part" \/ (r = "none" /\ parts = Whole(x[2])) THEN calm \ {x[1]} ELSE calm
    /\ UNCHANGED <<stage, loads, alive, unexplained, hurt>>

\* A parser throws inside Cache::Resolve: the file is removed.
ParseThrows(x) ==
    /\ At(x, "cached") /\ act[x].len > 0 /\ Content(x) # Whole(x[2])
    /\ Becomes(x, Refuses(x), 0, data[x[2]])
    /\ calm' = calm \ Rivals(x)
    /\ hurt' = hurt \cup {x[2]}
    /\ UNCHANGED <<stage, loads, alive, unexplained>>

\* The connection, the request or the file cannot be opened.
ConnectFails(x) ==
    /\ At(x, "connect")
    /\ Moves(x, NextHost(x))
    /\ calm' = calm \ {x[1]}
    /\ UNCHANGED <<stage, loads, alive, unexplained, hurt>>

\* Initialize opens the file for writing, which empties it, before the answer
\* of the host is known.
Connect(x) ==
    /\ At(x, "connect")
    /\ LET f == x[2]
           i == IF name[f] = 0 THEN FreshInode(f) ELSE name[f]
       IN Becomes(x, [act[x] EXCEPT !.pc = "write", !.inode = i, !.pos = 0], i,
                  [data[f] EXCEPT ![i] = <<>>])
    /\ calm' = calm \ Rivals(x)
    /\ hurt' = IF Rivals(x) = {} THEN hurt \ {x[2]} ELSE hurt
    /\ UNCHANGED <<stage, loads, alive, unexplained>>

\* parts with p at position k; what was skipped reads as zeros.
PutAt(parts, k, p) ==
    [j \in 1..(IF Len(parts) < k THEN k ELSE Len(parts)) |->
        IF j = k THEN p ELSE IF j <= Len(parts) THEN parts[j] ELSE "bad"]

\* Mutated form of WritePart: the file is opened for appending.
WritePartAppends(x) ==
    /\ At(x, "write") /\ act[x].pos < Size[x[2]]
    /\ LET k == act[x].pos + 1 IN
       Becomes(x, [act[x] EXCEPT !.pos = k], name[x[2]],
               [data[x[2]] EXCEPT ![act[x].inode] =
                   Append(@, IF Len(@) + 1 = k THEN "good" ELSE "bad")])
    /\ UNCHANGED <<stage, loads, alive, unexplained, calm, hurt>>

\* The next part of the body arrives and is written where this download is.
WritePart(x) ==
    /\ At(x, "write") /\ act[x].pos < Size[x[2]]
    /\ LET k == act[x].pos + 1 IN
       Becomes(x, [act[x] EXCEPT !.pos = k], name[x[2]],
               [data[x[2]] EXCEPT ![act[x].inode] = PutAt(@, k, "good")])
    /\ UNCHANGED <<stage, loads, alive, unexplained, calm, hurt>>

\* The read ends, with the body or with an error.  Run reports the error to
\* the log and goes on: the status is 200 unless the host said otherwise, the
\* file is closed, and OpenWrite maps what is at the path by now.
EndRead(x) ==
    /\ At(x, "write")
    /\ Moves(x, Mapped(x, "fresh"))
    /\ IF act[x].pos = Size[x[2]] THEN UNCHANGED <<calm, hurt>>
       ELSE calm' = calm \ {x[1]} /\ hurt' = hurt \cup {x[2]}
    /\ UNCHANGED <<stage, loads, alive, unexplained>>

\* The host answers with an error, whose text is written as well...
ErrorStatus(x) ==
    /\ At(x, "write") /\ act[x].pos = 0
    /\ Becomes(x, [act[x] EXCEPT !.pc = "delete", !.inode = 0], name[x[2]],
               [data[x[2]] EXCEPT ![act[x].inode] = PutAt(@, 1, "bad")])
    /\ calm' = calm \ (Rivals(x) \cup {x[1]})
    /\ hurt' = hurt \cup {x[2]}
    /\ UNCHANGED <<stage, loads, alive, unexplained>>

\* ... and then whatever is at the path is removed.
Delete(x) ==
    /\ At(x, "delete")
    /\ Becomes(x, NextHost(x), 0, data[x[2]])
    /\ calm' = calm \ Rivals(x)
    /\ UNCHANGED <<stage, loads, alive, unexplained, hurt>>

Resolve(x) == \/ Look(x) \/ Parse(x) \/ ParseThrows(x) \/ ConnectFails(x) \/ Connect(x)
              \/ WritePart(x) \/ EndRead(x) \/ ErrorStatus(x) \/ Delete(x)

-----------------------------------------------------------------------------
(* Product::Load                                                           *)

\* The process ends; the files stay as they are.  Init starts the next.
Halt ==
    /\ alive /\ alive' = FALSE
    /\ act' = [x \in DOMAIN act |-> Unused]
    /\ stage' = [l \in Loaders |-> Idle]
    /\ hurt' = Files
    /\ data' = [f \in Files |-> [i \in Inodes |-> IF i = name[f] THEN data[f][i] ELSE <<>>]]
    /\ UNCHANGED <<name, loads, calm, unexplained>>

\* The parser reads a page that is no longer part of the file.
Fault(x) ==
    /\ act[x].pc \in {"cached", "fresh"} /\ act[x].len > 0 /\ Len(Content(x)) < act[x].len
    /\ Halt

\* Mutated form of RunsOnPool: commands use the executor's threads as well.
RunsOnPoolAll(l) == l \in Loaders

\* The monitor's listener runs on the executor's threads; the commands have
\* Discord's.
RunsOnPool(l) == l = Monitor

Running(x) == act[x].pc \notin {"none", "posted", "done"}
Tasks == Loaders \X Archives
Busy == Cardinality({x \in Tasks : Running(x)})
        + Cardinality({l \in Loaders : RunsOnPool(l) /\ stage[l] # Idle})

Started == [Unused EXCEPT !.pc = "look"]

\* Resolution of the next file of the sequence begins.
Goto(l, s, f) == /\ stage' = [stage EXCEPT ![l] = s]
                 /\ act' = [act EXCEPT ![<<l, f>>] = Started]
                 /\ UNCHANGED <<diskVars, loads, alive, calm, hurt, unexplained>>

\* Load returns, with what it was waiting for.
Return(l) == /\ stage' = [stage EXCEPT ![l] = Idle]
             /\ act' = [x \in DOMAIN act |-> IF x[1] = l /\ ~Running(x) THEN Unused ELSE act[x]]
             /\ calm' = calm \cup {l}
             /\ UNCHANGED <<diskVars, loads, alive, hurt>>

Blame(l) == unexplained' = unexplained \cup ({l} \cap calm)

Done(l, f) == At(<<l, f>>, "done")
Result(l, f) == act[<<l, f>>].res

\* Load is called and Ribbit gives the CDNs.
Begin(l) ==
    /\ stage[l] = Idle /\ loads[l] < MaxLoads /\ alive
    /\ RunsOnPool(l) => Busy < PoolThreads
    /\ loads' = [loads EXCEPT ![l] = @ + 1]
    /\ stage' = [stage EXCEPT ![l] = 0]
    /\ UNCHANGED <<diskVars, act, alive, calm, hurt, unexplained>>

\* Ribbit does not give them: Load returns false.
NoCDNs(l) ==
    /\ stage[l] = Idle /\ loads[l] < MaxLoads /\ alive
    /\ RunsOnPool(l) => Busy < PoolThreads
    /\ loads' = [loads EXCEPT ![l] = @ + 1]
    /\ UNCHANGED <<diskVars, act, stage, alive, calm, hurt, unexplained>>

\* One of the files could not be resolved: Load returns false.
GiveUp(l) ==
    /\ stage[l] \in DOMAIN Sequential
    /\ Done(l, Sequential[stage[l]]) /\ Result(l, Sequential[stage[l]]) = "none"
    /\ Return(l) /\ Blame(l)

\* The next configuration or manifest, when the one before it is there.
Advance(l) ==
    /\ stage[l] \in 0..(Len(Sequential) - 1)
    /\ stage[l] > 0 => /\ Done(l, Sequential[stage[l]])
                       /\ Result(l, Sequential[stage[l]]) # "none"
    /\ Goto(l, stage[l] + 1, Sequential[stage[l] + 1])

\* A task is posted for each archive; the file index is resolved right here.
PostTasks(l) ==
    /\ stage[l] = Len(Sequential)
    /\ Done(l, Sequential[stage[l]]) /\ Result(l, Sequential[stage[l]]) # "none"
    /\ stage' = [stage EXCEPT ![l] = InIndices]
    /\ act' = [x \in DOMAIN act |->
          IF x \in {l} \X FileIndex THEN Started
          ELSE IF x \in {l} \X Archives THEN [Unused EXCEPT !.pc = "posted"] ELSE act[x]]
    /\ UNCHANGED <<diskVars, loads, alive, unexplained, calm, hurt>>

\* A thread of the executor takes a task.
RunTask(x) ==
    /\ x \in Tasks /\ At(x, "posted") /\ Busy < PoolThreads
    /\ act' = [act EXCEPT ![x] = Started]
    /\ UNCHANGED <<diskVars, stage, loads, alive, unexplained, calm, hurt>>

\* Mutated form of Collect: the file index is waited for, the tasks are not.
CollectEarly(l) ==
    /\ stage[l] = InIndices
    /\ \A f \in FileIndex : Done(l, f)
    /\ stage' = [stage EXCEPT ![l] = InRoot]
    /\ UNCHANGED <<diskVars, act, loads, alive, unexplained, calm, hurt>>

\* when_all: the tasks are over, indices that are missing are left out; the
\* root is next...
Collect(l) ==
    /\ stage[l] = InIndices
    /\ \A f \in Indices : Done(l, f)
    /\ stage' = [stage EXCEPT ![l] = InRoot]
    /\ UNCHANGED <<diskVars, act, loads, alive, unexplained, calm, hurt>>

\* ... or the encoding manifest does not know the root.
NoRoot(l) ==
    /\ stage[l] = InIndices
    /\ \A f \in Indices : Done(l, f)
    /\ Return(l) /\ UNCHANGED unexplained

\* wow::Product::Load: the encoded forms of the root, until one resolves.
NextRoot(l, k) ==
    /\ stage[l] = InRoot /\ At(<<l, Roots[k]>>, "none")
    /\ \A j \in 1..(k - 1) : Done(l, Roots[j]) /\ Result(l, Roots[j]) = "none"
    /\ Goto(l, InRoot, Roots[k])

Finish(l) ==
    /\ stage[l] = InRoot
    /\ \/ /\ \E f \in Elements(Roots) : Done(l, f) /\ Result(l, f) # "none"
          /\ UNCHANGED unexplained
       \/ /\ \A f \in Elements(Roots) : Done(l, f) /\ Result(l, f) = "none"
          /\ Blame(l)
    /\ Return(l)

Load(l) == \/ GiveUp(l) \/ Advance(l) \/ PostTasks(l) \/ Collect(l) \/ NoRoot(l) \/ Finish(l)
           \/ \E k \in DOMAIN Roots : NextRoot(l, k)

\* The process may stop anywhere.
Stop == Halt

\* The bounds are reached.
Terminating == /\ \A l \in Loaders : stage[l] = Idle /\ (loads[l] = MaxLoads \/ ~alive)
               /\ UNCHANGED vars

-----------------------------------------------------------------------------
\* What the threads that are running do.
Progress == \/ \E x \in Loaders \X Files : Resolve(x) \/ Fault(x) \/ RunTask(x)
            \/ \E l \in Loaders : Load(l)

Next == \/ Progress
        \/ \E l \in Loaders : Begin(l) \/ NoCDNs(l)
        \/ Stop \/ Terminating

Spec == Init /\ [][Next]_vars

\* Threads that can run do.  Nothing obliges anybody to call Load.
FairSpec == Spec /\ WF_vars(Progress)

-----------------------------------------------------------------------------
(* Properties.                                                             *)

Activity == [pc : {"none", "posted", "look", "cached", "connect", "write", "delete", "fresh",
                   "done"},
             try : 0..(Records * Hosts - 1), inode : {0} \cup Inodes, len : 0..MaxSize,
             pos : 0..MaxSize, res : {"none", "part", "whole"}]

\* Type correctness.  A file never grows beyond the CDN's, and what is being
\* written or read has an inode.
TypeOK ==
    /\ name \in [Files -> {0} \cup Inodes]
    /\ \A f \in Files, i \in Inodes :
          data[f][i] \in Seq({"good", "bad"}) /\ Len(data[f][i]) <= Size[f]
    /\ act \in [Loaders \X Files -> Activity]
    /\ \A x \in DOMAIN act : act[x].pc = "write" \/ act[x].len > 0 => act[x].inode # 0
    /\ stage \in [Loaders -> Idle..InRoot]
    /\ loads \in [Loaders -> 0..MaxLoads] /\ alive \in BOOLEAN
    /\ calm \cup unexplained \subseteq Loaders /\ hurt \subseteq Files

\* Past its manifests a Load has read every one of them whole, whatever other
\* loaders did to the files and earlier starts left of them.  Includes type
\* correctness.
ManifestsAreWhole ==
    /\ TypeOK
    /\ \A l \in Loaders : stage[l] \in {InIndices, InRoot} =>
          \A f \in Elements(Manifests) : Result(l, f) = "whole"

\* When Load returns none of its tasks is left: they use the Product, which the
\* cache may then destroy.
TasksEndBeforeReturn ==
    \A x \in DOMAIN act : stage[x[1]] = Idle => act[x] = Unused

\* Resolve gets over what is on disk: a Load fails only if one of its own
\* requests failed, a parser refused a whole file or took an incomplete one,
\* or another loader changed a file under it.
UndisturbedLoadSucceeds == unexplained = {}

\* Downloads of one file by several loaders at once converge: when the last
\* ends the file is whole, or missing, unless one of them was cut short.
ConcurrentDownloadsConverge ==
    \A f \in Files \ hurt :
        (\A l \in Loaders : act[<<l, f>>].pc \notin {"write", "delete"})
            => name[f] = 0 \/ data[f][name[f]] = Whole(f)

\* What Load waits for is there: the guards of GiveUp, Advance and PostTasks, of
\* Collect and NoRoot, and of Finish and NextRoot.
LoadCanGoOn(l) ==
    \/ stage[l] = 0
    \/ stage[l] \in DOMAIN Sequential /\ Done(l, Sequential[stage[l]])
    \/ stage[l] = InIndices /\ \A f \in Indices : Done(l, f)
    \/ /\ stage[l] = InRoot
       /\ \/ \E f \in Elements(Roots) : Done(l, f) /\ Result(l, f) # "none"
          \/ \A f \in Elements(Roots) : Done(l, f) /\ Result(l, f) = "none"
          \/ \E k \in DOMAIN Roots :
                /\ At(<<l, Roots[k]>>, "none")
                /\ \A j \in 1..(k - 1) : Done(l, Roots[j]) /\ Result(l, Roots[j]) = "none"

\* Nobody waits for himself: a Load that was called goes on, or one of its files
\* is being resolved, or one of its tasks has a thread of the executor to run on,
\* free or busy with a task.  The monitor waits for its tasks on a thread that
\* could run them.
LoadsNeverStuck ==
    \A l \in Loaders : stage[l] # Idle =>
        \/ LoadCanGoOn(l)
        \/ \E f \in Files : Running(<<l, f>>)
        \/ /\ \E f \in Archives : At(<<l, f>>, "posted")
           /\ Busy < PoolThreads \/ \E x \in Tasks : Running(x)

\* Every Load returns, whatever fails on the way: its steps are finite in number
\* and there is always one that can be taken.
LoadsReturn == \A l \in Loaders : []<>(stage[l] = Idle)
=============================================================================
