---------------------------- MODULE BuildMonitor ----------------------------
(***************************************************************************)
(* backend::RibbitMonitor and the listener Program.cpp registers with it:  *)
(* the summary is polled, sequence numbers are compared with the products  *)
(* table, and for a product that moved the listener fetches its versions,  *)
(* records the builds it did not know and announces them on Discord.       *)
(*                                                                         *)
(* Everything runs on one timer chain, one statement after the other.      *)
(* Ribbit moves on in between, requests and database statements fail, and  *)
(* the process may stop at any point and be started again.                 *)
(*                                                                         *)
(* Records of the summary that carry a flag are skipped by OnUpdate: they  *)
(* are not in Products.  The HTTP proxy is configured, since nothing is    *)
(* announced without it.                                                   *)
(***************************************************************************)
EXTENDS Integers, Sequences, FiniteSets

CONSTANTS Products,       \* products of the summary
          Aware,          \* those with a registered factory
          Regions,        \* regions a product is published in
          MaxSeq,         \* bound: publications per product
          MaxRuns,        \* bound: starts of the process
          MaxRows,        \* bound: rows of the builds table
          NoProduct

ASSUME ProductsAssumption == Aware \subseteq Products /\ NoProduct \notin Products
ASSUME BoundsAssumption == MaxRows \in Nat /\ {MaxSeq, MaxRuns} \subseteq Nat \ {0}

VARIABLES remoteSeq,   \* Ribbit: sequence number of each product
          remoteVer,   \* Ribbit: the version each region serves
          seq,         \* table products: recorded sequence, 0 without a row
          builds,      \* table builds: its rows
          run,         \* history: which start of the process this is
          pc,          \* where the monitor is
          summary,     \* the summary being processed
          pending,     \* products of the summary not yet looked at
          cur,         \* the product being processed
          versions,    \* the versions fetched for it
          todo,        \* regions of versions not yet processed
          newBuilds,   \* Program.cpp's vector of the same name
          next,        \* index of the next element to announce
          announced,   \* history: <<build row, product of the channel, run>>
          excused      \* history: products a failure or a stop made us miss

remoteVars == <<remoteSeq, remoteVer>>
dbVars == <<seq, builds>>
monitorVars == <<pc, summary, pending, cur, versions, todo, newBuilds, next>>
vars == <<remoteVars, dbVars, run, monitorVars, announced, excused>>

\* A version: the number of its build and that of its configurations.  Names
\* of builds are distinct across products.
Versions == (1..MaxSeq) \X (1..MaxSeq)
BuildName(p, v) == <<p, v[1]>>

NoVersion == <<0, 0>>

Init == /\ remoteSeq = [p \in Products |-> 1]
        /\ remoteVer = [p \in Products |-> [r \in Regions |-> <<1, 1>>]]
        /\ seq = [p \in Products |-> 0] /\ builds = {}
        /\ run = 1
        /\ pc = "idle"
        /\ summary = [p \in Products |-> 0] /\ pending = {}
        /\ cur = NoProduct
        /\ versions = [r \in Regions |-> NoVersion] /\ todo = {}
        /\ newBuilds = <<>> /\ next = 1
        /\ announced = {} /\ excused = {}

\* Ribbit publishes build n of p in some regions, under new configurations: a
\* new build or one it has published before.
Publish(p, n, R) ==
    /\ remoteSeq[p] < MaxSeq
    /\ n \in 1..(remoteSeq[p] + 1)
    /\ remoteSeq' = [remoteSeq EXCEPT ![p] = @ + 1]
    /\ remoteVer' = [remoteVer EXCEPT ![p] =
                       [r \in Regions |-> IF r \in R THEN <<n, remoteSeq[p] + 1>> ELSE @[r]]]
    /\ UNCHANGED <<dbVars, run, monitorVars, announced, excused>>

-----------------------------------------------------------------------------
(* RibbitMonitor::OnUpdate                                                 *)

\* The timer of BeginUpdate fires and the summary arrives (when it does not,
\* nothing happens until the next minute).  A reply may lag behind Ribbit.
Poll(reply) ==
    /\ pc = "idle"
    /\ \A p \in Products : reply[p] \in {remoteSeq[p], remoteSeq[p] - 1} \ {0}
    /\ pc' = "records" /\ summary' = reply /\ pending' = Products
    /\ UNCHANGED <<remoteVars, dbVars, run, cur, versions, todo, newBuilds, next,
                   announced, excused>>

\* GetByName finds the row of p, and it is not older than the summary.
Unchanged(p) ==
    /\ pc = "records" /\ p \in pending
    /\ seq[p] # 0 /\ seq[p] >= summary[p]
    /\ pending' = pending \ {p}
    /\ UNCHANGED <<remoteVars, dbVars, run, pc, summary, cur, versions, todo, newBuilds,
                   next, announced, excused>>

\* Mutated form of NewSequence: an existing row is not updated.
NewSequenceInsertOnly(p) ==
    /\ pc = "records" /\ p \in pending
    /\ \/ seq[p] = 0 /\ seq' = [seq EXCEPT ![p] = summary[p]]
       \/ UNCHANGED seq
    /\ pc' = "notify" /\ pending' = pending \ {p} /\ cur' = p
    /\ UNCHANGED <<remoteVars, builds, run, summary, versions, todo, newBuilds, next,
                   announced, excused>>

\* GetByName finds no row, or an older one: Insert or Update, then notify.
\* A statement that fails is not noticed; when the lookup itself failed on an
\* existing row, Insert fails too (names are unique) and p is notified again.
NewSequence(p) ==
    /\ pc = "records" /\ p \in pending
    /\ \/ seq[p] < summary[p] /\ seq' = [seq EXCEPT ![p] = summary[p]]
       \/ UNCHANGED seq
    /\ pc' = "notify" /\ pending' = pending \ {p} /\ cur' = p
    /\ UNCHANGED <<remoteVars, builds, run, summary, versions, todo, newBuilds, next,
                   announced, excused>>

EndPoll ==
    /\ pc = "records" /\ pending = {}
    /\ pc' = "idle"
    /\ UNCHANGED <<remoteVars, dbVars, run, summary, pending, cur, versions, todo,
                   newBuilds, next, announced, excused>>

-----------------------------------------------------------------------------
(* The listener of Program.cpp                                             *)

\* IsAwareOf says no, or Versions or CDNs cannot be fetched.
ListenerGivesUp ==
    /\ pc = "notify"
    /\ pc' = "records" /\ cur' = NoProduct
    /\ excused' = excused \cup {cur}
    /\ UNCHANGED <<remoteVars, dbVars, run, summary, pending, versions, todo, newBuilds,
                   next, announced>>

\* Versions and CDNs arrive: what Ribbit serves now.
FetchVersions ==
    /\ pc = "notify" /\ cur \in Aware
    /\ pc' = "versions" /\ versions' = remoteVer[cur] /\ todo' = Regions
    /\ excused' = excused \ {cur}
    /\ UNCHANGED <<remoteVars, dbVars, run, summary, pending, cur, newBuilds, next, announced>>

Rows(name, r) == {b \in builds : b.name = name /\ b.region = r}

\* ResolveConfiguration fails: the version is skipped.
ResolveFails(r) ==
    /\ pc = "versions" /\ r \in todo
    /\ todo' = todo \ {r}
    /\ excused' = excused \cup {cur}
    /\ UNCHANGED <<remoteVars, dbVars, run, pc, summary, pending, cur, versions, newBuilds,
                   next, announced>>

\* The element of newBuilds with the same name and configurations as row b.
SameBuild(b) == {i \in DOMAIN newBuilds : newBuilds[i].row.name = b.name
                                       /\ newBuilds[i].row.config = b.config}

\* Append row b to newBuilds, or its region to the element it belongs to.
Merge(b) ==
    newBuilds' = IF SameBuild(b) = {}
                 THEN Append(newBuilds, [row |-> b, regions |-> <<b.region>>])
                 ELSE [newBuilds EXCEPT ![CHOOSE i \in SameBuild(b) :
                                            \A j \in SameBuild(b) : i <= j].regions
                                          = Append(@, b.region)]

\* Mutated form of KnownBuild: the row found is treated as a new build.
KnownBuildAsNew(r) ==
    /\ pc = "versions" /\ r \in todo
    /\ Cardinality(Rows(BuildName(cur, versions[r]), r)) = 1
    /\ \E b \in Rows(BuildName(cur, versions[r]), r) : Merge(b)
    /\ todo' = todo \ {r}
    /\ UNCHANGED <<remoteVars, dbVars, run, pc, summary, pending, cur, versions, next,
                   announced, excused>>

\* GetByBuildName returns a row (ExecuteOne wants exactly one): nothing new.
KnownBuild(r) ==
    /\ pc = "versions" /\ r \in todo
    /\ Cardinality(Rows(BuildName(cur, versions[r]), r)) = 1
    /\ todo' = todo \ {r}
    /\ UNCHANGED <<remoteVars, dbVars, run, pc, summary, pending, cur, versions, newBuilds,
                   next, announced, excused>>

\* The row of version v of product p for region r.  The table has no unique
\* key but its id, which is the number of the row.  History: the run of the
\* process that inserted it, and whether the row was there but its lookup failed.
Row(p, v, r, again) ==
    [id |-> Cardinality(builds) + 1, product |-> p, name |-> BuildName(p, v),
     config |-> v, region |-> r, run |-> run, again |-> again]

\* Mutated form of NewBuild: rows are not looked for before inserting.
NewBuildUnchecked(r) ==
    /\ pc = "versions" /\ r \in todo /\ Cardinality(builds) < MaxRows
    /\ builds' = builds \cup {Row(cur, versions[r], r, FALSE)}
    /\ Merge(Row(cur, versions[r], r, FALSE))
    /\ todo' = todo \ {r}
    /\ UNCHANGED <<remoteVars, seq, run, pc, summary, pending, cur, versions, next,
                   announced, excused>>

\* Mutated form of NewBuild: the row is inserted in the first region only.
NewBuildFirstRegion(r) ==
    /\ pc = "versions" /\ r \in todo /\ Cardinality(builds) < MaxRows
    /\ Cardinality(Rows(BuildName(cur, versions[r]), r)) # 1
    /\ builds' = builds \cup {Row(cur, versions[r], r, FALSE)}
    /\ Merge(Row(cur, versions[r], r, FALSE))
    /\ todo' = {}
    /\ UNCHANGED <<remoteVars, seq, run, pc, summary, pending, cur, versions, next,
                   announced, excused>>

\* GetByBuildName returns nothing (there is no row, there are several, or the
\* statement failed) and Insert returns the new row.
NewBuild(r) ==
    /\ pc = "versions" /\ r \in todo /\ Cardinality(builds) < MaxRows
    /\ LET b == Row(cur, versions[r], r,
                    Cardinality(Rows(BuildName(cur, versions[r]), r)) = 1)
       IN builds' = builds \cup {b} /\ Merge(b)
    /\ todo' = todo \ {r}
    /\ UNCHANGED <<remoteVars, seq, run, pc, summary, pending, cur, versions, next,
                   announced, excused>>

\* GetByBuildName returns nothing and Insert fails: the version is skipped.
InsertFails(r) ==
    /\ pc = "versions" /\ r \in todo
    /\ todo' = todo \ {r}
    /\ excused' = excused \cup {cur}
    /\ UNCHANGED <<remoteVars, dbVars, run, pc, summary, pending, cur, versions, newBuilds,
                   next, announced>>

BeginAnnounce ==
    /\ pc = "versions" /\ todo = {}
    /\ pc' = "announce" /\ next' = 1
    /\ UNCHANGED <<remoteVars, dbVars, run, summary, pending, cur, versions, todo,
                   newBuilds, announced, excused>>

\* LoadConfiguration loads the next element of newBuilds and its handler posts
\* to the channels bound to the product being processed; or it fails.
Announce ==
    /\ pc = "announce" /\ next <= Len(newBuilds)
    /\ next' = next + 1
    /\ \/ announced' = announced \cup {<<newBuilds[next].row, cur, run>>}
       \/ UNCHANGED announced
    /\ UNCHANGED <<remoteVars, dbVars, run, pc, summary, pending, cur, versions, todo,
                   newBuilds, excused>>

\* A call of Discord throws in the handler, before or after it posted to some
\* channels: the exception leaves OnUpdate too, and BeginUpdate does not arm the
\* timer again.
AnnounceThrows ==
    /\ pc = "announce" /\ next <= Len(newBuilds)
    /\ pc' = "stopped" /\ pending' = {} /\ cur' = NoProduct
    /\ \/ announced' = announced \cup {<<newBuilds[next].row, cur, run>>}
       \/ UNCHANGED announced
    /\ UNCHANGED <<remoteVars, dbVars, run, summary, versions, todo, newBuilds, next, excused>>

\* The listener returns; newBuilds, a variable of Execute, keeps its elements.
EndListener ==
    /\ pc = "announce" /\ next > Len(newBuilds)
    /\ pc' = "records" /\ cur' = NoProduct
    /\ UNCHANGED <<remoteVars, dbVars, run, summary, pending, versions, todo, newBuilds,
                   next, announced, excused>>

\* The process stops and is started again: the tables survive.
Restart ==
    /\ run < MaxRuns
    /\ run' = run + 1
    /\ pc' = "idle" /\ pending' = {} /\ cur' = NoProduct /\ todo' = {}
    /\ newBuilds' = <<>> /\ next' = 1
    /\ excused' = IF cur = NoProduct THEN excused ELSE excused \cup {cur}
    /\ UNCHANGED <<remoteVars, dbVars, summary, versions, announced>>

\* The end of a chain that is not armed again.
Stopped == pc = "stopped" /\ UNCHANGED vars

\* What the timer chain does by itself, in one way or another.
Work == \/ \E reply \in [Products -> 1..MaxSeq] : Poll(reply)
        \/ \E p \in Products : Unchanged(p) \/ NewSequence(p)
        \/ EndPoll \/ ListenerGivesUp \/ FetchVersions
        \/ \E r \in Regions : ResolveFails(r) \/ KnownBuild(r) \/ NewBuild(r) \/ InsertFails(r)
        \/ BeginAnnounce \/ Announce \/ EndListener

Next == \/ \E p \in Products, n \in 1..MaxSeq, R \in SUBSET Regions \ {{}} : Publish(p, n, R)
        \/ Work
        \/ AnnounceThrows \/ Stopped \/ Restart

Spec == Init /\ [][Next]_vars

\* BeginUpdate arms the timer again whenever OnUpdate returned, so the chain
\* goes on until an exception ends it.  Ribbit does not lag behind for ever, and the statements on the products
\* table do not fail every time.
FairSpec == /\ Spec
            /\ WF_vars(Work)
            /\ SF_vars(Poll(remoteSeq))
            /\ \A p \in Products : SF_vars(NewSequence(p) /\ seq' # seq)

-----------------------------------------------------------------------------
(* Properties.                                                             *)

\* Type correctness.
TypeOK ==
    /\ remoteSeq \in [Products -> 1..MaxSeq]
    /\ remoteVer \in [Products -> [Regions -> Versions]]
    /\ seq \in [Products -> 0..MaxSeq]
    /\ \A b \in builds : b.product \in Products /\ b.region \in Regions /\ b.id \in Nat
    /\ pc \in {"idle", "records", "notify", "versions", "announce", "stopped"}
    /\ pending \subseteq Products /\ todo \subseteq Regions
    /\ cur \in Products <=> pc \in {"notify", "versions", "announce"}
    /\ next \in 1..Len(newBuilds) + 1

\* The monitor caught up with Ribbit on a product and nothing failed since its
\* sequence number was committed: every region's build is recorded.  The
\* commit comes first, so nothing else would bring the listener back.
CaughtUpMeansRecorded ==
    pc = "idle" =>
        \A p \in Aware \ excused :
            seq[p] = remoteSeq[p] =>
                \A r \in Regions : Rows(BuildName(p, remoteVer[p][r]), r) # {}

\* Every publication is noticed sooner or later: its sequence number, or a
\* later one, reaches the products table, or an announcement that threw has
\* ended the timer chain before.  No failed request or statement does that.
PublicationsAreNoticed ==
    \A p \in Products, s \in 1..MaxSeq :
        remoteSeq[p] >= s ~> seq[p] >= s \/ pc = "stopped"

\* GetByBuildName returns the record of a recorded build: there is one row for
\* each name and region, unless a lookup failed when the row was there.  Includes
\* type correctness.
RecordedBuildIsFound ==
    /\ TypeOK
    /\ \A b \in builds : \/ Rows(b.name, b.region) = {b}
                        \/ \E c \in Rows(b.name, b.region) : c.again

\* A build is announced only by the process that discovered it: after a
\* restart the builds already recorded are not announced again.
AnnouncedByDiscoverer == \A a \in announced : a[1].run = a[3]

\* A build is announced on the channels that track its product only.
AnnouncedOnItsChannels == \A a \in announced : a[1].product = a[2]
=============================================================================
