------------------------- MODULE BuildMonitorProofs -------------------------
(***************************************************************************)
(* The safety properties of BuildMonitor for every set of products and     *)
(* regions, any number of publications, restarts and rows.                 *)
(***************************************************************************)
EXTENDS BuildMonitor, SequenceTheorems, FiniteSetTheorems, TLAPS

BuildRows == [id : Nat, product : Products, name : Products \X (1..MaxSeq),
              config : Versions, region : Regions, run : Nat, again : BOOLEAN]

Discoveries == [row : BuildRows, regions : Seq(Regions)]

\* Ribbit is ahead of what was recorded and of what is being processed.
RemoteInv ==
    /\ remoteSeq \in [Products -> 1..MaxSeq]
    /\ remoteVer \in [Products -> [Regions -> Versions]]
    /\ seq \in [Products -> 0..MaxSeq] /\ summary \in [Products -> 0..MaxSeq]
    /\ \A p \in Products : seq[p] <= remoteSeq[p] /\ summary[p] <= remoteSeq[p]

\* The timer chain is at one place, and works for a product in the listener.
MonitorInv ==
    /\ pc \in {"idle", "records", "notify", "versions", "announce", "stopped"}
    /\ pending \subseteq Products /\ todo \subseteq Regions
    /\ cur \in Products \cup {NoProduct}
    /\ cur \in Products <=> pc \in {"notify", "versions", "announce"}
    /\ pc = "versions" => versions \in [Regions -> Versions]

\* Rows are numbered; what the listener found was inserted by this process.
BuildsInv ==
    /\ IsFiniteSet(builds) /\ builds \subseteq BuildRows /\ run \in Nat
    /\ \A b \in builds : b.id <= Cardinality(builds)
    /\ newBuilds \in Seq(Discoveries) /\ next \in 1..Len(newBuilds) + 1
    /\ \A i \in 1..Len(newBuilds) : newBuilds[i].row.run = run
    /\ \A a \in announced : a[1].run = a[3]

FoundInv ==
    \A b \in builds : \/ Rows(b.name, b.region) = {b}
                      \/ \E c \in Rows(b.name, b.region) : c.again

\* The build that Ribbit serves in region r for p has a row.
Recorded(p, r) == Rows(BuildName(p, remoteVer[p][r]), r) # {}

\* A product that is caught up with, and not excused, is recorded, or the
\* listener is at work on it with what Ribbit serves.
CaughtUpInv ==
    \A p \in Aware \ excused :
        seq[p] = remoteSeq[p] =>
            \/ cur = p /\ pc = "notify"
            \/ /\ cur = p /\ pc = "versions" /\ versions = remoteVer[p]
               /\ \A r \in Regions \ todo : Recorded(p, r)
            \/ \A r \in Regions : Recorded(p, r)

Inv == RemoteInv /\ MonitorInv /\ BuildsInv /\ FoundInv /\ CaughtUpInv

-----------------------------------------------------------------------------
LEMMA MonitorInit == Init => Inv
<1> SUFFICES ASSUME Init PROVE Inv
  OBVIOUS
<1>1. <<1, 1>> \in Versions
  BY BoundsAssumption DEF Versions
<1>2. RemoteInv
  BY <1>1, BoundsAssumption DEF Init, RemoteInv
<1>3. MonitorInv
  BY ProductsAssumption DEF Init, MonitorInv
<1>4. BuildsInv
  BY FS_EmptySet, EmptySeq DEF Init, BuildsInv
<1>5. FoundInv
  BY DEF Init, FoundInv
<1>6. CaughtUpInv
  BY ProductsAssumption DEF Init, CaughtUpInv
<1> QED
  BY <1>2, <1>3, <1>4, <1>5, <1>6 DEF Inv

\* Steps that leave the tables and the listener's vector alone.
LEMMA TablesUnchanged ==
    ASSUME BuildsInv, FoundInv, UNCHANGED <<builds, newBuilds, next, announced, run>>
    PROVE  BuildsInv' /\ FoundInv'
  BY DEF BuildsInv, FoundInv, Rows

\* Ribbit publishes: whoever was caught up with is not any more.
LEMMA MonitorPublish ==
    ASSUME Inv, NEW p \in Products, NEW n \in 1..MaxSeq, NEW R \in SUBSET Regions,
           Publish(p, n, R)
    PROVE  Inv'
<1> USE DEF Inv
<1>1. /\ remoteSeq[p] < MaxSeq
      /\ remoteSeq' = [remoteSeq EXCEPT ![p] = @ + 1]
      /\ remoteVer' = [remoteVer EXCEPT ![p] =
                         [r \in Regions |-> IF r \in R THEN <<n, remoteSeq[p] + 1>> ELSE @[r]]]
      /\ UNCHANGED <<seq, builds, run, pc, summary, pending, cur, versions, todo, newBuilds,
                     next, announced, excused>>
  BY DEF Publish, dbVars, monitorVars
<1>2. remoteSeq[p] + 1 \in 1..MaxSeq
  BY <1>1, BoundsAssumption DEF RemoteInv
<1>3. remoteVer'[p] \in [Regions -> Versions]
  <2>1. <<n, remoteSeq[p] + 1>> \in Versions
    BY <1>2 DEF Versions
  <2> QED
    BY <1>1, <2>1 DEF RemoteInv
<1>4. \A q \in Products \ {p} : remoteSeq'[q] = remoteSeq[q] /\ remoteVer'[q] = remoteVer[q]
  BY <1>1 DEF RemoteInv
<1>5. remoteSeq'[p] = remoteSeq[p] + 1
  BY <1>1 DEF RemoteInv
<1>6. RemoteInv'
  <2>1. remoteSeq' \in [Products -> 1..MaxSeq] /\ remoteVer' \in [Products -> [Regions -> Versions]]
    BY <1>1, <1>2, <1>3 DEF RemoteInv
  <2>2. \A q \in Products : seq[q] <= remoteSeq'[q] /\ summary[q] <= remoteSeq'[q]
    BY <1>4, <1>5, BoundsAssumption DEF RemoteInv
  <2> QED
    BY <1>1, <2>1, <2>2 DEF RemoteInv
<1>7. MonitorInv'
  BY <1>1 DEF MonitorInv
<1>8. BuildsInv' /\ FoundInv'
  BY <1>1, TablesUnchanged
<1>9. CaughtUpInv'
  <2>1. seq[p] # remoteSeq'[p]
    BY <1>5, BoundsAssumption DEF RemoteInv
  <2>2. \A q \in Products \ {p}, r \in Regions : Recorded(q, r)' <=> Recorded(q, r)
    BY <1>1, <1>4 DEF Recorded, Rows, BuildName
  <2> QED
    BY <1>1, <1>4, <2>1, <2>2, ProductsAssumption DEF CaughtUpInv
<1> QED
  BY <1>6, <1>7, <1>8, <1>9

\* OnUpdate: the summary is no newer than Ribbit, and a sequence number is
\* committed just before the listener is called for its product.
LEMMA MonitorUpdate ==
    ASSUME Inv,
           \/ \E reply \in [Products -> 1..MaxSeq] : Poll(reply)
           \/ \E p \in Products : Unchanged(p) \/ NewSequence(p)
           \/ EndPoll
    PROVE  Inv'
<1> USE DEF Inv
<1>1. UNCHANGED <<remoteSeq, remoteVer, builds, newBuilds, next, announced, run, versions, todo,
                  excused>>
  BY DEF Poll, Unchanged, NewSequence, EndPoll, remoteVars, dbVars
<1>2. BuildsInv' /\ FoundInv'
  BY <1>1, TablesUnchanged
<1>3. \A p \in Products, r \in Regions : Recorded(p, r)' <=> Recorded(p, r)
  BY <1>1 DEF Recorded, Rows, BuildName
<1>4. \A p \in Products : ~(pc = "notify" /\ cur = p) /\ ~(pc = "versions" /\ cur = p)
  BY DEF Poll, Unchanged, NewSequence, EndPoll
<1>5. ASSUME NEW reply \in [Products -> 1..MaxSeq], Poll(reply) PROVE Inv'
  <2>1. /\ pc = "idle" /\ pc' = "records" /\ summary' = reply /\ pending' = Products
        /\ \A p \in Products : reply[p] \in {remoteSeq[p], remoteSeq[p] - 1} \ {0}
        /\ UNCHANGED <<seq, cur>>
    BY <1>5 DEF Poll, dbVars
  <2>2. RemoteInv'
    <3>1. \A p \in Products : remoteSeq[p] \in Int /\ reply[p] <= remoteSeq[p]
      BY <2>1, BoundsAssumption DEF RemoteInv
    <3> QED
      BY <1>1, <2>1, <3>1, BoundsAssumption DEF RemoteInv
  <2>3. MonitorInv'
    BY <1>1, <2>1 DEF MonitorInv
  <2>4. CaughtUpInv'
    BY <1>1, <1>3, <1>4, <2>1, ProductsAssumption DEF CaughtUpInv
  <2> QED
    BY <1>2, <2>2, <2>3, <2>4
<1>6. ASSUME NEW p \in Products, Unchanged(p) PROVE Inv'
  <2>1. pc = "records" /\ pending' = pending \ {p} /\ UNCHANGED <<seq, pc, summary, cur>>
    BY <1>6 DEF Unchanged, dbVars
  <2>2. RemoteInv' /\ MonitorInv'
    BY <1>1, <2>1 DEF RemoteInv, MonitorInv
  <2>3. CaughtUpInv'
    BY <1>1, <1>3, <1>4, <2>1, ProductsAssumption DEF CaughtUpInv
  <2> QED
    BY <1>2, <2>2, <2>3
<1>7. ASSUME NEW p \in Products, NewSequence(p) PROVE Inv'
  <2>1. /\ pc = "records" /\ pc' = "notify" /\ cur' = p /\ pending' = pending \ {p}
        /\ UNCHANGED summary
        /\ seq' = seq \/ seq' = [seq EXCEPT ![p] = summary[p]]
    BY <1>7 DEF NewSequence
  <2>2. RemoteInv'
    BY <1>1, <2>1 DEF RemoteInv
  <2>3. MonitorInv'
    BY <1>1, <2>1 DEF MonitorInv
  <2>4. \A q \in Products \ {p} : seq'[q] = seq[q]
    BY <2>1 DEF RemoteInv
  <2>5. CaughtUpInv'
    BY <1>1, <1>3, <1>4, <2>1, <2>4, ProductsAssumption DEF CaughtUpInv
  <2> QED
    BY <1>2, <2>2, <2>3, <2>5
<1>8. CASE EndPoll
  <2>1. /\ pc = "records" /\ pc' = "idle"
        /\ UNCHANGED <<seq, summary, pending, cur>>
    BY <1>8 DEF EndPoll, dbVars
  <2>2. RemoteInv' /\ MonitorInv'
    BY <1>1, <2>1 DEF RemoteInv, MonitorInv
  <2>3. CaughtUpInv'
    BY <1>1, <1>3, <1>4, <2>1, ProductsAssumption DEF CaughtUpInv
  <2> QED
    BY <1>2, <2>2, <2>3
<1> QED
  BY <1>5, <1>6, <1>7, <1>8

\* The listener gives up on a product, or on one of its versions: the product
\* is excused.  Its steps that insert nothing otherwise.
LEMMA MonitorListener ==
    ASSUME Inv,
           \/ ListenerGivesUp \/ FetchVersions
           \/ \E r \in Regions : ResolveFails(r) \/ KnownBuild(r) \/ InsertFails(r)
           \/ BeginAnnounce
    PROVE  Inv'
<1> USE DEF Inv
<1>1. UNCHANGED <<remoteSeq, remoteVer, seq, summary, builds, newBuilds, announced, run, pending>>
  BY DEF ListenerGivesUp, FetchVersions, ResolveFails, KnownBuild, InsertFails, BeginAnnounce,
         remoteVars, dbVars
<1>2. RemoteInv'
  BY <1>1 DEF RemoteInv
<1>3. BuildsInv' /\ FoundInv'
  <2>1. next' \in 1..Len(newBuilds) + 1
    <3>1. Len(newBuilds) \in Nat
      BY LenProperties DEF BuildsInv
    <3> QED
      BY <3>1 DEF ListenerGivesUp, FetchVersions, ResolveFails, KnownBuild, InsertFails,
                  BeginAnnounce, BuildsInv
  <2> QED
    BY <1>1, <2>1 DEF BuildsInv, FoundInv, Rows
<1>4. \A p \in Products, r \in Regions : Recorded(p, r)' <=> Recorded(p, r)
  BY <1>1 DEF Recorded, Rows, BuildName
<1>5. CASE ListenerGivesUp
  <2>1. pc = "notify" /\ pc' = "records" /\ cur' = NoProduct /\ excused' = excused \cup {cur}
        /\ UNCHANGED <<versions, todo>>
    BY <1>5 DEF ListenerGivesUp
  <2>2. MonitorInv'
    BY <1>1, <2>1, ProductsAssumption DEF MonitorInv
  <2>3. CaughtUpInv'
    BY <1>1, <1>4, <2>1, ProductsAssumption DEF CaughtUpInv
  <2> QED
    BY <1>2, <1>3, <2>2, <2>3
<1>6. CASE FetchVersions
  <2>1. /\ pc = "notify" /\ cur \in Aware /\ pc' = "versions" /\ versions' = remoteVer[cur]
        /\ todo' = Regions /\ excused' = excused \ {cur} /\ UNCHANGED cur
    BY <1>6 DEF FetchVersions
  <2>2. MonitorInv'
    BY <1>1, <2>1, ProductsAssumption DEF MonitorInv, RemoteInv
  <2>3. CaughtUpInv'
    BY <1>1, <1>4, <2>1, ProductsAssumption DEF CaughtUpInv
  <2> QED
    BY <1>2, <1>3, <2>2, <2>3
<1>7. ASSUME NEW r \in Regions, ResolveFails(r) \/ InsertFails(r) PROVE Inv'
  <2>1. /\ pc = "versions" /\ todo' = todo \ {r} /\ excused' = excused \cup {cur}
        /\ UNCHANGED <<pc, cur, versions>>
    BY <1>7 DEF ResolveFails, InsertFails
  <2>2. MonitorInv'
    BY <1>1, <2>1 DEF MonitorInv
  <2>3. CaughtUpInv'
    BY <1>1, <1>4, <2>1, ProductsAssumption DEF CaughtUpInv
  <2> QED
    BY <1>2, <1>3, <2>2, <2>3
<1>8. ASSUME NEW r \in Regions, KnownBuild(r) PROVE Inv'
  <2>1. /\ pc = "versions" /\ todo' = todo \ {r} /\ UNCHANGED <<pc, cur, versions, excused>>
        /\ Cardinality(Rows(BuildName(cur, versions[r]), r)) = 1
    BY <1>8 DEF KnownBuild
  <2>2. MonitorInv'
    BY <1>1, <2>1 DEF MonitorInv
  <2>3. Rows(BuildName(cur, versions[r]), r) # {}
    BY <2>1, FS_EmptySet
  <2>4. versions = remoteVer[cur] => Recorded(cur, r)
    BY <2>3 DEF Recorded
  <2>5. CaughtUpInv'
    BY <1>1, <1>4, <2>1, <2>4, ProductsAssumption DEF CaughtUpInv
  <2> QED
    BY <1>2, <1>3, <2>2, <2>5
<1>9. CASE BeginAnnounce
  <2>1. pc = "versions" /\ todo = {} /\ pc' = "announce" /\ UNCHANGED <<cur, versions, todo, excused>>
    BY <1>9 DEF BeginAnnounce
  <2>2. MonitorInv'
    BY <1>1, <2>1 DEF MonitorInv
  <2>3. CaughtUpInv'
    BY <1>1, <1>4, <2>1, ProductsAssumption DEF CaughtUpInv
  <2> QED
    BY <1>2, <1>3, <2>2, <2>3
<1> QED
  BY <1>5, <1>6, <1>7, <1>8, <1>9

\* Merge adds a discovery of this process, or a region to one.
LEMMA MergeKeeps ==
    ASSUME newBuilds \in Seq(Discoveries), NEW b \in BuildRows, b.run = run, Merge(b),
           \A i \in 1..Len(newBuilds) : newBuilds[i].row.run = run
    PROVE  /\ newBuilds' \in Seq(Discoveries)
           /\ Len(newBuilds') \in Nat /\ Len(newBuilds) \in Nat
           /\ Len(newBuilds') >= Len(newBuilds)
           /\ \A i \in 1..Len(newBuilds') : newBuilds'[i].row.run = run
<1>1. Len(newBuilds) \in Nat /\ newBuilds \in [1..Len(newBuilds) -> Discoveries]
  BY LenProperties
<1>2. b.region \in Regions
  BY DEF BuildRows
<1>3. CASE SameBuild(b) = {}
  <2> DEFINE d == [row |-> b, regions |-> <<b.region>>]
  <2>1. d \in Discoveries /\ d.row.run = run
    BY <1>2 DEF Discoveries
  <2>2. newBuilds' = Append(newBuilds, d)
    BY <1>3 DEF Merge
  <2> HIDE DEF d
  <2>3. /\ newBuilds' \in Seq(Discoveries) /\ Len(newBuilds') = Len(newBuilds) + 1
        /\ \A i \in 1..Len(newBuilds) : newBuilds'[i] = newBuilds[i]
        /\ newBuilds'[Len(newBuilds) + 1] = d
    BY <2>1, <2>2, AppendProperties
  <2>4. \A i \in 1..Len(newBuilds') : newBuilds'[i].row.run = run
    BY <1>1, <2>1, <2>3
  <2> QED
    BY <1>1, <2>3, <2>4
<1>4. CASE SameBuild(b) # {}
  <2>1. PICK k : newBuilds' = [newBuilds EXCEPT ![k].regions = Append(@, b.region)]
    BY <1>4 DEF Merge
  <2>2. \A i \in 1..Len(newBuilds) :
           newBuilds'[i] = IF i = k THEN [newBuilds[i] EXCEPT !.regions = Append(@, b.region)]
                           ELSE newBuilds[i]
    BY <1>1, <2>1
  <2>3. ASSUME NEW i \in 1..Len(newBuilds)
        PROVE  newBuilds'[i] \in Discoveries /\ newBuilds'[i].row = newBuilds[i].row
    <3>1. newBuilds[i] \in Discoveries
      BY <1>1
    <3>2. Append(newBuilds[i].regions, b.region) \in Seq(Regions)
      BY <1>2, <3>1, AppendProperties DEF Discoveries
    <3> QED
      BY <2>2, <3>1, <3>2 DEF Discoveries
  <2>4. newBuilds' \in [1..Len(newBuilds) -> Discoveries]
    BY <1>1, <2>1, <2>3
  <2>5. newBuilds' \in Seq(Discoveries) /\ Len(newBuilds') = Len(newBuilds)
    BY <1>1, <2>4, SeqDef
  <2> QED
    BY <1>1, <2>3, <2>5
<1> QED
  BY <1>3, <1>4

\* GetByBuildName found no row, or several, or failed: the row it inserts is a
\* second one only in the last two cases.
LEMMA MonitorNewBuild ==
    ASSUME Inv, NEW r \in Regions, NewBuild(r)
    PROVE  Inv'
<1> USE DEF Inv
<1> DEFINE known == Rows(BuildName(cur, versions[r]), r)
           b == Row(cur, versions[r], r, Cardinality(known) = 1)
<1>1. /\ pc = "versions" /\ r \in todo /\ builds' = builds \cup {b} /\ Merge(b)
      /\ todo' = todo \ {r}
      /\ UNCHANGED <<remoteSeq, remoteVer, seq, run, pc, summary, pending, cur, versions, next,
                     announced, excused>>
  BY DEF NewBuild, remoteVars
<1>2. /\ b.id = Cardinality(builds) + 1 /\ b.run = run /\ b.region = r
      /\ b.name = BuildName(cur, versions[r]) /\ b.again = (Cardinality(known) = 1)
  BY DEF Row
<1>3. Cardinality(builds) \in Nat /\ IsFiniteSet(builds)
  BY FS_CardinalityType DEF BuildsInv
<1>4. cur \in Products /\ versions[r] \in Versions
  BY <1>1 DEF MonitorInv
<1>5. b \in BuildRows
  <2>1. BuildName(cur, versions[r]) \in Products \X (1..MaxSeq)
    BY <1>4 DEF BuildName, Versions
  <2>2. (Cardinality(known) = 1) \in BOOLEAN
    OBVIOUS
  <2> HIDE DEF known
  <2> QED
    BY <1>3, <1>4, <2>1, <2>2 DEF Row, BuildRows, BuildsInv
<1> HIDE DEF b
<1>6. b \notin builds
  BY <1>2, <1>3 DEF BuildsInv
<1>7. IsFiniteSet(builds') /\ Cardinality(builds') = Cardinality(builds) + 1
  BY <1>1, <1>3, <1>6, FS_AddElement
<1>8. RemoteInv' /\ MonitorInv'
  BY <1>1 DEF RemoteInv, MonitorInv
<1>9. BuildsInv'
  <2>1. /\ newBuilds' \in Seq(Discoveries)
        /\ Len(newBuilds') \in Nat /\ Len(newBuilds) \in Nat /\ Len(newBuilds') >= Len(newBuilds)
        /\ \A i \in 1..Len(newBuilds') : newBuilds'[i].row.run = run
    BY <1>1, <1>2, <1>5, MergeKeeps DEF BuildsInv
  <2>2. next' \in 1..Len(newBuilds') + 1
    BY <1>1, <2>1 DEF BuildsInv
  <2>3. \A c \in builds' : c.id <= Cardinality(builds')
    <3>1. \A c \in builds : c.id \in Nat /\ c.id <= Cardinality(builds)
      BY DEF BuildsInv, BuildRows
    <3> QED
      BY <1>1, <1>2, <1>3, <1>7, <3>1
  <2> QED
    BY <1>1, <1>5, <1>7, <2>1, <2>2, <2>3 DEF BuildsInv
<1>10. \A name, q : Rows(name, q)' = IF name = b.name /\ q = b.region THEN Rows(name, q) \cup {b}
                                     ELSE Rows(name, q)
  BY <1>1 DEF Rows
<1>11. FoundInv'
  <2>0. known = Rows(b.name, b.region) /\ known \subseteq builds
    BY <1>2 DEF Rows
  <2>1. ASSUME NEW c \in builds'
        PROVE  \/ Rows(c.name, c.region)' = {c}
               \/ \E d \in Rows(c.name, c.region)' : d.again
    <3>1. CASE c.name # b.name \/ c.region # b.region
      <4>1. c \in builds
        BY <1>1, <3>1
      <4> QED
        BY <1>10, <3>1, <4>1 DEF FoundInv
    <3>2. CASE c.name = b.name /\ c.region = b.region
      <4>1. Rows(c.name, c.region)' = known \cup {b}
        BY <1>10, <2>0, <3>2
      <4>2. CASE known = {}
        <5>1. c = b
          BY <1>1, <3>2, <4>2, <2>0 DEF Rows
        <5> QED
          BY <4>1, <4>2, <5>1
      <4>3. CASE \E e : known = {e}
        <5>1. b.again
          BY <1>2, <4>3, FS_Singleton
        <5> QED
          BY <4>1, <5>1
      <4>4. CASE known # {} /\ ~\E e : known = {e}
        <5>1. PICK e \in known : TRUE
          BY <4>4
        <5>2. e \in builds /\ Rows(e.name, e.region) = known
          BY <2>0, <5>1 DEF Rows
        <5>3. \E d \in known : d.again
          BY <4>4, <5>2 DEF FoundInv
        <5> QED
          BY <4>1, <5>3
      <4> QED
        BY <4>2, <4>3, <4>4
    <3> QED
      BY <3>1, <3>2
  <2> QED
    BY <2>1 DEF FoundInv
<1>12. CaughtUpInv'
  <2>1. \A p \in Products, q \in Regions : Recorded(p, q) => Recorded(p, q)'
    BY <1>1, <1>10 DEF Recorded, BuildName
  <2>2. versions = remoteVer[cur] => Recorded(cur, r)'
    BY <1>1, <1>2, <1>10 DEF Recorded, BuildName
  <2> QED
    BY <1>1, <2>1, <2>2, ProductsAssumption DEF CaughtUpInv
<1> QED
  BY <1>8, <1>9, <1>11, <1>12

\* The discoveries of this process are announced under its number.
LEMMA MonitorAnnounce ==
    ASSUME Inv, Announce \/ AnnounceThrows \/ EndListener
    PROVE  Inv'
<1> USE DEF Inv
<1>1. /\ UNCHANGED <<remoteSeq, remoteVer, seq, summary, builds, newBuilds, run, versions, todo,
                     excused>>
      /\ pending' \in {pending, {}}
  BY DEF Announce, AnnounceThrows, EndListener, remoteVars, dbVars
<1>2. RemoteInv' /\ FoundInv'
  BY <1>1 DEF RemoteInv, FoundInv, Rows
<1>3. \A p \in Products, r \in Regions : Recorded(p, r)' <=> Recorded(p, r)
  BY <1>1 DEF Recorded, Rows, BuildName
<1>4. CASE Announce
  <2>1. /\ pc = "announce" /\ next <= Len(newBuilds) /\ next' = next + 1 /\ UNCHANGED <<pc, cur>>
        /\ announced' \in {announced, announced \cup {<<newBuilds[next].row, cur, run>>}}
    BY <1>4 DEF Announce
  <2>2. Len(newBuilds) \in Nat
    BY LenProperties DEF BuildsInv
  <2>3. next \in 1..Len(newBuilds) /\ next' \in 1..Len(newBuilds) + 1
    BY <2>1, <2>2 DEF BuildsInv
  <2>4. newBuilds[next].row.run = run
    BY <2>3 DEF BuildsInv
  <2>5. \A a \in announced' : a[1].run = a[3]
    BY <2>1, <2>4 DEF BuildsInv
  <2>6. BuildsInv'
    BY <1>1, <2>3, <2>5 DEF BuildsInv
  <2>7. MonitorInv'
    BY <1>1, <2>1 DEF MonitorInv
  <2>8. CaughtUpInv'
    BY <1>1, <1>3, <2>1, ProductsAssumption DEF CaughtUpInv
  <2> QED
    BY <1>2, <2>6, <2>7, <2>8
<1>5. CASE EndListener
  <2>1. pc = "announce" /\ pc' = "records" /\ cur' = NoProduct /\ UNCHANGED <<next, announced>>
    BY <1>5 DEF EndListener
  <2>2. BuildsInv'
    BY <1>1, <2>1 DEF BuildsInv
  <2>3. MonitorInv'
    BY <1>1, <2>1, ProductsAssumption DEF MonitorInv
  <2>4. CaughtUpInv'
    BY <1>1, <1>3, <2>1, ProductsAssumption DEF CaughtUpInv
  <2> QED
    BY <1>2, <2>2, <2>3, <2>4
<1>6. CASE AnnounceThrows
  <2>1. /\ pc = "announce" /\ next <= Len(newBuilds) /\ pc' = "stopped" /\ cur' = NoProduct
        /\ UNCHANGED next
        /\ announced' \in {announced, announced \cup {<<newBuilds[next].row, cur, run>>}}
    BY <1>6 DEF AnnounceThrows
  <2>2. Len(newBuilds) \in Nat
    BY LenProperties DEF BuildsInv
  <2>3. next \in 1..Len(newBuilds)
    BY <2>1, <2>2 DEF BuildsInv
  <2>4. \A a \in announced' : a[1].run = a[3]
    BY <2>1, <2>3 DEF BuildsInv
  <2>5. BuildsInv'
    BY <1>1, <2>1, <2>4 DEF BuildsInv
  <2>6. MonitorInv'
    BY <1>1, <2>1, ProductsAssumption DEF MonitorInv
  <2>7. CaughtUpInv'
    BY <1>1, <1>3, <2>1, ProductsAssumption DEF CaughtUpInv
  <2> QED
    BY <1>2, <2>5, <2>6, <2>7
<1> QED
  BY <1>4, <1>5, <1>6

\* The process that starts has discovered nothing; the product its predecessor
\* was working on is excused.
LEMMA MonitorRestart ==
    ASSUME Inv, Restart
    PROVE  Inv'
<1> USE DEF Inv
<1>1. /\ run' = run + 1 /\ pc' = "idle" /\ pending' = {} /\ cur' = NoProduct /\ todo' = {}
      /\ newBuilds' = <<>> /\ next' = 1
      /\ excused' = IF cur = NoProduct THEN excused ELSE excused \cup {cur}
      /\ UNCHANGED <<remoteSeq, remoteVer, seq, builds, summary, announced>>
  BY DEF Restart, remoteVars, dbVars
<1>2. RemoteInv' /\ FoundInv'
  BY <1>1 DEF RemoteInv, FoundInv, Rows
<1>3. MonitorInv'
  BY <1>1, ProductsAssumption DEF MonitorInv
<1>4. BuildsInv'
  <2>1. newBuilds' \in Seq(Discoveries) /\ Len(newBuilds') = 0 /\ run' \in Nat
    BY <1>1, EmptySeq DEF BuildsInv
  <2> QED
    BY <1>1, <2>1 DEF BuildsInv
<1>5. CaughtUpInv'
  <2>1. \A p \in Products, r \in Regions : Recorded(p, r)' <=> Recorded(p, r)
    BY <1>1 DEF Recorded, Rows, BuildName
  <2> QED
    BY <1>1, <2>1, ProductsAssumption DEF CaughtUpInv
<1> QED
  BY <1>2, <1>3, <1>4, <1>5

-----------------------------------------------------------------------------
LEMMA MonitorStep == Inv /\ [Next]_vars => Inv'
<1> SUFFICES ASSUME Inv, [Next]_vars PROVE Inv'
  OBVIOUS
<1>1. CASE Stopped \/ UNCHANGED vars
  <2>1. UNCHANGED <<remoteSeq, remoteVer, seq, builds, run, pc, summary, pending, cur, versions,
                    todo, newBuilds, next, announced, excused>>
    BY <1>1 DEF Stopped, vars, remoteVars, dbVars, monitorVars
  <2>2. RemoteInv' /\ MonitorInv' /\ BuildsInv'
    BY <2>1 DEF Inv, RemoteInv, MonitorInv, BuildsInv
  <2>3. FoundInv'
    BY <2>1 DEF Inv, FoundInv, Rows
  <2>4. CaughtUpInv'
    <3>1. \A p \in Products, r \in Regions : Recorded(p, r)' <=> Recorded(p, r)
      BY <2>1 DEF Recorded, Rows, BuildName
    <3> QED
      BY <2>1, <3>1, ProductsAssumption DEF Inv, CaughtUpInv
  <2> QED
    BY <2>2, <2>3, <2>4 DEF Inv
<1>2. CASE Next
  BY <1>1, <1>2, MonitorPublish, MonitorUpdate, MonitorListener, MonitorNewBuild, MonitorAnnounce,
     MonitorRestart DEF Next, Work
<1> QED
  BY <1>1, <1>2

LEMMA MonitorInvariant == Spec => []Inv
  BY MonitorInit, MonitorStep, PTL DEF Spec

\* The commit of the sequence number before the listener runs loses no build,
\* for any number of products and regions, unless something failed.
THEOREM MonitorCaughtUp == Spec => []CaughtUpMeansRecorded
<1>1. Inv => CaughtUpMeansRecorded
  BY ProductsAssumption DEF Inv, MonitorInv, CaughtUpInv, CaughtUpMeansRecorded, Recorded
<1> QED
  BY <1>1, MonitorInvariant, PTL

\* One row per build and region, unless a lookup failed when the row was there;
\* the state is well typed.
THEOREM MonitorFound == Spec => []RecordedBuildIsFound
<1>1. Inv => RecordedBuildIsFound
  <2> SUFFICES ASSUME Inv PROVE RecordedBuildIsFound
    OBVIOUS
  <2>1. \A b \in builds : b.product \in Products /\ b.region \in Regions /\ b.id \in Nat
    BY DEF Inv, BuildsInv, BuildRows
  <2>2. TypeOK
    BY <2>1 DEF Inv, RemoteInv, MonitorInv, BuildsInv, TypeOK
  <2> QED
    BY <2>2 DEF Inv, FoundInv, RecordedBuildIsFound
<1> QED
  BY <1>1, MonitorInvariant, PTL

\* No build is announced by another process than the one that recorded it.
THEOREM MonitorAnnouncedOnce == Spec => []AnnouncedByDiscoverer
<1>1. Inv => AnnouncedByDiscoverer
  BY DEF Inv, BuildsInv, AnnouncedByDiscoverer
<1> QED
  BY <1>1, MonitorInvariant, PTL
=============================================================================
