------------------------- MODULE ProductLoadProofs --------------------------
(***************************************************************************)
(* The safety properties of ProductLoad for every set of loaders, every    *)
(* build and any number of loads, hosts and parts.                         *)
(***************************************************************************)
EXTENDS ProductLoad, FiniteSetTheorems, SequenceTheorems, WellFoundedInduction, TLAPS

Contents == Seq({"good", "bad"})

\* The first n parts of a file are there and good.
Good(parts, n) == \A k \in 1..n : k <= Len(parts) /\ parts[k] = "good"

Over == {"none", "done"}

\* The directory, and the counters.
DiskInv ==
    /\ name \in [Files -> {0} \cup Inodes]
    /\ data \in [Files -> [Inodes -> Contents]]
    /\ \A f \in Files, i \in Inodes : Len(data[f][i]) <= Size[f]
    /\ loads \in [Loaders -> 0..MaxLoads] /\ alive \in BOOLEAN
    /\ calm \subseteq Loaders /\ hurt \subseteq Files

\* An activity on file f: it has an inode only while it writes or reads one,
\* and a manifest it has resolved is whole.
ActOK(f, a) ==
    /\ a \in Activity
    /\ a.pos <= Size[f]
    /\ a.pc \notin {"cached", "fresh", "write"} => a.inode = 0
    /\ a.pc \notin {"cached", "fresh"} => a.len = 0
    /\ a.pc = "write" \/ a.len > 0 => a.inode # 0
    /\ a.pc # "done" => a.res = "none"
    /\ a.pc = "done" /\ f \in Keyed => a.res # "part"
    /\ a.pc = "posted" => f \in Archives

ActInv ==
    /\ act \in [Loaders \X Files -> Activity]
    /\ \A l \in Loaders, f \in Files : ActOK(f, act[<<l, f>>])

\* What loader l has resolved by now, and what it may be busy with.
Resolved(l, f) == Done(l, f) /\ Result(l, f) # "none"

StageOK(l) ==
    /\ stage[l] \in {Idle, 0} => \A f \in Files : act[<<l, f>>] = Unused
    /\ stage[l] \in 1..Len(Sequential) =>
          /\ \A f \in Files : act[<<l, f>>].pc \in Over \/ f = Sequential[stage[l]]
          /\ \A j \in 1..(stage[l] - 1) :
                Sequential[j] = Sequential[stage[l]] \/ Resolved(l, Sequential[j])
    /\ stage[l] \in {InIndices, InRoot} =>
          \A j \in 1..Len(Sequential) : Resolved(l, Sequential[j])
    /\ stage[l] = InIndices => \A f \in Files : act[<<l, f>>].pc \in Over \/ f \in Indices
    /\ stage[l] # InRoot => \A f \in Elements(Roots) : act[<<l, f>>].pc = "none"
    /\ stage[l] = InRoot => \A f \in Files : act[<<l, f>>].pc \in Over \/ f \in Elements(Roots)

\* The encoded forms of the root are tried in order, each when the ones before
\* it gave nothing.
RootsOK(l) ==
    /\ \E n \in 0..Len(Roots) : \A f \in Elements(Roots) :
          act[<<l, f>>].pc # "none" <=> \E j \in 1..n : f = Roots[j]
    /\ \A f, g \in Elements(Roots) :
          f # g /\ act[<<l, f>>].pc # "none" /\ act[<<l, g>>].pc # "none" =>
             \/ Done(l, f) /\ Result(l, f) = "none"
             \/ Done(l, g) /\ Result(l, g) = "none"

StageInv ==
    /\ stage \in [Loaders -> Idle..InRoot]
    /\ \A l \in Loaders : StageOK(l) /\ RootsOK(l)

\* What a calm load wrote is still there, under the name of the file.
CalmOK(l, f) ==
    /\ At(<<l, f>>, "write") =>
          /\ act[<<l, f>>].inode = name[f]
          /\ Good(data[f][name[f]], act[<<l, f>>].pos)
    /\ At(<<l, f>>, "fresh") =>
          /\ act[<<l, f>>].inode = name[f] /\ name[f] # 0
          /\ act[<<l, f>>].len = Size[f]
          /\ Good(data[f][name[f]], Size[f])
    /\ Done(l, f) => Result(l, f) # "none"
    /\ ~At(<<l, f>>, "delete")

CalmInv == /\ \A l \in calm, f \in Files : CalmOK(l, f)
           /\ unexplained = {}

\* Of the downloads of a file that no failure touched, one has written
\* everything up to where it is into the file at the path, or they are over.
ConvergeOK(f) ==
    /\ \A l \in Loaders : ~At(<<l, f>>, "delete")
    /\ \/ name[f] = 0
       \/ Good(data[f][name[f]], Size[f])
       \/ \E l \in Loaders : /\ At(<<l, f>>, "write") /\ act[<<l, f>>].inode = name[f]
                             /\ Good(data[f][name[f]], act[<<l, f>>].pos)

ConvergeInv == \A f \in Files \ hurt : ConvergeOK(f)

Inv == DiskInv /\ ActInv /\ StageInv /\ CalmInv /\ ConvergeInv

-----------------------------------------------------------------------------
(* Constants and operators                                                 *)

\* The files of a load, by place.
LEMMA Places ==
    /\ Sequential \in Seq(Files) /\ Len(Sequential) \in Nat \ {0}
    /\ \A j \in 1..Len(Sequential) :
          Sequential[j] \in Files \ (Indices \cup Elements(Roots))
    /\ \A f \in Elements(Manifests) : f \in Keyed /\ \E j \in 1..Len(Sequential) : f = Sequential[j]
    /\ Roots \in Seq(Elements(Roots)) /\ Len(Roots) \in Nat \ {0}
    /\ \A k \in 1..Len(Roots) : Roots[k] \in Elements(Roots)
    /\ \A f \in Elements(Roots) : \E k \in 1..Len(Roots) : f = Roots[k]
    /\ Elements(Roots) \subseteq Files \ Indices
    /\ Archives \subseteq Indices /\ FileIndex \subseteq Indices /\ Indices \subseteq Files
    /\ Keyed \subseteq Files \ Indices
<1> DEFINE C == Elements(Configs)
           M == Elements(Manifests)
           R == Elements(Roots)
<1>1. Configs \in Seq(C) /\ Manifests \in Seq(M) /\ Roots \in Seq(R)
  BY SequencesAssumption
<1>2. Files = C \cup M \cup R \cup Indices
  BY DEF Files, Keyed
<1>3. Configs \in Seq(C \cup M) /\ Manifests \in Seq(C \cup M)
  BY <1>1, SeqMonotonic
<1> HIDE DEF C, M
<1>4. /\ Sequential \in Seq(C \cup M)
      /\ Len(Sequential) = Len(Configs) + Len(Manifests)
      /\ \A j \in 1..Len(Manifests) : Sequential[Len(Configs) + j] = Manifests[j]
  BY <1>3, ConcatProperties DEF Sequential
<1>5. Len(Configs) \in Nat /\ Len(Manifests) \in Nat /\ DOMAIN Manifests = 1..Len(Manifests)
  BY <1>1, LenProperties
<1>6. Len(Sequential) \in Nat \ {0} /\ DOMAIN Sequential = 1..Len(Sequential)
  BY <1>4, LenProperties, EmptySeq, SequencesAssumption
<1>7. Len(Roots) \in Nat \ {0} /\ DOMAIN Roots = 1..Len(Roots)
  BY <1>1, LenProperties, EmptySeq, SequencesAssumption
<1>8. \A f \in M : \E j \in 1..Len(Sequential) : f = Sequential[j]
  <2> TAKE f \in M
  <2>1. PICK i \in 1..Len(Manifests) : f = Manifests[i]
    BY <1>5 DEF M, Elements
  <2>2. Len(Configs) + i \in 1..Len(Sequential) /\ f = Sequential[Len(Configs) + i]
    BY <2>1, <1>4, <1>5
  <2> QED
    BY <2>2
<1>9. Sequential \in Seq(Files)
  BY <1>4, <1>2, SeqMonotonic
<1>10. \A j \in 1..Len(Sequential) : Sequential[j] \in Elements(Sequential) /\ Sequential[j] \in C \cup M
  BY <1>4, <1>6, ElementOfSeq DEF Elements
<1>11. R \subseteq Files \ Indices /\ M \subseteq Elements(Sequential)
  BY <1>2, <1>8, <1>10, PathsAssumption
<1> QED
  BY <1>1, <1>2, <1>6, <1>7, <1>8, <1>9, <1>10, <1>11, PathsAssumption DEF Elements, Indices, Keyed, M

\* Bounds: a file has at least one part, there is a host to ask.
LEMMA Bounds ==
    /\ \A f \in Files : Size[f] \in Nat /\ Size[f] > 0 /\ Size[f] <= MaxSize
    /\ MaxSize \in Nat /\ MaxLoads \in Nat
    /\ Hosts \in Nat \ {0} /\ Records * Hosts \in Nat \ {0}
    /\ Cardinality(Loaders) \in Nat /\ Inodes \subseteq Nat \ {0}
<1>1. Cardinality(Loaders) \in Nat
  BY LoadersAssumption, FS_CardinalityType
<1>2. Records \in Nat \ {0} /\ Hosts \in Nat \ {0} /\ MaxSize \in Nat /\ MaxLoads \in Nat
  BY BoundsAssumption
<1>3. Records * Hosts \in Nat \ {0}
  BY <1>2
<1> QED
  BY <1>1, <1>2, <1>3, BoundsAssumption DEF Inodes

\* Writing a good part keeps good parts good.
LEMMA PutGood ==
    ASSUME NEW parts \in Contents, NEW n \in Nat, Len(parts) <= n, NEW k \in 1..n,
           NEW p \in {"good", "bad"}
    PROVE  /\ PutAt(parts, k, p) \in Contents /\ Len(PutAt(parts, k, p)) <= n
           /\ p = "good" => \A m \in Nat : Good(parts, m) => Good(PutAt(parts, k, p), m)
           /\ p = "good" /\ Good(parts, k - 1) => Good(PutAt(parts, k, p), k)
<1> DEFINE top == IF Len(parts) < k THEN k ELSE Len(parts)
           q == PutAt(parts, k, p)
<1>1. Len(parts) \in Nat /\ \A j \in 1..Len(parts) : parts[j] \in {"good", "bad"}
  BY LenProperties, ElementOfSeq DEF Contents
<1>2. top \in Nat /\ top <= n /\ top >= k /\ top >= Len(parts)
  BY <1>1
<1>3. q = [j \in 1..top |-> IF j = k THEN p ELSE IF j <= Len(parts) THEN parts[j] ELSE "bad"]
  BY DEF PutAt
<1> HIDE DEF top, q
<1>4. \A j \in 1..top :
         (IF j = k THEN p ELSE IF j <= Len(parts) THEN parts[j] ELSE "bad") \in {"good", "bad"}
  BY <1>1, <1>2
<1>5. q \in [1..top -> {"good", "bad"}]
  BY <1>3, <1>4
<1>6. q \in Contents /\ Len(q) = top
  BY <1>2, <1>5, SeqDef, LenProperties DEF Contents
<1>7. ASSUME p = "good", NEW m \in Nat, Good(parts, m) PROVE Good(q, m)
  BY <1>7, <1>1, <1>2, <1>3, <1>6 DEF Good
<1>8. ASSUME p = "good", Good(parts, k - 1) PROVE Good(q, k)
  BY <1>8, <1>1, <1>2, <1>3, <1>6 DEF Good
<1> QED
  BY <1>2, <1>6, <1>7, <1>8 DEF q

\* A file with all its parts good is the CDN's, and the other way round.
LEMMA GoodIsWhole ==
    ASSUME NEW f \in Files, NEW parts \in Contents, Len(parts) <= Size[f]
    PROVE  Good(parts, Size[f]) <=> parts = Whole(f)
<1>1. Len(parts) \in Nat /\ Size[f] \in Nat
  BY LenProperties, Bounds DEF Contents
<1>2. Whole(f) \in [1..Size[f] -> {"good", "bad"}]
  BY DEF Whole
<1>3. Whole(f) \in Seq({"good", "bad"}) /\ Len(Whole(f)) = Size[f]
  BY <1>1, <1>2, SeqDef, LenProperties
<1>4. ASSUME parts = Whole(f) PROVE Good(parts, Size[f])
  BY <1>4, <1>1, <1>3 DEF Good, Whole
<1>5. ASSUME Good(parts, Size[f]) PROVE parts = Whole(f)
  <2>1. Len(parts) = Size[f]
    BY <1>1, <1>5, Bounds DEF Good
  <2>2. \A k \in 1..Size[f] : parts[k] = Whole(f)[k]
    BY <1>5 DEF Good, Whole
  <2> QED
    BY <2>1, <2>2, <1>3, SeqEqual DEF Contents
<1> QED
  BY <1>4, <1>5

\* Connect finds an inode: the other loaders are fewer than the inodes.
LEMMA Fresh ==
    ASSUME DiskInv, ActInv, NEW l \in Loaders, NEW f \in Files,
           act[<<l, f>>].inode = 0, name[f] = 0
    PROVE  /\ FreshInode(f) \in Inodes
           /\ \A m \in Loaders : act[<<m, f>>].inode # FreshInode(f)
<1> DEFINE others == Loaders \ {l}
           used == {act[<<m, f>>].inode : m \in others}
           g == [m \in others |-> act[<<m, f>>].inode]
<1>1. IsFiniteSet(others) /\ Cardinality(others) = Cardinality(Loaders) - 1
  BY LoadersAssumption, FS_RemoveElement
<1>2. g \in Surjection(others, used)
  BY DEF Surjection
<1>3. IsFiniteSet(used) /\ Cardinality(used) <= Cardinality(others)
  <2> HIDE DEF g, used, others
  <2> QED
    BY <1>1, <1>2, FS_Surjection
<1>4. Cardinality(Loaders) \in Nat
  BY LoadersAssumption, FS_CardinalityType
<1>5. Cardinality(Inodes) = Cardinality(Loaders)
  <2>1. PICK n \in Nat : n = Cardinality(Loaders)
    BY <1>4
  <2>2. 1 \in Int /\ n \in Int
    OBVIOUS
  <2>3. Cardinality(1..n) = IF 1 > n THEN 0 ELSE n - 1 + 1
    BY <2>2, FS_Interval, Zenon
  <2>4. Cardinality(1..n) = n
    BY <2>3
  <2> QED
    BY <2>1, <2>4 DEF Inodes
<1>6. ~ (Inodes \subseteq used)
  <2> SUFFICES ASSUME Inodes \subseteq used PROVE FALSE
    OBVIOUS
  <2> HIDE DEF used, others
  <2>1. Cardinality(Inodes) <= Cardinality(used) /\ Cardinality(used) \in Nat
    BY <1>3, FS_Subset, FS_CardinalityType
  <2> QED
    BY <2>1, <1>1, <1>3, <1>4, <1>5
<1>7. PICK i \in Inodes : i \notin used
  BY <1>6
<1>8. i # name[f] /\ \A m \in Loaders : act[<<m, f>>].inode # i
  <2>1. i # 0
    BY Bounds
  <2> QED
    BY <2>1, <1>7
<1> QED
  BY <1>8 DEF FreshInode

-----------------------------------------------------------------------------
(* What a step of Resolve does, for a loader and a file                    *)

\* The file is still at its path, and what was good of it still is.
KeepsGood(f) ==
    /\ name'[f] = name[f]
    /\ name[f] # 0 => \A m \in Nat : Good(data[f][name[f]], m) => Good(data'[f][name[f]], m)

\* Only the activity of <<l, f>>, file f and its history change; l then does a.
Local(l, f, a) ==
    /\ ActInv' /\ DiskInv'
    /\ act'[<<l, f>>] = a
    /\ \A m \in Loaders, g \in Files : m # l \/ g # f => act'[<<m, g>>] = act[<<m, g>>]
    /\ \A g \in Files \ {f} : name'[g] = name[g] /\ data'[g] = data[g] /\ (g \in hurt' <=> g \in hurt)

\* A step of Resolve: who is still calm was not disturbed by it.
StepOK(l, f, a) ==
    /\ Local(l, f, a)
    /\ act[<<l, f>>].pc \notin {"none", "posted", "done"} /\ a.pc \notin {"none", "posted"}
    /\ stage' = stage /\ unexplained' = unexplained
    /\ calm' \subseteq calm
    /\ KeepsGood(f) \/ calm' \cap Rivals(<<l, f>>) = {}
    /\ l \in calm' => CalmOK(l, f)'
    /\ f \notin hurt' => ConvergeOK(f)'

\* What Becomes does to the directory.
LEMMA BecomesEffect ==
    ASSUME DiskInv, ActInv, NEW l \in Loaders, NEW f \in Files, NEW a, ActOK(f, a),
           NEW n \in {0} \cup Inodes, NEW d \in [Inodes -> Contents],
           \A i \in Inodes : Len(d[i]) <= Size[f],
           Becomes(<<l, f>>, a, n, d),
           loads' = loads, alive' = alive, calm' \subseteq calm, hurt' \subseteq hurt \cup {f},
           hurt \subseteq hurt' \cup {f}
    PROVE  /\ Local(l, f, a)
           /\ name'[f] = n
           /\ n # 0 => data'[f][n] = d[n]
<1> DEFINE D == [i \in Inodes |->
                   IF i = n \/ \E m \in Loaders : act'[<<m, f>>].inode = i THEN d[i] ELSE <<>>]
<1>1. /\ act' = [act EXCEPT ![<<l, f>>] = a] /\ name' = [name EXCEPT ![f] = n]
      /\ data' = [data EXCEPT ![f] = D]
  BY DEF Becomes
<1>2. D \in [Inodes -> Contents] /\ \A i \in Inodes : Len(D[i]) <= Size[f]
  <2>1. <<>> \in Contents /\ Len(<<>>) <= Size[f]
    BY EmptySeq, Bounds DEF Contents
  <2> QED
    BY <2>1
<1>3. n # 0 => D[n] = d[n]
  OBVIOUS
<1> HIDE DEF D
<1>4. name \in [Files -> {0} \cup Inodes] /\ data \in [Files -> [Inodes -> Contents]]
  BY DEF DiskInv
<1>5. name' \in [Files -> {0} \cup Inodes] /\ data' \in [Files -> [Inodes -> Contents]]
  BY <1>1, <1>2, <1>4
<1>6. /\ name'[f] = n /\ data'[f] = D
      /\ \A g \in Files \ {f} : name'[g] = name[g] /\ data'[g] = data[g]
  BY <1>1, <1>4
<1>7. DiskInv'
  BY <1>2, <1>5, <1>6 DEF DiskInv
<1>8. act \in [Loaders \X Files -> Activity] /\ \A m \in Loaders, g \in Files : ActOK(g, act[<<m, g>>])
  BY DEF ActInv
<1>9. /\ act'[<<l, f>>] = a /\ act' \in [Loaders \X Files -> Activity]
      /\ \A m \in Loaders, g \in Files : m # l \/ g # f => act'[<<m, g>>] = act[<<m, g>>]
  <2>1. a \in Activity
    BY DEF ActOK
  <2> QED
    BY <2>1, <1>1, <1>8
<1>10. ActInv'
  <2>1. \A m \in Loaders, g \in Files : ActOK(g, act'[<<m, g>>])
    BY <1>8, <1>9
  <2> QED
    BY <1>9, <2>1 DEF ActInv, ActOK
<1> QED
  BY <1>3, <1>6, <1>7, <1>9, <1>10 DEF Local

\* Moves is Becomes with the directory as it is.
LEMMA MovesEffect ==
    ASSUME DiskInv, ActInv, NEW l \in Loaders, NEW f \in Files, NEW a, ActOK(f, a),
           Moves(<<l, f>>, a),
           loads' = loads, alive' = alive, calm' \subseteq calm, hurt' \subseteq hurt \cup {f},
           hurt \subseteq hurt' \cup {f}
    PROVE  /\ Local(l, f, a)
           /\ name'[f] = name[f]
           /\ name[f] # 0 => data'[f][name[f]] = data[f][name[f]]
           /\ KeepsGood(f)
<1>1. /\ name[f] \in {0} \cup Inodes /\ data[f] \in [Inodes -> Contents]
      /\ \A i \in Inodes : Len(data[f][i]) <= Size[f]
  BY DEF DiskInv
<1>2. Becomes(<<l, f>>, a, name[f], data[f])
  BY DEF Moves
<1>3. /\ Local(l, f, a)
      /\ name'[f] = name[f]
      /\ name[f] # 0 => data'[f][name[f]] = data[f][name[f]]
  <2>1. PICK n, d : n = name[f] /\ d = data[f]
    OBVIOUS
  <2>2. Becomes(<<l, f>>, a, n, d)
    BY <1>2, <2>1
  <2>3. /\ n \in {0} \cup Inodes /\ d \in [Inodes -> Contents]
        /\ \A i \in Inodes : Len(d[i]) <= Size[f]
    BY <1>1, <2>1
  <2>4. Local(l, f, a) /\ name'[f] = n /\ (n # 0 => data'[f][n] = d[n])
    BY <2>2, <2>3, BecomesEffect
  <2> QED
    BY <2>1, <2>4
<1> QED
  BY <1>3 DEF KeepsGood

\* The activity after a host gave nothing.
LEMMA NextHostOK ==
    ASSUME NEW l \in Loaders, NEW f \in Files, ActOK(f, act[<<l, f>>]),
           act[<<l, f>>].pc # "done"
    PROVE  /\ ActOK(f, NextHost(<<l, f>>))
           /\ NextHost(<<l, f>>).pc \in {"done", "look", "connect"}
<1> DEFINE x == <<l, f>>
           n == act[x].try + 1
           b == [act[x] EXCEPT !.try = n, !.inode = 0, !.len = 0, !.pos = 0]
           top == Records * Hosts
<1>1. top \in Nat \ {0} /\ Hosts \in Nat \ {0} /\ Size[f] \in Nat /\ MaxSize \in Nat
  BY Bounds
<1>2. act[x] \in Activity /\ act[x].res = "none"
  BY DEF ActOK
<1>3. NextHost(x) = IF n = top THEN [Unused EXCEPT !.pc = "done"]
                    ELSE [b EXCEPT !.pc = IF n % Hosts = 0 THEN "look" ELSE "connect"]
  BY DEF NextHost
<1>4. act[x].try \in 0..(top - 1)
  BY <1>2 DEF Activity
<1> HIDE DEF top
<1>5. CASE n = top
  <2>1. NextHost(x) = [Unused EXCEPT !.pc = "done"]
    BY <1>3, <1>5
  <2>2. NextHost(x) \in Activity
    <3>1. 0 \in 0..(top - 1) /\ 0 \in 0..MaxSize
      BY <1>1
    <3> QED
      BY <3>1, <2>1 DEF Activity, Unused, top
  <2> QED
    BY <2>1, <2>2, <1>1 DEF ActOK, Unused
<1>6. CASE n # top
  <2> DEFINE pc == IF n % Hosts = 0 THEN "look" ELSE "connect"
  <2>1. pc \in {"look", "connect"}
    OBVIOUS
  <2>2. NextHost(x) = [b EXCEPT !.pc = pc]
    BY <1>3, <1>6
  <2> HIDE DEF pc
  <2>3. n \in 0..(top - 1) /\ 0 \in 0..MaxSize
    BY <1>1, <1>4, <1>6
  <2> HIDE DEF n
  <2>4. NextHost(x) \in Activity
    BY <2>1, <2>2, <2>3, <1>2 DEF Activity, top
  <2>5. /\ NextHost(x).pc = pc /\ NextHost(x).inode = 0 /\ NextHost(x).len = 0
        /\ NextHost(x).pos = 0 /\ NextHost(x).res = "none"
    BY <2>2, <1>2 DEF Activity
  <2> QED
    BY <2>1, <2>4, <2>5, <1>1 DEF ActOK
<1> QED
  BY <1>5, <1>6

\* The activity that has mapped what is at the path.
LEMMA MappedOK ==
    ASSUME DiskInv, NEW l \in Loaders, NEW f \in Files, ActOK(f, act[<<l, f>>]),
           act[<<l, f>>].pc # "done", NEW pc \in {"cached", "fresh"}
    PROVE  /\ ActOK(f, Mapped(<<l, f>>, pc))
           /\ Mapped(<<l, f>>, pc).pc = pc
           /\ Mapped(<<l, f>>, pc).inode = name[f]
           /\ name[f] # 0 => Mapped(<<l, f>>, pc).len = Len(data[f][name[f]])
<1> DEFINE x == <<l, f>>
           i == name[f]
           len == IF i = 0 THEN 0 ELSE Len(data[f][i])
           b == Mapped(x, pc)
<1>1. act[x] \in Activity /\ act[x].res = "none" /\ act[x].pos <= Size[f]
  BY DEF ActOK
<1>2. i \in {0} \cup Inodes
  BY DEF DiskInv
<1>3. len \in 0..Size[f] /\ Size[f] \in Nat /\ Size[f] <= MaxSize /\ MaxSize \in Nat
  <2>1. i # 0 => data[f][i] \in Contents /\ Len(data[f][i]) <= Size[f]
    BY <1>2 DEF DiskInv
  <2>2. i # 0 => Len(data[f][i]) \in Nat
    BY <2>1, LenProperties DEF Contents
  <2> QED
    BY <2>1, <2>2, Bounds
<1>4. b = [act[x] EXCEPT !.pc = pc, !.inode = i, !.len = len]
  BY DEF Mapped
<1>5. i # 0 => len = Len(data[f][i])
  OBVIOUS
<1>6. len > 0 => i # 0
  OBVIOUS
<1> HIDE DEF i, len, b
<1>7. len \in 0..MaxSize
  BY <1>3
<1>8. b \in Activity
  BY <1>1, <1>2, <1>4, <1>7 DEF Activity
<1>9. b.pc = pc /\ b.inode = i /\ b.len = len /\ b.pos = act[x].pos /\ b.res = "none"
  BY <1>1, <1>4 DEF Activity
<1> QED
  BY <1>1, <1>5, <1>6, <1>8, <1>9 DEF ActOK, b, i

\* An activity that does not write keeps the downloads converging.
LEMMA ConvergeKept ==
    ASSUME DiskInv, ActInv, NEW l \in Loaders, NEW f \in Files, NEW a, Local(l, f, a),
           KeepsGood(f), ConvergeOK(f), act[<<l, f>>].pc # "write", a.pc # "delete"
    PROVE  ConvergeOK(f)'
<1>1. \A m \in Loaders : ~At(<<m, f>>, "delete")'
  BY DEF ConvergeOK, Local, At
<1>2. CASE name[f] = 0
  BY <1>1, <1>2 DEF ConvergeOK, KeepsGood
<1>3. CASE name[f] # 0 /\ Good(data[f][name[f]], Size[f])
  <2>1. Size[f] \in Nat
    BY Bounds
  <2> QED
    BY <1>1, <1>3, <2>1 DEF ConvergeOK, KeepsGood
<1>4. ASSUME name[f] # 0, NEW m \in Loaders, At(<<m, f>>, "write"),
             act[<<m, f>>].inode = name[f], Good(data[f][name[f]], act[<<m, f>>].pos)
      PROVE  ConvergeOK(f)'
  <2>1. act'[<<m, f>>] = act[<<m, f>>]
    BY <1>4 DEF Local, At
  <2>2. act[<<m, f>>].pos \in Nat
    BY Bounds DEF ActInv, ActOK, Activity
  <2>3. name'[f] = name[f] /\ Good(data'[f][name[f]], act[<<m, f>>].pos)
    BY <1>4, <2>2 DEF KeepsGood
  <2>4. At(<<m, f>>, "write")'
    BY <1>4, <2>1 DEF At
  <2> QED
    BY <1>1, <1>4, <2>1, <2>3, <2>4 DEF ConvergeOK
<1> QED
  BY <1>2, <1>3, <1>4 DEF ConvergeOK

LEMMA LookStep ==
    ASSUME Inv, NEW l \in Loaders, NEW f \in Files, Look(<<l, f>>)
    PROVE  \E a : StepOK(l, f, a)
<1> DEFINE x == <<l, f>>
<1> USE DEF Inv
<1>1. ActOK(f, act[x]) /\ act[x].pc = "look"
  BY DEF ActInv, Look, At
<1>2. PICK a : a = IF name[f] = 0 THEN [act[x] EXCEPT !.pc = "connect"] ELSE Mapped(x, "cached")
  OBVIOUS
<1>3. ActOK(f, a) /\ a.pc \in {"connect", "cached"}
  <2>1. CASE name[f] = 0
    BY <2>1, <1>1, <1>2 DEF ActOK, Activity
  <2>2. CASE name[f] # 0
    BY <2>2, <1>1, <1>2, MappedOK
  <2> QED
    BY <2>1, <2>2
<1>4. Moves(x, a) /\ UNCHANGED <<stage, loads, alive, unexplained, calm, hurt>>
  BY <1>2 DEF Look
<1>5. Local(l, f, a) /\ KeepsGood(f)
  BY <1>3, <1>4, MovesEffect
<1>6. CalmOK(l, f)'
  BY <1>3, <1>5 DEF CalmOK, Local, At, Done
<1>7. f \notin hurt' => ConvergeOK(f)'
  BY <1>1, <1>3, <1>4, <1>5, ConvergeKept DEF ConvergeInv
<1> QED
  BY <1>1, <1>3, <1>4, <1>5, <1>6, <1>7 DEF StepOK

LEMMA ConnectFailsStep ==
    ASSUME Inv, NEW l \in Loaders, NEW f \in Files, ConnectFails(<<l, f>>)
    PROVE  \E a : StepOK(l, f, a)
<1> DEFINE x == <<l, f>>
<1> USE DEF Inv
<1>1. ActOK(f, act[x]) /\ act[x].pc = "connect"
  BY DEF ActInv, ConnectFails, At
<1>2. PICK a : a = NextHost(x)
  OBVIOUS
<1>3. ActOK(f, a) /\ a.pc \in {"done", "look", "connect"}
  BY <1>1, <1>2, NextHostOK
<1>4. /\ Moves(x, a) /\ UNCHANGED <<stage, loads, alive, unexplained, hurt>>
      /\ calm' = calm \ {l}
  BY <1>2 DEF ConnectFails
<1>5. Local(l, f, a) /\ KeepsGood(f)
  BY <1>3, <1>4, MovesEffect
<1>6. f \notin hurt' => ConvergeOK(f)'
  BY <1>1, <1>3, <1>4, <1>5, ConvergeKept DEF ConvergeInv
<1> QED
  BY <1>1, <1>3, <1>4, <1>5, <1>6 DEF StepOK

\* What the parsers may return; a calm load gives its parser a whole file.
LEMMA ParseStep ==
    ASSUME Inv, NEW l \in Loaders, NEW f \in Files, Parse(<<l, f>>)
    PROVE  \E a : StepOK(l, f, a)
<1> DEFINE x == <<l, f>>
<1> USE DEF Inv
<1>1. ActOK(f, act[x]) /\ act[x].pc \in {"cached", "fresh"}
  BY DEF ActInv, Parse
<1>2. PICK parts, r :
         /\ parts = IF act[x].len = 0 THEN <<>> ELSE SubSeq(Content(x), 1, act[x].len)
         /\ r \in Parsed(f, parts)
         /\ Moves(x, IF r = "none" THEN Refuses(x) ELSE [Unused EXCEPT !.pc = "done", !.res = r])
         /\ calm' = IF r = "part" \/ (r = "none" /\ parts = Whole(f)) THEN calm \ {l} ELSE calm
  BY DEF Parse
<1>3. UNCHANGED <<stage, loads, alive, unexplained, hurt>>
  BY DEF Parse
<1>4. r \in {"none", "part", "whole"} /\ (f \in Keyed => r # "part")
  BY <1>2, Places DEF Parsed, ParsedIndex, ParsedConfig
<1>5. PICK a : a = IF r = "none" THEN Refuses(x) ELSE [Unused EXCEPT !.pc = "done", !.res = r]
  OBVIOUS
<1>6. /\ ActOK(f, a) /\ a.pc \in {"done", "look", "connect"}
      /\ r # "none" => a.pc = "done" /\ a.res = r
      /\ r = "none" /\ act[x].pc = "cached" => a.pc = "connect"
  <2>1. CASE r # "none"
    <3>1. a = [Unused EXCEPT !.pc = "done", !.res = r]
      BY <1>5, <2>1
    <3>2. 0 \in 0..(Records * Hosts - 1) /\ 0 \in 0..MaxSize /\ 0 <= Size[f]
      BY Bounds
    <3>3. a \in Activity
      BY <3>1, <3>2, <1>4 DEF Activity, Unused
    <3> QED
      BY <3>1, <3>2, <3>3, <2>1, <1>4 DEF ActOK, Unused
  <2>2. CASE r = "none" /\ act[x].pc = "cached"
    <3>1. a = [act[x] EXCEPT !.pc = "connect", !.inode = 0, !.len = 0]
      BY <1>5, <2>2 DEF Refuses, At
    <3>2. 0 \in 0..MaxSize
      BY Bounds
    <3>3. act[x] \in Activity /\ act[x].res = "none" /\ act[x].pos <= Size[f]
      BY <1>1 DEF ActOK
    <3>4. a \in Activity
      BY <3>1, <3>2, <3>3 DEF Activity
    <3>5. a.pc = "connect" /\ a.inode = 0 /\ a.len = 0 /\ a.pos = act[x].pos /\ a.res = "none"
      BY <3>1, <3>3 DEF Activity
    <3> QED
      BY <3>3, <3>4, <3>5, <2>2 DEF ActOK
  <2>3. CASE r = "none" /\ act[x].pc = "fresh"
    <3>1. a = NextHost(x)
      BY <1>5, <2>3 DEF Refuses, At
    <3> QED
      BY <3>1, <2>3, <1>1, NextHostOK
  <2> QED
    BY <2>1, <2>2, <2>3, <1>1
<1>7. Moves(x, a) /\ calm' \subseteq calm
  BY <1>2, <1>5
<1>8. Local(l, f, a) /\ KeepsGood(f)
  BY <1>3, <1>6, <1>7, MovesEffect
<1>9. l \in calm' => CalmOK(l, f)'
  <2> SUFFICES ASSUME l \in calm' PROVE CalmOK(l, f)'
    OBVIOUS
  <2>1. l \in calm /\ r # "part" /\ ~(r = "none" /\ parts = Whole(f))
    BY <1>2, <1>7
  <2>2. CASE r = "whole" \/ act[x].pc = "cached"
    <3>1. a.pc = "done" => a.res # "none"
      BY <2>2, <1>1, <1>4, <1>6
    <3> QED
      BY <3>1, <1>6, <1>8 DEF CalmOK, Local, At, Done, Result
  <2>3. CASE r = "none" /\ act[x].pc = "fresh"
    <3>1. /\ act[x].inode = name[f] /\ name[f] # 0 /\ act[x].len = Size[f]
          /\ Good(data[f][name[f]], Size[f])
      BY <2>1, <2>3 DEF CalmInv, CalmOK, At
    <3>2. name[f] \in Inodes /\ data[f][name[f]] \in Contents /\ Len(data[f][name[f]]) <= Size[f]
      BY <3>1 DEF DiskInv
    <3>3. data[f][name[f]] = Whole(f)
      <4>1. PICK d : d = data[f][name[f]]
        OBVIOUS
      <4>2. d \in Contents /\ Len(d) <= Size[f] /\ Good(d, Size[f])
        BY <4>1, <3>1, <3>2
      <4> QED
        BY <4>1, <4>2, GoodIsWhole
    <3>4. Size[f] \in Nat /\ Size[f] > 0
      BY Bounds
    <3>5. parts = SubSeq(Whole(f), 1, Size[f])
      BY <1>2, <3>1, <3>3, <3>4 DEF Content
    <3>6. SubSeq(Whole(f), 1, Size[f]) = Whole(f)
      BY <3>4 DEF Whole
    <3> QED
      BY <2>1, <2>3, <3>5, <3>6
  <2> QED
    BY <2>1, <2>2, <2>3, <1>1, <1>4
<1>10. f \notin hurt' => ConvergeOK(f)'
  BY <1>1, <1>3, <1>6, <1>8, ConvergeKept DEF ConvergeInv
<1> QED
  BY <1>1, <1>3, <1>6, <1>7, <1>8, <1>9, <1>10 DEF StepOK

LEMMA ParseThrowsStep ==
    ASSUME Inv, NEW l \in Loaders, NEW f \in Files, ParseThrows(<<l, f>>)
    PROVE  \E a : StepOK(l, f, a)
<1> DEFINE x == <<l, f>>
<1> USE DEF Inv
<1>1. ActOK(f, act[x]) /\ act[x].pc = "cached"
  BY DEF ActInv, ParseThrows, At
<1>2. PICK a, d : a = [act[x] EXCEPT !.pc = "connect", !.inode = 0, !.len = 0] /\ d = data[f]
  OBVIOUS
<1>3. /\ Becomes(x, a, 0, d) /\ UNCHANGED <<stage, loads, alive, unexplained>>
      /\ calm' = calm \ Rivals(x) /\ hurt' = hurt \cup {f}
  <2>1. a = Refuses(x)
    BY <1>1, <1>2 DEF Refuses, At
  <2> QED
    BY <1>2, <2>1 DEF ParseThrows
<1>4. ActOK(f, a) /\ a.pc = "connect"
  <2>1. act[x] \in Activity /\ act[x].res = "none" /\ act[x].pos <= Size[f] /\ 0 \in 0..MaxSize
    BY <1>1, Bounds DEF ActOK
  <2>2. a \in Activity
    BY <2>1, <1>2 DEF Activity
  <2>3. a.pc = "connect" /\ a.inode = 0 /\ a.len = 0 /\ a.pos = act[x].pos /\ a.res = "none"
    BY <2>1, <1>2 DEF Activity
  <2> QED
    BY <2>1, <2>2, <2>3 DEF ActOK
<1>5. d \in [Inodes -> Contents] /\ \A i \in Inodes : Len(d[i]) <= Size[f]
  BY <1>2 DEF DiskInv
<1>6. Local(l, f, a)
  BY <1>3, <1>4, <1>5, BecomesEffect
<1>7. CalmOK(l, f)'
  BY <1>4, <1>6 DEF CalmOK, Local, At, Done
<1>8. calm' \subseteq calm /\ calm' \cap Rivals(x) = {} /\ f \in hurt'
  BY <1>3
<1> QED
  BY <1>1, <1>3, <1>4, <1>6, <1>7, <1>8 DEF StepOK

LEMMA ConnectStep ==
    ASSUME Inv, NEW l \in Loaders, NEW f \in Files, Connect(<<l, f>>)
    PROVE  \E a : StepOK(l, f, a)
<1> DEFINE x == <<l, f>>
<1> USE DEF Inv
<1>1. ActOK(f, act[x]) /\ act[x].pc = "connect"
  BY DEF ActInv, Connect, At
<1>2. PICK i : i = IF name[f] = 0 THEN FreshInode(f) ELSE name[f]
  OBVIOUS
<1>3. PICK a, d : /\ a = [act[x] EXCEPT !.pc = "write", !.inode = i, !.pos = 0]
                  /\ d = [data[f] EXCEPT ![i] = <<>>]
  OBVIOUS
<1>4. /\ Becomes(x, a, i, d) /\ UNCHANGED <<stage, loads, alive, unexplained>>
      /\ calm' = calm \ Rivals(x) /\ hurt' = IF Rivals(x) = {} THEN hurt \ {f} ELSE hurt
  BY <1>2, <1>3 DEF Connect
<1>5. i \in Inodes /\ i # 0
  <2>1. act[x].inode = 0
    BY <1>1 DEF ActOK
  <2>2. name[f] \in {0} \cup Inodes
    BY DEF DiskInv
  <2> QED
    BY <2>1, <2>2, <1>2, Fresh, Bounds
<1>6. ActOK(f, a) /\ a.pc = "write" /\ a.inode = i /\ a.pos = 0
  <2>1. /\ act[x] \in Activity /\ act[x].res = "none" /\ act[x].len = 0
        /\ 0 \in 0..MaxSize /\ 0 <= Size[f]
    BY <1>1, Bounds DEF ActOK
  <2>2. a \in Activity
    BY <2>1, <1>3, <1>5 DEF Activity
  <2>3. a.pc = "write" /\ a.inode = i /\ a.len = 0 /\ a.pos = 0 /\ a.res = "none"
    BY <2>1, <1>3 DEF Activity
  <2> QED
    BY <2>1, <2>2, <2>3, <1>5 DEF ActOK
<1>7. /\ d \in [Inodes -> Contents] /\ \A j \in Inodes : Len(d[j]) <= Size[f]
      /\ d[i] = <<>>
  <2>1. data[f] \in [Inodes -> Contents] /\ \A j \in Inodes : Len(data[f][j]) <= Size[f]
    BY DEF DiskInv
  <2>2. <<>> \in Contents /\ Len(<<>>) <= Size[f]
    BY EmptySeq, Bounds DEF Contents
  <2> QED
    BY <2>1, <2>2, <1>3, <1>5
<1>8. hurt' \subseteq hurt \cup {f} /\ hurt \subseteq hurt' \cup {f} /\ calm' \subseteq calm
  BY <1>4
<1>9. Local(l, f, a) /\ name'[f] = i /\ data'[f][i] = <<>>
  <2>1. Becomes(x, a, i, d) /\ loads' = loads /\ alive' = alive
    BY <1>4
  <2>2. ActOK(f, a) /\ i \in {0} \cup Inodes
    BY <1>5, <1>6
  <2>3. Local(l, f, a) /\ name'[f] = i /\ (i # 0 => data'[f][i] = d[i])
    BY <2>1, <2>2, <1>7, <1>8, BecomesEffect
  <2> QED
    BY <2>3, <1>5, <1>7
<1>10. At(x, "write")' /\ act'[x].inode = name'[f] /\ Good(data'[f][name'[f]], act'[x].pos)
  BY <1>6, <1>9 DEF Local, At, Good
<1>11. CalmOK(l, f)'
  BY <1>10 DEF CalmOK, At, Done
<1>12. f \notin hurt' => ConvergeOK(f)'
  <2> SUFFICES ASSUME f \notin hurt' PROVE ConvergeOK(f)'
    OBVIOUS
  <2>1. \A m \in Loaders \ {l} : act[<<m, f>>].pc # "delete"
    <3>1. CASE Rivals(x) = {}
      BY <3>1 DEF Rivals
    <3>2. CASE Rivals(x) # {}
      BY <3>2, <1>4 DEF ConvergeInv, ConvergeOK, At
    <3> QED
      BY <3>1, <3>2
  <2>2. \A m \in Loaders : ~At(<<m, f>>, "delete")'
    BY <2>1, <1>6, <1>9 DEF Local, At
  <2> QED
    BY <2>2, <1>10 DEF ConvergeOK
<1>13. calm' \cap Rivals(x) = {}
  BY <1>4
<1> QED
  BY <1>1, <1>4, <1>6, <1>8, <1>9, <1>11, <1>12, <1>13 DEF StepOK

\* Writing where this download is repairs what another one has cut away.
LEMMA WritePartStep ==
    ASSUME Inv, NEW l \in Loaders, NEW f \in Files, WritePart(<<l, f>>)
    PROVE  \E a : StepOK(l, f, a)
<1> DEFINE x == <<l, f>>
<1> USE DEF Inv
<1>1. ActOK(f, act[x]) /\ act[x].pc = "write" /\ act[x].pos < Size[f]
  BY DEF ActInv, WritePart, At
<1>2. PICK k, i, n : k = act[x].pos + 1 /\ i = act[x].inode /\ n = name[f]
  OBVIOUS
<1>3. PICK a, d : /\ a = [act[x] EXCEPT !.pos = k]
                  /\ d = [data[f] EXCEPT ![i] = PutAt(@, k, "good")]
  OBVIOUS
<1>4. Becomes(x, a, n, d) /\ UNCHANGED <<stage, loads, alive, unexplained, calm, hurt>>
  BY <1>2, <1>3 DEF WritePart
<1>5. /\ act[x] \in Activity /\ act[x].pos \in Nat /\ act[x].inode \in Inodes
      /\ act[x].inode # 0 /\ act[x].len = 0 /\ act[x].res = "none"
  BY <1>1, Bounds DEF ActOK, Activity
<1>6. k \in 1..Size[f] /\ k \in 0..MaxSize /\ i \in Inodes /\ Size[f] \in Nat /\ act[x].pos = k - 1
  BY <1>1, <1>2, <1>5, Bounds
<1>7. ActOK(f, a) /\ a.pc = "write" /\ a.inode = i /\ a.pos = k
  <2>1. a \in Activity
    BY <1>3, <1>5, <1>6 DEF Activity
  <2>2. a.pc = "write" /\ a.inode = i /\ a.len = 0 /\ a.pos = k /\ a.res = "none"
    BY <1>1, <1>2, <1>3, <1>5 DEF Activity
  <2> QED
    BY <2>1, <2>2, <1>2, <1>5, <1>6 DEF ActOK
<1>8. n \in {0} \cup Inodes /\ data[f] \in [Inodes -> Contents]
      /\ \A j \in Inodes : Len(data[f][j]) <= Size[f]
  BY <1>2 DEF DiskInv
<1>9. PICK q : q = data[f][i]
  OBVIOUS
<1>10. q \in Contents /\ Len(q) <= Size[f]
  BY <1>6, <1>8, <1>9
<1>11. /\ PutAt(q, k, "good") \in Contents /\ Len(PutAt(q, k, "good")) <= Size[f]
       /\ \A m \in Nat : Good(q, m) => Good(PutAt(q, k, "good"), m)
       /\ Good(q, k - 1) => Good(PutAt(q, k, "good"), k)
  BY <1>6, <1>10, PutGood
<1>12. d[i] = PutAt(q, k, "good") /\ \A j \in Inodes : j # i => d[j] = data[f][j]
  BY <1>3, <1>6, <1>8, <1>9
<1>13. d \in [Inodes -> Contents] /\ \A j \in Inodes : Len(d[j]) <= Size[f]
  <2>1. d \in [Inodes -> Contents]
    BY <1>3, <1>6, <1>8, <1>9, <1>11
  <2> QED
    BY <2>1, <1>8, <1>11, <1>12
<1>14. Local(l, f, a) /\ name'[f] = n /\ (n # 0 => data'[f][n] = d[n])
  BY <1>4, <1>7, <1>8, <1>13, BecomesEffect
<1>15. KeepsGood(f)
  <2>1. CASE n = i
    BY <2>1, <1>2, <1>9, <1>11, <1>12, <1>14 DEF KeepsGood
  <2>2. CASE n # i
    BY <2>2, <1>2, <1>8, <1>12, <1>14 DEF KeepsGood
  <2> QED
    BY <2>1, <2>2
<1>16. ASSUME i = n, Good(data[f][n], act[x].pos)
       PROVE  At(x, "write")' /\ act'[x].inode = name'[f] /\ Good(data'[f][name'[f]], act'[x].pos)
  <2>1. Good(d[n], k)
    BY <1>16, <1>6, <1>9, <1>11, <1>12
  <2> QED
    BY <2>1, <1>16, <1>2, <1>5, <1>7, <1>14 DEF Local, At
<1>17. l \in calm' => CalmOK(l, f)'
  <2> SUFFICES ASSUME l \in calm PROVE CalmOK(l, f)'
    BY <1>4
  <2>1. i = n /\ Good(data[f][n], act[x].pos)
    BY <1>1, <1>2 DEF CalmInv, CalmOK, At
  <2>2. At(x, "write")' /\ act'[x].inode = name'[f] /\ Good(data'[f][name'[f]], act'[x].pos)
    BY <2>1, <1>16
  <2> QED
    BY <2>2 DEF CalmOK, At, Done
<1>18. f \notin hurt' => ConvergeOK(f)'
  <2> SUFFICES ASSUME f \notin hurt PROVE ConvergeOK(f)'
    BY <1>4
  <2>1. ConvergeOK(f)
    BY DEF ConvergeInv
  <2>2. \A m \in Loaders : ~At(<<m, f>>, "delete")'
    BY <2>1, <1>7, <1>14 DEF ConvergeOK, Local, At
  <2>3. CASE name[f] = 0
    BY <2>2, <2>3, <1>15 DEF ConvergeOK, KeepsGood
  <2>4. CASE name[f] # 0 /\ Good(data[f][name[f]], Size[f])
    BY <2>2, <2>4, <1>6, <1>15 DEF ConvergeOK, KeepsGood
  <2>5. ASSUME name[f] # 0, NEW m \in Loaders, At(<<m, f>>, "write"),
               act[<<m, f>>].inode = name[f], Good(data[f][name[f]], act[<<m, f>>].pos)
        PROVE  ConvergeOK(f)'
    <3>1. CASE m = l
      <4>1. At(x, "write")' /\ act'[x].inode = name'[f] /\ Good(data'[f][name'[f]], act'[x].pos)
        BY <2>5, <3>1, <1>2, <1>16
      <4> QED
        BY <4>1, <2>2 DEF ConvergeOK
    <3>2. CASE m # l
      <4>1. act'[<<m, f>>] = act[<<m, f>>]
        BY <3>2, <1>14 DEF Local
      <4>2. act[<<m, f>>].pos \in Nat
        BY Bounds DEF ActInv, ActOK, Activity
      <4>3. name'[f] = name[f] /\ Good(data'[f][name[f]], act[<<m, f>>].pos)
        BY <2>5, <4>2, <1>15 DEF KeepsGood
      <4>4. At(<<m, f>>, "write")'
        BY <2>5, <4>1 DEF At
      <4> QED
        BY <2>2, <2>5, <4>1, <4>3, <4>4 DEF ConvergeOK
    <3> QED
      BY <3>1, <3>2
  <2> QED
    BY <2>1, <2>3, <2>4, <2>5 DEF ConvergeOK
<1> QED
  BY <1>1, <1>4, <1>7, <1>14, <1>15, <1>17, <1>18 DEF StepOK

LEMMA EndReadStep ==
    ASSUME Inv, NEW l \in Loaders, NEW f \in Files, EndRead(<<l, f>>)
    PROVE  \E a : StepOK(l, f, a)
<1> DEFINE x == <<l, f>>
<1> USE DEF Inv
<1>1. ActOK(f, act[x]) /\ act[x].pc = "write"
  BY DEF ActInv, EndRead, At
<1>2. PICK a : a = Mapped(x, "fresh")
  OBVIOUS
<1>3. /\ ActOK(f, a) /\ a.pc = "fresh" /\ a.inode = name[f]
      /\ name[f] # 0 => a.len = Len(data[f][name[f]])
  BY <1>1, <1>2, MappedOK
<1>4. /\ Moves(x, a) /\ UNCHANGED <<stage, loads, alive, unexplained>>
      /\ IF act[x].pos = Size[f] THEN UNCHANGED <<calm, hurt>>
         ELSE calm' = calm \ {l} /\ hurt' = hurt \cup {f}
  BY <1>2 DEF EndRead
<1>5. calm' \subseteq calm /\ hurt' \subseteq hurt \cup {f} /\ hurt \subseteq hurt' \cup {f}
  BY <1>4
<1>6. /\ Local(l, f, a) /\ KeepsGood(f) /\ name'[f] = name[f]
      /\ name[f] # 0 => data'[f][name[f]] = data[f][name[f]]
  BY <1>3, <1>4, <1>5, MovesEffect
<1>7. act[x].inode # 0
  BY <1>1 DEF ActOK
<1>8. l \in calm' => CalmOK(l, f)'
  <2> SUFFICES ASSUME l \in calm' PROVE CalmOK(l, f)'
    OBVIOUS
  <2>1. l \in calm /\ act[x].pos = Size[f]
    BY <1>4
  <2>2. act[x].inode = name[f] /\ Good(data[f][name[f]], Size[f])
    BY <1>1, <2>1 DEF CalmInv, CalmOK, At
  <2>3. Len(data[f][name[f]]) = Size[f]
    <3>1. name[f] \in Inodes
      BY <1>7, <2>2 DEF DiskInv
    <3>2. data[f][name[f]] \in Contents /\ Len(data[f][name[f]]) <= Size[f]
      BY <3>1 DEF DiskInv
    <3>3. Len(data[f][name[f]]) \in Nat
      BY <3>2, LenProperties DEF Contents
    <3>4. Size[f] \in 1..Size[f] /\ Size[f] \in Nat
      BY Bounds
    <3>5. Size[f] <= Len(data[f][name[f]])
      BY <3>4, <2>2 DEF Good
    <3> QED
      BY <3>2, <3>3, <3>4, <3>5
  <2> QED
    BY <2>2, <2>3, <1>3, <1>6, <1>7 DEF CalmOK, Local, At, Done
<1>9. f \notin hurt' => ConvergeOK(f)'
  <2> SUFFICES ASSUME f \notin hurt' PROVE ConvergeOK(f)'
    OBVIOUS
  <2>1. f \notin hurt /\ act[x].pos = Size[f]
    BY <1>4
  <2>2. ConvergeOK(f)
    BY <2>1 DEF ConvergeInv
  <2>3. \A m \in Loaders : ~At(<<m, f>>, "delete")'
    BY <2>2, <1>3, <1>6 DEF ConvergeOK, Local, At
  <2>4. CASE name[f] = 0 \/ Good(data[f][name[f]], Size[f])
    BY <2>3, <2>4, <1>6 DEF ConvergeOK
  <2>5. ASSUME name[f] # 0, NEW m \in Loaders, m # l, At(<<m, f>>, "write"),
               act[<<m, f>>].inode = name[f], Good(data[f][name[f]], act[<<m, f>>].pos)
        PROVE  ConvergeOK(f)'
    <3>1. act'[<<m, f>>] = act[<<m, f>>]
      BY <2>5, <1>6 DEF Local
    <3> QED
      BY <3>1, <2>3, <2>5, <1>6 DEF ConvergeOK, At
  <2> QED
    BY <2>1, <2>2, <2>4, <2>5 DEF ConvergeOK
<1> QED
  BY <1>1, <1>3, <1>4, <1>5, <1>6, <1>8, <1>9 DEF StepOK

LEMMA ErrorStatusStep ==
    ASSUME Inv, NEW l \in Loaders, NEW f \in Files, ErrorStatus(<<l, f>>)
    PROVE  \E a : StepOK(l, f, a)
<1> DEFINE x == <<l, f>>
<1> USE DEF Inv
<1>1. ActOK(f, act[x]) /\ act[x].pc = "write"
  BY DEF ActInv, ErrorStatus, At
<1>2. PICK i, n : i = act[x].inode /\ n = name[f]
  OBVIOUS
<1>3. PICK a, d : /\ a = [act[x] EXCEPT !.pc = "delete", !.inode = 0]
                  /\ d = [data[f] EXCEPT ![i] = PutAt(@, 1, "bad")]
  OBVIOUS
<1>4. /\ Becomes(x, a, n, d) /\ UNCHANGED <<stage, loads, alive, unexplained>>
      /\ calm' = calm \ (Rivals(x) \cup {l}) /\ hurt' = hurt \cup {f}
  BY <1>2, <1>3 DEF ErrorStatus
<1>5. /\ act[x] \in Activity /\ act[x].inode \in Inodes
      /\ act[x].pos <= Size[f] /\ act[x].len = 0 /\ act[x].res = "none"
  BY <1>1 DEF ActOK, Activity
<1>6. ActOK(f, a) /\ a.pc = "delete"
  <2>1. a \in Activity
    BY <1>3, <1>5 DEF Activity
  <2>2. a.pc = "delete" /\ a.inode = 0 /\ a.len = 0 /\ a.pos = act[x].pos /\ a.res = "none"
    BY <1>3, <1>5 DEF Activity
  <2> QED
    BY <2>1, <2>2, <1>5 DEF ActOK
<1>7. n \in {0} \cup Inodes /\ data[f] \in [Inodes -> Contents] /\ i \in Inodes
      /\ \A j \in Inodes : Len(data[f][j]) <= Size[f]
  BY <1>2, <1>5 DEF DiskInv
<1>8. PICK q : q = data[f][i]
  OBVIOUS
<1>9. q \in Contents /\ Len(q) <= Size[f] /\ Size[f] \in Nat /\ 1 \in 1..Size[f]
  BY <1>7, <1>8, Bounds
<1>10. PutAt(q, 1, "bad") \in Contents /\ Len(PutAt(q, 1, "bad")) <= Size[f]
  BY <1>9, PutGood
<1>11. d[i] = PutAt(q, 1, "bad") /\ \A j \in Inodes : j # i => d[j] = data[f][j]
  BY <1>3, <1>7, <1>8
<1>12. d \in [Inodes -> Contents]
  BY <1>3, <1>7, <1>8, <1>10
<1>13. \A j \in Inodes : Len(d[j]) <= Size[f]
  BY <1>7, <1>10, <1>11
<1>14. Local(l, f, a)
  <2>1. hurt' \subseteq hurt \cup {f} /\ hurt \subseteq hurt' \cup {f} /\ calm' \subseteq calm
    BY <1>4
  <2> QED
    BY <2>1, <1>4, <1>6, <1>7, <1>12, <1>13, BecomesEffect
<1>15. calm' \subseteq calm /\ calm' \cap Rivals(x) = {} /\ l \notin calm' /\ f \in hurt'
  BY <1>4
<1> QED
  BY <1>1, <1>4, <1>6, <1>14, <1>15 DEF StepOK

LEMMA DeleteStep ==
    ASSUME Inv, NEW l \in Loaders, NEW f \in Files, Delete(<<l, f>>)
    PROVE  \E a : StepOK(l, f, a)
<1> DEFINE x == <<l, f>>
<1> USE DEF Inv
<1>1. ActOK(f, act[x]) /\ act[x].pc = "delete"
  BY DEF ActInv, Delete, At
<1>2. PICK a, d : a = NextHost(x) /\ d = data[f]
  OBVIOUS
<1>3. ActOK(f, a) /\ a.pc \in {"done", "look", "connect"}
  BY <1>1, <1>2, NextHostOK
<1>4. /\ Becomes(x, a, 0, d) /\ UNCHANGED <<stage, loads, alive, unexplained, hurt>>
      /\ calm' = calm \ Rivals(x)
  BY <1>2 DEF Delete
<1>5. d \in [Inodes -> Contents] /\ \A i \in Inodes : Len(d[i]) <= Size[f]
  BY <1>2 DEF DiskInv
<1>6. Local(l, f, a)
  BY <1>3, <1>4, <1>5, BecomesEffect
<1>7. f \in hurt' /\ l \notin calm'
  BY <1>1, <1>4 DEF ConvergeInv, ConvergeOK, CalmInv, CalmOK, At
<1>8. calm' \subseteq calm /\ calm' \cap Rivals(x) = {}
  BY <1>4
<1> QED
  BY <1>1, <1>3, <1>4, <1>6, <1>7, <1>8 DEF StepOK

\* Every step of Resolve is such a step.
LEMMA ResolveSteps ==
    ASSUME Inv, NEW l \in Loaders, NEW f \in Files, Resolve(<<l, f>>)
    PROVE  \E a : StepOK(l, f, a)
BY LookStep, ParseStep, ParseThrowsStep, ConnectFailsStep, ConnectStep, WritePartStep,
   EndReadStep, ErrorStatusStep, DeleteStep DEF Resolve

\* A load keeps its place while one of its files is being resolved.
LEMMA StageKept ==
    ASSUME Inv, NEW l \in Loaders, NEW f \in Files, NEW a, StepOK(l, f, a)
    PROVE  StageInv'
<1> USE DEF Inv
<1>1. stage' = stage /\ stage \in [Loaders -> Idle..InRoot]
  BY DEF StepOK, StageInv
<1>2. /\ act[<<l, f>>].pc \notin {"none", "posted", "done"}
      /\ act'[<<l, f>>].pc \notin {"none", "posted"}
      /\ \A m \in Loaders, g \in Files : m # l \/ g # f => act'[<<m, g>>] = act[<<m, g>>]
  BY DEF StepOK, Local
<1>3. ASSUME NEW m \in Loaders PROVE StageOK(m)' /\ RootsOK(m)'
  <2>1. StageOK(m) /\ RootsOK(m)
    BY DEF StageInv
  <2>2. \A g \in Files : act[<<m, g>>].pc \in {"none", "done"} => act'[<<m, g>>] = act[<<m, g>>]
    BY <1>2
  <2>3. \A g \in Files : act[<<m, g>>].pc = "none" <=> act'[<<m, g>>].pc = "none"
    BY <1>2
  <2>4. \A g \in Files : Resolved(m, g) => Resolved(m, g)'
    BY <2>2 DEF Resolved, Done, Result, At
  <2>5. \A g \in Files : Done(m, g) /\ Result(m, g) = "none" => (Done(m, g) /\ Result(m, g) = "none")'
    BY <2>2 DEF Done, Result, At
  <2>6. \A g \in Files : act[<<m, g>>].pc \in Over => act'[<<m, g>>].pc \in Over
    BY <2>2 DEF Over
  <2>7. \A g \in Files : act[<<m, g>>] = Unused => act'[<<m, g>>] = Unused
    BY <2>2 DEF Unused
  <2>8. StageOK(m)'
    <3>1. (stage[m] \in {Idle, 0} => \A g \in Files : act[<<m, g>>] = Unused)'
      BY <2>1, <2>7, <1>1 DEF StageOK
    <3>2. (stage[m] \in 1..Len(Sequential) =>
            /\ \A g \in Files : act[<<m, g>>].pc \in Over \/ g = Sequential[stage[m]]
            /\ \A j \in 1..(stage[m] - 1) :
                  Sequential[j] = Sequential[stage[m]] \/ Resolved(m, Sequential[j]))'
      <4> SUFFICES ASSUME stage[m] \in 1..Len(Sequential)
                   PROVE /\ \A g \in Files : act'[<<m, g>>].pc \in Over \/ g = Sequential[stage[m]]
                         /\ \A j \in 1..(stage[m] - 1) :
                               Sequential[j] = Sequential[stage[m]] \/ Resolved(m, Sequential[j])'
        BY <1>1
      <4>1. \A j \in 1..(stage[m] - 1) : j \in 1..Len(Sequential) /\ Sequential[j] \in Files
        BY Places
      <4> QED
        BY <4>1, <2>1, <2>4, <2>6 DEF StageOK
    <3>3. (stage[m] \in {InIndices, InRoot} => \A j \in 1..Len(Sequential) : Resolved(m, Sequential[j]))'
      BY <2>1, <2>4, <1>1, Places DEF StageOK
    <3>4. (stage[m] = InIndices => \A g \in Files : act[<<m, g>>].pc \in Over \/ g \in Indices)'
      BY <2>1, <2>6, <1>1 DEF StageOK
    <3>5. (stage[m] # InRoot => \A g \in Elements(Roots) : act[<<m, g>>].pc = "none")'
      BY <2>1, <2>3, <1>1, Places DEF StageOK
    <3>6. (stage[m] = InRoot => \A g \in Files : act[<<m, g>>].pc \in Over \/ g \in Elements(Roots))'
      BY <2>1, <2>6, <1>1 DEF StageOK
    <3> QED
      BY <3>1, <3>2, <3>3, <3>4, <3>5, <3>6 DEF StageOK
  <2>9. RootsOK(m)'
    <3>1. Elements(Roots) \subseteq Files
      BY Places
    <3>2. \E n \in 0..Len(Roots) : \A g \in Elements(Roots) :
             act'[<<m, g>>].pc # "none" <=> \E j \in 1..n : g = Roots[j]
      BY <3>1, <2>1, <2>3 DEF RootsOK
    <3>3. ASSUME NEW g \in Elements(Roots), NEW h \in Elements(Roots), g # h,
                 act'[<<m, g>>].pc # "none", act'[<<m, h>>].pc # "none"
          PROVE  \/ (Done(m, g) /\ Result(m, g) = "none")'
                 \/ (Done(m, h) /\ Result(m, h) = "none")'
      <4>1. g \in Files /\ h \in Files
        BY Places
      <4> QED
        BY <4>1, <3>3, <2>1, <2>3, <2>5 DEF RootsOK
    <3> QED
      BY <3>2, <3>3 DEF RootsOK
  <2> QED
    BY <2>8, <2>9
<1> QED
  BY <1>1, <1>3 DEF StageInv

\* Loaders that are calm after the step were not disturbed by it.
LEMMA CalmKept ==
    ASSUME Inv, NEW l \in Loaders, NEW f \in Files, NEW a, StepOK(l, f, a)
    PROVE  CalmInv' /\ ConvergeInv'
<1> USE DEF Inv
<1>1. /\ calm' \subseteq calm /\ Local(l, f, a) /\ unexplained' = {}
      /\ calm \subseteq Loaders
  BY DEF StepOK, CalmInv, DiskInv
<1>2. ASSUME NEW m \in calm', NEW g \in Files PROVE CalmOK(m, g)'
  <2>1. m \in Loaders /\ CalmOK(m, g)
    BY <1>1, <1>2 DEF CalmInv
  <2>2. CASE g # f
    <3>1. act'[<<m, g>>] = act[<<m, g>>] /\ name'[g] = name[g] /\ data'[g] = data[g]
      BY <2>1, <2>2, <1>1 DEF Local
    <3> QED
      BY <3>1, <2>1 DEF CalmOK, At, Done, Result
  <2>3. CASE g = f /\ m = l
    BY <2>3, <1>2 DEF StepOK
  <2>4. CASE g = f /\ m # l
    <3>1. act'[<<m, f>>] = act[<<m, f>>]
      BY <2>1, <2>4, <1>1 DEF Local
    <3>2. CASE KeepsGood(f)
      <4>1. /\ act[<<m, f>>].pos \in Nat /\ Size[f] \in Nat
            /\ At(<<m, f>>, "write") => act[<<m, f>>].inode # 0
        BY <2>1, Bounds DEF ActInv, ActOK, Activity, At
      <4>2. CalmOK(m, f)
        BY <2>1, <2>4
      <4>3. name'[f] = name[f]
        BY <3>2 DEF KeepsGood
      <4>4. At(<<m, f>>, "write")' => /\ act'[<<m, f>>].inode = name'[f]
                                      /\ Good(data'[f][name'[f]], act'[<<m, f>>].pos)
        BY <3>1, <3>2, <4>1, <4>2, <4>3 DEF KeepsGood, CalmOK, At
      <4>5. At(<<m, f>>, "fresh")' => /\ act'[<<m, f>>].inode = name'[f] /\ name'[f] # 0
                                      /\ act'[<<m, f>>].len = Size[f] /\ Good(data'[f][name'[f]], Size[f])
        BY <3>1, <3>2, <4>1, <4>2, <4>3 DEF KeepsGood, CalmOK, At
      <4>6. (Done(m, f) => Result(m, f) # "none")' /\ ~At(<<m, f>>, "delete")'
        BY <3>1, <4>2 DEF CalmOK, At, Done, Result
      <4>7. CalmOK(m, f)'
        BY <4>4, <4>5, <4>6 DEF CalmOK
      <4> QED
        BY <4>7, <2>4
    <3>3. CASE ~KeepsGood(f)
      <4>1. m \notin Rivals(<<l, f>>)
        BY <3>3, <1>2 DEF StepOK
      <4>2. act[<<m, f>>].pc \in {"none", "done"}
        BY <4>1, <2>1, <2>4 DEF Rivals
      <4> QED
        BY <4>2, <3>1, <2>1, <2>4 DEF CalmOK, At, Done, Result
    <3> QED
      BY <3>2, <3>3
  <2> QED
    BY <2>2, <2>3, <2>4
<1>3. ASSUME NEW g \in Files \ hurt' PROVE ConvergeOK(g)'
  <2>1. CASE g = f
    BY <2>1, <1>3 DEF StepOK
  <2>2. CASE g # f
    <3>1. /\ name'[g] = name[g] /\ data'[g] = data[g] /\ g \notin hurt
          /\ \A m \in Loaders : act'[<<m, g>>] = act[<<m, g>>]
      BY <2>2, <1>1, <1>3 DEF Local
    <3>2. ConvergeOK(g)
      BY <3>1, <1>3 DEF ConvergeInv
    <3> QED
      BY <3>1, <3>2 DEF ConvergeOK, At
  <2> QED
    BY <2>1, <2>2
<1> QED
  BY <1>1, <1>2, <1>3 DEF CalmInv, ConvergeInv

LEMMA ResolveInv ==
    ASSUME Inv, NEW l \in Loaders, NEW f \in Files, Resolve(<<l, f>>)
    PROVE  Inv'
<1>1. PICK a : StepOK(l, f, a)
  BY ResolveSteps
<1>2. DiskInv' /\ ActInv'
  BY <1>1 DEF StepOK, Local
<1> QED
  BY <1>1, <1>2, StageKept, CalmKept DEF Inv

-----------------------------------------------------------------------------
(* The steps of Load                                                       *)

\* Activities as Load leaves them.
LEMMA StartOK ==
    ASSUME NEW f \in Files
    PROVE  /\ ActOK(f, Unused) /\ Unused.pc = "none"
           /\ ActOK(f, Started) /\ Started.pc = "look"
           /\ f \in Archives => ActOK(f, [Unused EXCEPT !.pc = "posted"])
           /\ [Unused EXCEPT !.pc = "posted"].pc = "posted"
<1>1. 0 \in 0..(Records * Hosts - 1) /\ 0 \in 0..MaxSize /\ 0 <= Size[f]
  BY Bounds
<1>2. \A pc \in {"none", "look", "posted"} :
         [pc |-> pc, try |-> 0, inode |-> 0, len |-> 0, pos |-> 0, res |-> "none"] \in Activity
  BY <1>1 DEF Activity
<1> QED
  BY <1>1, <1>2 DEF ActOK, Unused, Started

\* The places of a load differ.
LEMMA StageNumbers ==
    /\ Idle = -1 /\ InIndices = Len(Sequential) + 1 /\ InRoot = Len(Sequential) + 2
    /\ Len(Sequential) \in Nat /\ Len(Sequential) >= 1
BY Places DEF Idle, InIndices, InRoot

\* A loader that makes no step keeps its place.
LEMMA StageSame ==
    ASSUME NEW m \in Loaders, StageOK(m), RootsOK(m), stage'[m] = stage[m],
           \A g \in Files : act'[<<m, g>>] = act[<<m, g>>]
    PROVE  StageOK(m)' /\ RootsOK(m)'
<1>1. \A j \in 1..Len(Sequential) : Resolved(m, Sequential[j]) <=> Resolved(m, Sequential[j])'
  BY Places DEF Resolved, Done, Result, At
<1>2. Elements(Roots) \subseteq Files
  BY Places
<1>3. stage[m] \in 1..Len(Sequential) => \A j \in 1..(stage[m] - 1) : j \in 1..Len(Sequential)
  BY Places
<1>4. StageOK(m)'
  BY <1>1, <1>2, <1>3 DEF StageOK
<1>5. RootsOK(m)'
  <2>1. \E n \in 0..Len(Roots) : \A f \in Elements(Roots) :
           act'[<<m, f>>].pc # "none" <=> \E j \in 1..n : f = Roots[j]
    BY <1>2 DEF RootsOK
  <2>2. \A f, g \in Elements(Roots) :
          f # g /\ act'[<<m, f>>].pc # "none" /\ act'[<<m, g>>].pc # "none" =>
             \/ (Done(m, f) /\ Result(m, f) = "none")'
             \/ (Done(m, g) /\ Result(m, g) = "none")'
    BY <1>2 DEF RootsOK, Done, Result, At
  <2> QED
    BY <2>1, <2>2 DEF RootsOK
<1> QED
  BY <1>4, <1>5

\* A step of Load starts, posts or forgets activities and leaves the files
\* alone; who is calm anew has no activity left.
Quiet ==
    /\ name' = name /\ data' = data /\ hurt' = hurt /\ unexplained' = {}
    /\ calm' \subseteq Loaders /\ alive' = alive
    /\ act' \in [Loaders \X Files -> Activity]
    /\ \A m \in Loaders, g \in Files :
          \/ act'[<<m, g>>] = act[<<m, g>>]
          \/ /\ act[<<m, g>>].pc # "write" /\ ActOK(g, act'[<<m, g>>])
             /\ act'[<<m, g>>].pc \in {"none", "posted", "look"}
    /\ \A m \in calm' \ calm, g \in Files : act'[<<m, g>>].pc = "none"

LEMMA QuietKept ==
    ASSUME Inv, Quiet, loads' \in [Loaders -> 0..MaxLoads]
    PROVE  DiskInv' /\ ActInv' /\ CalmInv' /\ ConvergeInv'
<1> USE DEF Inv
<1>1. DiskInv'
  BY DEF Quiet, DiskInv
<1>2. ActInv'
  <2>1. \A m \in Loaders, g \in Files : ActOK(g, act'[<<m, g>>])
    BY DEF ActInv, Quiet
  <2> QED
    BY <2>1 DEF ActInv, ActOK, Quiet
<1>3. ASSUME NEW m \in calm', NEW g \in Files PROVE CalmOK(m, g)'
  <2>1. m \in Loaders /\ name' = name /\ data' = data
    BY <1>3 DEF Quiet
  <2>2. CASE act'[<<m, g>>].pc \in {"none", "posted", "look"}
    BY <2>2 DEF CalmOK, At, Done
  <2>3. CASE act'[<<m, g>>].pc \notin {"none", "posted", "look"}
    <3>1. act'[<<m, g>>] = act[<<m, g>>] /\ m \in calm
      BY <2>1, <2>3, <1>3 DEF Quiet
    <3>2. CalmOK(m, g)
      BY <3>1 DEF CalmInv
    <3> QED
      BY <2>1, <3>1, <3>2 DEF CalmOK, At, Done, Result
  <2> QED
    BY <2>2, <2>3
<1>4. ASSUME NEW g \in Files \ hurt' PROVE ConvergeOK(g)'
  <2>1. name' = name /\ data' = data /\ g \notin hurt
    BY <1>4 DEF Quiet
  <2>2. ConvergeOK(g)
    BY <2>1, <1>4 DEF ConvergeInv
  <2>3. \A m \in Loaders : act'[<<m, g>>] = act[<<m, g>>] \/
           (act[<<m, g>>].pc # "write" /\ act'[<<m, g>>].pc \in {"none", "posted", "look"})
    BY <1>4 DEF Quiet
  <2> QED
    BY <2>1, <2>2, <2>3 DEF ConvergeOK, At
<1> QED
  BY <1>1, <1>2, <1>3, <1>4 DEF CalmInv, ConvergeInv, Quiet

\* Load returns only when none of its activities runs.
LEMMA ReturnInv ==
    ASSUME Inv, NEW l \in Loaders, Return(l), unexplained' = {},
           \A f \in Files : ~Running(<<l, f>>)
    PROVE  Inv'
<1> USE DEF Inv
<1>1. /\ stage' = [stage EXCEPT ![l] = Idle] /\ calm' = calm \cup {l}
      /\ UNCHANGED <<diskVars, loads, alive, hurt>>
      /\ act' = [x \in DOMAIN act |-> IF x[1] = l /\ ~Running(x) THEN Unused ELSE act[x]]
  BY DEF Return
<1>2. act \in [Loaders \X Files -> Activity]
  BY DEF ActInv
<1>3. \A f \in Files : act'[<<l, f>>] = Unused
  BY <1>1, <1>2
<1>4. \A m \in Loaders \ {l}, f \in Files : act'[<<m, f>>] = act[<<m, f>>]
  BY <1>1, <1>2
<1>5. act' \in [Loaders \X Files -> Activity]
  <2>1. \A f \in Files : Unused \in Activity
    BY StartOK DEF ActOK
  <2>2. \A x \in Loaders \X Files : Unused \in Activity
    BY <2>1
  <2> QED
    BY <2>2, <1>1, <1>2
<1>6. Quiet
  <2>1. \A f \in Files : act[<<l, f>>].pc # "write" /\ ActOK(f, Unused) /\ Unused.pc = "none"
    BY StartOK DEF Running
  <2>2. calm' \subseteq Loaders /\ calm' \ calm \subseteq {l}
    BY <1>1 DEF DiskInv
  <2>3. name' = name /\ data' = data /\ hurt' = hurt /\ alive' = alive
    BY <1>1 DEF diskVars
  <2> QED
    BY <2>1, <2>2, <2>3, <1>3, <1>4, <1>5 DEF Quiet
<1>7. StageInv'
  <2>1. stage \in [Loaders -> Idle..InRoot] /\ Idle \in Idle..InRoot
    BY StageNumbers DEF StageInv
  <2>2. stage' \in [Loaders -> Idle..InRoot] /\ stage'[l] = Idle
    BY <2>1, <1>1
  <2>3. StageOK(l)' /\ RootsOK(l)'
    <3>1. \A f \in Files : act'[<<l, f>>].pc = "none"
      BY <1>3 DEF Unused
    <3>2. stage'[l] \notin 1..Len(Sequential) /\ stage'[l] # InIndices /\ stage'[l] # InRoot
      BY <2>2, StageNumbers
    <3>3. 0 \in 0..Len(Roots) /\ 1..0 = {}
      BY Places
    <3>4. Elements(Roots) \subseteq Files
      BY Places
    <3>5. StageOK(l)'
      BY <3>1, <3>2, <3>4, <1>3 DEF StageOK
    <3>6. RootsOK(l)'
      BY <3>1, <3>3, <3>4 DEF RootsOK
    <3> QED
      BY <3>5, <3>6
  <2>4. \A m \in Loaders \ {l} : StageOK(m)' /\ RootsOK(m)'
    <3> TAKE m \in Loaders \ {l}
    <3>1. StageOK(m) /\ RootsOK(m) /\ stage'[m] = stage[m]
      BY <2>1, <1>1 DEF StageInv
    <3> QED
      BY <3>1, <1>4, StageSame
  <2> QED
    BY <2>2, <2>3, <2>4 DEF StageInv
<1>8. loads' \in [Loaders -> 0..MaxLoads]
  BY <1>1 DEF DiskInv
<1> QED
  BY <1>6, <1>7, <1>8, QuietKept DEF Inv

\* A step of loader l alone, which has its place afterwards.
LEMMA LoadStep ==
    ASSUME Inv, NEW l \in Loaders, NEW s \in Idle..InRoot, Quiet,
           stage' = [stage EXCEPT ![l] = s], loads' \in [Loaders -> 0..MaxLoads],
           \A m \in Loaders \ {l}, g \in Files : act'[<<m, g>>] = act[<<m, g>>],
           StageOK(l)', RootsOK(l)'
    PROVE  Inv'
<1> USE DEF Inv
<1>1. stage \in [Loaders -> Idle..InRoot] /\ \A m \in Loaders : StageOK(m) /\ RootsOK(m)
  BY DEF StageInv
<1>2. stage' \in [Loaders -> Idle..InRoot] /\ \A m \in Loaders \ {l} : stage'[m] = stage[m]
  BY <1>1
<1>3. \A m \in Loaders \ {l} : StageOK(m)' /\ RootsOK(m)'
  BY <1>1, <1>2, StageSame
<1> QED
  BY <1>2, <1>3, QuietKept DEF StageInv

\* Nobody is blamed when a calm load cannot fail here.
LEMMA GiveUpInv ==
    ASSUME Inv, NEW l \in Loaders, GiveUp(l)
    PROVE  Inv'
<1> USE DEF Inv
<1>1. stage[l] \in 1..Len(Sequential)
  BY Places, LenProperties DEF GiveUp
<1>2. PICK f : f = Sequential[stage[l]]
  OBVIOUS
<1>3. f \in Files /\ act[<<l, f>>].pc = "done" /\ Result(l, f) = "none"
  BY <1>1, <1>2, Places DEF GiveUp, Done, At
<1>4. l \notin calm
  BY <1>3 DEF CalmInv, CalmOK, Done, At
<1>5. unexplained' = {}
  BY <1>4 DEF GiveUp, Blame, CalmInv
<1>6. \A g \in Files : ~Running(<<l, g>>)
  BY <1>1, <1>2, <1>3 DEF StageInv, StageOK, Running, Over
<1> QED
  BY <1>5, <1>6, ReturnInv DEF GiveUp

LEMMA NoRootInv ==
    ASSUME Inv, NEW l \in Loaders, NoRoot(l)
    PROVE  Inv'
<1> USE DEF Inv
<1>1. unexplained' = {}
  BY DEF NoRoot, CalmInv
<1>2. \A g \in Files : ~Running(<<l, g>>)
  BY DEF NoRoot, StageInv, StageOK, Running, Over, Done, At
<1> QED
  BY <1>1, <1>2, ReturnInv DEF NoRoot

LEMMA FinishInv ==
    ASSUME Inv, NEW l \in Loaders, Finish(l)
    PROVE  Inv'
<1> USE DEF Inv
<1>1. stage[l] = InRoot /\ Return(l)
  BY DEF Finish
<1>2. StageOK(l) /\ RootsOK(l)
  BY DEF StageInv
<1>3. \A g \in Files \ Elements(Roots) : ~Running(<<l, g>>)
  BY <1>1, <1>2 DEF StageOK, Running, Over
<1>4. ASSUME NEW f \in Elements(Roots), Done(l, f), Result(l, f) # "none", UNCHANGED unexplained
      PROVE  Inv'
  <2>1. \A g \in Elements(Roots) : act[<<l, g>>].pc \in {"none", "done"}
    BY <1>2, <1>4 DEF RootsOK, Done, At
  <2>2. \A g \in Files : ~Running(<<l, g>>)
    BY <2>1, <1>3 DEF Running
  <2>3. unexplained' = {}
    BY <1>4 DEF CalmInv
  <2> QED
    BY <2>2, <2>3, <1>1, ReturnInv
<1>5. ASSUME \A f \in Elements(Roots) : Done(l, f) /\ Result(l, f) = "none", Blame(l)
      PROVE  Inv'
  <2>1. \A g \in Files : ~Running(<<l, g>>)
    BY <1>3, <1>5 DEF Running, Done, At
  <2>2. Roots[1] \in Elements(Roots) /\ Roots[1] \in Files
    BY Places
  <2>3. l \notin calm
    BY <2>2, <1>5 DEF CalmInv, CalmOK
  <2>4. unexplained' = {}
    BY <2>3, <1>5 DEF Blame, CalmInv
  <2> QED
    BY <2>1, <2>4, <1>1, ReturnInv
<1> QED
  BY <1>4, <1>5 DEF Finish

\* Started is a quiet step on an activity that is not writing.
LEMMA StartQuiet ==
    ASSUME Inv, NEW l \in Loaders, NEW f \in Files,
           act' = [act EXCEPT ![<<l, f>>] = Started],
           act[<<l, f>>].pc # "write", UNCHANGED <<diskVars, loads, alive, calm, hurt, unexplained>>
    PROVE  /\ Quiet /\ loads' \in [Loaders -> 0..MaxLoads]
           /\ act'[<<l, f>>] = Started /\ act'[<<l, f>>].pc = "look"
           /\ \A m \in Loaders, g \in Files : m # l \/ g # f => act'[<<m, g>>] = act[<<m, g>>]
<1> USE DEF Inv
<1>1. ActOK(f, Started) /\ Started.pc = "look" /\ Started \in Activity
  BY StartOK DEF ActOK
<1>2. act \in [Loaders \X Files -> Activity]
  BY DEF ActInv
<1>3. /\ act' \in [Loaders \X Files -> Activity] /\ act'[<<l, f>>] = Started
      /\ \A m \in Loaders, g \in Files : m # l \/ g # f => act'[<<m, g>>] = act[<<m, g>>]
  BY <1>1, <1>2
<1>4. /\ name' = name /\ data' = data /\ hurt' = hurt /\ alive' = alive /\ unexplained' = {}
      /\ calm' = calm /\ calm' \subseteq Loaders
  BY DEF diskVars, CalmInv, DiskInv
<1>5. Quiet
  BY <1>1, <1>3, <1>4 DEF Quiet
<1> QED
  BY <1>1, <1>3, <1>5 DEF DiskInv

LEMMA AdvanceInv ==
    ASSUME Inv, NEW l \in Loaders, Advance(l)
    PROVE  Inv'
<1> USE DEF Inv
<1>1. PICK s : s = stage[l]
  OBVIOUS
<1>2. s \in 0..(Len(Sequential) - 1) /\ Len(Sequential) \in Nat
  BY <1>1, Places DEF Advance
<1>3. PICK f : f = Sequential[s + 1]
  OBVIOUS
<1>4. f \in Files /\ f \notin Elements(Roots) /\ s + 1 \in 1..Len(Sequential)
  BY <1>2, <1>3, Places
<1>5. /\ s > 0 => Resolved(l, Sequential[s])
      /\ stage' = [stage EXCEPT ![l] = s + 1] /\ act' = [act EXCEPT ![<<l, f>>] = Started]
      /\ UNCHANGED <<diskVars, loads, alive, calm, hurt, unexplained>>
  BY <1>1, <1>3 DEF Advance, Goto, Resolved
<1>6. StageOK(l) /\ RootsOK(l) /\ stage \in [Loaders -> Idle..InRoot]
  BY DEF StageInv
<1>7. \A g \in Files : act[<<l, g>>].pc \in Over
  <2>1. CASE s = 0
    BY <2>1, <1>1, <1>6 DEF StageOK, Unused, Over
  <2>2. CASE s > 0
    <3>1. s \in 1..Len(Sequential)
      BY <2>2, <1>2
    <3> QED
      BY <3>1, <2>2, <1>1, <1>5, <1>6 DEF StageOK, Over, Resolved, Done, At
  <2> QED
    BY <2>1, <2>2, <1>2
<1>8. act[<<l, f>>].pc # "write"
  BY <1>4, <1>7 DEF Over
<1>9. /\ Quiet /\ loads' \in [Loaders -> 0..MaxLoads]
      /\ \A m \in Loaders, g \in Files : m # l \/ g # f => act'[<<m, g>>] = act[<<m, g>>]
  BY <1>4, <1>5, <1>8, StartQuiet
<1>10. stage'[l] = s + 1
  BY <1>5, <1>6
<1>11. \A j \in 1..s : Sequential[j] = f \/ Resolved(l, Sequential[j])'
  <2> SUFFICES ASSUME NEW j \in 1..s, Sequential[j] # f PROVE Resolved(l, Sequential[j])'
    OBVIOUS
  <2>1. s \in 1..Len(Sequential) /\ j \in 1..Len(Sequential)
    BY <1>2
  <2>2. Resolved(l, Sequential[j])
    <3>1. CASE j = s
      BY <3>1, <1>2, <1>5
    <3>2. CASE j # s
      <4>1. j \in 1..(s - 1)
        BY <3>2, <1>2
      <4>2. Sequential[j] = Sequential[s] \/ Resolved(l, Sequential[j])
        BY <4>1, <2>1, <1>1, <1>6 DEF StageOK
      <4> QED
        BY <4>2, <2>1, <1>5
    <3> QED
      BY <3>1, <3>2
  <2>3. Sequential[j] \in Files
    BY <2>1, Places
  <2> QED
    BY <2>2, <2>3, <1>9 DEF Resolved, Done, Result, At
<1>12. \A g \in Files : act'[<<l, g>>].pc \in Over \/ g = f
  BY <1>7, <1>9
<1>13. \A g \in Elements(Roots) : g \in Files /\ act'[<<l, g>>].pc = "none"
  <2>1. s # InRoot
    BY <1>2, StageNumbers
  <2> QED
    <3>1. \A g \in Elements(Roots) : act[<<l, g>>].pc = "none"
      BY <2>1, <1>1, <1>6 DEF StageOK
    <3>2. Elements(Roots) \subseteq Files
      BY Places
    <3> QED
      BY <3>1, <3>2, <1>4, <1>9
<1>14. StageOK(l)'
  <2>1. s + 1 \notin {Idle, 0} /\ s + 1 # InIndices /\ s + 1 # InRoot /\ (s + 1) - 1 = s
    BY <1>2, StageNumbers
  <2> QED
    BY <2>1, <1>3, <1>10, <1>11, <1>12, <1>13 DEF StageOK
<1>15. RootsOK(l)'
  <2>1. 0 \in 0..Len(Roots) /\ 1..0 = {}
    BY Places
  <2> QED
    BY <2>1, <1>13 DEF RootsOK
<1>16. s + 1 \in Idle..InRoot
  BY <1>2, StageNumbers
<1> QED
  BY <1>5, <1>9, <1>14, <1>15, <1>16, LoadStep

LEMMA PostTasksInv ==
    ASSUME Inv, NEW l \in Loaders, PostTasks(l)
    PROVE  Inv'
<1> USE DEF Inv
<1> DEFINE Posted == [Unused EXCEPT !.pc = "posted"]
<1>1. /\ stage[l] = Len(Sequential) /\ Resolved(l, Sequential[stage[l]])
      /\ stage' = [stage EXCEPT ![l] = InIndices]
      /\ act' = [x \in DOMAIN act |->
            IF x \in {l} \X FileIndex THEN Started
            ELSE IF x \in {l} \X Archives THEN Posted ELSE act[x]]
      /\ UNCHANGED <<diskVars, loads, alive, unexplained, calm, hurt>>
  BY DEF PostTasks, Resolved
<1>2. act \in [Loaders \X Files -> Activity]
  BY DEF ActInv
<1>3. StageOK(l) /\ stage \in [Loaders -> Idle..InRoot]
  BY DEF StageInv
<1>4. \A g \in Files : act[<<l, g>>].pc \in Over
  <2>1. stage[l] \in 1..Len(Sequential)
    BY <1>1, StageNumbers
  <2> QED
    BY <2>1, <1>1, <1>3 DEF StageOK, Over, Resolved, Done, At
<1>5. /\ \A m \in Loaders \ {l}, g \in Files : act'[<<m, g>>] = act[<<m, g>>]
      /\ \A g \in Files \ Indices : act'[<<l, g>>] = act[<<l, g>>]
      /\ \A g \in FileIndex : act'[<<l, g>>] = Started
      /\ \A g \in Archives \ FileIndex : act'[<<l, g>>] = Posted
  <2>1. FileIndex \subseteq Files /\ Archives \subseteq Files /\ Indices = Archives \cup FileIndex
    BY Places DEF Indices
  <2> HIDE DEF Posted
  <2>2. \A m \in Loaders, g \in Files : act'[<<m, g>>] =
            IF m = l /\ g \in FileIndex THEN Started
            ELSE IF m = l /\ g \in Archives THEN Posted ELSE act[<<m, g>>]
    BY <1>1, <1>2
  <2> QED
    BY <2>1, <2>2
<1>6. \A g \in Indices : /\ ActOK(g, act'[<<l, g>>])
                          /\ act'[<<l, g>>].pc \in {"posted", "look"}
  <2> TAKE g \in Indices
  <2>1. /\ g \in Files /\ (g \in FileIndex \/ g \in Archives \ FileIndex)
    BY Places DEF Indices
  <2>2. /\ ActOK(g, Started) /\ Started.pc = "look"
        /\ g \in Archives => ActOK(g, Posted)
        /\ Posted.pc = "posted"
    BY <2>1, StartOK
  <2> HIDE DEF Posted
  <2> QED
    BY <2>1, <2>2, <1>5
<1>7. act' \in [Loaders \X Files -> Activity]
  <2>1. \A g \in Files : Started \in Activity /\ (g \in Archives => Posted \in Activity)
    BY StartOK DEF ActOK
  <2> HIDE DEF Posted
  <2>2. \A x \in Loaders \X Files :
           (IF x \in {l} \X FileIndex THEN Started
            ELSE IF x \in {l} \X Archives THEN Posted ELSE act[x]) \in Activity
    BY <2>1, <1>2, Places
  <2> QED
    BY <2>2, <1>1, <1>2
<1>8. Quiet
  <2>1. /\ name' = name /\ data' = data /\ hurt' = hurt /\ alive' = alive /\ unexplained' = {}
        /\ calm' = calm /\ calm' \subseteq Loaders
    BY <1>1 DEF diskVars, CalmInv, DiskInv
  <2>2. \A m \in Loaders, g \in Files :
          \/ act'[<<m, g>>] = act[<<m, g>>]
          \/ /\ act[<<m, g>>].pc # "write" /\ ActOK(g, act'[<<m, g>>])
             /\ act'[<<m, g>>].pc \in {"none", "posted", "look"}
    <3> TAKE m \in Loaders, g \in Files
    <3>1. CASE m # l \/ g \notin Indices
      BY <3>1, <1>5
    <3>2. CASE m = l /\ g \in Indices
      BY <3>2, <1>4, <1>6 DEF Over
    <3> QED
      BY <3>1, <3>2
  <2> QED
    BY <2>1, <2>2, <1>7 DEF Quiet
<1>9. \A j \in 1..Len(Sequential) : Resolved(l, Sequential[j])'
  <2> TAKE j \in 1..Len(Sequential)
  <2>1. Resolved(l, Sequential[j])
    <3>1. CASE j = Len(Sequential)
      BY <3>1, <1>1
    <3>2. CASE j # Len(Sequential)
      <4>1. j \in 1..(stage[l] - 1) /\ stage[l] \in 1..Len(Sequential)
        BY <3>2, <1>1, StageNumbers
      <4> QED
        BY <4>1, <1>1, <1>3 DEF StageOK
    <3> QED
      BY <3>1, <3>2
  <2>2. Sequential[j] \in Files \ Indices
    BY Places
  <2> QED
    BY <2>1, <2>2, <1>5 DEF Resolved, Done, Result, At
<1>10. \A g \in Elements(Roots) : g \in Files /\ act'[<<l, g>>].pc = "none"
  <2>1. stage[l] # InRoot
    BY <1>1, StageNumbers
  <2> QED
    BY <2>1, <1>3, <1>5, Places DEF StageOK
<1>11. \A g \in Files : act'[<<l, g>>].pc \in Over \/ g \in Indices
  BY <1>4, <1>5
<1>12. stage'[l] = InIndices
  BY <1>1, <1>3
<1>13. StageOK(l)'
  <2>1. InIndices \notin {Idle, 0} /\ InIndices \notin 1..Len(Sequential) /\ InIndices # InRoot
    BY StageNumbers
  <2> QED
    BY <2>1, <1>9, <1>10, <1>11, <1>12 DEF StageOK
<1>14. RootsOK(l)'
  <2>1. 0 \in 0..Len(Roots) /\ 1..0 = {}
    BY Places
  <2> QED
    BY <2>1, <1>10 DEF RootsOK
<1>15. InIndices \in Idle..InRoot /\ loads' \in [Loaders -> 0..MaxLoads]
  BY <1>1, StageNumbers DEF DiskInv
<1> QED
  BY <1>1, <1>5, <1>8, <1>13, <1>14, <1>15, LoadStep

LEMMA CollectInv ==
    ASSUME Inv, NEW l \in Loaders, Collect(l)
    PROVE  Inv'
<1> USE DEF Inv
<1>1. /\ stage[l] = InIndices /\ stage' = [stage EXCEPT ![l] = InRoot]
      /\ \A f \in Indices : Done(l, f)
      /\ UNCHANGED <<diskVars, act, loads, alive, unexplained, calm, hurt>>
  BY DEF Collect
<1>2. StageOK(l) /\ stage \in [Loaders -> Idle..InRoot]
  BY DEF StageInv
<1>3. stage'[l] = InRoot
  BY <1>1, <1>2
<1>4. \A g \in Files : act[<<l, g>>].pc \in Over
  BY <1>1, <1>2 DEF StageOK, Done, At, Over
<1>5. \A g \in Elements(Roots) : act[<<l, g>>].pc = "none"
  <2>1. stage[l] # InRoot
    BY <1>1, StageNumbers
  <2> QED
    BY <2>1, <1>2 DEF StageOK
<1>6. \A j \in 1..Len(Sequential) : Resolved(l, Sequential[j])'
  BY <1>1, <1>2 DEF StageOK, Resolved, Done, Result, At
<1>7. StageOK(l)'
  <2>1. InRoot \notin {Idle, 0} /\ InRoot \notin 1..Len(Sequential) /\ InIndices # InRoot
    BY StageNumbers
  <2> QED
    BY <2>1, <1>1, <1>3, <1>4, <1>6 DEF StageOK
<1>8. RootsOK(l)'
  <2>1. 0 \in 0..Len(Roots) /\ 1..0 = {}
    BY Places
  <2> QED
    BY <2>1, <1>1, <1>5 DEF RootsOK
<1>9. /\ Quiet /\ loads' \in [Loaders -> 0..MaxLoads] /\ InRoot \in Idle..InRoot
  <2>1. /\ name' = name /\ data' = data /\ hurt' = hurt /\ alive' = alive /\ unexplained' = {}
        /\ calm' = calm /\ calm' \subseteq Loaders /\ act' = act
    BY <1>1 DEF diskVars, CalmInv, DiskInv
  <2>2. act \in [Loaders \X Files -> Activity]
    BY DEF ActInv
  <2> QED
    BY <2>1, <2>2, <1>1, StageNumbers DEF Quiet, DiskInv
<1> QED
  BY <1>1, <1>7, <1>8, <1>9, LoadStep

\* The next encoded form of the root starts when the ones before it failed.
LEMMA NextRootInv ==
    ASSUME Inv, NEW l \in Loaders, NEW k \in DOMAIN Roots, NextRoot(l, k)
    PROVE  Inv'
<1> USE DEF Inv
<1>1. PICK f : f = Roots[k]
  OBVIOUS
<1>2. k \in 1..Len(Roots) /\ Len(Roots) \in Nat
  BY Places, LenProperties
<1>3. f \in Elements(Roots) /\ f \in Files
  BY <1>1, <1>2, Places
<1>4. /\ stage[l] = InRoot /\ act[<<l, f>>].pc = "none"
      /\ \A j \in 1..(k - 1) : Done(l, Roots[j]) /\ Result(l, Roots[j]) = "none"
      /\ stage' = [stage EXCEPT ![l] = InRoot] /\ act' = [act EXCEPT ![<<l, f>>] = Started]
      /\ UNCHANGED <<diskVars, loads, alive, calm, hurt, unexplained>>
  BY <1>1 DEF NextRoot, Goto, At
<1>5. StageOK(l) /\ RootsOK(l) /\ stage \in [Loaders -> Idle..InRoot]
  BY DEF StageInv
<1>6. /\ Quiet /\ loads' \in [Loaders -> 0..MaxLoads] /\ act'[<<l, f>>].pc = "look"
      /\ \A m \in Loaders, g \in Files : m # l \/ g # f => act'[<<m, g>>] = act[<<m, g>>]
  BY <1>3, <1>4, StartQuiet
<1>7. stage'[l] = InRoot
  BY <1>4, <1>5
<1>8. \A j \in 1..Len(Sequential) : Resolved(l, Sequential[j])'
  <2> TAKE j \in 1..Len(Sequential)
  <2>1. Sequential[j] \in Files /\ Sequential[j] # f
    BY <1>3, Places
  <2>2. Resolved(l, Sequential[j])
    BY <1>4, <1>5 DEF StageOK
  <2> QED
    BY <2>1, <2>2, <1>6 DEF Resolved, Done, Result, At
<1>9. \A g \in Files : act'[<<l, g>>].pc \in Over \/ g \in Elements(Roots)
  BY <1>3, <1>4, <1>5, <1>6 DEF StageOK
<1>10. StageOK(l)'
  <2>1. InRoot \notin {Idle, 0} /\ InRoot \notin 1..Len(Sequential) /\ InIndices # InRoot
    BY StageNumbers
  <2> QED
    BY <2>1, <1>7, <1>8, <1>9 DEF StageOK
<1>11. PICK n \in 0..Len(Roots) : \A g \in Elements(Roots) :
          act[<<l, g>>].pc # "none" <=> \E j \in 1..n : g = Roots[j]
  BY <1>5 DEF RootsOK
<1>12. n < k
  <2> SUFFICES ASSUME ~(n < k) PROVE FALSE
    OBVIOUS
  <2>1. k \in 1..n
    BY <1>2
  <2> QED
    BY <2>1, <1>1, <1>3, <1>4, <1>11
\* The forms tried so far are the ones before k, and they gave nothing.
<1>13. \A g \in Elements(Roots) : act[<<l, g>>].pc # "none" <=> \E j \in 1..(k - 1) : g = Roots[j]
  <2> TAKE g \in Elements(Roots)
  <2>1. ASSUME NEW j \in 1..n, g = Roots[j] PROVE j \in 1..(k - 1)
    BY <1>2, <1>12
  <2>2. ASSUME NEW j \in 1..(k - 1), g = Roots[j] PROVE act[<<l, g>>].pc # "none"
    BY <2>2, <1>4 DEF Done, At
  <2> QED
    BY <2>1, <2>2, <1>11
<1>14. \A g \in Elements(Roots) : act'[<<l, g>>].pc # "none" <=> \E j \in 1..k : g = Roots[j]
  <2> TAKE g \in Elements(Roots)
  <2>1. CASE g = f
    <3>1. k \in 1..k
      BY <1>2
    <3> QED
      BY <3>1, <2>1, <1>1, <1>6
  <2>2. CASE g # f
    <3>1. act'[<<l, g>>] = act[<<l, g>>]
      BY <2>2, <1>6, Places
    <3>2. \A j \in 1..k : g = Roots[j] => j \in 1..(k - 1)
      BY <2>2, <1>1, <1>2
    <3>3. \A j \in 1..(k - 1) : j \in 1..k
      BY <1>2
    <3> QED
      BY <3>1, <3>2, <3>3, <1>13
  <2> QED
    BY <2>1, <2>2
<1>15. ASSUME NEW g \in Elements(Roots), g # f, act'[<<l, g>>].pc # "none"
       PROVE  (Done(l, g) /\ Result(l, g) = "none")'
  <2>1. g \in Files /\ act'[<<l, g>>] = act[<<l, g>>]
    BY <1>6, <1>15, Places
  <2>2. Done(l, g) /\ Result(l, g) = "none"
    BY <2>1, <1>4, <1>13, <1>15
  <2> QED
    BY <2>1, <2>2 DEF Done, Result, At
<1>16. RootsOK(l)'
  <2>1. k \in 0..Len(Roots)
    BY <1>2
  <2> QED
    BY <2>1, <1>14, <1>15 DEF RootsOK
<1>17. InRoot \in Idle..InRoot
  BY StageNumbers
<1> QED
  BY <1>4, <1>6, <1>10, <1>16, <1>17, LoadStep

\* A call of Load: nothing of the loader's last one is left.
LEMMA BeginInv ==
    ASSUME Inv, NEW l \in Loaders, Begin(l) \/ NoCDNs(l)
    PROVE  Inv'
<1> USE DEF Inv
<1>1. PICK s \in {Idle, 0} : stage' = [stage EXCEPT ![l] = s]
  <2>1. CASE Begin(l)
    BY <2>1 DEF Begin
  <2>2. CASE NoCDNs(l)
    <3>1. stage' = stage /\ stage[l] = Idle /\ stage \in [Loaders -> Idle..InRoot]
      BY <2>2 DEF NoCDNs, StageInv
    <3> QED
      BY <3>1
  <2> QED
    BY <2>1, <2>2
<1>2. /\ stage[l] = Idle /\ loads[l] < MaxLoads /\ loads' = [loads EXCEPT ![l] = @ + 1]
      /\ UNCHANGED <<diskVars, act, alive, calm, hurt, unexplained>>
  BY DEF Begin, NoCDNs
<1>3. Quiet
  <2>1. /\ name' = name /\ data' = data /\ hurt' = hurt /\ alive' = alive /\ unexplained' = {}
        /\ calm' = calm /\ calm' \subseteq Loaders /\ act' = act
    BY <1>2 DEF diskVars, CalmInv, DiskInv
  <2>2. act \in [Loaders \X Files -> Activity]
    BY DEF ActInv
  <2> QED
    BY <2>1, <2>2 DEF Quiet
<1>4. loads' \in [Loaders -> 0..MaxLoads]
  <2>1. loads \in [Loaders -> 0..MaxLoads] /\ MaxLoads \in Nat
    BY Bounds DEF DiskInv
  <2>2. loads[l] + 1 \in 0..MaxLoads
    BY <2>1, <1>2
  <2> QED
    BY <2>1, <2>2, <1>2
<1>5. StageOK(l) /\ RootsOK(l) /\ stage \in [Loaders -> Idle..InRoot]
  BY DEF StageInv
<1>6. stage'[l] = s /\ act' = act
  BY <1>1, <1>2, <1>5
<1>7. /\ s \notin 1..Len(Sequential) /\ s # InIndices /\ s # InRoot /\ s \in Idle..InRoot
      /\ stage[l] # InRoot
  BY <1>2, StageNumbers
<1>8. \A f \in Files : act'[<<l, f>>] = Unused
  BY <1>2, <1>5, <1>6 DEF StageOK
<1>9. StageOK(l)'
  BY <1>5, <1>6, <1>7, <1>8 DEF StageOK
<1>10. RootsOK(l)'
  BY <1>5, <1>6 DEF RootsOK, Done, Result, At
<1> QED
  BY <1>1, <1>2, <1>3, <1>4, <1>7, <1>9, <1>10, LoadStep

\* Tasks are posted while their load waits for the indices.
LEMMA RunTaskInv ==
    ASSUME Inv, NEW l \in Loaders, NEW f \in Files, RunTask(<<l, f>>)
    PROVE  Inv'
<1> USE DEF Inv
<1>1. /\ act[<<l, f>>].pc = "posted" /\ act' = [act EXCEPT ![<<l, f>>] = Started]
      /\ UNCHANGED <<diskVars, stage, loads, alive, unexplained, calm, hurt>>
  BY DEF RunTask, At
<1>2. f \in Archives /\ f \in Indices /\ f \notin Elements(Roots)
      /\ \A j \in 1..Len(Sequential) : f # Sequential[j]
  <2>1. f \in Archives
    BY <1>1 DEF ActInv, ActOK
  <2> QED
    BY <2>1, Places
<1>3. StageOK(l) /\ RootsOK(l) /\ stage \in [Loaders -> Idle..InRoot]
  BY DEF StageInv
<1>4. stage[l] = InIndices
  <2>1. stage[l] \in Idle..InRoot
    BY <1>3
  <2>2. \/ stage[l] \in {Idle, 0} \/ stage[l] \in 1..Len(Sequential)
        \/ stage[l] = InIndices \/ stage[l] = InRoot
    BY <2>1, StageNumbers
  <2>3. stage[l] \notin {Idle, 0}
    BY <1>1, <1>3 DEF StageOK, Unused
  <2>4. stage[l] \notin 1..Len(Sequential)
    BY <1>1, <1>2, <1>3 DEF StageOK, Over
  <2>5. stage[l] # InRoot
    BY <1>1, <1>2, <1>3 DEF StageOK, Over
  <2> QED
    BY <2>2, <2>3, <2>4, <2>5
<1>5. /\ Quiet /\ loads' \in [Loaders -> 0..MaxLoads]
      /\ \A m \in Loaders, g \in Files : m # l \/ g # f => act'[<<m, g>>] = act[<<m, g>>]
  BY <1>1, StartQuiet
<1>6. InIndices \notin {Idle, 0} /\ InIndices \notin 1..Len(Sequential) /\ InIndices # InRoot
      /\ InIndices \in Idle..InRoot
  BY StageNumbers
<1>7. \A j \in 1..Len(Sequential) : Resolved(l, Sequential[j])'
  <2> TAKE j \in 1..Len(Sequential)
  <2>1. Sequential[j] \in Files /\ Sequential[j] # f
    BY <1>2, Places
  <2>2. Resolved(l, Sequential[j])
    BY <1>3, <1>4 DEF StageOK
  <2> QED
    BY <2>1, <2>2, <1>5 DEF Resolved, Done, Result, At
<1>8. \A g \in Elements(Roots) : g \in Files /\ act'[<<l, g>>] = act[<<l, g>>]
  BY <1>2, <1>5, Places
<1>9. \A g \in Files : act'[<<l, g>>].pc \in Over \/ g \in Indices
  BY <1>2, <1>3, <1>4, <1>5 DEF StageOK
<1>10. StageOK(l)'
  <2>1. stage'[l] = InIndices
    BY <1>1, <1>4
  <2>2. \A g \in Elements(Roots) : act'[<<l, g>>].pc = "none"
    BY <1>3, <1>4, <1>6, <1>8 DEF StageOK
  <2> QED
    BY <2>1, <2>2, <1>6, <1>7, <1>9 DEF StageOK
<1>11. RootsOK(l)'
  BY <1>3, <1>8 DEF RootsOK, Done, Result, At
<1>12. stage' = [stage EXCEPT ![l] = InIndices]
  BY <1>1, <1>3, <1>4
<1> QED
  BY <1>5, <1>6, <1>10, <1>11, <1>12, LoadStep

\* The process ends: files stay, activities do not.
LEMMA HaltInv ==
    ASSUME Inv, Halt
    PROVE  Inv'
<1> USE DEF Inv
<1>1. /\ alive' = FALSE /\ act' = [x \in DOMAIN act |-> Unused]
      /\ stage' = [l \in Loaders |-> Idle] /\ hurt' = Files
      /\ data' = [f \in Files |-> [i \in Inodes |-> IF i = name[f] THEN data[f][i] ELSE <<>>]]
      /\ UNCHANGED <<name, loads, calm, unexplained>>
  BY DEF Halt
<1>2. act \in [Loaders \X Files -> Activity]
  BY DEF ActInv
<1>3. \A l \in Loaders, f \in Files : act'[<<l, f>>] = Unused
  BY <1>1, <1>2
<1>4. DiskInv'
  <2>1. /\ data \in [Files -> [Inodes -> Contents]]
        /\ \A f \in Files, i \in Inodes : Len(data[f][i]) <= Size[f]
    BY DEF DiskInv
  <2>2. <<>> \in Contents /\ \A f \in Files : Len(<<>>) <= Size[f]
    BY EmptySeq, Bounds DEF Contents
  <2>3. \A f \in Files, i \in Inodes :
           data'[f][i] \in Contents /\ Len(data'[f][i]) <= Size[f]
    BY <1>1, <2>1, <2>2
  <2>4. data' \in [Files -> [Inodes -> Contents]]
    BY <1>1, <2>1, <2>2
  <2> QED
    BY <1>1, <2>3, <2>4 DEF DiskInv
<1>5. ActInv'
  <2>1. \A f \in Files : ActOK(f, Unused) /\ Unused \in Activity
    BY StartOK DEF ActOK
  <2>2. act' \in [Loaders \X Files -> Activity]
    <3>1. \A x \in Loaders \X Files : Unused \in Activity
      BY <2>1
    <3> QED
      BY <3>1, <1>1, <1>2
  <2>3. \A l \in Loaders, f \in Files : ActOK(f, act'[<<l, f>>])
    BY <2>1, <1>3
  <2> QED
    BY <2>2, <2>3 DEF ActInv, ActOK
<1>6. StageInv'
  <2>1. Idle \in Idle..InRoot /\ Idle \notin 1..Len(Sequential) /\ Idle # InIndices /\ Idle # InRoot
    BY StageNumbers
  <2>2. stage' \in [Loaders -> Idle..InRoot] /\ \A l \in Loaders : stage'[l] = Idle
    BY <1>1, <2>1
  <2>3. Elements(Roots) \subseteq Files /\ 0 \in 0..Len(Roots) /\ 1..0 = {}
    BY Places
  <2>4. ASSUME NEW l \in Loaders PROVE StageOK(l)' /\ RootsOK(l)'
    <3>1. \A f \in Files : act'[<<l, f>>] = Unused /\ act'[<<l, f>>].pc = "none"
      BY <1>3 DEF Unused
    <3>2. StageOK(l)'
      BY <3>1, <2>1, <2>2, <2>3 DEF StageOK
    <3>3. RootsOK(l)'
      BY <3>1, <2>3 DEF RootsOK
    <3> QED
      BY <3>2, <3>3
  <2> QED
    BY <2>2, <2>4 DEF StageInv
<1>7. CalmInv'
  <2>1. calm' \subseteq Loaders /\ unexplained' = {}
    BY <1>1 DEF DiskInv, CalmInv
  <2>2. ASSUME NEW l \in calm', NEW f \in Files PROVE CalmOK(l, f)'
    <3>1. act'[<<l, f>>].pc = "none"
      BY <2>1, <2>2, <1>3 DEF Unused
    <3> QED
      BY <3>1 DEF CalmOK, At, Done
  <2> QED
    BY <2>1, <2>2 DEF CalmInv
<1>8. ConvergeInv'
  BY <1>1 DEF ConvergeInv
<1> QED
  BY <1>4, <1>5, <1>6, <1>7, <1>8

-----------------------------------------------------------------------------
(* The theorems                                                            *)

\* Whatever an earlier start left on disk.
LEMMA InitInv == Init => Inv
<1> SUFFICES ASSUME Init PROVE Inv
  OBVIOUS
<1>1. PICK left \in {h \in [Files -> -1..MaxSize] : \A f \in Files : h[f] <= Size[f]} :
         /\ name = [f \in Files |-> IF left[f] < 0 THEN 0 ELSE 1]
         /\ data = [f \in Files |-> [i \in Inodes |->
               IF i = 1 /\ left[f] > 0 THEN [k \in 1..left[f] |-> "good"] ELSE <<>>]]
         /\ hurt = {f \in Files : left[f] \in 0..(Size[f] - 1)}
  BY DEF Init
<1>2. /\ act = [x \in Loaders \X Files |-> Unused] /\ stage = [l \in Loaders |-> Idle]
      /\ loads = [l \in Loaders |-> 0] /\ alive = TRUE /\ calm = Loaders /\ unexplained = {}
  BY DEF Init
<1>3. /\ left \in [Files -> -1..MaxSize] /\ \A f \in Files : left[f] \in Int /\ left[f] <= Size[f]
      /\ MaxSize \in Nat /\ \A f \in Files : Size[f] \in Nat
  BY <1>1, Bounds
<1>4. 1 \in Inodes
  <2>1. Cardinality(Loaders) # 0
    BY LoadersAssumption, FS_EmptySet
  <2> QED
    BY <2>1, Bounds DEF Inodes
<1>5. \A f \in Files : left[f] > 0 =>
         /\ [k \in 1..left[f] |-> "good"] \in Contents
         /\ Len([k \in 1..left[f] |-> "good"]) = left[f]
  <2> SUFFICES ASSUME NEW f \in Files, left[f] > 0
               PROVE  /\ [k \in 1..left[f] |-> "good"] \in Contents
                      /\ Len([k \in 1..left[f] |-> "good"]) = left[f]
    OBVIOUS
  <2>1. left[f] \in Nat
    BY <1>3
  <2>2. PICK n \in Nat : n = left[f]
    BY <2>1
  <2>3. [k \in 1..n |-> "good"] \in [1..n -> {"good", "bad"}]
    OBVIOUS
  <2>4. [k \in 1..n |-> "good"] \in Seq({"good", "bad"})
    BY <2>3, SeqDef
  <2>5. Len([k \in 1..n |-> "good"]) = n
    BY <2>4, LenProperties
  <2> QED
    BY <2>2, <2>4, <2>5 DEF Contents
<1>6. DiskInv
  <2>1. <<>> \in Contents /\ \A f \in Files : Len(<<>>) <= Size[f]
    BY EmptySeq, Bounds DEF Contents
  <2>2. \A f \in Files, i \in Inodes : data[f][i] \in Contents /\ Len(data[f][i]) <= Size[f]
    BY <1>1, <1>3, <1>5, <2>1
  <2>3. data \in [Files -> [Inodes -> Contents]]
    BY <1>1, <1>5, <2>1
  <2>4. name \in [Files -> {0} \cup Inodes]
    BY <1>1, <1>4
  <2>5. loads \in [Loaders -> 0..MaxLoads] /\ alive \in BOOLEAN /\ calm \subseteq Loaders
    BY <1>2, Bounds
  <2>6. hurt \subseteq Files
    BY <1>1
  <2> QED
    BY <2>2, <2>3, <2>4, <2>5, <2>6 DEF DiskInv
<1>7. \A l \in Loaders, f \in Files : act[<<l, f>>] = Unused /\ act[<<l, f>>].pc = "none"
  BY <1>2 DEF Unused
<1>8. ActInv
  <2>1. \A f \in Files : ActOK(f, Unused) /\ Unused \in Activity
    BY StartOK DEF ActOK
  <2>2. \A x \in Loaders \X Files : Unused \in Activity
    BY <2>1
  <2>3. act \in [Loaders \X Files -> Activity]
    BY <2>2, <1>2
  <2> QED
    BY <2>1, <2>3, <1>7 DEF ActInv
<1>9. StageInv
  <2>1. Idle \in Idle..InRoot /\ Idle \notin 1..Len(Sequential) /\ Idle # InIndices /\ Idle # InRoot
    BY StageNumbers
  <2>2. stage \in [Loaders -> Idle..InRoot] /\ \A l \in Loaders : stage[l] = Idle
    BY <1>2, <2>1
  <2>3. Elements(Roots) \subseteq Files /\ 0 \in 0..Len(Roots) /\ 1..0 = {}
    BY Places
  <2>4. ASSUME NEW l \in Loaders PROVE StageOK(l) /\ RootsOK(l)
    <3>1. StageOK(l)
      BY <1>7, <2>1, <2>2, <2>3 DEF StageOK
    <3>2. RootsOK(l)
      BY <1>7, <2>3 DEF RootsOK
    <3> QED
      BY <3>1, <3>2
  <2> QED
    BY <2>2, <2>4 DEF StageInv
<1>10. CalmInv
  BY <1>2, <1>7 DEF CalmInv, CalmOK, At, Done
<1>11. ConvergeInv
  <2> SUFFICES ASSUME NEW f \in Files, f \notin hurt PROVE ConvergeOK(f)
    BY DEF ConvergeInv
  <2>1. \A l \in Loaders : ~At(<<l, f>>, "delete")
    BY <1>7 DEF At
  <2>2. left[f] < 0 \/ (left[f] = Size[f] /\ left[f] > 0)
    BY <1>1, <1>3, Bounds
  <2>3. CASE left[f] < 0
    BY <2>1, <2>3, <1>1 DEF ConvergeOK
  <2>4. CASE left[f] = Size[f] /\ left[f] > 0
    <3>1. name[f] = 1
      BY <2>4, <1>1, <1>3
    <3>2. data[f][1] = [k \in 1..left[f] |-> "good"] /\ Len(data[f][1]) = left[f]
      BY <2>4, <1>1, <1>4, <1>5
    <3>3. Good(data[f][1], Size[f])
      BY <3>2, <2>4, <1>3 DEF Good
    <3> QED
      BY <2>1, <3>1, <3>3 DEF ConvergeOK
  <2> QED
    BY <2>2, <2>3, <2>4
<1> QED
  BY <1>6, <1>8, <1>9, <1>10, <1>11 DEF Inv

\* The conjuncts hold together in every state.
LEMMA Invariance == Spec => []Inv
<1>1. Init => Inv
  BY InitInv
<1>2. Inv /\ [Next]_vars => Inv'
  <2> SUFFICES ASSUME Inv, [Next]_vars PROVE Inv'
    OBVIOUS
  <2>1. ASSUME NEW x \in Loaders \X Files, Resolve(x) \/ Fault(x) \/ RunTask(x) PROVE Inv'
    <3>1. PICK l \in Loaders, f \in Files : x = <<l, f>>
      OBVIOUS
    <3>2. CASE Resolve(x)
      BY <3>1, <3>2, ResolveInv
    <3>3. CASE Fault(x)
      BY <3>3, HaltInv DEF Fault
    <3>4. CASE RunTask(x)
      BY <3>1, <3>4, RunTaskInv
    <3> QED
      BY <2>1, <3>2, <3>3, <3>4
  <2>2. ASSUME NEW l \in Loaders, Load(l) PROVE Inv'
    <3>1. ASSUME NEW k \in DOMAIN Roots, NextRoot(l, k) PROVE Inv'
      BY <3>1, NextRootInv
    <3> QED
      BY <2>2, <3>1, GiveUpInv, AdvanceInv, PostTasksInv, CollectInv, NoRootInv, FinishInv DEF Load
  <2>3. ASSUME NEW l \in Loaders, Begin(l) \/ NoCDNs(l) PROVE Inv'
    BY <2>3, BeginInv
  <2>4. CASE Stop
    BY <2>4, HaltInv DEF Stop
  <2>5. ASSUME UNCHANGED vars PROVE Inv'
    <3>1. /\ name' = name /\ data' = data /\ act' = act /\ stage' = stage /\ loads' = loads
          /\ alive' = alive /\ unexplained' = unexplained /\ calm' = calm /\ hurt' = hurt
      BY <2>5 DEF vars, diskVars
    <3>2. DiskInv' /\ ActInv'
      BY <3>1 DEF Inv, DiskInv, ActInv
    <3>3. StageInv'
      BY <3>1 DEF Inv, StageInv, StageOK, RootsOK, Resolved, Done, Result, At
    <3>4. CalmInv' /\ ConvergeInv'
      BY <3>1 DEF Inv, CalmInv, CalmOK, ConvergeInv, ConvergeOK, Done, Result, At
    <3> QED
      BY <3>2, <3>3, <3>4 DEF Inv
  <2>6. CASE Terminating
    BY <2>5, <2>6 DEF Terminating
  <2> QED
    BY <2>1, <2>2, <2>3, <2>4, <2>5, <2>6 DEF Next, Progress
<1> QED
  BY <1>1, <1>2, PTL DEF Spec

\* Past its manifests a Load (Product::Load) has read every one of them whole;
\* includes type correctness.
THEOREM LoadManifestsWhole == Spec => []ManifestsAreWhole
<1>1. Inv => ManifestsAreWhole
  <2> SUFFICES ASSUME Inv PROVE ManifestsAreWhole
    OBVIOUS
  <2> USE DEF Inv
  <2>1. TypeOK
    <3>1. \A f \in Files, i \in Inodes :
             data[f][i] \in Seq({"good", "bad"}) /\ Len(data[f][i]) <= Size[f]
      BY DEF DiskInv, Contents
    <3>2. \A x \in Loaders \X Files : act[x].pc = "write" \/ act[x].len > 0 => act[x].inode # 0
      BY DEF ActInv, ActOK
    <3>3. act \in [Loaders \X Files -> Activity] /\ DOMAIN act = Loaders \X Files
      BY DEF ActInv
    <3>4. /\ name \in [Files -> {0} \cup Inodes] /\ stage \in [Loaders -> Idle..InRoot]
          /\ loads \in [Loaders -> 0..MaxLoads] /\ alive \in BOOLEAN
          /\ calm \cup unexplained \subseteq Loaders /\ hurt \subseteq Files
      BY DEF DiskInv, StageInv, CalmInv
    <3> QED
      BY <3>1, <3>2, <3>3, <3>4 DEF TypeOK
  <2>2. ASSUME NEW l \in Loaders, stage[l] \in {InIndices, InRoot}, NEW f \in Elements(Manifests)
        PROVE  Result(l, f) = "whole"
    <3>1. PICK j \in 1..Len(Sequential) : f = Sequential[j]
      BY Places
    <3>2. f \in Files /\ f \in Keyed
      BY <3>1, Places
    <3>3. Resolved(l, f)
      BY <2>2, <3>1 DEF StageInv, StageOK
    <3>4. ActOK(f, act[<<l, f>>])
      BY <3>2 DEF ActInv
    <3> QED
      BY <3>2, <3>3, <3>4 DEF ActOK, Activity, Resolved, Done, Result, At
  <2> QED
    BY <2>1, <2>2 DEF ManifestsAreWhole
<1> QED
  BY <1>1, Invariance, PTL

\* When Load returns none of the tasks it posted to the executor is left.
THEOREM LoadTasksEnd == Spec => []TasksEndBeforeReturn
<1>1. Inv => TasksEndBeforeReturn
  <2> SUFFICES ASSUME Inv, NEW x \in DOMAIN act, stage[x[1]] = Idle PROVE act[x] = Unused
    BY DEF TasksEndBeforeReturn
  <2>1. PICK l \in Loaders, f \in Files : x = <<l, f>>
    BY DEF Inv, ActInv
  <2> QED
    BY <2>1 DEF Inv, StageInv, StageOK
<1> QED
  BY <1>1, Invariance, PTL

\* A Load that met no failure and was not disturbed does not fail, whatever an
\* earlier start left in the cache's directory (ResourceResolver::Resolve).
THEOREM LoadUndisturbed == Spec => []UndisturbedLoadSucceeds
<1>1. Inv => UndisturbedLoadSucceeds
  BY DEF Inv, CalmInv, UndisturbedLoadSucceeds
<1> QED
  BY <1>1, Invariance, PTL

\* Any number of downloads of one file at once (FileDownloadTask) end in the
\* whole file, or none, unless one of them was cut short.
THEOREM LoadDownloadsConverge == Spec => []ConcurrentDownloadsConverge
<1>1. Inv => ConcurrentDownloadsConverge
  <2> SUFFICES ASSUME Inv, NEW f \in Files, f \notin hurt,
                      \A l \in Loaders : act[<<l, f>>].pc \notin {"write", "delete"}, name[f] # 0
               PROVE  data[f][name[f]] = Whole(f)
    BY DEF ConcurrentDownloadsConverge
  <2>1. Good(data[f][name[f]], Size[f])
    BY DEF Inv, ConvergeInv, ConvergeOK, At
  <2>2. PICK d : d = data[f][name[f]]
    OBVIOUS
  <2>3. d \in Contents /\ Len(d) <= Size[f]
    <3>1. name[f] \in Inodes
      BY DEF Inv, DiskInv
    <3> QED
      BY <3>1, <2>2 DEF Inv, DiskInv
  <2> QED
    BY <2>1, <2>2, <2>3, GoodIsWhole
<1> QED
  BY <1>1, Invariance, PTL

-----------------------------------------------------------------------------
(* Nobody waits for himself                                                *)

\* A load waits for what has been started.
WorkOK(l) ==
    /\ stage[l] \in 1..Len(Sequential) => act[<<l, Sequential[stage[l]]>>].pc # "none"
    /\ stage[l] = InIndices => \A f \in Indices : act[<<l, f>>].pc # "none"

WorkInv == \A l \in Loaders : WorkOK(l)

\* A loader that stays where it is and forgets no activity...
LEMMA WorkSame ==
    ASSUME NEW m \in Loaders, WorkOK(m), stage'[m] = stage[m],
           \A g \in Files : act[<<m, g>>].pc # "none" => act'[<<m, g>>].pc # "none"
    PROVE  WorkOK(m)'
<1>1. \A j \in 1..Len(Sequential) : Sequential[j] \in Files
  BY Places
<1>2. Indices \subseteq Files
  BY Places
<1> QED
  BY <1>1, <1>2 DEF WorkOK

\* ... or is where it waits for neither the sequence nor the indices.
LEMMA WorkAway ==
    ASSUME NEW m \in Loaders, stage'[m] \in {Idle, 0, InRoot}
    PROVE  WorkOK(m)'
BY StageNumbers DEF WorkOK

\* One loader moves, the others stay as they are.
LEMMA WorkMoves ==
    ASSUME Inv, WorkInv, NEW l \in Loaders, NEW s, stage' = [stage EXCEPT ![l] = s],
           \A m \in Loaders \ {l}, g \in Files : act'[<<m, g>>] = act[<<m, g>>],
           stage'[l] = s => WorkOK(l)'
    PROVE  WorkInv'
<1>1. stage \in [Loaders -> Idle..InRoot]
  BY DEF Inv, StageInv
<1>2. stage'[l] = s /\ \A m \in Loaders \ {l} : stage'[m] = stage[m]
  BY <1>1
<1>3. \A m \in Loaders \ {l} : WorkOK(m)'
  BY <1>2, WorkSame DEF WorkInv
<1> QED
  BY <1>2, <1>3 DEF WorkInv

LEMMA WorkReturn ==
    ASSUME Inv, WorkInv, NEW l \in Loaders, Return(l)
    PROVE  WorkInv'
<1>1. act \in [Loaders \X Files -> Activity]
  BY DEF Inv, ActInv
<1>2. stage' = [stage EXCEPT ![l] = Idle]
  BY DEF Return
<1>3. \A m \in Loaders \ {l}, g \in Files : act'[<<m, g>>] = act[<<m, g>>]
  BY <1>1 DEF Return
<1>4. stage'[l] = Idle => WorkOK(l)'
  BY WorkAway
<1> QED
  BY <1>2, <1>3, <1>4, WorkMoves

LEMMA WorkGoto ==
    ASSUME Inv, WorkInv, NEW l \in Loaders, NEW s, NEW f \in Files, Goto(l, s, f),
           s = InRoot \/ (s \in 1..Len(Sequential) /\ f = Sequential[s])
    PROVE  WorkInv'
<1>1. act \in [Loaders \X Files -> Activity]
  BY DEF Inv, ActInv
<1>2. stage' = [stage EXCEPT ![l] = s] /\ act' = [act EXCEPT ![<<l, f>>] = Started]
  BY DEF Goto
<1>3. act'[<<l, f>>] = Started /\ Started.pc = "look"
  BY <1>1, <1>2, StartOK
<1>4. \A m \in Loaders \ {l}, g \in Files : act'[<<m, g>>] = act[<<m, g>>]
  BY <1>1, <1>2
<1>5. ASSUME stage'[l] = s PROVE WorkOK(l)'
  <2>1. CASE s = InRoot
    BY <2>1, <1>5, WorkAway
  <2>2. CASE s \in 1..Len(Sequential) /\ f = Sequential[s]
    <3>1. s # InIndices
      BY <2>2, StageNumbers
    <3> QED
      BY <3>1, <2>2, <1>3, <1>5 DEF WorkOK
  <2> QED
    BY <2>1, <2>2
<1> QED
  BY <1>2, <1>4, <1>5, WorkMoves

LEMMA WorkLoad ==
    ASSUME Inv, WorkInv, NEW l \in Loaders, Load(l)
    PROVE  WorkInv'
<1>1. act \in [Loaders \X Files -> Activity]
  BY DEF Inv, ActInv
<1>2. CASE GiveUp(l) \/ NoRoot(l) \/ Finish(l)
  BY <1>2, WorkReturn DEF GiveUp, NoRoot, Finish
<1>3. CASE Advance(l)
  <2>1. PICK s : s = stage[l]
    OBVIOUS
  <2>2. s \in 0..(Len(Sequential) - 1) /\ Goto(l, s + 1, Sequential[s + 1])
    BY <1>3, <2>1 DEF Advance
  <2>3. s + 1 \in 1..Len(Sequential)
    BY <2>2, StageNumbers
  <2>4. Sequential[s + 1] \in Files
    BY <2>3, Places
  <2> QED
    BY <2>2, <2>3, <2>4, WorkGoto
<1>4. CASE PostTasks(l)
  <2> DEFINE Posted == [Unused EXCEPT !.pc = "posted"]
  <2>1. /\ stage' = [stage EXCEPT ![l] = InIndices]
        /\ act' = [x \in DOMAIN act |->
              IF x \in {l} \X FileIndex THEN Started
              ELSE IF x \in {l} \X Archives THEN Posted ELSE act[x]]
    BY <1>4 DEF PostTasks
  <2>2. \A g \in Indices : g \in Files /\ (g \in FileIndex \/ g \in Archives)
    BY Places DEF Indices
  <2>3. ASSUME NEW g \in Files PROVE Started.pc = "look" /\ Posted.pc = "posted"
    BY StartOK
  <2> HIDE DEF Posted
  <2>4. \A m \in Loaders, g \in Files : act'[<<m, g>>] =
            IF m = l /\ g \in FileIndex THEN Started
            ELSE IF m = l /\ g \in Archives THEN Posted ELSE act[<<m, g>>]
    BY <1>1, <2>1
  <2>5. \A m \in Loaders \ {l}, g \in Files : act'[<<m, g>>] = act[<<m, g>>]
    BY <2>4
  <2>6. \A g \in Indices : act'[<<l, g>>].pc # "none"
    BY <2>2, <2>3, <2>4
  <2>7. stage'[l] = InIndices => WorkOK(l)'
    BY <2>6, StageNumbers DEF WorkOK
  <2> QED
    BY <2>1, <2>5, <2>7, WorkMoves
<1>5. CASE Collect(l)
  <2>1. stage' = [stage EXCEPT ![l] = InRoot] /\ act' = act
    BY <1>5 DEF Collect
  <2>2. stage'[l] = InRoot => WorkOK(l)'
    BY WorkAway
  <2> QED
    BY <2>1, <2>2, WorkMoves
<1>6. ASSUME NEW k \in DOMAIN Roots, NextRoot(l, k) PROVE WorkInv'
  <2>1. Roots[k] \in Files
    BY Places, LenProperties
  <2> QED
    BY <2>1, <1>6, WorkGoto DEF NextRoot
<1> QED
  BY <1>2, <1>3, <1>4, <1>5, <1>6 DEF Load

LEMMA WorkNext == Inv /\ WorkInv /\ [Next]_vars => WorkInv'
<1> SUFFICES ASSUME Inv, WorkInv, [Next]_vars PROVE WorkInv'
  OBVIOUS
<1>1. act \in [Loaders \X Files -> Activity] /\ stage \in [Loaders -> Idle..InRoot]
  BY DEF Inv, ActInv, StageInv
<1>2. ASSUME stage' = stage,
             \A m \in Loaders, g \in Files : act[<<m, g>>].pc # "none" => act'[<<m, g>>].pc # "none"
      PROVE  WorkInv'
  BY <1>2, WorkSame DEF WorkInv
<1>3. ASSUME Halt PROVE WorkInv'
  <2>1. \A m \in Loaders : stage'[m] = Idle
    BY <1>3 DEF Halt
  <2> QED
    BY <2>1, WorkAway DEF WorkInv
<1>4. ASSUME NEW l \in Loaders, NEW f \in Files, Resolve(<<l, f>>) PROVE WorkInv'
  <2>1. PICK a : StepOK(l, f, a)
    BY <1>4, ResolveSteps
  <2>2. /\ stage' = stage /\ act'[<<l, f>>].pc # "none"
        /\ \A m \in Loaders, g \in Files : m # l \/ g # f => act'[<<m, g>>] = act[<<m, g>>]
    BY <2>1 DEF StepOK, Local
  <2> QED
    BY <2>2, <1>2
<1>5. ASSUME NEW l \in Loaders, NEW f \in Files, RunTask(<<l, f>>) PROVE WorkInv'
  <2>1. stage' = stage /\ act' = [act EXCEPT ![<<l, f>>] = Started]
    BY <1>5 DEF RunTask
  <2>2. Started.pc = "look"
    BY StartOK
  <2>3. \A m \in Loaders, g \in Files : act'[<<m, g>>] = Started \/ act'[<<m, g>>] = act[<<m, g>>]
    BY <1>1, <2>1
  <2> QED
    BY <2>1, <2>2, <2>3, <1>2
<1>6. ASSUME NEW l \in Loaders, Begin(l) \/ NoCDNs(l) PROVE WorkInv'
  <2>1. CASE Begin(l)
    <3>1. stage' = [stage EXCEPT ![l] = 0] /\ act' = act
      BY <2>1 DEF Begin
    <3>2. stage'[l] = 0 => WorkOK(l)'
      BY WorkAway
    <3> QED
      BY <3>1, <3>2, WorkMoves
  <2>2. CASE NoCDNs(l)
    BY <2>2, <1>2 DEF NoCDNs
  <2> QED
    BY <1>6, <2>1, <2>2
<1>7. CASE UNCHANGED vars
  BY <1>7, <1>2 DEF vars
<1>8. ASSUME NEW x \in Loaders \X Files, Resolve(x) \/ Fault(x) \/ RunTask(x) PROVE WorkInv'
  <2>1. PICK l \in Loaders, f \in Files : x = <<l, f>>
    OBVIOUS
  <2> QED
    BY <2>1, <1>3, <1>4, <1>5, <1>8 DEF Fault
<1> QED
  BY <1>3, <1>6, <1>7, <1>8, WorkLoad DEF Next, Progress, Stop, Terminating

LEMMA WorkInvariance == Spec => [](Inv /\ WorkInv)
<1>1. Init => WorkInv
  <2> SUFFICES ASSUME Init, NEW l \in Loaders PROVE WorkOK(l)
    BY DEF WorkInv
  <2>1. stage[l] = Idle
    BY DEF Init
  <2> QED
    BY <2>1, StageNumbers DEF WorkOK
<1> QED
  BY <1>1, WorkNext, Invariance, PTL DEF Spec

\* The least-number principle.
LEMMA Smallest ==
    ASSUME NEW T \in SUBSET Nat, T # {}
    PROVE  \E n \in T : \A k \in T : n <= k
<1> DEFINE R == OpToRel(<, Nat)
<1>1. IsWellFoundedOn(R, Nat)
  BY NatLessThanWellFounded
<1>2. \A i, j \in Nat : <<j, i>> \in R <=> j < i
  BY DEF OpToRel
<1> HIDE DEF R
<1>3. PICK n \in T : \A k \in T : ~ (<<k, n>> \in R)
  BY <1>1, WFMin
<1>4. ASSUME NEW k \in T PROVE n <= k
  <2>1. n \in Nat /\ k \in Nat
    OBVIOUS
  <2>2. ~(k < n)
    BY <2>1, <1>2, <1>3
  <2> QED
    BY <2>1, <2>2
<1> QED
  BY <1>4

\* With no file of its own being resolved, a load at the root tries the next
\* encoded form, or is through with them.
LEMMA RootGoesOn ==
    ASSUME Inv, NEW l \in Loaders, stage[l] = InRoot, \A f \in Files : ~Running(<<l, f>>)
    PROVE  LoadCanGoOn(l)
<1>1. /\ Elements(Roots) \subseteq Files \ Indices /\ Archives \subseteq Indices
      /\ Len(Roots) \in Nat /\ DOMAIN Roots = 1..Len(Roots)
      /\ \A k \in 1..Len(Roots) : Roots[k] \in Elements(Roots)
      /\ \A f \in Elements(Roots) : \E k \in 1..Len(Roots) : f = Roots[k]
  BY Places, LenProperties
<1>2. \A f \in Elements(Roots) : act[<<l, f>>].pc # "none" => Done(l, f)
  <2> TAKE f \in Elements(Roots)
  <2>1. f \in Files /\ f \notin Archives
    BY <1>1
  <2>2. ActOK(f, act[<<l, f>>])
    BY <2>1 DEF Inv, ActInv
  <2> QED
    BY <2>1, <2>2 DEF ActOK, Running, Done, At
<1>3. CASE \E f \in Elements(Roots) : Done(l, f) /\ Result(l, f) # "none"
  BY <1>3 DEF LoadCanGoOn
<1>4. CASE /\ \A f \in Elements(Roots) : Done(l, f) => Result(l, f) = "none"
           /\ \A f \in Elements(Roots) : act[<<l, f>>].pc # "none"
  BY <1>2, <1>4 DEF LoadCanGoOn
<1>5. CASE /\ \A f \in Elements(Roots) : Done(l, f) => Result(l, f) = "none"
           /\ \E f \in Elements(Roots) : act[<<l, f>>].pc = "none"
  <2> DEFINE T == {k \in 1..Len(Roots) : act[<<l, Roots[k]>>].pc = "none"}
  <2>1. T \in SUBSET Nat /\ T # {}
    BY <1>1, <1>5
  <2>2. PICK k \in T : \A j \in T : k <= j
    BY <2>1, Smallest
  <2>3. k \in 1..Len(Roots) /\ act[<<l, Roots[k]>>].pc = "none"
    OBVIOUS
  <2>4. ASSUME NEW j \in 1..(k - 1) PROVE Done(l, Roots[j]) /\ Result(l, Roots[j]) = "none"
    <3>1. j \in 1..Len(Roots) /\ ~(k <= j)
      BY <2>3, <1>1
    <3>2. act[<<l, Roots[j]>>].pc # "none"
      BY <3>1, <2>2
    <3> QED
      BY <3>1, <3>2, <1>1, <1>2, <1>5
  <2> QED
    BY <2>3, <2>4, <1>1 DEF LoadCanGoOn, At
<1> QED
  BY <1>3, <1>4, <1>5

\* Of the threads of the executor only the monitor's waits.
LEMMA ThreadLeft ==
    ASSUME PoolThreads > 1, \A x \in Tasks : ~Running(x)
    PROVE  Busy < PoolThreads
<1> DEFINE M == {l \in Loaders : RunsOnPool(l) /\ stage[l] # Idle}
<1>1. {x \in Tasks : Running(x)} = {}
  OBVIOUS
<1>2. M \in SUBSET {Monitor}
  BY DEF RunsOnPool
<1>3. Cardinality(M) \in Nat /\ Cardinality(M) <= 1
  <2>1. IsFiniteSet({Monitor}) /\ Cardinality({Monitor}) = 1
    BY FS_Singleton
  <2> HIDE DEF M
  <2>2. IsFiniteSet(M) /\ Cardinality(M) <= Cardinality({Monitor})
    BY <1>2, <2>1, FS_Subset
  <2> QED
    BY <2>1, <2>2, FS_CardinalityType
<1>4. PoolThreads \in Nat
  BY BoundsAssumption
<1>5. Busy = Cardinality({}) + Cardinality(M)
  BY <1>1 DEF Busy
<1> HIDE DEF M
<1> QED
  BY <1>3, <1>4, <1>5, FS_EmptySet

\* Although the monitor's Load waits, on a thread of the executor, for tasks
\* posted to that executor (Product.cpp:129), and loads of commands compete for
\* the other threads, no Load is ever left without somebody to go on: two threads
\* are enough (thread-count is twice the number of processors by default).
THEOREM LoadGoesOn ==
    ASSUME PoolThreads > 1
    PROVE  Spec => []LoadsNeverStuck
<1>1. Inv /\ WorkInv => LoadsNeverStuck
  <2> SUFFICES ASSUME Inv, WorkInv, NEW l \in Loaders, stage[l] # Idle,
                      \A f \in Files : ~Running(<<l, f>>)
               PROVE  \/ LoadCanGoOn(l)
                      \/ /\ \E f \in Archives : At(<<l, f>>, "posted")
                         /\ Busy < PoolThreads \/ \E x \in Tasks : Running(x)
    BY DEF LoadsNeverStuck
  <2>1. WorkOK(l) /\ stage[l] \in Idle..InRoot
    BY DEF Inv, StageInv, WorkInv
  <2>2. \A f \in Files : act[<<l, f>>].pc # "none" => Done(l, f) \/ (At(<<l, f>>, "posted") /\ f \in Archives)
    BY DEF Inv, ActInv, ActOK, Running, Done, At
  <2>3. CASE stage[l] = 0
    BY <2>3 DEF LoadCanGoOn
  <2>4. CASE stage[l] \in 1..Len(Sequential)
    <3>1. Sequential[stage[l]] \in Files \ Archives /\ stage[l] \in DOMAIN Sequential
      BY <2>4, Places, LenProperties
    <3> QED
      BY <3>1, <2>1, <2>2, <2>4 DEF WorkOK, LoadCanGoOn
  <2>5. CASE stage[l] = InIndices
    <3>1. \A f \in Indices : Done(l, f) \/ (At(<<l, f>>, "posted") /\ f \in Archives)
      BY <2>1, <2>2, <2>5, Places DEF WorkOK
    <3>2. Busy < PoolThreads \/ \E x \in Tasks : Running(x)
      BY ThreadLeft
    <3> QED
      BY <3>1, <3>2, <2>5 DEF LoadCanGoOn
  <2>6. CASE stage[l] = InRoot
    BY <2>6, RootGoesOn
  <2>7. stage[l] = 0 \/ stage[l] \in 1..Len(Sequential) \/ stage[l] = InIndices \/ stage[l] = InRoot
    BY <2>1, StageNumbers
  <2> QED
    BY <2>3, <2>4, <2>5, <2>6, <2>7
<1> QED
  BY <1>1, WorkInvariance, PTL
-----------------------------------------------------------------------------
(* A load has finitely many steps                                          *)

\* How far Resolve is with one host.
Place == [look |-> 1, cached |-> 2, connect |-> 3, write |-> 4, fresh |-> 5, delete |-> 5]

\* Activity b comes after activity a: it is over, or has begun at last, or is
\* with a later host, or further on with the same one.
Later(a, b) ==
    /\ a.pc # "done" /\ b.pc \notin {"none", "posted"}
    /\ \/ b.pc = "done"
       \/ a.pc \in {"none", "posted"}
       \/ b.try > a.try
       \/ b.try = a.try /\ Place[b.pc] > Place[a.pc]
       \/ b.try = a.try /\ b.pc = a.pc /\ b.pos > a.pos

\* A load returns, or goes to a later place, or stays at its place and each of
\* its activities stays as it is or goes on.
MovesOn ==
    \A l \in Loaders :
        \/ stage'[l] = Idle
        \/ stage'[l] > stage[l]
        \/ /\ stage'[l] = stage[l]
           /\ \A f \in Files : \/ act'[<<l, f>>] = act[<<l, f>>]
                               \/ Later(act[<<l, f>>], act'[<<l, f>>])

\* The next host comes later, and there is an end to them.
LEMMA NextHostLater ==
    ASSUME ActInv, NEW l \in Loaders, NEW f \in Files, act[<<l, f>>].pc # "done"
    PROVE  Later(act[<<l, f>>], NextHost(<<l, f>>))
<1>1. PICK a : a = act[<<l, f>>]
  OBVIOUS
<1>2. a \in Activity /\ a.pc # "done"
  BY <1>1 DEF ActInv
<1>3. a.try \in Nat
  BY <1>2, Bounds DEF Activity
<1>4. CASE a.try + 1 = Records * Hosts
  <2>1. NextHost(<<l, f>>) = [Unused EXCEPT !.pc = "done"]
    BY <1>1, <1>4 DEF NextHost
  <2>2. NextHost(<<l, f>>).pc = "done"
    BY <2>1 DEF Unused
  <2> QED
    BY <1>1, <1>2, <2>2 DEF Later
<1>5. CASE a.try + 1 # Records * Hosts
  <2>1. PICK pc : pc = IF (a.try + 1) % Hosts = 0 THEN "look" ELSE "connect"
    OBVIOUS
  <2>2. NextHost(<<l, f>>) = [[a EXCEPT !.try = a.try + 1, !.inode = 0, !.len = 0, !.pos = 0]
                               EXCEPT !.pc = pc]
    BY <1>1, <1>5, <2>1 DEF NextHost
  <2>3. NextHost(<<l, f>>).try = a.try + 1 /\ NextHost(<<l, f>>).pc \in {"look", "connect"}
    BY <1>2, <2>1, <2>2 DEF Activity
  <2> QED
    BY <1>1, <1>2, <1>3, <2>3 DEF Later
<1> QED
  BY <1>4, <1>5

\* Every step of Resolve, Cache::Resolve and FileDownloadTask leads on.
LEMMA ResolveLater ==
    ASSUME ActInv, NEW l \in Loaders, NEW f \in Files, Resolve(<<l, f>>)
    PROVE  /\ stage' = stage
           /\ \E a : act' = [act EXCEPT ![<<l, f>>] = a] /\ Later(act[<<l, f>>], a)
<1> DEFINE x == <<l, f>>
<1>1. ActOK(f, act[x]) /\ act[x] \in Activity
  BY DEF ActInv, ActOK
<1>2. /\ Place["look"] = 1 /\ Place["cached"] = 2 /\ Place["connect"] = 3 /\ Place["write"] = 4
      /\ Place["fresh"] = 5 /\ Place["delete"] = 5
  BY DEF Place
<1>3. stage' = stage
  BY DEF Resolve, Look, Parse, ParseThrows, ConnectFails, Connect, WritePart, EndRead, ErrorStatus,
         Delete
<1>4. act[x].pc # "done" => Later(act[x], NextHost(x))
  BY NextHostLater
<1>5. act[x].pc \in {"cached", "fresh"} => Later(act[x], Refuses(x))
  <2>1. CASE act[x].pc = "cached"
    <3>1. Refuses(x) = [act[x] EXCEPT !.pc = "connect", !.inode = 0, !.len = 0]
      BY <2>1 DEF Refuses, At
    <3>2. Refuses(x).pc = "connect" /\ Refuses(x).try = act[x].try
      BY <1>1, <3>1 DEF Activity
    <3> QED
      BY <2>1, <3>2, <1>2 DEF Later
  <2>2. CASE act[x].pc = "fresh"
    BY <2>2, <1>4 DEF Refuses, At
  <2> QED
    BY <2>1, <2>2
<1>6. ASSUME NEW pc \in {"cached", "fresh"}
      PROVE  Mapped(x, pc).pc = pc /\ Mapped(x, pc).try = act[x].try
  BY <1>1 DEF Mapped, Activity
<1>7. CASE Look(x)
  <2>1. act[x].pc = "look" /\ act' = [act EXCEPT ![x] =
            IF name[f] = 0 THEN [act[x] EXCEPT !.pc = "connect"] ELSE Mapped(x, "cached")]
    BY <1>7 DEF Look, Moves, Becomes, At
  <2>2. Later(act[x], [act[x] EXCEPT !.pc = "connect"])
    BY <1>1, <1>2, <2>1 DEF Later, Activity
  <2>3. Later(act[x], Mapped(x, "cached"))
    BY <1>2, <1>6, <2>1 DEF Later
  <2> QED
    BY <1>3, <2>1, <2>2, <2>3
<1>8. CASE Parse(x)
  <2>1. act[x].pc \in {"cached", "fresh"}
    BY <1>8 DEF Parse
  <2>2. PICK r : Moves(x, IF r = "none" THEN Refuses(x) ELSE [Unused EXCEPT !.pc = "done", !.res = r])
    BY <1>8 DEF Parse
  <2>3. PICK a : a = IF r = "none" THEN Refuses(x) ELSE [Unused EXCEPT !.pc = "done", !.res = r]
    OBVIOUS
  <2>4. Moves(x, a)
    BY <2>2, <2>3
  <2>5. act' = [act EXCEPT ![x] = a]
    BY <2>4 DEF Moves, Becomes
  <2>6. CASE r = "none"
    BY <1>3, <1>5, <2>1, <2>3, <2>5, <2>6
  <2>7. CASE r # "none"
    <3>1. a.pc = "done"
      BY <2>3, <2>7 DEF Unused
    <3>2. Later(act[x], a)
      BY <2>1, <3>1 DEF Later
    <3> QED
      BY <1>3, <2>5, <3>2
  <2> QED
    BY <2>6, <2>7
<1>9. CASE ParseThrows(x)
  <2>1. act[x].pc = "cached" /\ act' = [act EXCEPT ![x] = Refuses(x)]
    BY <1>9 DEF ParseThrows, Becomes, At
  <2> QED
    BY <1>3, <1>5, <2>1
<1>10. CASE ConnectFails(x) \/ Delete(x)
  <2>1. act[x].pc # "done" /\ act' = [act EXCEPT ![x] = NextHost(x)]
    BY <1>10 DEF ConnectFails, Delete, Moves, Becomes, At
  <2> QED
    BY <1>3, <1>4, <2>1
<1>11. CASE Connect(x)
  <2>1. PICK i : /\ act[x].pc = "connect"
                 /\ act' = [act EXCEPT ![x] = [act[x] EXCEPT !.pc = "write", !.inode = i, !.pos = 0]]
    BY <1>11 DEF Connect, Becomes, At
  <2>2. Later(act[x], [act[x] EXCEPT !.pc = "write", !.inode = i, !.pos = 0])
    BY <1>1, <1>2, <2>1 DEF Later, Activity
  <2> QED
    BY <1>3, <2>1, <2>2
<1>12. CASE WritePart(x)
  <2>1. /\ act[x].pc = "write"
        /\ act' = [act EXCEPT ![x] = [act[x] EXCEPT !.pos = act[x].pos + 1]]
    BY <1>12 DEF WritePart, Becomes, At
  <2>2. act[x].pos \in Nat
    BY <1>1, Bounds DEF Activity
  <2>3. Later(act[x], [act[x] EXCEPT !.pos = act[x].pos + 1])
    BY <1>1, <2>1, <2>2 DEF Later, Activity
  <2> QED
    BY <1>3, <2>1, <2>3
<1>13. CASE EndRead(x)
  <2>1. act[x].pc = "write" /\ act' = [act EXCEPT ![x] = Mapped(x, "fresh")]
    BY <1>13 DEF EndRead, Moves, Becomes, At
  <2>2. Later(act[x], Mapped(x, "fresh"))
    BY <1>2, <1>6, <2>1 DEF Later
  <2> QED
    BY <1>3, <2>1, <2>2
<1>14. CASE ErrorStatus(x)
  <2>1. /\ act[x].pc = "write"
        /\ act' = [act EXCEPT ![x] = [act[x] EXCEPT !.pc = "delete", !.inode = 0]]
    BY <1>14 DEF ErrorStatus, Becomes, At
  <2>2. Later(act[x], [act[x] EXCEPT !.pc = "delete", !.inode = 0])
    BY <1>1, <1>2, <2>1 DEF Later, Activity
  <2> QED
    BY <1>3, <2>1, <2>2
<1> QED
  BY <1>7, <1>8, <1>9, <1>10, <1>11, <1>12, <1>13, <1>14 DEF Resolve

\* The step of one load: the others stay as they are.
LEMMA OtherLoadsStay ==
    ASSUME Inv, NEW l \in Loaders, NEW s, stage' = [stage EXCEPT ![l] = s], s = Idle \/ s > stage[l],
           \A m \in Loaders \ {l}, g \in Files : act'[<<m, g>>] = act[<<m, g>>]
    PROVE  MovesOn
<1>1. stage \in [Loaders -> Idle..InRoot]
  BY DEF Inv, StageInv
<1> QED
  BY <1>1 DEF MovesOn

LEMMA LoadMovesOn ==
    ASSUME Inv, NEW l \in Loaders, Load(l)
    PROVE  MovesOn
<1>1. act \in [Loaders \X Files -> Activity] /\ stage \in [Loaders -> Idle..InRoot]
  BY DEF Inv, ActInv, StageInv
<1>2. ASSUME Return(l) PROVE MovesOn
  <2>1. stage' = [stage EXCEPT ![l] = Idle]
    BY <1>2 DEF Return
  <2>2. \A m \in Loaders \ {l}, g \in Files : act'[<<m, g>>] = act[<<m, g>>]
    BY <1>1, <1>2 DEF Return
  <2> QED
    BY <2>1, <2>2, OtherLoadsStay
<1>3. CASE GiveUp(l) \/ NoRoot(l) \/ Finish(l)
  BY <1>2, <1>3 DEF GiveUp, NoRoot, Finish
<1>4. CASE Advance(l)
  <2>1. PICK f : /\ stage' = [stage EXCEPT ![l] = stage[l] + 1]
                 /\ act' = [act EXCEPT ![<<l, f>>] = Started]
    BY <1>4 DEF Advance, Goto
  <2>2. \A m \in Loaders \ {l}, g \in Files : act'[<<m, g>>] = act[<<m, g>>]
    BY <1>1, <2>1
  <2>3. stage[l] + 1 > stage[l]
    BY <1>4, StageNumbers DEF Advance
  <2> QED
    BY <2>1, <2>2, <2>3, OtherLoadsStay
<1>5. CASE PostTasks(l)
  <2>1. /\ stage[l] = Len(Sequential) /\ stage' = [stage EXCEPT ![l] = InIndices]
        /\ act' = [x \in DOMAIN act |->
              IF x \in {l} \X FileIndex THEN Started
              ELSE IF x \in {l} \X Archives THEN [Unused EXCEPT !.pc = "posted"] ELSE act[x]]
    BY <1>5 DEF PostTasks
  <2>2. \A m \in Loaders \ {l}, g \in Files : act'[<<m, g>>] = act[<<m, g>>]
    BY <1>1, <2>1
  <2>3. InIndices > stage[l]
    BY <2>1, StageNumbers
  <2> QED
    BY <2>1, <2>2, <2>3, OtherLoadsStay
<1>6. CASE Collect(l)
  <2>1. stage[l] = InIndices /\ stage' = [stage EXCEPT ![l] = InRoot] /\ act' = act
    BY <1>6 DEF Collect
  <2>2. InRoot > stage[l]
    BY <2>1, StageNumbers
  <2> QED
    BY <2>1, <2>2, OtherLoadsStay
<1>7. ASSUME NEW k \in DOMAIN Roots, NextRoot(l, k) PROVE MovesOn
  <2>1. PICK f : f = Roots[k]
    OBVIOUS
  <2>2. /\ stage[l] = InRoot /\ act[<<l, f>>].pc = "none"
        /\ stage' = [stage EXCEPT ![l] = InRoot] /\ act' = [act EXCEPT ![<<l, f>>] = Started]
    BY <1>7, <2>1 DEF NextRoot, Goto, At
  <2>3. f \in Files
    BY <2>1, Places, LenProperties
  <2>4. Started.pc = "look"
    BY <2>3, StartOK
  <2>5. Later(act[<<l, f>>], Started)
    BY <2>2, <2>4 DEF Later
  <2>6. \A m \in Loaders : stage'[m] = stage[m]
    BY <1>1, <2>2
  <2>7. \A m \in Loaders, g \in Files : \/ act'[<<m, g>>] = act[<<m, g>>]
                                        \/ Later(act[<<m, g>>], act'[<<m, g>>])
    BY <1>1, <2>2, <2>3, <2>5
  <2> QED
    BY <2>6, <2>7 DEF MovesOn
<1> QED
  BY <1>3, <1>4, <1>5, <1>6, <1>7 DEF Load

\* A Load (Product::Load) only ever goes forward until it returns: through the
\* files, the indices and the encoded forms of the root, and in each of them
\* through the hosts and the parts, of which there are finitely many.  Nothing is
\* retried for ever, whatever fails and whatever other loads do to the files.
THEOREM LoadMeetsNoLoop == Spec => [][MovesOn]_vars
<1>1. Inv /\ [Next]_vars => [MovesOn]_vars
  <2> SUFFICES ASSUME Inv, Next PROVE MovesOn \/ UNCHANGED vars
    OBVIOUS
  <2>1. act \in [Loaders \X Files -> Activity] /\ stage \in [Loaders -> Idle..InRoot]
    BY DEF Inv, ActInv, StageInv
  <2>2. ASSUME Halt PROVE MovesOn
    BY <2>2 DEF Halt, MovesOn
  <2>3. ASSUME NEW l \in Loaders, NEW f \in Files, NEW a, stage' = stage,
               act' = [act EXCEPT ![<<l, f>>] = a], Later(act[<<l, f>>], a)
        PROVE  MovesOn
    <3>1. \A m \in Loaders, g \in Files : act'[<<m, g>>] =
             IF m = l /\ g = f THEN a ELSE act[<<m, g>>]
      BY <2>1, <2>3
    <3> QED
      BY <3>1, <2>3 DEF MovesOn
  <2>4. ASSUME NEW x \in Loaders \X Files, Resolve(x) \/ Fault(x) \/ RunTask(x) PROVE MovesOn
    <3>1. PICK l \in Loaders, f \in Files : x = <<l, f>>
      OBVIOUS
    <3>2. CASE Resolve(x)
      BY <3>1, <3>2, <2>3, ResolveLater DEF Inv
    <3>3. CASE Fault(x)
      BY <3>3, <2>2 DEF Fault
    <3>4. CASE RunTask(x)
      <4>1. /\ act[x].pc = "posted" /\ stage' = stage /\ act' = [act EXCEPT ![x] = Started]
        BY <3>4 DEF RunTask, At
      <4>2. Started.pc = "look"
        BY StartOK
      <4>3. Later(act[x], Started)
        BY <4>1, <4>2 DEF Later
      <4> QED
        BY <3>1, <4>1, <4>3, <2>3
    <3> QED
      BY <2>4, <3>2, <3>3, <3>4
  <2>5. ASSUME NEW l \in Loaders, Begin(l) \/ NoCDNs(l) PROVE MovesOn
    <3>1. CASE Begin(l)
      <4>1. stage[l] = Idle /\ stage' = [stage EXCEPT ![l] = 0] /\ act' = act
        BY <3>1 DEF Begin
      <4>2. 0 > stage[l]
        BY <4>1, StageNumbers
      <4> QED
        BY <4>1, <4>2, OtherLoadsStay
    <3>2. CASE NoCDNs(l)
      BY <3>2 DEF NoCDNs, MovesOn
    <3> QED
      BY <2>5, <3>1, <3>2
  <2> QED
    BY <2>2, <2>4, <2>5, LoadMovesOn DEF Next, Progress, Stop, Terminating
<1> QED
  BY <1>1, Invariance, PTL DEF Spec
=============================================================================
