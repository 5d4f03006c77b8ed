--------------------------- MODULE FrontendProofs ---------------------------
(***************************************************************************)
(* The safety properties of CommandSync and Frontend for every set of      *)
(* guilds, commands and interactions, and any number of starts and events. *)
(***************************************************************************)
EXTENDS Frontend, FiniteSetTheorems, SequenceTheorems, TLAPS

\* The rows of command_states.
Rows == [version : Nat, hash : Definitions \X Nat]

\* A row's hash was made with its own version.
TableInv ==
    /\ row \in [Commands -> Rows \cup {NoRow}]
    /\ \A c \in Commands : row[c] # NoRow => row[c].hash[2] = row[c].version
    /\ definition \in [Commands -> Definitions]
    /\ published \in [Commands -> Nat]

\* _commands has the command that needs the proxy only if there is one; a
\* handler that runs has a command to look at.
HandlerInv ==
    /\ commands \in Seq(Commands) /\ todo \in Seq(Commands)
    /\ \A k \in 1..Len(commands) : commands[k] = Download => server
    /\ guild \in Guilds \cup {NoGuild} /\ (guild = NoGuild <=> todo = <<>>)
    /\ step \in {"look", "record", "send"} /\ version \in Nat
    /\ step # "look" => guild # NoGuild

\* What was handled, and what is or was on its way to Discord.
SentInv ==
    /\ passed \subseteq Guilds \X Commands /\ sent \subseteq passed
    /\ inflight \subseteq Guilds \X Commands \X Definitions
    /\ remote \subseteq Guilds \X Commands \X Definitions

\* As long as nothing failed for a command and no release changed it, its row
\* is about its definition; it has one from before the first request on, and
\* none until the handler inserts it.
OnceInv ==
    \A c \in Commands \ (changed \cup failed) :
       /\ row[c] # NoRow => row[c].hash[1] = definition[c]
       /\ published[c] <= 1
       /\ published[c] = 1 => row[c] # NoRow
       /\ guild # NoGuild /\ Head(todo) = c
             => /\ step = "record" => row[c] = NoRow
                /\ step = "send" => row[c] # NoRow /\ published[c] = 0

SyncInv == TableInv /\ HandlerInv /\ SentInv /\ OnceInv /\ ChangeReachesGuilds

-----------------------------------------------------------------------------
(* Operators.                                                              *)

\* What HandleReady appends is what it registers.
LEMMA RegisteredSequence ==
    /\ SetToSeq(Registered) \in Seq(Commands)
    /\ \A k \in 1..Len(SetToSeq(Registered)) : SetToSeq(Registered)[k] \in Registered
<1> DEFINE n == Cardinality(Registered)
           IsOrder(f) == f \in [1..n -> Registered] /\ IsInjective(f)
<1>1. Registered \subseteq Commands /\ IsFiniteSet(Registered)
  BY NamesAssumption, FS_Subset DEF Registered
<1>2. n \in Nat /\ ExistsBijection(1..n, Registered)
  BY <1>1, FS_CardinalityType
<1>3. \E f \in [1..n -> Registered] : IsInjective(f)
  BY <1>2 DEF ExistsBijection, Bijection, Injection
<1>4. SetToSeq(Registered) \in [1..n -> Registered]
  BY <1>3 DEF SetToSeq
<1>5. SetToSeq(Registered) \in Seq(Registered) /\ Len(SetToSeq(Registered)) = n
  BY <1>2, <1>4, SeqDef, LenProperties
<1> QED
  BY <1>1, <1>2, <1>4, <1>5, SeqDef

\* A command that is registered is taken, once, by a place that holds it.
LEMMA TakesRegistered ==
    ASSUME HandlerInv, NEW c
    PROVE  /\ \A k \in Takes(c) : k \in 1..Len(commands) /\ commands[k] = c
           /\ \A j, k \in Takes(c) : j = k
<1>1. Matching(c) \subseteq Nat /\ \A k \in Matching(c) : k \in 1..Len(commands) /\ commands[k] = c
  BY LenProperties DEF HandlerInv, Matching
<1>2. CASE Matching(c) = {}
  BY <1>2 DEF Takes
<1>3. CASE Matching(c) # {}
  <2> DEFINE Less == OpToRel(<, Nat)
  <2>1. IsWellFoundedOn(Less, Nat) /\ \A x, y \in Nat : y < x => <<y, x>> \in Less
    BY NatLessThanWellFounded DEF OpToRel
  <2> HIDE DEF Less
  <2>2. \E x \in Matching(c) : \A y \in Matching(c) : x <= y
    <3>1. PICK x \in Matching(c) : \A y \in Matching(c) : ~ (<<y, x>> \in Less)
      BY <1>1, <1>3, <2>1, WFMin
    <3>2. \A y \in Matching(c) : ~ (y < x)
      BY <1>1, <2>1, <3>1, Zenon
    <3> QED
      BY <1>1, <3>2
  <2>3. Min(Matching(c)) \in Matching(c)
    BY <2>2 DEF Min
  <2> QED
    BY <1>1, <1>3, <2>3 DEF Takes
<1> QED
  BY <1>2, <1>3

\* The command a running handler looks at, and what is left after it.
LEMMA HandlerLooks ==
    ASSUME HandlerInv, guild # NoGuild
    PROVE  /\ guild \in Guilds /\ Head(todo) \in Commands
           /\ Tail(todo) \in Seq(Commands) /\ (Tail(todo) = <<>> <=> Len(todo) = 1)
<1>1. todo \in Seq(Commands) /\ todo # <<>> /\ guild \in Guilds
  BY DEF HandlerInv
<1>2. Head(todo) \in Commands /\ Tail(todo) \in Seq(Commands) /\ Len(Tail(todo)) = Len(todo) - 1
  BY <1>1, HeadTailProperties
<1>3. Len(todo) \in Nat /\ (Tail(todo) = <<>> <=> Len(Tail(todo)) = 0)
  BY <1>1, <1>2, EmptySeq, LenProperties
<1> QED
  BY <1>1, <1>2, <1>3

\* Going on with the next command.
LEMMA AdvanceHandler ==
    ASSUME HandlerInv, SentInv, guild # NoGuild, Advance,
           UNCHANGED <<commands, server, version>>
    PROVE  HandlerInv' /\ passed' \subseteq Guilds \X Commands
<1>1. /\ todo' = Tail(todo) /\ step' = "look" /\ passed' = passed \cup {<<guild, Head(todo)>>}
      /\ guild' = IF Len(todo) = 1 THEN NoGuild ELSE guild
      /\ UNCHANGED <<commands, server, version>>
  BY DEF Advance
<1>2. /\ todo' \in Seq(Commands) /\ guild' \in Guilds \cup {NoGuild}
      /\ guild' = NoGuild <=> todo' = <<>>
  BY <1>1, HandlerLooks
<1> QED
  BY <1>1, <1>2, HandlerLooks DEF HandlerInv, SentInv

-----------------------------------------------------------------------------
(* Each action of CommandSync preserves the invariant.                     *)

LEMMA SyncStarts == Init => SyncInv
<1> SUFFICES ASSUME Init PROVE SyncInv
  OBVIOUS
<1>1. TableInv
  BY DEF Init, TableInv
<1>2. HandlerInv
  <2>1. <<>> \in Seq(Commands) /\ Len(<<>>) = 0
    BY EmptySeq
  <2> QED
    BY <2>1 DEF Init, HandlerInv
<1>3. SentInv /\ OnceInv /\ ChangeReachesGuilds
  BY DEF Init, SentInv, OnceInv, ChangeReachesGuilds
<1> QED
  BY <1>1, <1>2, <1>3 DEF SyncInv

LEMMA SyncReady == SyncInv /\ HandleReady => SyncInv'
<1> SUFFICES ASSUME SyncInv, HandleReady PROVE SyncInv'
  OBVIOUS
<1> DEFINE new == SetToSeq(Registered)
<1>1. /\ commands' = commands \o new
      /\ UNCHANGED <<row, definition, server, guild, todo, step, version, inflight, remote,
                      changed, failed, published, passed, sent>>
  BY DEF HandleReady, handlerVars, history
<1>2. /\ commands \in Seq(Commands) /\ new \in Seq(Commands)
      /\ \A k \in 1..Len(new) : new[k] \in Registered
  BY RegisteredSequence DEF SyncInv, HandlerInv
<1> HIDE DEF new
<1>3. /\ commands' \in Seq(Commands) /\ Len(commands') = Len(commands) + Len(new)
      /\ \A k \in 1..Len(commands') :
            commands'[k] = IF k <= Len(commands) THEN commands[k] ELSE new[k - Len(commands)]
  BY <1>1, <1>2, ConcatProperties
<1>4. ASSUME NEW k \in 1..Len(commands'), commands'[k] = Download PROVE server
  <2>1. Len(commands) \in Nat /\ Len(new) \in Nat
    BY <1>2, LenProperties
  <2>2. CASE k <= Len(commands)
    BY <1>3, <1>4, <2>1, <2>2 DEF SyncInv, HandlerInv
  <2>3. CASE ~ (k <= Len(commands))
    <3>1. k - Len(commands) \in 1..Len(new)
      BY <1>3, <2>1, <2>3
    <3>2. Download \in Registered
      BY <1>2, <1>3, <1>4, <2>3, <3>1
    <3> QED
      BY <3>2 DEF Registered
  <2> QED
    BY <2>2, <2>3
<1>5. HandlerInv'
  BY <1>1, <1>3, <1>4 DEF SyncInv, HandlerInv
<1>6. TableInv' /\ SentInv'
  BY <1>1 DEF SyncInv, TableInv, SentInv
<1>7. OnceInv' /\ ChangeReachesGuilds'
  BY <1>1 DEF SyncInv, OnceInv, ChangeReachesGuilds
<1> QED
  BY <1>5, <1>6, <1>7 DEF SyncInv

LEMMA SyncGuildCreate == ASSUME NEW g \in Guilds, SyncInv, HandleGuildCreate(g) PROVE SyncInv'
<1>1. /\ guild = NoGuild /\ todo' = commands
      /\ guild' = IF commands = <<>> THEN NoGuild ELSE g
      /\ UNCHANGED <<row, definition, server, commands, step, version, inflight, remote,
                      changed, failed, published, passed, sent>>
  BY DEF HandleGuildCreate, history
<1>2. HandlerInv' /\ step = "look"
  BY <1>1, NamesAssumption DEF SyncInv, HandlerInv
<1>3. TableInv' /\ SentInv'
  BY <1>1 DEF SyncInv, TableInv, SentInv
<1>4. OnceInv' /\ ChangeReachesGuilds'
  BY <1>1, <1>2 DEF SyncInv, OnceInv, ChangeReachesGuilds
<1> QED
  BY <1>2, <1>3, <1>4 DEF SyncInv

LEMMA SyncSkip == SyncInv /\ Skip => SyncInv'
<1> SUFFICES ASSUME SyncInv, Skip PROVE SyncInv'
  OBVIOUS
<1> DEFINE c == Head(todo)
<1>1. /\ guild # NoGuild /\ step = "look" /\ InSync(c) /\ Advance
      /\ UNCHANGED <<row, definition, server, commands, version, inflight, remote, changed,
                      failed, published, sent>>
  BY DEF Skip, At
<1>2. HandlerInv' /\ passed' \subseteq Guilds \X Commands
  BY <1>1, AdvanceHandler DEF SyncInv
<1>3. passed' = passed \cup {<<guild, c>>} /\ step' = "look" /\ c \in Commands /\ guild \in Guilds
  BY <1>1, HandlerLooks DEF SyncInv, Advance
<1>4. row[c].hash[1] = definition[c]
  BY <1>1 DEF InSync, Hash
<1> HIDE DEF c
<1>5. TableInv' /\ SentInv'
  BY <1>1, <1>2, <1>3 DEF SyncInv, TableInv, SentInv
<1>6. OnceInv'
  BY <1>1, <1>3 DEF SyncInv, OnceInv
<1>7. ChangeReachesGuilds'
  BY <1>1, <1>3, <1>4 DEF SyncInv, ChangeReachesGuilds
<1> QED
  BY <1>2, <1>5, <1>6, <1>7 DEF SyncInv

\* A row of a version is one; the next version is a number.
LEMMA RowVersion ==
    ASSUME TableInv, NEW c \in Commands, row[c] # NoRow
    PROVE  row[c] \in Rows /\ row[c].version \in Nat /\ row[c].hash = <<row[c].hash[1], row[c].version>>
<1>1. row[c] \in Rows /\ row[c].hash[2] = row[c].version
  BY DEF TableInv
<1>2. row[c].version \in Nat /\ row[c].hash \in Definitions \X Nat
  BY <1>1 DEF Rows
<1> QED
  BY <1>1, <1>2

LEMMA SyncRequires == SyncInv /\ RequiresSynchronization => SyncInv'
<1> SUFFICES ASSUME SyncInv, RequiresSynchronization PROVE SyncInv'
  OBVIOUS
<1> DEFINE c == Head(todo)
<1>1. /\ guild # NoGuild /\ step = "look" /\ ~ InSync(c)
      /\ step' = "record" /\ version' = IF row[c] = NoRow THEN 1 ELSE row[c].version + 1
      /\ UNCHANGED <<row, definition, server, commands, guild, todo, inflight, remote, changed,
                      failed, published, passed, sent>>
  BY DEF RequiresSynchronization, At, history
<1>2. c \in Commands /\ version' \in Nat
  BY <1>1, HandlerLooks, RowVersion DEF SyncInv
<1>3. TableInv' /\ SentInv' /\ ChangeReachesGuilds'
  BY <1>1 DEF SyncInv, TableInv, SentInv, ChangeReachesGuilds
<1>4. HandlerInv'
  BY <1>1, <1>2 DEF SyncInv, HandlerInv
<1>5. c \notin changed \cup failed => row[c] = NoRow
  BY <1>1, <1>2, RowVersion DEF SyncInv, OnceInv, InSync, Hash
<1>6. OnceInv'
  BY <1>1, <1>5 DEF SyncInv, OnceInv
<1> QED
  BY <1>3, <1>4, <1>6 DEF SyncInv

LEMMA SyncFindFails == SyncInv /\ FindCommandFails => SyncInv'
<1> SUFFICES ASSUME SyncInv, FindCommandFails PROVE SyncInv'
  OBVIOUS
<1>1. /\ guild # NoGuild /\ step = "look" /\ step' = "record" /\ version' = 1
      /\ failed' = failed \cup {Head(todo)}
      /\ UNCHANGED <<row, definition, server, commands, guild, todo, inflight, remote, changed,
                      published, passed, sent>>
  BY DEF FindCommandFails, At
<1>2. TableInv' /\ SentInv' /\ ChangeReachesGuilds'
  BY <1>1 DEF SyncInv, TableInv, SentInv, ChangeReachesGuilds
<1>3. HandlerInv'
  BY <1>1 DEF SyncInv, HandlerInv
<1>4. OnceInv'
  BY <1>1 DEF SyncInv, OnceInv
<1> QED
  BY <1>2, <1>3, <1>4 DEF SyncInv

LEMMA SyncRecord == SyncInv /\ Record => SyncInv'
<1> SUFFICES ASSUME SyncInv, Record PROVE SyncInv'
  OBVIOUS
<1> DEFINE c == Head(todo)
<1>1. /\ guild # NoGuild /\ step = "record" /\ step' = "send" /\ InsertOrUpdate(c)
      /\ UNCHANGED <<definition, server, commands, guild, todo, version, inflight, remote,
                      changed, failed, published, passed, sent>>
  BY DEF Record, At, history
<1>2. c \in Commands /\ version \in Nat /\ definition[c] \in Definitions
  BY <1>1, HandlerLooks DEF SyncInv, HandlerInv, TableInv
<1>3. HandlerInv' /\ SentInv'
  BY <1>1 DEF SyncInv, HandlerInv, SentInv
<1>4. Head(todo') = c
  BY <1>1
<1> HIDE DEF c
<1>5. CASE row[c] # NoRow
  <2>1. row' = row
    BY <1>1, <1>5 DEF InsertOrUpdate
  <2>2. TableInv' /\ ChangeReachesGuilds'
    BY <1>1, <2>1 DEF SyncInv, TableInv, ChangeReachesGuilds
  <2>3. c \in changed \cup failed
    BY <1>1, <1>2, <1>5 DEF SyncInv, OnceInv, c
  <2>4. OnceInv'
    BY <1>1, <1>4, <2>1, <2>3 DEF SyncInv, OnceInv
  <2> QED
    BY <1>3, <2>2, <2>4 DEF SyncInv
<1>6. CASE row[c] = NoRow
  <2>1. /\ row' = [row EXCEPT ![c] = NewRow(c, version)]
        /\ NewRow(c, version) \in Rows /\ NewRow(c, version) # NoRow
        /\ NewRow(c, version).hash[1] = definition[c] /\ NewRow(c, version).hash[2] = version
        /\ NewRow(c, version).version = version
    BY <1>1, <1>2, <1>6, NamesAssumption DEF InsertOrUpdate, NewRow, Hash, Rows
  <2>2. /\ row' \in [Commands -> Rows \cup {NoRow}]
        /\ row'[c] # NoRow /\ row'[c].hash[1] = definition[c] /\ row'[c].hash[2] = row'[c].version
        /\ \A d \in Commands \ {c} : row'[d] = row[d]
    BY <1>2, <2>1 DEF SyncInv, TableInv
  <2>3. TableInv'
    BY <1>1, <2>2 DEF SyncInv, TableInv
  <2>4. ASSUME NEW d \in Commands \ (changed \cup failed)
        PROVE  /\ row'[d] # NoRow => row'[d].hash[1] = definition[d]
               /\ published[d] <= 1 /\ (published[d] = 1 => row'[d] # NoRow)
               /\ c = d => row'[d] # NoRow /\ published[d] = 0
    <3>1. published[d] \in Nat
      BY DEF SyncInv, TableInv
    <3> QED
      BY <1>6, <2>2, <3>1 DEF SyncInv, OnceInv
  <2>5. OnceInv'
    BY <1>1, <1>4, <2>4 DEF OnceInv
  <2>6. ASSUME NEW p \in passed, row'[p[2]] # NoRow, row'[p[2]].hash[1] # definition[p[2]]
        PROVE  p \in sent
    <3>1. p[2] \in Commands
      BY DEF SyncInv, SentInv
    <3> QED
      BY <2>2, <2>6, <3>1 DEF SyncInv, ChangeReachesGuilds
  <2>7. ChangeReachesGuilds'
    BY <1>1, <2>6 DEF ChangeReachesGuilds
  <2> QED
    BY <1>3, <2>3, <2>5, <2>7 DEF SyncInv
<1> QED
  BY <1>5, <1>6

LEMMA SyncRecordFails == SyncInv /\ RecordFails => SyncInv'
<1> SUFFICES ASSUME SyncInv, RecordFails PROVE SyncInv'
  OBVIOUS
<1>1. /\ guild # NoGuild /\ step = "record" /\ step' = "send"
      /\ failed' = failed \cup {Head(todo)}
      /\ UNCHANGED <<row, definition, server, commands, guild, todo, version, inflight, remote,
                      changed, published, passed, sent>>
  BY DEF RecordFails, At
<1>2. TableInv' /\ SentInv' /\ ChangeReachesGuilds'
  BY <1>1 DEF SyncInv, TableInv, SentInv, ChangeReachesGuilds
<1>3. HandlerInv'
  BY <1>1 DEF SyncInv, HandlerInv
<1>4. OnceInv'
  BY <1>1 DEF SyncInv, OnceInv
<1> QED
  BY <1>2, <1>3, <1>4 DEF SyncInv

LEMMA SyncSend == SyncInv /\ Send => SyncInv'
<1> SUFFICES ASSUME SyncInv, Send PROVE SyncInv'
  OBVIOUS
<1> DEFINE c == Head(todo)
<1>1. /\ guild # NoGuild /\ step = "send" /\ Advance
      /\ inflight' = inflight \cup {<<guild, c, definition[c]>>}
      /\ published' = [published EXCEPT ![c] = @ + 1]
      /\ sent' = sent \cup {<<guild, c>>}
      /\ UNCHANGED <<row, definition, server, commands, version, remote, changed, failed>>
  BY DEF Send, At
<1>2. HandlerInv' /\ passed' \subseteq Guilds \X Commands
  BY <1>1, AdvanceHandler DEF SyncInv
<1>3. /\ passed' = passed \cup {<<guild, c>>} /\ step' = "look" /\ c \in Commands
      /\ guild \in Guilds /\ definition[c] \in Definitions
  BY <1>1, HandlerLooks DEF SyncInv, Advance, TableInv
<1>4. c \notin changed \cup failed => row[c] # NoRow /\ published[c] = 0
  BY <1>1, <1>3 DEF SyncInv, OnceInv
<1> HIDE DEF c
<1>5. /\ published' \in [Commands -> Nat] /\ published'[c] = published[c] + 1
      /\ \A d \in Commands \ {c} : published'[d] = published[d]
  BY <1>1, <1>3 DEF SyncInv, TableInv
<1>6. TableInv' /\ SentInv'
  BY <1>1, <1>2, <1>3, <1>5 DEF SyncInv, TableInv, SentInv
<1>7. ASSUME NEW d \in Commands \ (changed \cup failed)
      PROVE  published'[d] <= 1 /\ (published'[d] = 1 => row[d] # NoRow)
  BY <1>4, <1>5 DEF SyncInv, OnceInv
<1>8. OnceInv'
  BY <1>1, <1>3, <1>7 DEF SyncInv, OnceInv
<1>9. ChangeReachesGuilds'
  BY <1>1, <1>3 DEF SyncInv, ChangeReachesGuilds
<1> QED
  BY <1>2, <1>6, <1>8, <1>9 DEF SyncInv

LEMMA SyncAnswer == ASSUME NEW q \in inflight, SyncInv, Answer(q) PROVE SyncInv'
<1>1. /\ inflight' = inflight \ {q}
      /\ \/ remote' = {s \in remote : <<s[1], s[2]>> # <<q[1], q[2]>>} \cup {q}
         \/ UNCHANGED remote
      /\ UNCHANGED <<row, definition, server, commands, guild, todo, step, version, changed,
                      failed, published, passed, sent>>
  BY DEF Answer, handlerVars, history
<1>2. SentInv'
  BY <1>1 DEF SyncInv, SentInv
<1>3. TableInv' /\ HandlerInv'
  BY <1>1 DEF SyncInv, TableInv, HandlerInv
<1>4. OnceInv' /\ ChangeReachesGuilds'
  BY <1>1 DEF SyncInv, OnceInv, ChangeReachesGuilds
<1> QED
  BY <1>2, <1>3, <1>4 DEF SyncInv

LEMMA SyncRelease ==
    ASSUME NEW d \in [Commands -> Definitions], SyncInv, Release(d) PROVE SyncInv'
<1>1. /\ commands' = <<>> /\ definition' = d
      /\ changed' = changed \cup {c \in Commands : d[c] # definition[c]}
      /\ guild' = NoGuild /\ todo' = <<>> /\ step' = "look" /\ version' = 0
      /\ inflight' = {} /\ passed' = {} /\ sent' = {}
      /\ UNCHANGED <<row, remote, failed, published>>
  BY DEF Release
<1>2. HandlerInv'
  <2>1. <<>> \in Seq(Commands) /\ Len(<<>>) = 0
    BY EmptySeq
  <2> QED
    BY <1>1, <2>1 DEF HandlerInv
<1>3. TableInv' /\ SentInv' /\ ChangeReachesGuilds'
  BY <1>1 DEF SyncInv, TableInv, SentInv, ChangeReachesGuilds
<1>4. OnceInv'
  BY <1>1 DEF SyncInv, OnceInv
<1> QED
  BY <1>2, <1>3, <1>4 DEF SyncInv

\* Every step of the bot but a stop keeps the commands that are registered
\* where they are.
LEMMA SyncStep ==
    SyncInv /\ (Synchronise \/ UNCHANGED vars)
       => SyncInv' /\ \A k \in 1..Len(commands) : k \in 1..Len(commands') /\ commands'[k] = commands[k]
<1> SUFFICES ASSUME SyncInv, Synchronise \/ UNCHANGED vars
             PROVE  SyncInv' /\ \A k \in 1..Len(commands) :
                                  k \in 1..Len(commands') /\ commands'[k] = commands[k]
  OBVIOUS
<1>1. CASE HandleReady
  <2>1. /\ commands' = commands \o SetToSeq(Registered)
        /\ commands \in Seq(Commands) /\ SetToSeq(Registered) \in Seq(Commands)
    BY <1>1, RegisteredSequence DEF HandleReady, SyncInv, HandlerInv
  <2>2. Len(commands) \in Nat /\ Len(SetToSeq(Registered)) \in Nat
    BY <2>1, LenProperties
  <2> QED
    BY <1>1, <2>1, <2>2, SyncReady, ConcatProperties
<1>2. CASE UNCHANGED vars \/ Terminating
  <2>1. UNCHANGED <<row, definition, server, commands, guild, todo, step, version, inflight, remote,
                    changed, failed, published, passed, sent>>
    BY <1>2 DEF vars, handlerVars, history, Terminating
  <2>2. TableInv' /\ HandlerInv' /\ SentInv'
    BY <2>1 DEF SyncInv, TableInv, HandlerInv, SentInv
  <2>3. OnceInv' /\ ChangeReachesGuilds'
    BY <2>1 DEF SyncInv, OnceInv, ChangeReachesGuilds
  <2> QED
    BY <2>1, <2>2, <2>3 DEF SyncInv
<1>3. CASE \E g \in Guilds : HandleGuildCreate(g)
  BY <1>3, SyncGuildCreate DEF HandleGuildCreate
<1>4. CASE Skip \/ RequiresSynchronization \/ FindCommandFails
  BY <1>4, SyncSkip, SyncRequires, SyncFindFails
     DEF Skip, RequiresSynchronization, FindCommandFails
<1>5. CASE Record \/ RecordFails \/ Send
  BY <1>5, SyncRecord, SyncRecordFails, SyncSend DEF Record, RecordFails, Send
<1>6. CASE \E q \in inflight : Answer(q)
  BY <1>6, SyncAnswer DEF Answer
<1> QED
  BY <1>1, <1>2, <1>3, <1>4, <1>5, <1>6 DEF Synchronise

-----------------------------------------------------------------------------
(* The users' side.                                                        *)

Words == {"thinking", "loading", "final"}
Requests == [kind : Kinds, command : Commands]
TaskSet == [of : Interactions, by : Nat, at : {"queued", "loading"}]

HasFinal(s) == \E n \in 1..Len(s) : s[n] = "final"
FinalIsLast(s) == \A n \in 1..Len(s) : s[n] = "final" => n = Len(s)

\* A task works for an interaction that was asked, is the only one to, was
\* taken by the command that was asked for, and has still to say its last word.
TaskInv ==
    /\ tasks \subseteq TaskSet
    /\ \A t \in tasks : /\ asked[t.of] # Nothing /\ ~ HasFinal(replies[t.of])
                        /\ t.by \in 1..Len(commands) /\ commands[t.by] = asked[t.of].command
    /\ \A t, u \in tasks : t.of = u.of => t = u

\* Nothing is said after the last word.
ReplyInv ==
    /\ asked \in [Interactions -> Requests \cup {Nothing}]
    /\ replies \in [Interactions -> Seq(Words)]
    /\ \A i \in Interactions : FinalIsLast(replies[i])

FrontendInv == SyncInv /\ TaskInv /\ ReplyInv

\* One more word after words without a last one.
LEMMA OneMoreWord ==
    ASSUME NEW s \in Seq(Words), ~ HasFinal(s), NEW w \in Words
    PROVE  /\ Append(s, w) \in Seq(Words) /\ FinalIsLast(Append(s, w))
           /\ HasFinal(Append(s, w)) <=> w = "final"
<1>1. /\ Len(s) \in Nat /\ Append(s, w) \in Seq(Words) /\ Len(Append(s, w)) = Len(s) + 1
      /\ \A n \in 1..Len(s) : Append(s, w)[n] = s[n]
      /\ Append(s, w)[Len(s) + 1] = w
  BY AppendProperties, LenProperties
<1>2. \A n \in 1..Len(Append(s, w)) : n \in 1..Len(s) \/ n = Len(s) + 1
  BY <1>1
<1>3. FinalIsLast(Append(s, w))
  BY <1>1, <1>2 DEF HasFinal, FinalIsLast
<1>4. HasFinal(Append(s, w)) <=> w = "final"
  <2>1. Len(s) + 1 \in 1..Len(Append(s, w))
    BY <1>1
  <2> QED
    BY <1>1, <1>2, <2>1 DEF HasFinal
<1> QED
  BY <1>1, <1>3, <1>4

\* A task says some words, or none, and ends.
LEMMA TaskEnds ==
    ASSUME FrontendInv, NEW t \in tasks, NEW s \in Seq(Words), FinalIsLast(s),
           replies' = [replies EXCEPT ![t.of] = s], tasks' = tasks \ {t},
           UNCHANGED <<asked, commands>>
    PROVE  TaskInv' /\ ReplyInv'
<1>1. t.of \in Interactions
  BY DEF FrontendInv, TaskInv, TaskSet
<1>2. /\ replies' \in [Interactions -> Seq(Words)] /\ replies'[t.of] = s
      /\ \A i \in Interactions \ {t.of} : replies'[i] = replies[i]
  BY <1>1 DEF FrontendInv, ReplyInv
<1>3. \A u \in tasks' : u \in tasks /\ u.of \in Interactions \ {t.of}
  BY DEF FrontendInv, TaskInv, TaskSet
<1>4. TaskInv'
  BY <1>2, <1>3 DEF FrontendInv, TaskInv
<1>5. ReplyInv'
  <2>1. ASSUME NEW i \in Interactions PROVE FinalIsLast(replies'[i])
    <3>1. CASE i = t.of
      BY <1>2, <3>1
    <3>2. CASE i # t.of
      BY <1>2, <3>2 DEF FrontendInv, ReplyInv
    <3> QED
      BY <3>1, <3>2
  <2> QED
    BY <1>2, <2>1 DEF FrontendInv, ReplyInv
<1> QED
  BY <1>4, <1>5

\* A task says something and goes on to load.
LEMMA TaskMoves ==
    ASSUME FrontendInv, NEW t \in tasks, NEW s \in Seq(Words), ~ HasFinal(s),
           replies' = [replies EXCEPT ![t.of] = s], Move(t, "loading"),
           UNCHANGED <<asked, commands>>
    PROVE  TaskInv' /\ ReplyInv'
<1> DEFINE v == [t EXCEPT !.at = "loading"]
<1>1. t \in TaskSet /\ t.of \in Interactions
  BY DEF FrontendInv, TaskInv, TaskSet
<1>2. /\ replies' \in [Interactions -> Seq(Words)] /\ replies'[t.of] = s
      /\ \A i \in Interactions \ {t.of} : replies'[i] = replies[i]
  BY <1>1 DEF FrontendInv, ReplyInv
<1>3. v \in TaskSet /\ v.of = t.of /\ v.by = t.by
  BY <1>1 DEF TaskSet
<1>4. tasks' = (tasks \ {t}) \cup {v}
  BY DEF Move
<1> HIDE DEF v
<1>5. \A u \in tasks \ {t} : u.of \in Interactions \ {t.of}
  BY DEF FrontendInv, TaskInv, TaskSet
<1>6. TaskInv'
  <2>1. tasks' \subseteq TaskSet
    BY <1>3, <1>4 DEF FrontendInv, TaskInv
  <2>2. ASSUME NEW u \in tasks'
        PROVE  /\ asked[u.of] # Nothing /\ ~ HasFinal(replies'[u.of])
               /\ u.by \in 1..Len(commands) /\ commands[u.by] = asked[u.of].command
    BY <1>2, <1>3, <1>4, <1>5 DEF FrontendInv, TaskInv
  <2>3. \A u, w \in tasks' : u.of = w.of => u = w
    BY <1>3, <1>4, <1>5 DEF FrontendInv, TaskInv
  <2> QED
    BY <2>1, <2>2, <2>3 DEF TaskInv
<1>7. ReplyInv'
  <2>1. ASSUME NEW i \in Interactions PROVE FinalIsLast(replies'[i])
    <3>1. CASE i = t.of
      BY <1>2, <1>3, <1>4, <3>1 DEF FinalIsLast, HasFinal
    <3>2. CASE i # t.of
      BY <1>2, <1>4, <3>2 DEF FrontendInv, ReplyInv
    <3> QED
      BY <3>1, <3>2
  <2> QED
    BY <1>2, <2>1 DEF FrontendInv, ReplyInv
<1> QED
  BY <1>6, <1>7

\* An interaction arrives, and is answered or becomes a task.
LEMMA TaskBegins ==
    ASSUME FrontendInv, NEW i \in Interactions, asked[i] = Nothing, NEW kind \in Kinds,
           NEW c \in Commands, asked' = [asked EXCEPT ![i] = [kind |-> kind, command |-> c]],
           NEW s \in Seq(Words), FinalIsLast(s), HasFinal(s) => Takes(c) = {},
           replies' = [replies EXCEPT ![i] = s],
           tasks' = tasks \cup {Task(i, k, "queued") : k \in Takes(c)},
           UNCHANGED commands
    PROVE  TaskInv' /\ ReplyInv'
<1> DEFINE r == [kind |-> kind, command |-> c]
<1>1. r \in Requests /\ r # Nothing /\ r.command = c
  BY DEF Requests, Nothing, Kinds
<1>2. /\ replies' \in [Interactions -> Seq(Words)] /\ replies'[i] = s
      /\ asked' \in [Interactions -> Requests \cup {Nothing}] /\ asked'[i] = r
      /\ \A j \in Interactions \ {i} : replies'[j] = replies[j] /\ asked'[j] = asked[j]
  BY <1>1 DEF FrontendInv, ReplyInv
<1>3. /\ \A k \in Takes(c) : k \in 1..Len(commands) /\ commands[k] = c
      /\ \A j, k \in Takes(c) : j = k
  BY TakesRegistered DEF FrontendInv, SyncInv
<1>4. \A u \in tasks : u.of \in Interactions \ {i}
  BY DEF FrontendInv, TaskInv, TaskSet
<1>5. /\ \A u \in tasks' : \/ u \in tasks
                            \/ /\ u.of = i /\ u \in TaskSet /\ Takes(c) # {}
                               /\ \E k \in Takes(c) : u.by = k /\ u = Task(i, k, "queued")
      /\ Takes(c) # {} => \E u \in tasks' : u.of = i
      /\ tasks \subseteq tasks'
  <2>1. \A k \in Takes(c) : /\ Task(i, k, "queued").of = i /\ Task(i, k, "queued").by = k
                            /\ Task(i, k, "queued") \in TaskSet
    BY <1>3, LenProperties DEF Task, TaskSet, FrontendInv, SyncInv, HandlerInv
  <2> QED
    BY <2>1
<1> HIDE DEF r
<1>6. TaskInv'
  <2>1. tasks' \subseteq TaskSet
    BY <1>5 DEF FrontendInv, TaskInv
  <2>2. ASSUME NEW u \in tasks'
        PROVE  /\ asked'[u.of] # Nothing /\ ~ HasFinal(replies'[u.of])
               /\ u.by \in 1..Len(commands) /\ commands[u.by] = asked'[u.of].command
    <3>1. CASE u \in tasks
      BY <1>2, <1>4, <3>1 DEF FrontendInv, TaskInv
    <3>2. CASE u \notin tasks
      BY <1>1, <1>2, <1>3, <1>5, <3>2
    <3> QED
      BY <3>1, <3>2
  <2>3. \A u, w \in tasks' : u.of = w.of => u = w
    BY <1>3, <1>4, <1>5 DEF FrontendInv, TaskInv
  <2> QED
    BY <2>1, <2>2, <2>3 DEF TaskInv
<1>7. ReplyInv'
  <2>1. ASSUME NEW j \in Interactions PROVE FinalIsLast(replies'[j])
    <3>1. CASE j = i
      BY <1>2, <1>5, <3>1
    <3>2. CASE j # i
      BY <1>2, <1>5, <3>2 DEF FrontendInv, ReplyInv
    <3> QED
      BY <3>1, <3>2
  <2> QED
    BY <1>2, <2>1 DEF ReplyInv
<1> QED
  BY <1>6, <1>7

LEMMA FrontendInteract ==
    ASSUME FrontendInv, NEW i \in Interactions, NEW kind \in Kinds, NEW c \in Commands,
           Interact(i, kind, c)
    PROVE  TaskInv' /\ ReplyInv'
<1>1. /\ asked[i] = Nothing /\ UNCHANGED commands
      /\ asked' = [asked EXCEPT ![i] = [kind |-> kind, command |-> c]]
  BY DEF Interact, vars
<1>2. PICK s \in {<<>>, <<"final">>, <<"thinking">>} :
         /\ s = <<"final">> => Takes(c) = {}
         /\ replies' = [replies EXCEPT ![i] = s]
         /\ tasks' = tasks \cup {Task(i, k, "queued") : k \in Takes(c)}
  BY DEF Interact, Kinds, HandleSlashCommand, HandleAutoComplete
<1>3. s \in Seq(Words) /\ FinalIsLast(s) /\ (HasFinal(s) => Takes(c) = {})
  <2>1. CASE s = <<>>
    BY <1>2, <2>1, EmptySeq DEF FinalIsLast, HasFinal
  <2>2. CASE s = <<"final">>
    BY <1>2, <2>2 DEF FinalIsLast, HasFinal, Words
  <2>3. CASE s = <<"thinking">>
    BY <1>2, <2>3 DEF FinalIsLast, HasFinal, Words
  <2> QED
    BY <2>1, <2>2, <2>3
<1> QED
  BY <1>1, <1>2, <1>3, TaskBegins

LEMMA FrontendTask ==
    ASSUME FrontendInv, NEW t \in tasks,
           \/ Throws(t) \/ Reply(t) \/ DownloadUnknown(t)
           \/ DownloadLoads(t) \/ DownloadAnswers(t) \/ DownloadLeft(t)
    PROVE  TaskInv' /\ ReplyInv'
<1> DEFINE s == replies[t.of]
<1>1. /\ s \in Seq(Words) /\ ~ HasFinal(s) /\ FinalIsLast(s)
      /\ replies = [replies EXCEPT ![t.of] = s]
  BY DEF FrontendInv, TaskInv, TaskSet, ReplyInv
<1>2. /\ \A w \in Words : Append(s, w) \in Seq(Words) /\ FinalIsLast(Append(s, w))
      /\ HasFinal(Append(s, "final")) /\ ~ HasFinal(Append(s, "loading"))
  BY <1>1, OneMoreWord DEF Words
<1>3. UNCHANGED <<asked, commands>>
  BY DEF Throws, Reply, DownloadUnknown, DownloadLoads, DownloadAnswers, DownloadLeft, vars
<1>4. IsDownload(t) => DownloadDisabled(t) = s
  <2>1. IsDownload(t) => commands[t.by] = Download /\ t.by \in 1..Len(commands)
    BY DEF FrontendInv, TaskInv, IsDownload
  <2>2. IsDownload(t) => server
    BY <2>1 DEF FrontendInv, SyncInv, HandlerInv
  <2> QED
    BY <2>2 DEF DownloadDisabled
<1>5. CASE Throws(t)
  <2>1. /\ replies' = [replies EXCEPT ![t.of] = s] /\ tasks' = tasks \ {t}
    BY <1>1, <1>5 DEF Throws
  <2> QED
    BY <1>1, <1>3, <2>1, TaskEnds
<1>6. CASE Reply(t) \/ DownloadUnknown(t) \/ DownloadAnswers(t)
  <2>1. /\ replies' = [replies EXCEPT ![t.of] = Append(s, "final")] /\ tasks' = tasks \ {t}
    BY <1>4, <1>6 DEF Reply, DownloadUnknown, DownloadAnswers, Says
  <2> QED
    BY <1>2, <1>3, <2>1, TaskEnds DEF Words
<1>7. CASE DownloadLoads(t)
  <2>1. /\ replies' = [replies EXCEPT ![t.of] = Append(s, "loading")] /\ Move(t, "loading")
    BY <1>4, <1>7 DEF DownloadLoads
  <2> QED
    BY <1>2, <1>3, <2>1, TaskMoves DEF Words
<1>8. CASE DownloadLeft(t)
  <2>1. tasks' = tasks \ {t}
    BY <1>8 DEF DownloadLeft
  <2>2. CASE Says(t.of, "final")
    <3>1. replies' = [replies EXCEPT ![t.of] = Append(s, "final")]
      BY <2>2 DEF Says
    <3> QED
      BY <1>2, <1>3, <2>1, <3>1, TaskEnds DEF Words
  <2>3. CASE UNCHANGED replies
    <3>1. replies' = [replies EXCEPT ![t.of] = s]
      BY <1>1, <2>3
    <3> QED
      BY <1>1, <1>3, <2>1, <3>1, TaskEnds
  <2> QED
    BY <1>8, <2>2, <2>3 DEF DownloadLeft
<1> QED
  BY <1>5, <1>6, <1>7, <1>8

LEMMA FrontendStarts == FrontendInit => FrontendInv
<1> SUFFICES ASSUME FrontendInit PROVE FrontendInv
  OBVIOUS
<1>1. SyncInv
  BY SyncStarts DEF FrontendInit
<1>2. TaskInv
  BY DEF FrontendInit, TaskInv
<1>3. ReplyInv
  <2>1. <<>> \in Seq(Words) /\ FinalIsLast(<<>>)
    BY EmptySeq DEF FinalIsLast
  <2> QED
    BY <2>1 DEF FrontendInit, ReplyInv
<1> QED
  BY <1>1, <1>2, <1>3 DEF FrontendInv

LEMMA FrontendStep == FrontendInv /\ [FrontendNext]_allVars => FrontendInv'
<1> SUFFICES ASSUME FrontendInv, [FrontendNext]_allVars PROVE FrontendInv'
  OBVIOUS
<1>1. CASE (Synchronise \/ UNCHANGED vars) /\ UNCHANGED frontendVars
  <2>1. /\ SyncInv' /\ UNCHANGED <<asked, tasks, replies>>
        /\ \A k \in 1..Len(commands) : k \in 1..Len(commands') /\ commands'[k] = commands[k]
    BY <1>1, SyncStep DEF FrontendInv, frontendVars
  <2>2. TaskInv'
    BY <2>1 DEF FrontendInv, TaskInv
  <2>3. ReplyInv'
    BY <2>1 DEF FrontendInv, ReplyInv
  <2> QED
    BY <2>1, <2>2, <2>3 DEF FrontendInv
<1>2. CASE \E d \in [Commands -> Definitions] : Stop(d)
  <2>1. PICK d \in [Commands -> Definitions] : Stop(d)
    BY <1>2
  <2>2. /\ SyncInv' /\ tasks' = {} /\ UNCHANGED <<asked, replies>>
    BY <2>1, SyncRelease DEF FrontendInv, Stop
  <2>3. TaskInv'
    BY <2>2 DEF TaskInv
  <2>4. ReplyInv'
    BY <2>2 DEF FrontendInv, ReplyInv
  <2> QED
    BY <2>2, <2>3, <2>4 DEF FrontendInv
<1>3. CASE \E i \in Interactions, kind \in Kinds, c \in Commands : Interact(i, kind, c)
  <2>1. UNCHANGED vars
    BY <1>3 DEF Interact
  <2> QED
    BY <1>3, <2>1, SyncStep, FrontendInteract DEF FrontendInv
<1>4. CASE \E t \in tasks : \/ Throws(t) \/ Reply(t) \/ DownloadUnknown(t)
                            \/ DownloadLoads(t) \/ DownloadAnswers(t) \/ DownloadLeft(t)
  <2>1. UNCHANGED vars
    BY <1>4 DEF Throws, Reply, DownloadUnknown, DownloadLoads, DownloadAnswers, DownloadLeft
  <2> QED
    BY <1>4, <2>1, SyncStep, FrontendTask DEF FrontendInv
<1> QED
  BY <1>1, <1>2, <1>3, <1>4 DEF FrontendNext, allVars

LEMMA FrontendInvariant == FrontendSpec => []FrontendInv
  BY FrontendStarts, FrontendStep, PTL DEF FrontendSpec

\* A command that no release changed, and no statement failed for, is sent to
\* Discord once, for any number of guilds, starts and READY events; and what
\* the bot keeps is well typed.
THEOREM FrontendPublishedOnce == FrontendSpec => []UnchangedPublishedOnce
<1>1. FrontendInv => UnchangedPublishedOnce
  <2> SUFFICES ASSUME SyncInv PROVE UnchangedPublishedOnce
    BY DEF FrontendInv
  <2>1. ASSUME NEW c \in Commands, row[c] # NoRow
        PROVE  \E d \in Definitions : row[c].hash = Hash(d, row[c].version)
    <3>1. /\ row[c] \in Rows /\ row[c].version \in Nat
          /\ row[c].hash = <<row[c].hash[1], row[c].version>>
      BY <2>1, RowVersion DEF SyncInv
    <3>2. row[c].hash[1] \in Definitions
      BY <3>1 DEF Rows
    <3> QED
      BY <3>1, <3>2 DEF Hash
  <2>2. inflight \cup remote \subseteq Guilds \X Commands \X Definitions
    BY DEF SyncInv, SentInv
  <2>3. TypeOK
    BY <2>1, <2>2 DEF SyncInv, TableInv, HandlerInv, SentInv, TypeOK
  <2>4. \A c \in Commands \ (changed \cup failed) : published[c] <= 1
    BY DEF SyncInv, OnceInv
  <2> QED
    BY <2>3, <2>4 DEF UnchangedPublishedOnce
<1> QED
  BY <1>1, FrontendInvariant, PTL

\* While the table is about another definition of a command than this
\* release's, every guild that appeared was sent this release's.
THEOREM FrontendChangeReaches == FrontendSpec => []ChangeReachesGuilds
<1>1. FrontendInv => ChangeReachesGuilds
  BY DEF FrontendInv, SyncInv
<1> QED
  BY <1>1, FrontendInvariant, PTL

\* An interaction gets at most one last word, and nothing after it, from one
\* handler of the command it names, however often READY registered commands.
THEOREM FrontendAnsweredOnce == FrontendSpec => []AnsweredOnce
<1>1. FrontendInv => AnsweredOnce
  <2> SUFFICES ASSUME FrontendInv PROVE AnsweredOnce
    OBVIOUS
  <2>1. ASSUME NEW i \in Interactions
        PROVE  \A n \in DOMAIN replies[i] : replies[i][n] = "final" => n = Len(replies[i])
    <3>1. replies[i] \in Seq(Words) /\ FinalIsLast(replies[i])
      BY DEF FrontendInv, ReplyInv
    <3>2. DOMAIN replies[i] = 1..Len(replies[i])
      BY <3>1, LenProperties
    <3> QED
      BY <3>1, <3>2 DEF FinalIsLast
  <2>2. \A t, u \in tasks : (t.of = u.of => t = u) /\ commands[t.by] = asked[t.of].command
    BY DEF FrontendInv, TaskInv
  <2> QED
    BY <2>1, <2>2 DEF AnsweredOnce
<1> QED
  BY <1>1, FrontendInvariant, PTL
=============================================================================
