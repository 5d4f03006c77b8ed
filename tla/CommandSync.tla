---------------------------- MODULE CommandSync -----------------------------
(***************************************************************************)
(* frontend::Discord: the commands the bot registers with the guilds it is *)
(* in, and the command_states table that says which ones need it.  A row   *)
(* is written when a guild appears, then the command is sent to Discord,   *)
(* without waiting for an answer.                                          *)
(*                                                                         *)
(* A new release of the program may define commands differently.  The bot  *)
(* runs one shard, so its events are handled one after the other, and it   *)
(* may stop at any point.  Hashes are taken to be free of collisions: the  *)
(* hash of definition d at version v is <<d, v>>.                          *)
(***************************************************************************)
EXTENDS Integers, Sequences, FiniteSets, SequencesExt

CONSTANTS Guilds,
          Commands,
          Definitions,   \* what a command may look like
          Download,      \* the command that needs the proxy server
          MaxReleases,   \* bound: starts of the process
          MaxEvents,     \* bound: READY and GUILD_CREATE events per start
          NoRow, NoGuild

ASSUME BoundsAssumption == MaxReleases \in Nat \ {0} /\ MaxEvents \in Nat
ASSUME NamesAssumption ==
    /\ IsFiniteSet(Commands) /\ NoGuild \notin Guilds
    /\ NoRow \notin [version : Nat, hash : Definitions \X Nat]

VARIABLES row,         \* table command_states: version and hash of each name
          definition,  \* the definitions of this release
          server,      \* httpServer # nullptr: this start has the proxy
          releases,    \* starts of the process so far
          events,      \* events handled since the last start
          commands,    \* Discord::_commands
          guild,       \* the guild HandleGuildCreate is working for
          todo,        \* the commands its loop has still to look at
          step,        \* what it does with the first of them
          version,     \* newVersion
          inflight,    \* requests to Discord that are not answered yet
          remote,      \* what each guild shows: command -> definition
          changed,     \* history: commands two releases defined differently
          failed,      \* history: commands a statement failed for
          published,   \* history: how often each command was sent
          passed,      \* history: <<guild, command>> handled in this release
          sent         \* history: those of them a request was sent for

handlerVars == <<guild, todo, step, version>>
history == <<changed, failed, published, passed, sent>>
vars == <<row, definition, server, releases, events, commands, handlerVars, inflight,
          remote, history>>

Init == /\ row = [c \in Commands |-> NoRow]
        /\ definition \in [Commands -> Definitions]
        /\ server \in BOOLEAN
        /\ releases = 1 /\ events = 0
        /\ commands = <<>>
        /\ guild = NoGuild /\ todo = <<>> /\ step = "look" /\ version = 0
        /\ inflight = {} /\ remote = {}
        /\ changed = {} /\ failed = {}
        /\ published = [c \in Commands |-> 0] /\ passed = {} /\ sent = {}

\* Discord::Hash, combined with a version.
Hash(d, v) == <<d, v>>

-----------------------------------------------------------------------------
\* Mutated form of Registered: the proxy server is not asked for.
RegisteredAlways == Commands

\* What a READY event registers.
Registered == {c \in Commands : c = Download => server}

\* HandleReady: every READY event registers the commands (again).
HandleReady ==
    /\ guild = NoGuild /\ events < MaxEvents
    /\ events' = events + 1
    /\ commands' = commands \o SetToSeq(Registered)
    /\ UNCHANGED <<row, definition, server, releases, handlerVars, inflight, remote, history>>

\* HandleGuildCreate begins; GUILD_CREATE follows READY.
HandleGuildCreate(g) ==
    /\ guild = NoGuild /\ events > 0 /\ events < MaxEvents
    /\ events' = events + 1
    /\ guild' = IF commands = <<>> THEN NoGuild ELSE g
    /\ todo' = commands
    /\ UNCHANGED <<row, definition, server, releases, commands, step, version, inflight,
                   remote, history>>

At(here) == guild # NoGuild /\ step = here

\* The loop goes on with the next command, or ends.
Advance == /\ todo' = Tail(todo) /\ step' = "look"
           /\ guild' = IF Len(todo) = 1 THEN NoGuild ELSE guild
           /\ passed' = passed \cup {<<guild, Head(todo)>>}

\* Mutated form of InSync: the hash is compared under the next version.
InSyncNextVersion(c) ==
    /\ row[c] # NoRow
    /\ row[c].hash = Hash(definition[c], row[c].version + 1)

\* RequiresSynchronization found the row and its hash is that of the command.
InSync(c) ==
    /\ row[c] # NoRow
    /\ row[c].hash = Hash(definition[c], row[c].version)

Skip ==
    /\ At("look") /\ InSync(Head(todo))
    /\ Advance
    /\ UNCHANGED <<row, definition, server, releases, events, commands, version, inflight,
                   remote, changed, failed, published, sent>>

\* There is no row, or it is about another definition: the new version.
RequiresSynchronization ==
    /\ At("look") /\ ~InSync(Head(todo))
    /\ step' = "record"
    /\ version' = IF row[Head(todo)] = NoRow THEN 1 ELSE row[Head(todo)].version + 1
    /\ UNCHANGED <<row, definition, server, releases, events, commands, guild, todo, inflight,
                   remote, history>>

\* FindCommand fails, which looks like a command without a row.
FindCommandFails ==
    /\ At("look")
    /\ step' = "record" /\ version' = 1
    /\ failed' = failed \cup {Head(todo)}
    /\ UNCHANGED <<row, definition, server, releases, events, commands, guild, todo, inflight,
                   remote, changed, published, passed, sent>>

NewRow(c, v) == [version |-> v, hash |-> Hash(definition[c], v)]

\* CommandState::InsertOrUpdate.  Its ON CONFLICT names the id, which is new
\* for every insertion, and the unique name refuses a second row: the statement
\* fails, silently, when the command has a row.
InsertOrUpdate(c) ==
    row' = IF row[c] # NoRow THEN row ELSE [row EXCEPT ![c] = NewRow(c, version)]

Record ==
    /\ At("record")
    /\ InsertOrUpdate(Head(todo))
    /\ step' = "send"
    /\ UNCHANGED <<definition, server, releases, events, commands, guild, todo, version, inflight,
                   remote, history>>

\* The statement fails for another reason, a hash above the range of bigint
\* among them; nobody looks.
RecordFails ==
    /\ At("record")
    /\ failed' = failed \cup {Head(todo)}
    /\ step' = "send"
    /\ UNCHANGED <<row, definition, server, releases, events, commands, guild, todo, version,
                   inflight, remote, changed, published, passed, sent>>

\* Mutated form of Send: the request goes out for new commands only.
SendNew ==
    /\ At("send")
    /\ IF version = 1
       THEN /\ inflight' = inflight \cup {<<guild, Head(todo), definition[Head(todo)]>>}
            /\ published' = [published EXCEPT ![Head(todo)] = @ + 1]
            /\ sent' = sent \cup {<<guild, Head(todo)>>}
       ELSE UNCHANGED <<inflight, published, sent>>
    /\ Advance
    /\ UNCHANGED <<row, definition, server, releases, events, commands, version, remote, changed,
                   failed>>

\* guild_command_create sends the request and returns.
Send ==
    /\ At("send")
    /\ inflight' = inflight \cup {<<guild, Head(todo), definition[Head(todo)]>>}
    /\ published' = [published EXCEPT ![Head(todo)] = @ + 1]
    /\ sent' = sent \cup {<<guild, Head(todo)>>}
    /\ Advance
    /\ UNCHANGED <<row, definition, server, releases, events, commands, version, remote, changed,
                   failed>>

\* Discord answers a request: the guild shows the new definition, or not.
Answer(q) ==
    /\ q \in inflight
    /\ inflight' = inflight \ {q}
    /\ \/ remote' = {s \in remote : <<s[1], s[2]>> # <<q[1], q[2]>>} \cup {q}
       \/ UNCHANGED remote
    /\ UNCHANGED <<row, definition, server, releases, events, commands, handlerVars, history>>

\* The process stops, and this or another release of it is started, with the
\* proxy server or without.
Release(d) ==
    /\ releases < MaxReleases
    /\ releases' = releases + 1 /\ events' = 0 /\ commands' = <<>>
    /\ definition' = d /\ server' \in BOOLEAN
    /\ changed' = changed \cup {c \in Commands : d[c] # definition[c]}
    /\ guild' = NoGuild /\ todo' = <<>> /\ step' = "look" /\ version' = 0
    /\ inflight' = {} /\ passed' = {} /\ sent' = {}
    /\ UNCHANGED <<row, remote, failed, published>>

\* The bounds are reached.
Terminating == /\ releases = MaxReleases /\ events = MaxEvents
               /\ guild = NoGuild /\ inflight = {}
               /\ UNCHANGED vars

Next == \/ HandleReady
        \/ \E g \in Guilds : HandleGuildCreate(g)
        \/ Skip \/ RequiresSynchronization \/ FindCommandFails
        \/ Record \/ RecordFails \/ Send
        \/ \E q \in inflight : Answer(q)
        \/ \E d \in [Commands -> Definitions] : Release(d)
        \/ Terminating

Spec == Init /\ [][Next]_vars

-----------------------------------------------------------------------------
(* Properties.                                                             *)

\* Type correctness.  A row's hash was made with the row's own version.
TypeOK ==
    /\ \A c \in Commands :
          row[c] # NoRow => \E d \in Definitions : row[c].hash = Hash(d, row[c].version)
    /\ definition \in [Commands -> Definitions]
    /\ commands \in Seq(Commands) /\ todo \in Seq(Commands)
    /\ guild \in Guilds \cup {NoGuild} /\ (guild = NoGuild <=> todo = <<>>)
    /\ step \in {"look", "record", "send"} /\ version \in Nat
    /\ (step # "look" => guild # NoGuild) /\ sent \subseteq passed
    /\ inflight \cup remote \subseteq Guilds \X Commands \X Definitions

\* A command that no release changed is sent once, whatever guilds appear and
\* however often the program starts: the version in the hash is the recorded
\* one (checked together with the types).
UnchangedPublishedOnce ==
    TypeOK /\ \A c \in Commands \ (changed \cup failed) : published[c] <= 1

\* While the table is about another definition of a command than this
\* release's, every guild that appeared was sent this release's: a change is
\* not missed because another guild, or an earlier start, saw it first.
ChangeReachesGuilds ==
    \A p \in passed : row[p[2]] # NoRow /\ row[p[2]].hash[1] # definition[p[2]] => p \in sent

=============================================================================
