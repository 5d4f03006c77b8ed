------------------------------ MODULE Frontend ------------------------------
(***************************************************************************)
(* frontend::Discord with its users: the interactions that arrive while    *)
(* commands are registered and published (CommandSync).  The shard's       *)
(* thread hands an interaction to the first command that matches it, whose *)
(* handler runs as a task of the thread pool.                              *)
(*                                                                         *)
(* What a handler says is abstracted to whether it is its last word: only  *)
(* DownloadCommand has an intermediate one.                                *)
(***************************************************************************)
EXTENDS CommandSync

CONSTANTS Interactions    \* bound: interactions that may arrive

VARIABLES asked,      \* what each interaction is: its kind and its command
          tasks,      \* tasks of _threadPool, see Task
          replies     \* what Discord took as answers to each interaction, in order

frontendVars == <<asked, tasks, replies>>
allVars == <<vars, frontendVars>>

Kinds == {"slash", "autocomplete"}
Nothing == [kind |-> "none", command |-> "none"]

\* A task: the interaction it works for, the registered command (its place in
\* _commands) that took it, and where it is.
Task(i, k, at) == [of |-> i, by |-> k, at |-> at]

FrontendInit == /\ Init
                /\ asked = [i \in Interactions |-> Nothing]
                /\ tasks = {} /\ replies = [i \in Interactions |-> <<>>]

Says(i, what) == replies' = [replies EXCEPT ![i] = Append(@, what)]

-----------------------------------------------------------------------------
(* The shard's thread                                                      *)

\* The registered commands that match.
Matching(c) == {k \in DOMAIN commands : commands[k] = c}

\* The loops over _commands stop at the first command that takes the event.
Takes(c) == IF Matching(c) = {} THEN {} ELSE {Min(Matching(c))}

\* HandleSlashCommand and OnSlashCommand.  "thinking" is the initial response,
\* which handlers edit.  The reply for a command that nobody takes is another
\* initial response: Discord refuses it, and the error is not looked at.
HandleSlashCommand(i, c) ==
    /\ replies' = [replies EXCEPT ![i] = <<"thinking">>]
    /\ tasks' = tasks \cup {Task(i, k, "queued") : k \in Takes(c)}

\* HandleAutoCompleteEvent and OnAutoComplete.
HandleAutoComplete(i, c) ==
    /\ replies' = [replies EXCEPT ![i] = IF Takes(c) = {} THEN <<"final">> ELSE <<>>]
    /\ tasks' = tasks \cup {Task(i, k, "queued") : k \in Takes(c)}

\* A user of a guild invokes, or begins to type, a command the guild shows.
Interact(i, kind, c) ==
    /\ asked[i] = Nothing
    /\ guild = NoGuild /\ events > 0
    /\ c \in {r[2] : r \in remote}
    /\ asked' = [asked EXCEPT ![i] = [kind |-> kind, command |-> c]]
    /\ CASE kind = "slash" -> HandleSlashCommand(i, c)
         [] kind = "autocomplete" -> HandleAutoComplete(i, c)
    /\ UNCHANGED vars

-----------------------------------------------------------------------------
(* The thread pool                                                         *)

Move(t, at) == tasks' = (tasks \ {t}) \cup {[t EXCEPT !.at = at]}

IsDownload(t) == asked[t.of] = [kind |-> "slash", command |-> Download]

\* The exception of a handler is logged, nothing more.
Throws(t) ==
    /\ t \in tasks /\ t.at = "queued"
    /\ tasks' = tasks \ {t}
    /\ UNCHANGED <<vars, asked, replies>>

\* Status, CacheStatus, Bind and TrackFile answer once; a completion is
\* answered with choices or, if there are none to offer, an empty response.
Reply(t) ==
    /\ t \in tasks /\ t.at = "queued" /\ ~IsDownload(t)
    /\ Says(t.of, "final")
    /\ tasks' = tasks \ {t}
    /\ UNCHANGED <<vars, asked>>

\* DownloadCommand without the server says so, and goes on.
DownloadDisabled(t) == IF server THEN replies[t.of] ELSE Append(replies[t.of], "final")

\* There is no such build, or it is another product's.
DownloadUnknown(t) ==
    /\ t \in tasks /\ t.at = "queued" /\ IsDownload(t)
    /\ replies' = [replies EXCEPT ![t.of] = Append(DownloadDisabled(t), "final")]
    /\ tasks' = tasks \ {t}
    /\ UNCHANGED <<vars, asked>>

\* The build is known: LoadConfiguration is called.
DownloadLoads(t) ==
    /\ t \in tasks /\ t.at = "queued" /\ IsDownload(t)
    /\ replies' = [replies EXCEPT ![t.of] = Append(DownloadDisabled(t), "loading")]
    /\ Move(t, "loading")
    /\ UNCHANGED <<vars, asked>>

\* LoadConfiguration calls the handler: the file has a link, or does not exist.
DownloadAnswers(t) ==
    /\ t \in tasks /\ t.at = "loading"
    /\ Says(t.of, "final")
    /\ tasks' = tasks \ {t}
    /\ UNCHANGED <<vars, asked>>

\* The load failed, which is not looked at; or another thread was loading the
\* build and will call the handler, whose references are to the event and the
\* names of a task that has ended: it may answer, or anything else.
DownloadLeft(t) ==
    /\ t \in tasks /\ t.at = "loading"
    /\ Says(t.of, "final") \/ UNCHANGED replies
    /\ tasks' = tasks \ {t}
    /\ UNCHANGED <<vars, asked>>

\* The process stops: its tasks and their interactions are lost.
Stop(d) ==
    /\ Release(d)
    /\ tasks' = {}
    /\ UNCHANGED <<asked, replies>>

-----------------------------------------------------------------------------
Synchronise == \/ HandleReady
               \/ \E g \in Guilds : HandleGuildCreate(g)
               \/ Skip \/ RequiresSynchronization \/ FindCommandFails
               \/ Record \/ RecordFails \/ Send
               \/ \E q \in inflight : Answer(q)
               \/ Terminating

FrontendNext ==
    \/ Synchronise /\ UNCHANGED frontendVars
    \/ \E d \in [Commands -> Definitions] : Stop(d)
    \/ \E i \in Interactions, kind \in Kinds, c \in Commands : Interact(i, kind, c)
    \/ \E t \in tasks : \/ Throws(t) \/ Reply(t) \/ DownloadUnknown(t)
                        \/ DownloadLoads(t) \/ DownloadAnswers(t) \/ DownloadLeft(t)

FrontendSpec == FrontendInit /\ [][FrontendNext]_allVars

-----------------------------------------------------------------------------
(* Properties.                                                             *)

\* An interaction gets at most one last word, and nothing after it, from one
\* handler of the command it names: however often READY registered the
\* commands, and whether or not the start that published the command had the
\* proxy server that the one that handles it needs.
AnsweredOnce ==
    /\ \A i \in Interactions : \A n \in DOMAIN replies[i] :
          replies[i][n] = "final" => n = Len(replies[i])
    /\ \A t, u \in tasks : /\ t.of = u.of => t = u
                           /\ commands[t.by] = asked[t.of].command
=============================================================================
