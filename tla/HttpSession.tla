---------------------------- MODULE HttpSession -----------------------------
(***************************************************************************)
(* net::Session: one client connection of the HTTP proxy.  Handlers of     *)
(* asynchronous operations are run by the threads of net::Server, and the  *)
(* session lives as long as an operation or a handler refers to it.        *)
(*                                                                         *)
(* What ProcessRequest sends to the client after the header of a download  *)
(* is one synchronous step here.  Every response has keep_alive(false).    *)
(***************************************************************************)
EXTENDS Integers, Sequences

CONSTANTS QueueLimit,    \* Session.cpp: messages in the outgoing queue (8)
          Threads,       \* threads running the io_context of the server
          MaxRequests,   \* bound: requests the client sends
          MaxBacklog     \* bound: writes unfinished when a read completes

ASSUME LimitsAssumption ==
    {QueueLimit, Threads} \subseteq Nat \ {0} /\ {MaxRequests, MaxBacklog} \subseteq Nat

VARIABLES peer,       \* what the client's side of the connection will yield
          incoming,   \* complete requests waiting to be read
          requests,   \* requests sent so far (for the bound)
          shut,       \* the socket was shut down on our side
          reads,      \* async_read operations in flight
          reader,     \* where HandleRead is
          queue,      \* _outgoingQueue: keep_alive of each message
          writes,     \* async_write operations in flight: their keep_alive
          writers,    \* HandleWrite calls running: <<keep_alive, failed>>
          headers     \* synchronous writes of ProcessRequest in progress

vars == <<peer, incoming, requests, shut, reads, reader, queue, writes,
          writers, headers>>
clientVars == <<peer, incoming, requests>>

\* "partial": bytes that will never make a request stay in _buffer;
\* "timedOut": expires_after closed the stream; "reset": by the client.
Peers == {"open", "closed", "partial", "timedOut", "reset"}

Init == /\ peer = "open" /\ incoming = 0 /\ requests = 0
        /\ shut = FALSE
        /\ reads = 1                         \* Run dispatches BeginRead
        /\ reader = "none"
        /\ queue = <<>> /\ writes = <<>> /\ writers = <<>> /\ headers = 0

Backlog == Len(writes) + Len(writers)

\* Handlers of this session that are running.
Busy == (IF reader = "none" THEN 0 ELSE 1) + Len(writers)

-----------------------------------------------------------------------------
(* The client                                                              *)

ClientSends ==
    /\ peer = "open" /\ requests < MaxRequests
    /\ incoming' = incoming + 1 /\ requests' = requests + 1
    /\ UNCHANGED <<peer, shut, reads, reader, queue, writes, writers, headers>>

ClientLeaves(how) ==
    /\ peer = "open"
    /\ how = "timedOut" => reads > 0 /\ incoming = 0
    /\ peer' = how
    /\ UNCHANGED <<incoming, requests, shut, reads, reader, queue, writes,
                   writers, headers>>

-----------------------------------------------------------------------------
(* Reading: BeginRead, HandleRead and ProcessRequest                       *)

\* A request was read: HandleRead runs and calls ProcessRequest.
ReadRequest ==
    /\ reads > 0 /\ incoming > 0 /\ reader = "none" /\ Busy < Threads
    /\ Backlog < MaxBacklog
    /\ reads' = reads - 1 /\ incoming' = incoming - 1 /\ reader' = "process"
    /\ UNCHANGED <<peer, requests, shut, queue, writes, writers, headers>>

\* Mutated form of ReadEndOfStream: end_of_stream is handled like a request.
ReadEndOfStreamAsRequest ==
    /\ reads > 0 /\ reader = "none" /\ Busy < Threads
    /\ (peer = "closed" /\ incoming = 0) \/ (shut /\ peer \notin {"partial", "timedOut"})
    /\ reads' = reads - 1 /\ reader' = "error" /\ UNCHANGED shut
    /\ UNCHANGED <<clientVars, queue, writes, writers, headers>>

\* end_of_stream, after the client closed or after our own shutdown: HandleRead
\* shuts the socket down and starts nothing.
ReadEndOfStream ==
    /\ reads > 0 /\ reader = "none" /\ Busy < Threads
    /\ (peer = "closed" /\ incoming = 0) \/ (shut /\ peer \notin {"partial", "timedOut"})
    /\ reads' = reads - 1 /\ shut' = TRUE
    /\ UNCHANGED <<clientVars, reader, queue, writes, writers, headers>>

\* Any other error is not looked at: ProcessRequest gets an empty request.
\* A reset is reported once, then the stream is at its end.
ReadFails ==
    /\ reads > 0 /\ reader = "none" /\ Busy < Threads
    /\ Backlog < MaxBacklog
    /\ peer \in {"partial", "timedOut", "reset"} /\ incoming = 0
    /\ reads' = reads - 1 /\ reader' = "error"
    /\ peer' = IF peer = "reset" THEN "closed" ELSE peer
    /\ UNCHANGED <<incoming, requests, shut, queue, writes, writers, headers>>

\* UpdateOutgoing on the queue q: take the front message and write it.
UpdateOutgoing(q) ==
    IF q = <<>> THEN UNCHANGED writes /\ queue' = q
                ELSE writes' = Append(writes, Head(q)) /\ queue' = Tail(q)

\* BeginWrite: queue the message, start the write if it is alone in the queue.
BeginWrite(keepAlive) ==
    LET q == Append(queue, keepAlive)
    IN IF Len(q) = 1 THEN UpdateOutgoing(q) ELSE queue' = q /\ UNCHANGED writes

\* ProcessRequest returned true: read again unless the queue is at its limit.
ReadAgain == /\ reader' = "none"
             /\ reads' = IF Len(queue') < QueueLimit THEN reads + 1 ELSE reads

\* writeError: the request is malformed, or its CDNs cannot be resolved.
RespondError ==
    /\ reader \in {"process", "error"}
    /\ BeginWrite(FALSE)
    /\ ReadAgain
    /\ UNCHANGED <<clientVars, shut, writers, headers>>

\* The header of the download is written, synchronously...
BeginHeader ==
    /\ reader = "process"
    /\ reader' = "header" /\ headers' = headers + 1
    /\ UNCHANGED <<clientVars, shut, reads, queue, writes, writers>>

\* ... and the write fails,
HeaderFails ==
    /\ reader = "header"
    /\ headers' = headers - 1
    /\ UNCHANGED <<queue, writes>> /\ ReadAgain
    /\ UNCHANGED <<clientVars, shut, writers>>

\* ... or no CDN has the archive: an error response follows the header,
NoCDN ==
    /\ reader = "header"
    /\ headers' = headers - 1
    /\ BeginWrite(FALSE)
    /\ ReadAgain
    /\ UNCHANGED <<clientVars, shut, writers>>

\* ... or the file is relayed, to its end or not: the session reads no more.
Relay ==
    /\ reader = "header"
    /\ headers' = headers - 1 /\ reader' = "none"
    /\ UNCHANGED <<clientVars, shut, reads, queue, writes, writers>>

-----------------------------------------------------------------------------
(* Writing: HandleWrite                                                    *)

\* An async_write ends, well or not, and a thread runs HandleWrite.
WriteEnds(failed) ==
    /\ writes # <<>> /\ Busy < Threads
    /\ ~failed => peer # "timedOut"
    /\ writers' = Append(writers, <<Head(writes), failed>>)
    /\ writes' = Tail(writes)
    /\ UNCHANGED <<clientVars, shut, reads, reader, queue, headers>>

\* Mutated form of HandleWrite: reads again although the queue was not full.
HandleWriteReads ==
    /\ writers # <<>>
    /\ writers' = Tail(writers)
    /\ UNCHANGED <<queue, writes, shut>> /\ reads' = reads + 1
    /\ UNCHANGED <<clientVars, reader, headers>>

\* A failed write ends here.  Otherwise the socket is shut down or, with
\* keep_alive, the next message is written and reading resumes if it had
\* stopped at the limit.
HandleWrite ==
    /\ writers # <<>>
    /\ writers' = Tail(writers)
    /\ LET keepAlive == Head(writers)[1]
           failed == Head(writers)[2]
       IN /\ IF failed \/ ~keepAlive
             THEN UNCHANGED <<queue, writes, reads>>
             ELSE /\ UpdateOutgoing(queue)
                  /\ reads' = IF Len(queue) = QueueLimit THEN reads + 1 ELSE reads
          /\ shut' = (shut \/ ~(failed \/ keepAlive))
    /\ UNCHANGED <<clientVars, reader, headers>>

-----------------------------------------------------------------------------
\* Nothing refers to the session any more: it is destroyed.
Ended == reads = 0 /\ reader = "none" /\ writes = <<>> /\ writers = <<>>

Destroyed == Ended /\ UNCHANGED vars

Server == \/ ReadRequest \/ ReadEndOfStream \/ ReadFails
          \/ RespondError \/ BeginHeader \/ HeaderFails \/ NoCDN \/ Relay
          \/ \E failed \in BOOLEAN : WriteEnds(failed)
          \/ HandleWrite

Next == \/ ClientSends
        \/ \E how \in Peers \ {"open"} : ClientLeaves(how)
        \/ Server
        \/ Destroyed

Spec == Init /\ [][Next]_vars

\* Operations complete and handlers return.
FairSpec == /\ Spec
            /\ WF_vars(ReadRequest \/ ReadEndOfStream \/ ReadFails)
            /\ WF_vars(RespondError \/ BeginHeader \/ HeaderFails \/ NoCDN \/ Relay)
            /\ WF_vars(\E failed \in BOOLEAN : WriteEnds(failed))
            /\ WF_vars(HandleWrite)

-----------------------------------------------------------------------------
(* Properties.                                                             *)

\* Type correctness.
TypeOK ==
    /\ peer \in Peers /\ incoming \in 0..MaxRequests /\ requests \in 0..MaxRequests
    /\ shut \in BOOLEAN
    /\ reads \in Nat /\ reader \in {"none", "process", "error", "header"}
    /\ queue \in Seq(BOOLEAN) /\ Len(queue) <= QueueLimit
    /\ writes \in Seq(BOOLEAN) /\ writers \in Seq(BOOLEAN \X BOOLEAN)
    /\ headers = IF reader = "header" THEN 1 ELSE 0

\* A session has at most one read in flight or being handled, so HandleRead
\* and BeginRead never work on _request and _buffer at the same time (checked
\* together with the types).
OneReaderAtATime == TypeOK /\ reads + (IF reader = "none" THEN 0 ELSE 1) <= 1

\* A client that closes its connection between two requests is done with: the
\* session's operations end.
CleanCloseEndsSession == peer = "closed" ~> Ended

\* A write is started when there was no previous work only: one at a time.
OneWriteAtATime == Len(writes) + headers <= 1
=============================================================================
