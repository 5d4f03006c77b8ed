------------------------- MODULE HttpSessionProofs --------------------------
(***************************************************************************)
(* The safety properties of HttpSession for every queue limit, number of   *)
(* threads, number of requests and backlog of writes.                      *)
(***************************************************************************)
EXTENDS HttpSession, SequenceTheorems, TLAPS

\* Why the session is right: every response is written at once.  BeginWrite
\* starts a write whenever the message is alone in the queue, so the queue is
\* empty again when it returns, the limit is never met and, all responses
\* having keep_alive(false), HandleWrite never takes a message from it.
SessionInv ==
    /\ peer \in Peers /\ requests \in 0..MaxRequests /\ incoming \in 0..requests
    /\ shut \in BOOLEAN
    /\ reads \in {0, 1} /\ reader \in {"none", "process", "error", "header"}
    /\ reader # "none" => reads = 0
    /\ queue = <<>>
    /\ writes \in Seq({FALSE}) /\ writers \in Seq({FALSE} \X BOOLEAN)
    /\ headers = IF reader = "header" THEN 1 ELSE 0

-----------------------------------------------------------------------------
\* A message appended to the empty queue is alone in it.
LEMMA SingletonSeq ==
    ASSUME NEW e
    PROVE  /\ Len(Append(<<>>, e)) = 1 /\ Append(<<>>, e) # <<>>
           /\ Head(Append(<<>>, e)) = e /\ Tail(Append(<<>>, e)) = <<>>
<1>1. <<>> \in Seq({e}) /\ Len(<<>>) = 0
  BY EmptySeq
<1>2. Len(Append(<<>>, e)) = Len(<<>>) + 1 /\ Append(<<>>, e) # <<>>
  BY <1>1, AppendProperties
<1> QED
  BY <1>1, <1>2, HeadTailAppend

\* UpdateOutgoing on the one message of BeginWrite: it is written.
LEMMA BeginWriteWritesAtOnce ==
    ASSUME SessionInv, BeginWrite(FALSE)
    PROVE  queue' = <<>> /\ writes' \in Seq({FALSE})
<1>1. PICK k : k = FALSE /\ BeginWrite(k)
  OBVIOUS
<1> DEFINE q == Append(queue, k)
<1>2. queue = <<>> /\ k \in {FALSE}
  BY <1>1 DEF SessionInv
<1>3. Len(q) = 1 /\ q # <<>> /\ Head(q) = k /\ Tail(q) = <<>>
  BY <1>2, SingletonSeq
<1>4. writes' = Append(writes, Head(q)) /\ queue' = Tail(q)
  BY <1>1, <1>3 DEF BeginWrite, UpdateOutgoing
<1> QED
  BY <1>2, <1>3, <1>4, AppendProperties DEF SessionInv

LEMMA SessionInit == Init => SessionInv
<1>1. <<>> \in Seq({FALSE}) /\ <<>> \in Seq({FALSE} \X BOOLEAN)
  BY EmptySeq
<1>2. 0 \in 0..MaxRequests
  BY LimitsAssumption
<1>3. shut = FALSE => shut \in BOOLEAN
  OBVIOUS
<1> QED
  BY <1>1, <1>2, <1>3 DEF Init, SessionInv, Peers

LEMMA SessionClient ==
    ASSUME SessionInv,
           ClientSends \/ \E how \in Peers \ {"open"} : ClientLeaves(how)
    PROVE  SessionInv'
  BY LimitsAssumption DEF SessionInv, ClientSends, ClientLeaves

\* A read that ends leaves HandleRead running, or nothing.
LEMMA SessionRead ==
    ASSUME SessionInv, ReadRequest \/ ReadEndOfStream \/ ReadFails
    PROVE  SessionInv'
<1>1. CASE ReadRequest
  BY <1>1, LimitsAssumption DEF SessionInv, ReadRequest
<1>2. CASE ReadEndOfStream
  BY <1>2 DEF SessionInv, ReadEndOfStream, clientVars
<1>3. CASE ReadFails
  BY <1>3 DEF SessionInv, ReadFails, Peers
<1> QED
  BY <1>1, <1>2, <1>3

\* ProcessRequest ends with the queue empty: reading again is reading once.
LEMMA SessionProcess ==
    ASSUME SessionInv, RespondError \/ BeginHeader \/ HeaderFails \/ NoCDN \/ Relay
    PROVE  SessionInv'
<1> USE DEF SessionInv, clientVars
<1>1. CASE RespondError
  BY <1>1, BeginWriteWritesAtOnce, LimitsAssumption DEF RespondError, ReadAgain
<1>2. CASE BeginHeader
  BY <1>2 DEF BeginHeader
<1>3. CASE HeaderFails
  BY <1>3, LimitsAssumption DEF HeaderFails, ReadAgain
<1>4. CASE NoCDN
  BY <1>4, BeginWriteWritesAtOnce, LimitsAssumption DEF NoCDN, ReadAgain
<1>5. CASE Relay
  BY <1>5 DEF Relay
<1> QED
  BY <1>1, <1>2, <1>3, <1>4, <1>5

\* HandleWrite runs for a message without keep_alive: it shuts the socket down,
\* or the write failed.
LEMMA SessionWrite ==
    ASSUME SessionInv, HandleWrite \/ \E failed \in BOOLEAN : WriteEnds(failed)
    PROVE  SessionInv'
<1> USE DEF SessionInv, clientVars
<1>1. ASSUME NEW failed \in BOOLEAN, WriteEnds(failed)
      PROVE  SessionInv'
  <2>1. /\ writes # <<>> /\ writers' = Append(writers, <<Head(writes), failed>>)
        /\ writes' = Tail(writes)
        /\ UNCHANGED <<peer, incoming, requests, shut, reads, reader, queue, headers>>
    BY <1>1 DEF WriteEnds
  <2>2. Head(writes) \in {FALSE} /\ Tail(writes) \in Seq({FALSE})
    BY <2>1, HeadTailProperties
  <2>3. <<Head(writes), failed>> \in {FALSE} \X BOOLEAN
    BY <2>2, Zenon
  <2>4. writers' \in Seq({FALSE} \X BOOLEAN)
    BY <2>1, <2>3, AppendProperties
  <2> QED
    BY <2>1, <2>2, <2>4
<1>2. CASE HandleWrite
  <2>1. writers # <<>> /\ writers' = Tail(writers)
    BY <1>2 DEF HandleWrite
  <2>2. Head(writers) \in {FALSE} \X BOOLEAN /\ Tail(writers) \in Seq({FALSE} \X BOOLEAN)
    BY <2>1, HeadTailProperties
  <2>3. Head(writers)[1] = FALSE
    BY <2>2
  <2>4. /\ UNCHANGED <<queue, writes, reads, peer, incoming, requests, reader, headers>>
        /\ shut' \in BOOLEAN
    BY <1>2, <2>3 DEF HandleWrite
  <2> QED
    BY <2>1, <2>2, <2>4
<1> QED
  BY <1>1, <1>2

LEMMA SessionStep == SessionInv /\ [Next]_vars => SessionInv'
<1> SUFFICES ASSUME SessionInv, [Next]_vars PROVE SessionInv'
  OBVIOUS
<1>1. CASE UNCHANGED vars
  BY <1>1 DEF vars, SessionInv
<1>2. CASE Next
  BY <1>1, <1>2, SessionClient, SessionRead, SessionProcess, SessionWrite
     DEF Next, Server, Destroyed
<1> QED
  BY <1>1, <1>2

\* What the inductive invariant says of a state.
LEMMA SessionInvImplies ==
    ASSUME SessionInv
    PROVE  OneReaderAtATime
<1>1. TypeOK
  <2>1. writes \in Seq(BOOLEAN) /\ writers \in Seq(BOOLEAN \X BOOLEAN)
    BY SeqMonotonic DEF SessionInv
  <2>2. queue \in Seq(BOOLEAN) /\ Len(queue) <= QueueLimit
    BY LimitsAssumption DEF SessionInv
  <2> QED
    BY <2>1, <2>2, LimitsAssumption DEF SessionInv, TypeOK
<1>2. reads + (IF reader = "none" THEN 0 ELSE 1) <= 1
  BY DEF SessionInv
<1> QED
  BY <1>1, <1>2 DEF SessionInv, OneReaderAtATime

\* For every queue limit, number of threads and sequence of requests, failures
\* and closes, HandleRead and BeginRead never work on _request and _buffer at
\* the same time, and no message exceeds the limit of the queue.
THEOREM SessionOneReader == Spec => []OneReaderAtATime
<1>1. Spec => []SessionInv
  BY SessionInit, SessionStep, PTL DEF Spec
<1> QED
  BY <1>1, SessionInvImplies, PTL
=============================================================================
