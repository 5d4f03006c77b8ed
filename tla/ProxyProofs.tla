---------------------------- MODULE ProxyProofs -----------------------------
(***************************************************************************)
(* Proxy implements HttpSession: a session whose transfers take many steps *)
(* is a session that relays a file in one.  What is proved of HttpSession  *)
(* holds of the proxy with its transfers.                                  *)
(*                                                                         *)
(* The transfer: what is delivered was verified, and a block of which only *)
(* a part was sent is not decoded again, since every CDN begins with the   *)
(* signature of the archive.                                               *)
(***************************************************************************)
EXTENDS Proxy, HttpSessionProofs, FiniteSetTheorems

-----------------------------------------------------------------------------
(* The refinement                                                          *)

\* The steps of a transfer leave the session alone; the ones that begin and
\* end it are steps of the session.
LEMMA ProxyStepRefines == [ProxyNext]_proxyVars => [Next]_vars
<1> SUFFICES ASSUME [ProxyNext]_proxyVars PROVE [Next]_vars
  OBVIOUS
<1>1. CASE UNCHANGED proxyVars
  BY <1>1 DEF proxyVars
<1>2. CASE (ClientSends \/ \E how \in Peers \ {"open"} : ClientLeaves(how)) /\ UNCHANGED transferVars
  BY <1>2 DEF Next
<1>3. CASE Read
  BY <1>3 DEF Read, Next, Server
<1>4. CASE Respond
  <2>1. CASE (RespondError \/ BeginHeader) /\ UNCHANGED transferVars
    BY <2>1 DEF Next, Server
  <2>2. CASE HeaderWritten \/ Transfer
    BY <2>2 DEF HeaderWritten, Transfer
  <2>3. CASE HeaderUnwritten
    BY <2>3 DEF HeaderUnwritten, Next, Server
  <2>4. CASE TransferRefused
    BY <2>4 DEF TransferRefused, Next, Server
  <2>5. CASE TransferEnded
    BY <2>5 DEF TransferEnded, Next, Server
  <2> QED
    BY <1>4, <2>1, <2>2, <2>3, <2>4, <2>5 DEF Respond
<1>5. CASE WriteCompletes
  BY <1>5 DEF WriteCompletes, Next, Server
<1>6. CASE HandleWrite /\ UNCHANGED transferVars
  BY <1>6 DEF Next, Server
<1>7. CASE Destroyed /\ UNCHANGED transferVars
  BY <1>7 DEF Next
<1> QED
  BY <1>1, <1>2, <1>3, <1>4, <1>5, <1>6, <1>7 DEF ProxyNext

LEMMA ProxyRefinesSession == ProxySpec => Spec
<1>1. ProxyInit => Init
  BY DEF ProxyInit
<1> QED
  BY <1>1, ProxyStepRefines, PTL DEF ProxySpec, Spec

\* The session's own property holds while files are relayed: nothing a transfer
\* does, and no way in which it ends, starts a second read.
THEOREM ProxySessionSafe == ProxySpec => []OneReaderAtATime
  BY ProxyRefinesSession, SessionOneReader, PTL

-----------------------------------------------------------------------------
(* The transfer                                                            *)

\* One of the files was requested, and bytes are places in an archive or Junk.
BytesInv == /\ file \in Files /\ ms \in Seq(Int) /\ body \in Seq(Int)
            /\ \A p \in 1..Len(ms) : Junk <= ms[p]
            /\ \A p \in 1..Len(body) : Junk <= body[p]

\* An entry of the table is the file's, or has a checksum nothing matches.
IsEntry(i, c) ==
    /\ c.compressedSize \in Nat
    /\ \/ c.checksum = <<Junk - 1>>
       \/ /\ c.checksum = Checksum(i)
          /\ c.compressedSize = BlockAt(file, i + 1) - BlockAt(file, i) - 1

DecoderInv ==
    /\ cursor \in Nat /\ step \in Nat
    /\ step >= 2 => /\ DOMAIN chunks = DOMAIN file.modes /\ Len(chunks) = Len(file.modes)
                    /\ \A i \in DOMAIN chunks : IsEntry(i, chunks[i])

\* Block i is not at the cursor: the byte there, or the next to come, is not
\* its first.  A block of which a part was sent, before inflate failed, is not
\* found again.
Lost(i) ==
    /\ i \in DOMAIN file.modes /\ chunks[i].compressedSize >= 1 /\ chunks[i].checksum = Checksum(i)
    /\ cursor <= Len(ms)
    /\ cursor < Len(ms) => ms[cursor + 1] # BlockAt(file, i)
    /\ cursor = Len(ms) /\ body # <<>> => body[1] # BlockAt(file, i)

\* Block i was checked: its bytes but the last are the file's.
Checked(i, bytes) ==
    /\ i \in DOMAIN file.modes
    /\ Genuine(SubSeq(bytes, 1, Len(bytes) - 1), BlockAt(file, i) + 1)

Deliveries == Nat \X Seq(Int)

DeliveryInv ==
    /\ delivered \in Seq(Deliveries)
    /\ \A k \in 1..Len(delivered) :
          /\ Checked(delivered[k][1], delivered[k][2])
          /\ k > 1 => delivered[k - 1][1] < delivered[k][1]
          /\ delivered[k][1] < step
          /\ delivered[k][1] = step - 1 => Lost(step - 1)

TransferInv == BytesInv /\ DecoderInv /\ DeliveryInv

\* What the assumptions on files say of the one that was requested.
LEMMA FileFacts ==
    ASSUME file \in Files
    PROVE  /\ Len(file.modes) \in Nat /\ DOMAIN file.modes = 1..Len(file.modes)
           /\ \A i \in DOMAIN file.modes : /\ BlockAt(file, i) \in Nat \ {0}
                                            /\ BlockAt(file, i + 1) \in Nat
                                            /\ BlockAt(file, i) < BlockAt(file, i + 1)
           /\ file.archive \in Nat /\ SizeMod \in Nat \ {0}
<1>1. IsFile(file)
  BY FilesAssumption
<1>2. /\ file.archive \in Nat
      /\ Len(file.modes) \in Nat /\ DOMAIN file.modes = 1..Len(file.modes)
      /\ file.at \in Seq(Nat \ {0}) /\ Len(file.at) = Len(file.modes) + 1
  BY <1>1, LenProperties DEF IsFile
<1>3. \A i \in 1..(Len(file.modes) + 1) : file.at[i] \in Nat \ {0}
  BY <1>2, ElementOfSeq
<1>4. \A i \in DOMAIN file.modes : /\ BlockAt(file, i) \in Nat \ {0} /\ BlockAt(file, i + 1) \in Nat
                                   /\ BlockAt(file, i) < BlockAt(file, i + 1)
  <2>1. \A i \in 1..Len(file.modes) : i \in 1..(Len(file.modes) + 1) /\ i + 1 \in 1..(Len(file.modes) + 1)
    BY <1>2
  <2> QED
    BY <1>1, <1>2, <1>3, <2>1 DEF IsFile, BlockAt
<1> QED
  BY <1>2, <1>4, HostsAssumption

\* A range of bytes, which is empty if its end is not after its beginning.
LEMMA BytesFacts ==
    ASSUME NEW lo \in Int, NEW hi \in Int
    PROVE  /\ Bytes(lo, hi) \in Seq(Int)
           /\ Len(Bytes(lo, hi)) = IF lo <= hi THEN hi - lo ELSE 0
           /\ \A p \in 1..Len(Bytes(lo, hi)) : Bytes(lo, hi)[p] = lo + p - 1
<1> DEFINE n == IF lo <= hi THEN hi - lo ELSE 0
<1>1. n \in Nat /\ 1..n = 1..(hi - lo)
  OBVIOUS
<1>2. Bytes(lo, hi) = [i \in 1..n |-> lo + i - 1]
  BY <1>1 DEF Bytes
<1>3. Bytes(lo, hi) \in [1..n -> Int]
  BY <1>1, <1>2
<1> HIDE DEF n
<1>4. Bytes(lo, hi) \in Seq(Int) /\ Len(Bytes(lo, hi)) = n
  BY <1>1, <1>3, SeqDef, LenProperties
<1> QED
  BY <1>2, <1>4 DEF n

\* Bytes that count up from the beginning of what they should be are genuine.
LEMMA GenuineFacts ==
    ASSUME NEW t \in Seq(Int), NEW at \in Nat,
           \A p \in 1..Len(t) : t[p] = at + p - 1
    PROVE  Genuine(t, at)
<1> DEFINE b == Bytes(at, at + Len(t))
<1>1. Len(t) \in Nat /\ at \in Int /\ at + Len(t) \in Int
  BY LenProperties
<1>2. /\ b \in Seq(Int) /\ Len(b) = Len(t)
      /\ \A p \in 1..Len(b) : b[p] = at + p - 1
  <2>1. at <= at + Len(t) /\ (at + Len(t)) - at = Len(t)
    BY <1>1
  <2> QED
    BY <1>1, <2>1, BytesFacts
<1>3. \A p \in 1..Len(t) : t[p] = b[p]
  BY <1>2
<1>4. t = b
  BY <1>2, <1>3, SeqEqual
<1> QED
  BY <1>4 DEF Genuine

LEMMA BytesLength ==
    ASSUME BytesInv
    PROVE  Len(ms) \in Nat /\ Len(body) \in Nat
  BY LenProperties DEF BytesInv

\* Steps that give the decoder no byte and ask for none.
LEMMA QuietStep ==
    ASSUME BytesInv, body' \in {body, <<>>}, UNCHANGED <<file, ms>>
    PROVE  BytesInv'
<1>1. CASE body' = body
  BY <1>1 DEF BytesInv
<1>2. CASE body' = <<>>
  <2>1. body' \in Seq(Int) /\ Len(body') = 0
    BY <1>2, EmptySeq
  <2> QED
    BY <2>1 DEF BytesInv
<1> QED
  BY <1>1, <1>2

\* Counting modulo m.
LEMMA Modulo ==
    ASSUME NEW m \in Nat \ {0}, NEW x \in Int
    PROVE  x % m \in Nat
  OBVIOUS

\* A CDN answers: the first byte is that of the archive, or not of it.
LEMMA SendStep ==
    ASSUME BytesInv, SendArchive \/ \E n \in 1..MaxJunk : SendError(n)
    PROVE  /\ BytesInv'
           /\ body' # <<>> => body'[1] \in {Junk, 0}
<1>1. UNCHANGED <<file, ms>>
  BY DEF SendArchive, SendError, sessionVars, decoderVars
<1>2. CASE SendArchive
  <2>1. body' = Bytes(0, file.archive) /\ file.archive \in Nat
    BY <1>2, FileFacts DEF SendArchive, BytesInv
  <2>2. /\ body' \in Seq(Int) /\ Len(body') = file.archive
        /\ \A p \in 1..Len(body') : body'[p] = 0 + p - 1
    <3>1. 0 \in Int /\ file.archive \in Int /\ 0 <= file.archive /\ file.archive - 0 = file.archive
      BY <2>1
    <3> QED
      BY <2>1, <3>1, BytesFacts
  <2>3. body' # <<>> => 1 \in 1..Len(body')
    BY <2>1, <2>2, EmptySeq
  <2>4. body' # <<>> => body'[1] = 0
    BY <2>2, <2>3
  <2>5. \A p \in 1..Len(body') : Junk <= body'[p]
    BY <2>1, <2>2 DEF Junk
  <2> QED
    BY <1>1, <2>2, <2>4, <2>5 DEF BytesInv
<1>3. CASE \E n \in 1..MaxJunk : SendError(n)
  <2>1. PICK n \in 1..MaxJunk : body' = [i \in 1..n |-> Junk]
    BY <1>3 DEF SendError
  <2>2. n \in Nat /\ n >= 1 /\ body' \in [1..n -> Int] /\ body'[1] = Junk
    BY <2>1, HostsAssumption DEF Junk
  <2>3. body' \in Seq(Int) /\ Len(body') = n
    BY <2>2, SeqDef, LenProperties
  <2>4. \A p \in 1..Len(body') : Junk <= body'[p]
    BY <2>1, <2>3 DEF Junk
  <2> QED
    BY <1>1, <2>2, <2>3, <2>4 DEF BytesInv
<1> QED
  BY <1>2, <1>3

\* The first n bytes of the answer go to the decoder.
LEMMA PutMoves ==
    ASSUME BytesInv, NEW n \in 1..Len(body), Put(n)
    PROVE  /\ ms' \in Seq(Int) /\ Len(ms') = Len(ms) + n
           /\ \A p \in 1..Len(ms') :
                 ms'[p] = IF p <= Len(ms) THEN ms[p] ELSE body[p - Len(ms)]
           /\ body' \in Seq(Int) /\ Len(body') = Len(body) - n
           /\ \A p \in 1..Len(body') : body'[p] = body[n + p]
<1>1. /\ ms \in Seq(Int) /\ body \in Seq(Int) /\ Len(ms) \in Nat /\ Len(body) \in Nat /\ n \in Int
  BY BytesLength DEF BytesInv
<1>2. ms' = ms \o SubSeq(body, 1, n) /\ body' = SubSeq(body, n + 1, Len(body))
  BY DEF Put
<1>3. \A i \in 1..Len(body) : body[i] \in Int
  BY <1>1, ElementOfSeq
<1>4. /\ SubSeq(body, 1, n) \in Seq(Int) /\ Len(SubSeq(body, 1, n)) = n
      /\ \A i \in 1..n : SubSeq(body, 1, n)[i] = body[i]
  <2>1. \A i \in 1..n : body[i] \in Int
    BY <1>1, <1>3
  <2>2. /\ SubSeq(body, 1, n) \in Seq(Int) /\ Len(SubSeq(body, 1, n)) = (IF 1 <= n THEN n - 1 + 1 ELSE 0)
        /\ \A i \in 1..(n - 1 + 1) : SubSeq(body, 1, n)[i] = body[1 + i - 1]
    BY <1>1, <2>1, SubSeqProperties
  <2> QED
    BY <1>1, <2>2
<1>5. /\ body' \in Seq(Int) /\ Len(body') = Len(body) - n
      /\ \A p \in 1..Len(body') : body'[p] = body[n + p]
  <2> DEFINE m == n + 1
             l == Len(body)
             t == SubSeq(body, m, l)
  <2>1. m \in Int /\ l \in Int /\ \A i \in m..l : body[i] \in Int
    BY <1>1, <1>3
  <2>2. l - m + 1 = Len(body) - n /\ (m <= l \/ Len(body) - n = 0) /\ (m <= l => Len(body) - n = l - m + 1)
        /\ \A p \in 1..(Len(body) - n) : m + p - 1 = n + p
    BY <1>1
  <2>3. t \in Seq(Int) /\ Len(t) = (IF m <= l THEN l - m + 1 ELSE 0)
        /\ \A i \in 1..(l - m + 1) : t[i] = body[m + i - 1]
    <3> HIDE DEF m, l
    <3> QED
      BY <2>1, SubSeqProperties
  <2>4. body' = t
    BY <1>2
  <2> HIDE DEF t
  <2>5. Len(t) = Len(body) - n
    BY <2>2, <2>3
  <2>6. \A i \in 1..(Len(body) - n) : t[i] = body[n + i]
    BY <2>2, <2>3
  <2> QED
    BY <2>3, <2>4, <2>5, <2>6
<1>6. /\ ms' \in Seq(Int) /\ Len(ms') = Len(ms) + n
      /\ \A p \in 1..Len(ms') :
            ms'[p] = IF p <= Len(ms) THEN ms[p] ELSE body[p - Len(ms)]
  <2> DEFINE u == SubSeq(body, 1, n)
  <2> HIDE DEF u
  <2>1. u \in Seq(Int) /\ Len(u) = n /\ \A i \in 1..n : u[i] = body[i]
    BY <1>4 DEF u
  <2>2. /\ ms \o u \in Seq(Int) /\ Len(ms \o u) = Len(ms) + Len(u)
        /\ \A i \in 1..(Len(ms) + Len(u)) : (ms \o u)[i] = IF i <= Len(ms) THEN ms[i] ELSE u[i - Len(ms)]
    BY <1>1, <2>1, ConcatProperties
  <2>3. ms' = ms \o u
    BY <1>2 DEF u
  <2>4. \A i \in 1..(Len(ms) + n) : i <= Len(ms) \/ i - Len(ms) \in 1..n
    BY <1>1
  <2> QED
    BY <2>1, <2>2, <2>3, <2>4
<1> QED
  BY <1>5, <1>6

LEMMA PutStep ==
    ASSUME BytesInv, NEW n \in 1..Len(body), Put(n)
    PROVE  BytesInv'
<1>1. UNCHANGED file
  BY DEF Put
<1>2. Len(ms) \in Nat /\ Len(body) \in Nat /\ n \in Nat
  BY BytesLength
<1>3. ASSUME NEW p \in 1..Len(ms') PROVE Junk <= ms'[p]
  <2>1. /\ ms'[p] = IF p <= Len(ms) THEN ms[p] ELSE body[p - Len(ms)]
        /\ Len(ms') = Len(ms) + n
    BY PutMoves
  <2>2. p \in 1..Len(ms) \/ (~(p <= Len(ms)) /\ p - Len(ms) \in 1..Len(body))
    BY <1>2, <2>1
  <2> QED
    BY <1>2, <2>1, <2>2 DEF BytesInv
<1>4. ASSUME NEW p \in 1..Len(body') PROVE Junk <= body'[p]
  <2>1. body'[p] = body[n + p] /\ Len(body') = Len(body) - n
    BY PutMoves
  <2>2. n + p \in 1..Len(body)
    BY <1>2, <2>1
  <2> QED
    BY <2>1, <2>2 DEF BytesInv
<1> QED
  BY <1>1, <1>3, <1>4, PutMoves DEF BytesInv

-----------------------------------------------------------------------------
(* The decoder                                                             *)

\* Nothing is delivered, and what is lost stays lost.
LEMMA DeliveryKept ==
    ASSUME DeliveryInv, UNCHANGED <<file, step, delivered>>, Lost(step - 1) => Lost(step - 1)'
    PROVE  DeliveryInv'
<1>1. ASSUME NEW k \in 1..Len(delivered)
      PROVE  /\ Checked(delivered[k][1], delivered[k][2])'
             /\ k > 1 => delivered[k - 1][1] < delivered[k][1]
             /\ delivered[k][1] < step
             /\ delivered[k][1] = step - 1 => Lost(step - 1)'
  BY DEF DeliveryInv, Checked, Genuine
<1> QED
  BY <1>1 DEF DeliveryInv

LEMMA DecoderKept ==
    ASSUME DecoderInv, UNCHANGED <<file, cursor, step, chunks>>
    PROVE  DecoderInv'
  BY DEF DecoderInv, IsEntry, Checksum

\* Steps that leave the decoder as it is.
LEMMA DecoderQuiet ==
    ASSUME TransferInv, UNCHANGED <<file, ms, cursor, step, chunks, delivered>>, body' \in {body, <<>>}
    PROVE  DecoderInv' /\ DeliveryInv'
<1>1. Lost(step - 1) => Lost(step - 1)'
  BY DEF Lost, Checksum
<1> QED
  BY <1>1, DecoderKept, DeliveryKept DEF TransferInv

\* The first byte of an answer is not the first of a block: a header precedes
\* the blocks.
LEMMA DecoderSend ==
    ASSUME TransferInv, SendArchive \/ \E n \in 1..MaxJunk : SendError(n)
    PROVE  DecoderInv' /\ DeliveryInv'
<1>1. UNCHANGED <<file, ms, cursor, step, chunks, delivered>>
  BY DEF SendArchive, SendError, sessionVars, decoderVars
<1>2. body' # <<>> => body'[1] \in {Junk, 0}
  BY SendStep DEF TransferInv
<1>3. ASSUME Lost(step - 1) PROVE Lost(step - 1)'
  <2>1. BlockAt(file, step - 1) \in Nat \ {0}
    BY <1>3, FileFacts DEF TransferInv, BytesInv, Lost
  <2>2. body' # <<>> => body'[1] # BlockAt(file, step - 1)
    BY <1>2, <2>1 DEF Junk
  <2> QED
    BY <1>1, <1>3, <2>2 DEF Lost, Checksum
<1> QED
  BY <1>1, <1>3, DecoderKept, DeliveryKept DEF TransferInv

LEMMA DecoderPut ==
    ASSUME TransferInv, NEW n \in 1..Len(body), Put(n)
    PROVE  DecoderInv' /\ DeliveryInv'
<1>1. UNCHANGED <<file, cursor, step, chunks, delivered>>
  BY DEF Put
<1>2. /\ Len(ms') = Len(ms) + n /\ Len(ms) \in Nat /\ Len(body) \in Nat /\ n \in Nat /\ n >= 1
      /\ \A p \in 1..Len(ms') : ms'[p] = IF p <= Len(ms) THEN ms[p] ELSE body[p - Len(ms)]
      /\ body # <<>>
  <2>1. Len(body) \in Nat /\ body \in Seq(Int)
    BY BytesLength DEF TransferInv, BytesInv
  <2>2. body # <<>>
    BY <2>1, EmptySeq
  <2> QED
    BY <2>1, <2>2, PutMoves, BytesLength DEF TransferInv
<1>3. ASSUME Lost(step - 1) PROVE Lost(step - 1)'
  <2> DEFINE i == step - 1
             b == BlockAt(file, i)
  <2>1. cursor \in Nat /\ cursor <= Len(ms)
    BY <1>3 DEF TransferInv, DecoderInv, Lost
  <2>2. cursor < Len(ms') /\ cursor <= Len(ms') /\ cursor # Len(ms') /\ cursor + 1 \in 1..Len(ms')
    BY <1>2, <2>1
  <2>3. CASE cursor < Len(ms)
    <3>1. ms'[cursor + 1] = ms[cursor + 1]
      BY <1>2, <2>1, <2>2, <2>3
    <3> QED
      BY <1>1, <1>3, <2>2, <2>3, <3>1 DEF Lost, Checksum
  <2>4. CASE cursor = Len(ms)
    <3>1. ms'[cursor + 1] = body[1]
      <4>1. ~ (cursor + 1 <= Len(ms)) /\ (cursor + 1) - Len(ms) = 1
        BY <1>2, <2>4
      <4> QED
        BY <1>2, <2>2, <4>1
    <3>2. body[1] # b
      BY <1>2, <1>3, <2>4 DEF Lost
    <3> QED
      BY <1>1, <1>3, <2>2, <3>1, <3>2 DEF Lost, Checksum
  <2> QED
    BY <1>2, <2>1, <2>3, <2>4
<1> QED
  BY <1>1, <1>3, DecoderKept, DeliveryKept DEF TransferInv

\* Nothing was delivered before the table is read.
LEMMA NoneDelivered ==
    ASSUME TransferInv, step \in {0, 1}
    PROVE  delivered = <<>>
<1>1. delivered \in Seq(Deliveries) /\ Len(delivered) \in Nat
  BY LenProperties DEF TransferInv, DeliveryInv
<1>2. ASSUME NEW k \in 1..Len(delivered) PROVE FALSE
  <2>1. delivered[k][1] \in DOMAIN file.modes /\ delivered[k][1] < step
    BY DEF TransferInv, DeliveryInv, Checked
  <2>2. DOMAIN file.modes = 1..Len(file.modes)
    BY FileFacts DEF TransferInv, BytesInv
  <2> QED
    BY <2>1, <2>2
<1>3. Len(delivered) = 0
  BY <1>1, <1>2
<1> QED
  BY <1>1, <1>3, EmptySeq

\* Parse leaves what was received alone; when it fails, the rest of the answer
\* is not read.
LEMMA ParseShape ==
    ASSUME \/ NeedsMore \/ \E size \in JunkSizes : ParseHeader(size) \/ ParseTable(size)
           \/ \E i \in DOMAIN file.modes :
                 BadChecksum(i) \/ Deliver(i) \/ BlockFails(i) \/ NestedFails(i) \/ DeliverThrows(i)
    PROVE  /\ phase = "parse" /\ phase' \in {"parse", "body", "next", "threw"}
           /\ body' \in {body, <<>>}
           /\ UNCHANGED <<file, ms>>
<1>1. CASE NeedsMore
  BY <1>1 DEF NeedsMore, ParseReturns, sessionVars, decoderVars
<1>2. CASE \E size \in JunkSizes : ParseHeader(size) \/ ParseTable(size)
  BY <1>2 DEF ParseHeader, ParseTable, ParseReturns, sessionVars
<1>3. ASSUME NEW i \in DOMAIN file.modes, BadChecksum(i) \/ Deliver(i)
      PROVE  /\ phase = "parse" /\ phase' \in {"parse", "body", "next", "threw"}
             /\ body' \in {body, <<>>}
             /\ UNCHANGED <<file, ms>>
  BY <1>3 DEF BadChecksum, Deliver, AtBlock, ParseReturns, sessionVars, decoderVars
<1>4. ASSUME NEW i \in DOMAIN file.modes, BlockFails(i) \/ NestedFails(i) \/ DeliverThrows(i)
      PROVE  /\ phase = "parse" /\ phase' \in {"parse", "body", "next", "threw"}
             /\ body' \in {body, <<>>}
             /\ UNCHANGED <<file, ms>>
  BY <1>4 DEF BlockFails, NestedFails, DeliverThrows, AtBlock, ParseReturns, sessionVars
<1> QED
  BY <1>1, <1>2, <1>3, <1>4

LEMMA DecoderHeader ==
    ASSUME TransferInv, NEW size \in JunkSizes, ParseHeader(size)
    PROVE  DecoderInv' /\ DeliveryInv'
<1>1. /\ step = 0 /\ UNCHANGED <<file, chunks, delivered>>
      /\ cursor' \in {cursor + 1, cursor + 2} /\ step' \in {0, 1}
  BY DEF ParseHeader, sessionVars
<1>2. delivered = <<>> /\ Len(delivered) = 0
  BY <1>1, NoneDelivered, EmptySeq
<1>3. DecoderInv'
  BY <1>1 DEF TransferInv, DecoderInv
<1>4. DeliveryInv'
  BY <1>1, <1>2, EmptySeq DEF DeliveryInv
<1> QED
  BY <1>3, <1>4

LEMMA DecoderTable ==
    ASSUME TransferInv, NEW size \in JunkSizes, ParseTable(size)
    PROVE  DecoderInv' /\ DeliveryInv'
<1>1. /\ step = 1 /\ UNCHANGED <<file, delivered>>
  BY DEF ParseTable, sessionVars
<1>2. delivered = <<>> /\ Len(delivered) = 0
  BY <1>1, NoneDelivered, EmptySeq
<1>3. /\ Len(ms) \in Nat /\ cursor \in Nat /\ Len(file.modes) \in Nat /\ SizeMod \in Nat \ {0}
      /\ file \in Files
  BY BytesLength, FileFacts DEF TransferInv, BytesInv, DecoderInv
<1>4. cursor' \in Nat
  <2>1. cursor' \in {Past(1 + Len(file.modes)), Past(1)}
    BY DEF ParseTable
  <2>2. \A n \in Nat : Past(n) \in Nat
    BY <1>3 DEF Past
  <2> QED
    BY SMTT(30), <1>3, <2>1, <2>2
<1>5. ASSUME NEW i \in DOMAIN file.modes, NEW g \in BOOLEAN PROVE IsEntry(i, Entry(i, g, size))
  <2>1. BlockAt(file, i + 1) - BlockAt(file, i) - 1 \in Nat
    BY <1>3, FileFacts
  <2>2. (size - 1) % SizeMod \in Nat
    BY <1>3, Modulo DEF JunkSizes
  <2> QED
    BY <2>1, <2>2 DEF Entry, IsEntry
<1>6. DecoderInv'
  <2>1. CASE step' = 2
    <3>1. chunks' = [i \in DOMAIN file.modes |->
                       Entry(i, Data(1 + i)[1 + i] = 2 + i, size)]
      BY <1>1, <2>1 DEF ParseTable
    <3>2. DOMAIN chunks' = DOMAIN file.modes /\ \A i \in DOMAIN chunks' : IsEntry(i, chunks'[i])
      BY <1>5, <3>1
    <3>3. \A i, c : IsEntry(i, c)' <=> IsEntry(i, c)
      BY <1>1 DEF IsEntry, Checksum
    <3>4. Len(chunks') = Len(file.modes)
      BY <1>3, <3>1, FileFacts
    <3> QED
      BY <1>1, <1>4, <2>1, <3>2, <3>3, <3>4 DEF DecoderInv
  <2>2. CASE step' = 1
    BY <1>4, <2>2 DEF DecoderInv
  <2> QED
    BY <1>1, <2>1, <2>2 DEF ParseTable
<1>7. DeliveryInv'
  BY <1>1, <1>2, EmptySeq DEF DeliveryInv
<1> QED
  BY <1>6, <1>7

\* A block that is verified is the file's, at the cursor, and no part of it or
\* of a later one was delivered before.
LEMMA BlockVerified ==
    ASSUME TransferInv, NEW i \in DOMAIN file.modes, AtBlock(i), Verified(i)
    PROVE  /\ i = step - 1 /\ i \in Nat /\ chunks[i].compressedSize \in Nat
           /\ chunks[i].checksum = Checksum(i)
           /\ cursor + chunks[i].compressedSize <= Len(ms)
           /\ \A j \in 1..chunks[i].compressedSize :
                 ms[cursor + j] = BlockAt(file, i) + j - 1
           /\ \A k \in 1..Len(delivered) : delivered[k][1] < i
<1> DEFINE n == chunks[i].compressedSize
           b == BlockAt(file, i)
           e == BlockAt(file, i + 1)
<1>1. /\ step = i + 1 /\ i \in Nat /\ i >= 1 /\ step \in Nat /\ i = step - 1 /\ cursor \in Nat
      /\ Len(ms) \in Nat /\ file \in Files /\ i \in DOMAIN chunks /\ IsEntry(i, chunks[i])
  <2>1. i \in Nat /\ i >= 1 /\ file \in Files
    BY SMTT(30), FileFacts DEF TransferInv, BytesInv
  <2>2. step = i + 1 /\ i \in DOMAIN chunks /\ step >= 2
    BY <2>1 DEF AtBlock
  <2> QED
    BY <2>1, <2>2, BytesLength DEF TransferInv, DecoderInv
<1>2. /\ b \in Nat /\ e \in Nat /\ b < e
  BY <1>1, FileFacts
<1>3. n \in Nat /\ cursor + n <= Len(ms)
  <2>1. n \in Nat
    BY <1>1 DEF IsEntry
  <2>2. Needed = n
    <3>1. step # 0 /\ step # 1
      BY <1>1
    <3>2. step - 1 <= Len(chunks)
      BY <1>1, FileFacts DEF TransferInv, DecoderInv
    <3> QED
      BY <1>1, <3>1, <3>2 DEF Needed
  <2> QED
    BY <2>1, <2>2 DEF AtBlock, CanRead
<1>4. \A j \in 1..n : Data(n)[j] = ms[cursor + j] /\ cursor + j \in 1..Len(ms)
  <2> SUFFICES ASSUME NEW j \in 1..n
               PROVE  Data(n)[j] = ms[cursor + j] /\ cursor + j \in 1..Len(ms)
    OBVIOUS
  <2>1. Data(n)[j] = IF cursor + j <= Len(ms) THEN ms[cursor + j] ELSE Junk
    BY DEF Data
  <2>2. cursor + j <= Len(ms) /\ cursor + j \in 1..Len(ms)
    BY <1>1, <1>3
  <2> QED
    BY <2>1, <2>2
<1>5. chunks[i].checksum = Checksum(i) /\ n = e - b - 1
  <2>1. CASE chunks[i].checksum = <<Junk - 1>>
    <3>1. Data(n) = <<Junk - 1>>
      BY <2>1 DEF Verified
    <3>2. DOMAIN Data(n) = 1..n /\ DOMAIN <<Junk - 1>> = 1..1 /\ <<Junk - 1>>[1] = Junk - 1
      BY DEF Data
    <3>3. 1 \in 1..n
      BY <3>1, <3>2
    <3>4. Data(n)[1] = Junk - 1
      BY <3>1, <3>2
    <3>5. ms[cursor + 1] = Junk - 1 /\ cursor + 1 \in 1..Len(ms)
      BY <1>4, <3>3, <3>4
    <3>6. Junk <= ms[cursor + 1]
      BY <3>5 DEF TransferInv, BytesInv
    <3> QED
      BY <3>5, <3>6 DEF Junk
  <2> QED
    BY <1>1, <2>1 DEF IsEntry
<1>6. ASSUME NEW j \in 1..n PROVE ms[cursor + j] = b + j - 1
  <2>1. Data(n) = Checksum(i)
    BY <1>5 DEF Verified
  <2> DEFINE hi == e - (IF file.checksums = "whole" THEN 0 ELSE 1)
             lo == b
  <2>2. Checksum(i) = Bytes(lo, hi)
    BY DEF Checksum
  <2>3. lo \in Int /\ hi \in Int /\ j \in 1..(hi - lo)
    BY <1>2, <1>3, <1>5
  <2> HIDE DEF hi, lo
  <2>4. Checksum(i)[j] = lo + j - 1
    BY <2>2, <2>3 DEF Bytes
  <2> QED
    BY <1>4, <2>1, <2>4 DEF lo
<1>7. ~ Lost(i)
  <2> SUFFICES ASSUME Lost(i) PROVE FALSE
    OBVIOUS
  <2>1. n >= 1 /\ (cursor < Len(ms) => ms[cursor + 1] # b)
    BY DEF Lost
  <2>2. 1 \in 1..n /\ cursor < Len(ms)
    BY <1>1, <1>3, <2>1
  <2>3. ms[cursor + 1] = b + 1 - 1
    BY <1>6, <2>2
  <2> QED
    BY <1>2, <2>1, <2>2, <2>3
<1>8. ASSUME NEW k \in 1..Len(delivered) PROVE delivered[k][1] < i
  <2>1. /\ delivered[k][1] < step /\ delivered[k][1] # step - 1
        /\ delivered[k][1] \in DOMAIN file.modes
    BY <1>1, <1>7 DEF TransferInv, DeliveryInv, Checked
  <2>2. DOMAIN file.modes \subseteq Int
    BY SMTT(30), <1>1, FileFacts
  <2>3. delivered[k][1] \in Int
    BY <2>1, <2>2
  <2> QED
    BY <1>1, <2>1, <2>3
<1> QED
  BY <1>1, <1>3, <1>5, <1>6, <1>8

\* What the decoder reads at the cursor, and a block without its mode byte.
LEMMA PayloadFacts ==
    ASSUME TransferInv, NEW i \in DOMAIN file.modes, AtBlock(i), Verified(i)
    PROVE  /\ Payload(i) \in Seq(Int) /\ Len(Payload(i)) = chunks[i].compressedSize
           /\ \A j \in 1..Len(Payload(i)) :
                 Payload(i)[j] = IF cursor + (j + 1) <= Len(ms) THEN ms[cursor + (j + 1)] ELSE Junk
<1> DEFINE n == chunks[i].compressedSize
           d == Data(n + 1)
<1>1. n \in Nat /\ cursor \in Nat /\ Len(ms) \in Nat
  BY BlockVerified, BytesLength DEF TransferInv, DecoderInv
<1>2. \A j \in 1..(n + 1) :
         d[j] = (IF cursor + j <= Len(ms) THEN ms[cursor + j] ELSE Junk) /\ d[j] \in Int
  <2> SUFFICES ASSUME NEW j \in 1..(n + 1)
               PROVE  /\ d[j] = (IF cursor + j <= Len(ms) THEN ms[cursor + j] ELSE Junk)
                      /\ d[j] \in Int
    OBVIOUS
  <2>1. d[j] = (IF cursor + j <= Len(ms) THEN ms[cursor + j] ELSE Junk)
    BY DEF Data
  <2>2. cursor + j <= Len(ms) => ms[cursor + j] \in Int
    <3>1. \A p \in 1..Len(ms) : ms[p] \in Int
      BY ElementOfSeq DEF TransferInv, BytesInv
    <3>2. cursor + j <= Len(ms) => cursor + j \in 1..Len(ms)
      BY <1>1
    <3> QED
      BY <3>1, <3>2
  <2> QED
    BY <2>1, <2>2 DEF Junk
<1>3. d \in [1..(n + 1) -> Int]
  BY <1>2 DEF Data
<1>4. d \in Seq(Int) /\ Len(d) = n + 1
  BY <1>1, <1>3, SeqDef, LenProperties
<1>5. Payload(i) = Tail(d)
  BY DEF Payload
<1> HIDE DEF d
<1>6. /\ Tail(d) \in Seq(Int) /\ Len(Tail(d)) = Len(d) - 1
      /\ \A j \in 1..Len(Tail(d)) : Tail(d)[j] = d[j + 1]
  <2>1. d # <<>>
    BY <1>1, <1>4, EmptySeq
  <2> QED
    BY <1>4, <2>1, HeadTailProperties
<1>7. ASSUME NEW j \in 1..Len(Tail(d))
      PROVE  Tail(d)[j] = IF cursor + (j + 1) <= Len(ms) THEN ms[cursor + (j + 1)] ELSE Junk
  <2>1. j + 1 \in 1..(n + 1)
    BY SMTT(30), <1>1, <1>4, <1>6
  <2> QED
    BY <1>2, <1>6, <2>1
<1>8. Len(Tail(d)) = n
  BY <1>1, <1>4, <1>6
<1> HIDE DEF n
<1> QED
  BY <1>5, <1>6, <1>7, <1>8 DEF n

\* What of a block is sent, all of it or all but its last byte, was checked.
LEMMA PayloadChecked ==
    ASSUME TransferInv, NEW i \in DOMAIN file.modes, AtBlock(i), Verified(i),
           NEW s \in Seq(Int), Len(s) <= Len(Payload(i)), \A j \in 1..Len(s) : s[j] = Payload(i)[j]
    PROVE  Checked(i, s) /\ <<i, s>> \in Deliveries
<1> DEFINE n == chunks[i].compressedSize
           b == BlockAt(file, i)
           t == SubSeq(s, 1, Len(s) - 1)
<1>1. /\ n \in Nat /\ cursor \in Nat /\ Len(ms) \in Nat /\ Len(s) \in Nat /\ i \in Nat
      /\ Len(s) <= n /\ cursor + n <= Len(ms) /\ b \in Nat
  BY BlockVerified, PayloadFacts, BytesLength, LenProperties, FileFacts
     DEF TransferInv, DecoderInv, BytesInv
<1>2. /\ t \in Seq(Int) /\ Len(t) = (IF Len(s) = 0 THEN 0 ELSE Len(s) - 1)
      /\ \A j \in 1..(Len(s) - 1) : t[j] = s[j]
  <2> DEFINE m == Len(s) - 1
  <2>1. m \in Int /\ \A j \in 1..m : s[j] \in Int
    BY <1>1, ElementOfSeq
  <2>2. m - 1 + 1 = m /\ \A j \in 1..m : 1 + j - 1 = j
    BY <2>1
  <2> HIDE DEF m
  <2>3. /\ SubSeq(s, 1, m) \in Seq(Int) /\ Len(SubSeq(s, 1, m)) = (IF 1 <= m THEN m - 1 + 1 ELSE 0)
        /\ \A j \in 1..(m - 1 + 1) : SubSeq(s, 1, m)[j] = s[1 + j - 1]
    BY <2>1, SubSeqProperties
  <2>4. Len(SubSeq(s, 1, m)) = IF 1 <= m THEN m ELSE 0
    BY <2>2, <2>3
  <2>5. \A j \in 1..m : SubSeq(s, 1, m)[j] = s[j]
    BY <2>2, <2>3
  <2> QED
    BY <1>1, <2>3, <2>4, <2>5 DEF m
<1> HIDE DEF t, n, b
<1>3. ASSUME NEW j \in 1..Len(t) PROVE t[j] = (b + 1) + j - 1
  <2>1. j \in Nat /\ j >= 1 /\ j <= Len(s) - 1
    <3>1. Len(t) = (IF Len(s) = 0 THEN 0 ELSE Len(s) - 1)
      BY <1>2
    <3> QED
      BY <1>1, <3>1
  <2> DEFINE q == j + 1
  <2>2. j \in 1..(Len(s) - 1) /\ j \in 1..Len(s) /\ q \in 1..n /\ cursor + q <= Len(ms)
    <3>1. Len(s) \in Nat /\ Len(s) <= n /\ n \in Nat
      BY <1>1
    <3>2. j \in 1..(Len(s) - 1) /\ j \in 1..Len(s) /\ q \in 1..n /\ q \in Nat /\ q <= n
      BY <2>1, <3>1
    <3>3. cursor \in Nat /\ cursor + n <= Len(ms) /\ Len(ms) \in Nat
      BY <1>1
    <3> HIDE DEF q
    <3>4. cursor + q <= Len(ms)
      BY <3>1, <3>2, <3>3
    <3> QED
      BY <3>2, <3>4
  <2>3. t[j] = s[j] /\ s[j] = Payload(i)[j]
    BY <1>2, <2>2
  <2>4. j \in 1..Len(Payload(i))
    <3>1. Len(Payload(i)) = n
      BY PayloadFacts DEF n
    <3> QED
      BY <1>1, <2>1, <3>1
  <2>5. Payload(i)[j] = ms[cursor + q]
    BY <2>2, <2>4, PayloadFacts
  <2>6. ms[cursor + q] = b + q - 1
    <3> HIDE DEF q
    <3> QED
      BY <2>2, BlockVerified DEF n, b
  <2>7. b + q - 1 = (b + 1) + j - 1
    <3>1. b \in Nat /\ j \in Nat
      BY <1>1, <2>1
    <3>2. \A x, y, z \in Nat : x + y + (z + 1) - 1 = x + (y + 1) + z - 1
      OBVIOUS
    <3> QED
      BY <3>1, <3>2
  <2> QED
    BY <2>3, <2>5, <2>6, <2>7
<1>4. Genuine(t, b + 1)
  <2> DEFINE at == b + 1
  <2>1. at \in Nat
    BY <1>1
  <2>2. \A j \in 1..Len(t) : t[j] = at + j - 1
    BY <1>3
  <2> HIDE DEF at
  <2>3. Genuine(t, at)
    BY <1>1, <1>2, <2>1, <2>2, GenuineFacts
  <2> QED
    BY <2>3 DEF at
<1> QED
  BY <1>1, <1>4 DEF Checked, Deliveries, t, b

\* A block is delivered after all that were delivered before.
LEMMA DeliveryGrows ==
    ASSUME TransferInv, NEW i \in DOMAIN file.modes, AtBlock(i), Verified(i), UNCHANGED file,
           NEW s \in Seq(Int), Checked(i, s), <<i, s>> \in Deliveries,
           delivered' = Append(delivered, <<i, s>>)
    PROVE  /\ delivered' \in Seq(Deliveries)
           /\ \A k \in 1..Len(delivered') :
                 /\ Checked(delivered'[k][1], delivered'[k][2])
                 /\ k > 1 => delivered'[k - 1][1] < delivered'[k][1]
                 /\ delivered'[k][1] < i \/ delivered'[k][1] = i
<1> DEFINE l == Len(delivered)
<1>1. delivered \in Seq(Deliveries) /\ l \in Nat
  BY LenProperties DEF TransferInv, DeliveryInv
<1>2. /\ delivered' \in Seq(Deliveries) /\ Len(delivered') = l + 1 /\ delivered'[l + 1] = <<i, s>>
      /\ \A k \in 1..l : delivered'[k] = delivered[k]
  BY <1>1, AppendProperties
<1>3. \A k \in 1..l : /\ Checked(delivered[k][1], delivered[k][2]) /\ delivered[k][1] < i
                      /\ k > 1 => delivered[k - 1][1] < delivered[k][1]
  BY BlockVerified DEF TransferInv, DeliveryInv
<1> HIDE DEF l
<1>4. ASSUME NEW k \in 1..(l + 1)
      PROVE  /\ Checked(delivered'[k][1], delivered'[k][2])
             /\ k > 1 => delivered'[k - 1][1] < delivered'[k][1]
             /\ delivered'[k][1] < i \/ delivered'[k][1] = i
  <2>1. CASE k = l + 1
    <3>1. k > 1 => k - 1 \in 1..l
      BY <1>1, <2>1
    <3> QED
      BY <1>2, <1>3, <2>1, <3>1
  <2>2. CASE k # l + 1
    <3>1. k \in 1..l /\ (k > 1 => k - 1 \in 1..l)
      BY <1>1, <2>2
    <3> QED
      BY <1>2, <1>3, <3>1
  <2> QED
    BY <2>1, <2>2
<1> QED
  BY <1>2, <1>4

\* The next block.
LEMMA DecoderNext ==
    ASSUME TransferInv, NEW i \in DOMAIN file.modes, Deliver(i) \/ NestedFails(i)
    PROVE  DecoderInv' /\ DeliveryInv'
<1>1. /\ AtBlock(i) /\ Verified(i) /\ UNCHANGED <<file, chunks>>
      /\ cursor' = cursor + 1 + chunks[i].compressedSize /\ step' = step + 1
      /\ UNCHANGED delivered \/ delivered' = Append(delivered, <<i, Payload(i)>>)
  BY DEF Deliver, NestedFails, NextBlock, sessionVars
<1>2. i = step - 1 /\ i \in Nat /\ step \in Nat /\ cursor \in Nat /\ chunks[i].compressedSize \in Nat
  BY <1>1, BlockVerified DEF TransferInv, DecoderInv
<1>3. step >= 2
  <2>1. i >= 1
    BY FileFacts DEF TransferInv, BytesInv
  <2> QED
    BY <1>2, <2>1
<1>4. DecoderInv'
  <2>1. cursor' \in Nat /\ step' \in Nat
    BY <1>1, <1>2
  <2> QED
    BY <1>1, <1>3, <2>1 DEF TransferInv, DecoderInv, IsEntry, Checksum
<1>5. /\ delivered' \in Seq(Deliveries)
      /\ \A k \in 1..Len(delivered') :
            /\ Checked(delivered'[k][1], delivered'[k][2])
            /\ k > 1 => delivered'[k - 1][1] < delivered'[k][1]
            /\ delivered'[k][1] < i \/ delivered'[k][1] = i
  <2>1. CASE UNCHANGED delivered
    <3>1. \A k \in 1..Len(delivered) : delivered[k][1] < i
      BY <1>1, BlockVerified
    <3> QED
      BY <2>1, <3>1 DEF TransferInv, DeliveryInv
  <2>2. CASE delivered' = Append(delivered, <<i, Payload(i)>>)
    <3> DEFINE s == Payload(i)
    <3>1. s \in Seq(Int) /\ Len(s) \in Nat
      BY <1>1, PayloadFacts, LenProperties
    <3>2. Checked(i, s) /\ <<i, s>> \in Deliveries
      <4>1. Len(s) <= Len(Payload(i)) /\ \A j \in 1..Len(s) : s[j] = Payload(i)[j]
        BY <3>1
      <4> HIDE DEF s
      <4> QED
        BY <1>1, <3>1, <4>1, PayloadChecked
    <3>3. delivered' = Append(delivered, <<i, s>>)
      BY <2>2
    <3> HIDE DEF s
    <3> QED
      BY <1>1, <3>1, <3>2, <3>3, DeliveryGrows
  <2> QED
    BY <1>1, <2>1, <2>2
<1>6. ASSUME NEW k \in 1..Len(delivered') PROVE delivered'[k][1] < step' /\ delivered'[k][1] # step' - 1
  <2>1. delivered'[k][1] \in Int
    <3>1. delivered'[k][1] \in DOMAIN file.modes
      BY <1>1, <1>5 DEF Checked
    <3>2. DOMAIN file.modes \subseteq Int
      BY SMTT(30), FileFacts DEF TransferInv, BytesInv
    <3> QED
      BY <3>1, <3>2
  <2>2. delivered'[k][1] < i \/ delivered'[k][1] = i
    BY <1>5
  <2> QED
    BY <1>1, <1>2, <2>1, <2>2
<1>7. \A j, b : Checked(j, b)' <=> Checked(j, b)
  BY <1>1 DEF Checked, Genuine
<1>8. DeliveryInv'
  BY <1>5, <1>6, <1>7 DEF DeliveryInv
<1> QED
  BY <1>4, <1>8

\* When inflate fails with a part of the block sent already, the mode byte stays
\* consumed: the decoder comes back to this block, but does not find it.
LEMMA BlockIsLost ==
    ASSUME TransferInv, NEW i \in DOMAIN file.modes, AtBlock(i), Verified(i),
           Junk \in ToSet(Payload(i)), cursor' = cursor + 1, body' = <<>>,
           UNCHANGED <<file, ms, chunks>>
    PROVE  Lost(i)'
<1> DEFINE n == chunks[i].compressedSize
           b == BlockAt(file, i)
           c == cursor + 1
<1>1. /\ n \in Nat /\ cursor \in Nat /\ Len(ms) \in Nat /\ b \in Nat \ {0}
      /\ cursor + n <= Len(ms) /\ chunks[i].checksum = Checksum(i)
  BY BlockVerified, BytesLength, FileFacts DEF TransferInv, DecoderInv, BytesInv
<1>2. PICK j \in 1..Len(Payload(i)) : Payload(i)[j] = Junk
  <2>1. Payload(i) \in Seq(Int)
    BY PayloadFacts
  <2> QED
    BY <2>1, LenProperties DEF ToSet
<1>3. j \in 1..n /\ (cursor + (j + 1) <= Len(ms) => ms[cursor + (j + 1)] = Junk)
  BY <1>2, PayloadFacts
<1>4. n >= 1 /\ c \in Nat /\ c <= Len(ms) /\ c \in 1..Len(ms)
  BY <1>1, <1>3
<1>5. ms[c] = b
  <2>1. 1 \in 1..n
    BY <1>1, <1>4
  <2>2. ms[cursor + 1] = b + 1 - 1
    BY <2>1, BlockVerified
  <2> QED
    BY <1>1, <2>2
<1>7. ASSUME c < Len(ms) PROVE ms[c + 1] # b
  <2>1. CASE n >= 2
    <3>1. 2 \in 1..n /\ cursor + 2 = c + 1
      BY <1>1, <2>1
    <3>2. ms[cursor + 2] = b + 2 - 1
      BY <3>1, BlockVerified
    <3>3. ms[c + 1] = b + 2 - 1
      BY <3>1, <3>2
    <3>4. \A x, y \in Nat : x + y + 2 - 1 # x + y
      OBVIOUS
    <3> QED
      BY <1>1, <3>3, <3>4
  <2>2. CASE n = 1
    <3>1. j = 1 /\ cursor + (j + 1) = c + 1 /\ c + 1 <= Len(ms)
      BY <1>1, <1>3, <1>4, <1>7, <2>2
    <3>2. ms[c + 1] = Junk
      BY <1>3, <3>1
    <3>3. Junk # b
      BY <1>1 DEF Junk
    <3> QED
      BY <3>2, <3>3
  <2> QED
    BY <1>1, <1>4, <2>1, <2>2
<1> QED
  BY <1>1, <1>4, <1>7 DEF Lost, Checksum

\* Nothing of this block was delivered: nothing needs to be lost.
LEMMA DecoderStays ==
    ASSUME TransferInv, NEW i \in DOMAIN file.modes, AtBlock(i), Verified(i),
           cursor' = cursor + 1, UNCHANGED <<file, step, chunks>>,
           \/ UNCHANGED delivered
           \/ /\ delivered' = Append(delivered, <<i, Front(Payload(i))>>)
              /\ Payload(i) # <<>> /\ Lost(i)'
    PROVE  DecoderInv' /\ DeliveryInv'
<1>1. i = step - 1 /\ i \in Nat /\ step \in Nat /\ cursor \in Nat
  BY BlockVerified DEF TransferInv, DecoderInv
<1>2. DecoderInv'
  <2>1. cursor' \in Nat
    BY <1>1
  <2> QED
    BY <2>1 DEF TransferInv, DecoderInv, IsEntry, Checksum
<1>3. \A j, b : Checked(j, b)' <=> Checked(j, b)
  BY DEF Checked, Genuine
<1>4. \A k \in 1..Len(delivered) : delivered[k][1] < i
  BY BlockVerified
<1>5. DOMAIN file.modes \subseteq Int
  BY FileFacts DEF TransferInv, BytesInv
<1>6. CASE UNCHANGED delivered
  <2>1. ASSUME NEW k \in 1..Len(delivered)
        PROVE  /\ Checked(delivered[k][1], delivered[k][2])
               /\ k > 1 => delivered[k - 1][1] < delivered[k][1]
               /\ delivered[k][1] < step /\ delivered[k][1] # step - 1
    <3>1. delivered[k][1] \in Int
      BY <1>5 DEF TransferInv, DeliveryInv, Checked
    <3>2. delivered[k][1] < step /\ delivered[k][1] # step - 1
      BY <1>1, <1>4, <3>1
    <3> QED
      BY <3>2 DEF TransferInv, DeliveryInv
  <2> QED
    BY <1>2, <1>3, <1>6, <2>1 DEF TransferInv, DeliveryInv
<1>7. CASE /\ delivered' = Append(delivered, <<i, Front(Payload(i))>>)
           /\ Payload(i) # <<>> /\ Lost(i)'
  <2> DEFINE s == Front(Payload(i))
  <2>1. /\ s \in Seq(Int) /\ Len(s) <= Len(Payload(i))
        /\ \A j \in 1..Len(s) : s[j] = Payload(i)[j]
    <3> DEFINE q == Payload(i)
               m == Len(q) - 1
    <3>1. q \in Seq(Int) /\ Len(q) \in Nat /\ s = SubSeq(q, 1, m)
      BY PayloadFacts, LenProperties DEF Front
    <3> HIDE DEF q
    <3>2. m \in Int /\ m - 1 + 1 = m /\ m >= 0 /\ \A j \in 1..m : q[j] \in Int /\ 1 + j - 1 = j
      <4>1. Len(q) # 0
        BY <1>7, <3>1, EmptySeq DEF q
      <4> QED
        BY <3>1, <4>1, ElementOfSeq
    <3>3. m <= Len(q)
      BY <3>1
    <3> HIDE DEF m
    <3>4. /\ SubSeq(q, 1, m) \in Seq(Int) /\ Len(SubSeq(q, 1, m)) = (IF 1 <= m THEN m - 1 + 1 ELSE 0)
          /\ \A j \in 1..(m - 1 + 1) : SubSeq(q, 1, m)[j] = q[1 + j - 1]
      BY <3>2, SubSeqProperties
    <3>5. Len(SubSeq(q, 1, m)) = m
      BY <3>2, <3>4
    <3>6. \A j \in 1..m : SubSeq(q, 1, m)[j] = q[j]
      BY <3>2, <3>4
    <3> QED
      BY <3>1, <3>3, <3>4, <3>5, <3>6 DEF q
  <2>2. delivered' = Append(delivered, <<i, s>>)
    BY <1>7
  <2> HIDE DEF s
  <2>3. Checked(i, s) /\ <<i, s>> \in Deliveries
    BY <2>1, PayloadChecked
  <2>4. /\ delivered' \in Seq(Deliveries)
        /\ \A k \in 1..Len(delivered') :
              /\ Checked(delivered'[k][1], delivered'[k][2])
              /\ k > 1 => delivered'[k - 1][1] < delivered'[k][1]
              /\ delivered'[k][1] < i \/ delivered'[k][1] = i
    BY <2>1, <2>2, <2>3, DeliveryGrows
  <2>5. ASSUME NEW k \in 1..Len(delivered') PROVE delivered'[k][1] < step
    <3>1. delivered'[k][1] \in Int
      BY <1>5, <2>4 DEF Checked
    <3> QED
      BY SMTT(30), <1>1, <2>4, <3>1
  <2>6. Lost(step - 1)'
    <3>1. (step - 1)' = i
      BY <1>1
    <3> QED
      BY <1>7, <3>1 DEF Lost, Checksum
  <2> QED
    BY <1>2, <1>3, <2>4, <2>5, <2>6 DEF DeliveryInv
<1> QED
  BY <1>6, <1>7

LEMMA DecoderFails ==
    ASSUME TransferInv, NEW i \in DOMAIN file.modes, BlockFails(i) \/ DeliverThrows(i)
    PROVE  DecoderInv' /\ DeliveryInv'
<1>1. /\ AtBlock(i) /\ Verified(i) /\ cursor' = cursor + 1 /\ UNCHANGED <<file, step, chunks, ms>>
  BY DEF BlockFails, DeliverThrows, sessionVars
<1>2. CASE UNCHANGED delivered
  BY <1>1, <1>2, DecoderStays
<1>3. CASE /\ delivered' = Append(delivered, <<i, Front(Payload(i))>>)
           /\ Junk \in ToSet(Payload(i)) /\ body' = <<>>
  <2>1. Payload(i) # <<>>
    BY <1>3, EmptySeq DEF ToSet
  <2>2. Lost(i)'
    BY <1>1, <1>3, BlockIsLost
  <2> QED
    BY <1>1, <1>3, <2>1, <2>2, DecoderStays
<1> QED
  BY <1>2, <1>3 DEF BlockFails, DeliverThrows, ParseReturns

-----------------------------------------------------------------------------
(* The invariant of the transfer                                           *)

LEMMA TransferInit == InitTransfer => TransferInv
<1> SUFFICES ASSUME InitTransfer PROVE TransferInv
  OBVIOUS
<1>1. /\ file \in Files /\ ms = <<>> /\ body = <<>> /\ delivered = <<>> /\ cursor = 0 /\ step = 0
  BY DEF InitTransfer
<1>2. Len(delivered) = 0
  BY <1>1, EmptySeq
<1>3. BytesInv
  BY <1>1, EmptySeq DEF BytesInv
<1>4. DecoderInv /\ DeliveryInv
  BY <1>1, <1>2, EmptySeq DEF DecoderInv, DeliveryInv
<1> QED
  BY <1>3, <1>4 DEF TransferInv

LEMMA FetchStep ==
    ASSUME TransferInv, Fetch
    PROVE  TransferInv'
<1>1. CASE SendArchive \/ \E n \in 1..MaxJunk : SendError(n)
  BY <1>1, SendStep, DecoderSend DEF TransferInv
<1>2. ASSUME \/ \E h \in Hosts, o \in {"has", "hasNot", "throws"} : CheckHost(h, o)
             \/ \E h \in Hosts, o \in {"header", "next", "threw"} : Connect(h, o)
             \/ Collected \/ NotFound \/ BodyBreaks \/ BodyEnds \/ GiveUp
      PROVE  TransferInv'
  <2>1. UNCHANGED <<file, ms, cursor, step, chunks, delivered>> /\ body' \in {body, <<>>}
    BY <1>2 DEF CheckHost, Connect, Collected, NotFound, BodyBreaks, BodyEnds, GiveUp,
                sessionVars, decoderVars
  <2> QED
    BY <2>1, QuietStep, DecoderQuiet DEF TransferInv
<1> QED
  BY <1>1, <1>2 DEF Fetch

LEMMA DecodeStep ==
    ASSUME TransferInv, Decode \/ \E i \in DOMAIN file.modes : DeliverThrows(i)
    PROVE  TransferInv'
<1>1. CASE \E n \in 1..Len(body) : Put(n)
  BY <1>1, PutStep, DecoderPut DEF TransferInv
<1>2. CASE NeedsMore
  <2>1. UNCHANGED <<file, ms, cursor, step, chunks, delivered>>
    BY <1>2 DEF NeedsMore, sessionVars, decoderVars
  <2> QED
    BY <1>2, <2>1, ParseShape, QuietStep, DecoderQuiet DEF TransferInv
<1>3. ASSUME NEW size \in JunkSizes, ParseHeader(size) \/ ParseTable(size) PROVE TransferInv'
  BY <1>3, ParseShape, QuietStep, DecoderHeader, DecoderTable DEF TransferInv
<1>4. ASSUME NEW i \in DOMAIN file.modes, BadChecksum(i) PROVE TransferInv'
  <2>1. UNCHANGED <<file, ms, cursor, step, chunks, delivered>>
    BY <1>4 DEF BadChecksum, sessionVars, decoderVars
  <2> QED
    BY <1>4, <2>1, ParseShape, QuietStep, DecoderQuiet DEF TransferInv
<1>5. ASSUME NEW i \in DOMAIN file.modes,
             Deliver(i) \/ BlockFails(i) \/ NestedFails(i) \/ DeliverThrows(i)
      PROVE  TransferInv'
  BY <1>5, ParseShape, QuietStep, DecoderNext, DecoderFails DEF TransferInv
<1> QED
  BY <1>1, <1>2, <1>3, <1>4, <1>5 DEF Decode

LEMMA TransferStep == TransferInv /\ [ProxyNext]_proxyVars => TransferInv'
<1> SUFFICES ASSUME TransferInv, [ProxyNext]_proxyVars PROVE TransferInv'
  OBVIOUS
<1>1. CASE UNCHANGED transferVars
  <2>1. UNCHANGED <<file, body, ms, cursor, step, chunks, delivered>>
    BY <1>1 DEF transferVars, sessionVars, decoderVars
  <2> QED
    BY <2>1, QuietStep, DecoderQuiet DEF TransferInv
<1>2. CASE HeaderWritten \/ TransferRefused
  <2>1. UNCHANGED <<file, body, ms, cursor, step, chunks, delivered>>
    BY <1>2 DEF HeaderWritten, Collect, TransferRefused, sessionVars, decoderVars
  <2> QED
    BY <2>1, QuietStep, DecoderQuiet DEF TransferInv
<1>3. CASE Transfer
  BY <1>3, FetchStep, DecodeStep DEF Transfer, ClientGone
<1> QED
  BY <1>1, <1>2, <1>3 DEF ProxyNext, proxyVars, Read, Respond, WriteCompletes, HeaderUnwritten,
                          TransferEnded

LEMMA TransferInvariant == ProxySpec => []TransferInv
<1>1. ProxyInit => TransferInv
  BY TransferInit DEF ProxyInit
<1> QED
  BY <1>1, TransferStep, PTL DEF ProxySpec

\* For every file and whatever the CDNs send: the client gets blocks in the
\* order of the file, none twice, and of each the bytes but the last are the
\* ones the table's checksum covers.
THEOREM ProxyDelivers == ProxySpec => []DeliveredBlocksAreChecked
<1>1. ASSUME TransferInv PROVE DeliveredBlocksAreChecked
  <2>1. DOMAIN delivered = 1..Len(delivered)
    BY <1>1, LenProperties DEF TransferInv, DeliveryInv
  <2> QED
    BY <1>1, <2>1 DEF TransferInv, DeliveryInv, DeliveredBlocksAreChecked, Checked
<1> QED
  BY <1>1, TransferInvariant, PTL
=============================================================================
