--------------------------- MODULE ProxyTransfer ----------------------------
(***************************************************************************)
(* What net::Session::ProcessRequest does once the header of a download is *)
(* sent: it asks every host of the product whether it has the archive      *)
(* (CollectAvailableCDNs), reads from one CDN after the other until nothing*)
(* is left, and passes what it reads to one decoder,                       *)
(* beast::user::BlockTableEncodedStreamTransform, that writes the decoded  *)
(* blocks to the client.                                                   *)
(*                                                                         *)
(* The requests name the range of the file as "a-b", without the unit      *)
(* "bytes=", and a server ignores a Range it cannot read: what arrives is  *)
(* the archive from its beginning, and what is decoded the file it begins  *)
(* with, whichever was asked for.                                          *)
(*                                                                         *)
(* A byte of the archive is its position, any other byte is Junk; the MD5  *)
(* of bytes is the bytes.  Signature and header size take 2 bytes here (8  *)
(* in a file), the chunk count 1 (4) and an entry of the table 1 (24).     *)
(***************************************************************************)
EXTENDS Integers, Sequences, FiniteSets, SequencesExt

CONSTANTS Hosts,      \* the hosts ribbit names for the product
          Files,      \* the files that may be asked for, see IsFile
          SizeMod,    \* std::size_t counts modulo SizeMod (2^64)
          MaxJunk     \* bound: bytes of the body of an error response

Junk == -1
Modes == {"N", "Z", "F", "?"}

\* Bound: sizes that bytes which are not the file's may be read as.
JunkSizes == 0..2

HeaderSize(f) == 3 + Len(f.modes)

\* Where the i-th block of the first file begins (one past its end: i + 1).
BlockAt(f, i) == f.at[i]

FirstSize(f) == BlockAt(f, Len(f.modes) + 1)

\* A request and what the CDNs have for it: the file asked for begins at "start"
\* and has "size" bytes (0 for a file of its own, which is the whole "archive").
\* The archive begins with a file whose blocks follow its header and one another,
\* each with a mode byte and a payload; a checksum of its table covers "whole"
\* blocks, as the format says, or all but the last byte.
IsFile(f) == /\ {f.start, f.size, f.archive} \subseteq Nat /\ f.start + f.size <= f.archive
             /\ f.modes \in Seq(Modes) /\ f.modes # <<>>
             /\ f.at \in Seq(Nat \ {0}) /\ Len(f.at) = Len(f.modes) + 1
             /\ BlockAt(f, 1) = HeaderSize(f) /\ FirstSize(f) <= f.archive
             /\ \A i \in DOMAIN f.modes : BlockAt(f, i) < BlockAt(f, i + 1)
             /\ f.checksums \in {"whole", "short"}

ASSUME FilesAssumption == \A f \in Files : IsFile(f)
ASSUME HostsAssumption == IsFiniteSet(Hosts) /\ MaxJunk \in Nat \ {0} /\ SizeMod \in Nat \ {0}

\* All the bytes that the CDNs can send in one download are within the range of
\* std::size_t.
ASSUME SizesAssumption ==
    \A f \in Files : Cardinality(Hosts) * (f.archive + MaxJunk) < SizeMod

VARIABLES phase,      \* where ProcessRequest is
          file,       \* what was requested
          checks,     \* CollectAvailableCDNs: what became of each host's task
          todo,       \* hosts that have the archive and were not tried yet
          offset,     \* params.Offset
          length,     \* params.Length
          body,       \* bytes the CDN has still to send
          ec,         \* the error code Parse was given
          ms,         \* the decoder's _ms: every byte it was ever given
          cursor,     \* the read cursor of _ms
          step,       \* _step: 0, 1, then 2 + blocks done
          headerSize, \* _headerSize
          chunks,     \* _chunks
          delivered   \* history: <<block, bytes>> the client was sent

sessionVars == <<file, checks, todo, offset, length>>
decoderVars == <<ms, cursor, step, headerSize, chunks, delivered>>
transferVars == <<phase, sessionVars, body, ec, decoderVars>>

\* The bytes lo .. hi - 1 of the archive.
Bytes(lo, hi) == [i \in 1..(hi - lo) |-> lo + i - 1]

InitTransfer ==
    /\ phase = "idle" /\ file \in Files
    /\ checks = [h \in Hosts |-> "pending"] /\ todo = {}
    /\ offset = file.start /\ length = file.size
    /\ body = <<>> /\ ec = "none"
    /\ ms = <<>> /\ cursor = 0 /\ step = 0 /\ headerSize = 0 /\ chunks = <<>>
    /\ delivered = <<>>

-----------------------------------------------------------------------------
(* CollectAvailableCDNs: one task per host, on a pool of its own           *)

Collect ==
    /\ phase = "idle" /\ phase' = "collect"
    /\ checks' = [h \in Hosts |-> "pending"]
    /\ UNCHANGED <<file, todo, offset, length, body, ec, decoderVars>>

\* A task ends: HEAD or, failing that, GET found the archive, or none did, or
\* the name of the host was not resolved, which throws.
CheckHost(h, outcome) ==
    /\ phase = "collect" /\ checks[h] = "pending"
    /\ checks' = [checks EXCEPT ![h] = outcome]
    /\ UNCHANGED <<phase, file, todo, offset, length, body, ec, decoderVars>>

Having(outcome) == {h \in Hosts : checks[h] = outcome}

\* All tasks ended.  The exception of one leaves ProcessRequest.
Collected ==
    /\ phase = "collect" /\ Having("pending") = {}
    /\ phase' = IF Having("throws") # {} THEN "threw"
                ELSE IF Having("has") = {} THEN "refused" ELSE "next"
    /\ todo' = Having("has")
    /\ UNCHANGED <<file, checks, offset, length, body, ec, decoderVars>>

-----------------------------------------------------------------------------
(* The loop over the CDNs                                                  *)

\* Connect and send the request, with offset and length in a Range that means
\* nothing: done, refused, or the resolver throws.
Connect(h, outcome) ==
    /\ phase = "next" /\ h \in todo
    /\ todo' = todo \ {h}
    /\ phase' = outcome
    /\ UNCHANGED <<file, checks, offset, length, body, ec, decoderVars>>

\* The header of the answer cannot be read, or it says 404.
NotFound ==
    /\ phase = "header" /\ phase' = "next"
    /\ UNCHANGED <<sessionVars, body, ec, decoderVars>>

\* The CDN sends the archive, or the file of its own, from its beginning.
SendArchive ==
    /\ phase = "header" /\ phase' = "body"
    /\ body' = Bytes(0, file.archive)
    /\ UNCHANGED <<sessionVars, ec, decoderVars>>

\* Any other status than 404 is not looked at: its text goes to the decoder.
SendError(n) ==
    /\ phase = "header"
    /\ body' = [i \in 1..n |-> Junk]
    /\ phase' = "body"
    /\ UNCHANGED <<sessionVars, ec, decoderVars>>

\* The connection to the CDN breaks while its answer is read.
BodyBreaks ==
    /\ phase = "body" /\ body # <<>> /\ phase' = "next" /\ body' = <<>>
    /\ UNCHANGED <<sessionVars, ec, decoderVars>>

\* The answer is complete.
BodyEnds ==
    /\ phase = "body" /\ body = <<>>
    /\ phase' = IF length = 0 THEN "ended" ELSE "next"
    /\ UNCHANGED <<sessionVars, body, ec, decoderVars>>

GiveUp ==
    /\ phase = "next" /\ todo = {} /\ phase' = "ended"
    /\ UNCHANGED <<sessionVars, body, ec, decoderVars>>

-----------------------------------------------------------------------------
(* BlockTableEncodedStreamTransform::Parse                                 *)

\* A buffer of n bytes is read: it is kept, and counted, before it is decoded.
Put(n) ==
    /\ phase = "body" /\ n \in 1..Len(body)
    /\ ms' = ms \o SubSeq(body, 1, n) /\ body' = SubSeq(body, n + 1, Len(body))
    /\ offset' = (offset + n) % SizeMod /\ length' = (length - n) % SizeMod
    /\ phase' = "parse"
    /\ UNCHANGED <<file, checks, todo, ec, cursor, step, headerSize, chunks, delivered>>

CanRead(n) == cursor + n <= Len(ms)

\* n bytes at the cursor; past the end of _ms they may be anything.
Data(n) == [i \in 1..n |-> IF cursor + i <= Len(ms) THEN ms[cursor + i] ELSE Junk]

\* Is this what the archive has at the place "at"?
Genuine(bytes, at) == bytes = Bytes(at, at + Len(bytes))

\* Parse returns: http::read goes on, or fails and the next CDN is tried.  With
\* need_more ("more") it reads on from the same CDN, and fails at the end only.
ParseReturns(error) ==
    /\ phase' = IF error = "failed" \/ (error = "more" /\ body = <<>>) THEN "next" ELSE "body"
    /\ body' = IF error = "failed" THEN <<>> ELSE body
    /\ ec' = "none"

\* What the current step waits for.
Needed == IF step = 0 THEN 2
          ELSE IF step = 1 THEN headerSize
          ELSE IF step - 1 <= Len(chunks) THEN chunks[step - 1].compressedSize
          ELSE 0

NeedsMore ==
    /\ phase = "parse" /\ (~CanRead(Needed) \/ (step > 1 /\ step - 1 > Len(chunks)))
    /\ ParseReturns(ec)
    /\ UNCHANGED <<sessionVars, decoderVars>>

\* The signature, then the size of the header (any, if it is not the file's).
ParseHeader(size) ==
    /\ phase = "parse" /\ step = 0 /\ CanRead(Needed)
    /\ IF Genuine(Data(1), 0)
       THEN /\ cursor' = cursor + 2 /\ step' = 1
            /\ headerSize' = IF Genuine(Data(2), 0) THEN HeaderSize(file) ELSE size
            /\ UNCHANGED <<phase, body, ec>>
       ELSE cursor' = cursor + 1 /\ UNCHANGED <<step, headerSize>> /\ ParseReturns("failed")
    /\ UNCHANGED <<sessionVars, ms, chunks, delivered>>

\* Read moves the cursor by n bytes, to the end of _ms at most.
Past(n) == IF CanRead(n) THEN cursor + n ELSE Len(ms)

\* The checksum of the i-th block.
Checksum(i) == Bytes(BlockAt(file, i),
                     BlockAt(file, i + 1) - (IF file.checksums = "whole" THEN 0 ELSE 1))

\* An entry: the size is stored less the mode byte, in 32 bits.  An entry that
\* is not the file's has no checksum that anything matches.
Entry(i, genuine, size) ==
    IF genuine
    THEN [compressedSize |-> BlockAt(file, i + 1) - BlockAt(file, i) - 1, checksum |-> Checksum(i)]
    ELSE [compressedSize |-> (size - 1) % SizeMod, checksum |-> <<Junk - 1>>]

\* The flags and the count of chunks, then the table.  Flags or a count that are
\* wrong are "need_more": the bytes stay consumed and reading goes on.
ParseTable(size) ==
    /\ phase = "parse" /\ step = 1 /\ CanRead(Needed)
    /\ IF Genuine(Data(1), 2)
       THEN /\ chunks' = [i \in DOMAIN file.modes |->
                            Entry(i, Data(1 + i)[1 + i] = 2 + i, size)]
            /\ cursor' = Past(1 + Len(file.modes))
            /\ step' = 2
            /\ UNCHANGED <<phase, body, ec>>
       ELSE /\ cursor' = Past(1)
            /\ ParseReturns("more")
            /\ UNCHANGED <<chunks, step>>
    /\ UNCHANGED <<sessionVars, ms, headerSize, delivered>>

AtBlock(i) == phase = "parse" /\ step = i + 1 /\ i \in DOMAIN chunks /\ CanRead(Needed)

\* Mutated form of Verified: the digest is not compared.
VerifiedAlways(i) == i \in DOMAIN chunks

\* The bytes hashed are those the stored size names, from the mode byte on.
Verified(i) == Data(chunks[i].compressedSize) = chunks[i].checksum

BadChecksum(i) ==
    /\ AtBlock(i) /\ ~Verified(i)
    /\ ParseReturns("failed")
    /\ UNCHANGED <<sessionVars, decoderVars>>

\* What block i holds: its mode byte is skipped.
Payload(i) == Tail(Data(chunks[i].compressedSize + 1))

NextBlock(i) == cursor' = cursor + 1 + chunks[i].compressedSize /\ step' = step + 1

\* The block is decoded and written to the client ('N', 'Z', or 'F': a nested
\* stream that is whole).
Deliver(i) ==
    /\ AtBlock(i) /\ Verified(i) /\ file.modes[i] # "?"
    /\ delivered' = Append(delivered, <<i, Payload(i)>>)
    /\ NextBlock(i)
    /\ UNCHANGED <<phase, sessionVars, body, ec, ms, headerSize, chunks>>

\* inflate fails, after what it wrote already, or the mode is not known: the
\* mode byte stays consumed.
BlockFails(i) ==
    /\ AtBlock(i) /\ Verified(i)
    /\ \/ file.modes[i] = "?" /\ UNCHANGED delivered
       \/ /\ file.modes[i] = "Z" /\ Junk \in ToSet(Payload(i))
          /\ delivered' \in {delivered, Append(delivered, <<i, Front(Payload(i))>>)}
    /\ cursor' = cursor + 1
    /\ ParseReturns("failed")
    /\ UNCHANGED <<sessionVars, ms, step, headerSize, chunks>>

\* The nested stream fails, with need_more perhaps: the error is kept, and the
\* next block decoded.
NestedFails(i) ==
    /\ AtBlock(i) /\ Verified(i) /\ file.modes[i] = "F"
    /\ ec' \in {"more", "failed"}
    /\ NextBlock(i)
    /\ UNCHANGED <<phase, sessionVars, body, ms, headerSize, chunks, delivered>>

\* The client is gone: asio::write throws out of ProcessRequest.
DeliverThrows(i) ==
    /\ AtBlock(i) /\ Verified(i) /\ file.modes[i] # "?"
    /\ cursor' = cursor + 1
    /\ phase' = "threw"
    /\ UNCHANGED <<sessionVars, body, ec, ms, step, headerSize, chunks, delivered>>

-----------------------------------------------------------------------------
Fetch == \/ \E h \in Hosts : \/ \E o \in {"has", "hasNot", "throws"} : CheckHost(h, o)
                             \/ \E o \in {"header", "next", "threw"} : Connect(h, o)
         \/ Collected
         \/ NotFound \/ SendArchive
         \/ \E n \in 1..MaxJunk : SendError(n)
         \/ BodyBreaks \/ BodyEnds \/ GiveUp

Decode == \/ \E n \in 1..Len(body) : Put(n)
          \/ NeedsMore \/ \E size \in JunkSizes : ParseHeader(size) \/ ParseTable(size)
          \/ \E i \in DOMAIN file.modes :
                BadChecksum(i) \/ Deliver(i) \/ BlockFails(i) \/ NestedFails(i)

-----------------------------------------------------------------------------
(* Properties.                                                             *)

\* Whatever a CDN sends, a block the client gets was checked against the
\* table: all its bytes but the last are those of the file the archive begins
\* with.  Blocks come in order and no failover sends one again.
DeliveredBlocksAreChecked ==
    \A k \in DOMAIN delivered :
       LET i == delivered[k][1]
           bytes == delivered[k][2]
       IN /\ k > 1 => delivered[k - 1][1] < i
          /\ Genuine(SubSeq(bytes, 1, Len(bytes) - 1), BlockAt(file, i) + 1)

\* The file at the beginning of an archive, all of whose bytes reached the
\* decoder first, is delivered whole once the transfer ends: its chunks validate.
WholeFileDelivered ==
    phase = "ended" /\ Len(ms) >= FirstSize(file) /\ Genuine(SubSeq(ms, 1, FirstSize(file)), 0)
       => [k \in DOMAIN delivered |-> delivered[k][1]] = [i \in DOMAIN file.modes |-> i]
=============================================================================
