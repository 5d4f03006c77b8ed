------------------------------ MODULE Streams -------------------------------
(***************************************************************************)
(* libtactmon::io and libtactmon::utility: streams of bytes, the integers  *)
(* and texts that are read from and written to them, byte orders and       *)
(* hexadecimal texts.  The platform is little endian.                      *)
(***************************************************************************)
EXTENDS Integers, Sequences, SequencesExt

\* A byte that the code reads without knowing what it is.
Unknown == 254
Native == "little"

-----------------------------------------------------------------------------
(* Streams: SpanStream, MemoryStream, GrowableMemoryStream, FileStream     *)

Stream(kind, data) == [kind |-> kind, data |-> data, readCursor |-> 0, writeCursor |-> 0]

\* A file stream does not look at its length.
SeekRead(s, offset) ==
    [s EXCEPT !.readCursor = IF s.kind = "file" \/ offset < Len(s.data) THEN offset ELSE Len(s.data)]
SkipRead(s, offset) == [s EXCEPT !.readCursor = @ + offset]
CanRead(s, amount) == s.readCursor + amount <= Len(s.data)
Data(s) == SubSeq(s.data, s.readCursor + 1, Len(s.data))

\* _ReadImpl: how many bytes are read.  SpanStream copies those behind the
\* ones it counts, MemoryStream none.
Count(s, n) == IF n < Len(s.data) - s.readCursor THEN n ELSE Len(s.data) - s.readCursor

SpanReadImpl(s, n) ==
    LET count == Count(s, n)
    IN [i \in 1..count |-> IF count + i \in DOMAIN Data(s) THEN Data(s)[count + i] ELSE Unknown]
GrowableReadImpl(s, n) == SubSeq(Data(s), 1, Count(s, n))
FileReadImpl(s, n) == SubSeq(Data(s), 1, Count(s, n))

\* _WriteImpl: what is at the write cursor is overwritten, and the stream
\* grows.
Write(s, bytes) ==
    LET end == s.writeCursor + Len(bytes)
    IN [s EXCEPT !.data = SubSeq(@, 1, s.writeCursor) \o bytes \o SubSeq(@, end + 1, Len(@)),
                 !.writeCursor = end]

SeekWrite(s, offset) ==
    [s EXCEPT !.writeCursor = offset,
              !.data = [i \in 1..offset |-> IF i \in DOMAIN @ THEN @[i] ELSE 0]]

-----------------------------------------------------------------------------
(* Byte orders                                                             *)

RECURSIVE ReverseElements(_, _)

\* The loop of _ReadSpan and _WriteSpan, element by element.
ReverseElements(bytes, size) ==
    IF bytes = <<>> THEN <<>>
    ELSE Reverse(SubSeq(bytes, 1, size)) \o ReverseElements(SubSeq(bytes, size + 1, Len(bytes)), size)

ReadImpl(s, n) == CASE s.kind = "span"     -> SpanReadImpl(s, n)
                    [] s.kind = "memory"   -> [i \in 1..Count(s, n) |-> 0]
                    [] s.kind = "growable" -> GrowableReadImpl(s, n)
                    [] s.kind = "file"     -> FileReadImpl(s, n)

\* _ReadSpan into a buffer of zeros, of elements of "size" bytes.
BufferOf(s, n, bytes) ==
    [stream |-> SkipRead(s, Len(bytes)), count |-> Len(bytes),
     bytes |-> [i \in 1..n |-> IF i \in DOMAIN bytes THEN bytes[i] ELSE 0]]

ReadSpan(s, n, size, endianness) ==
    BufferOf(s, n, IF endianness = Native THEN ReadImpl(s, n) ELSE ReverseElements(ReadImpl(s, n), size))

\* Buffers of the given lengths, one after the other.
ReadSpans(s, lengths) ==
    FoldLeft(LAMBDA r, n : LET got == ReadSpan(r.stream, n, 1, Native)
                           IN [stream |-> got.stream, buffers |-> Append(r.buffers, got.bytes)],
             [stream |-> s, buffers |-> <<>>], lengths)

\* _WriteSpan: the bytes are put in order where they were written.
WriteSpan(s, bytes, size, endianness) ==
    Write(s, IF endianness = Native THEN bytes ELSE ReverseElements(bytes, size))

\* utility::byteswap and to_endianness, of the bytes of an integer.
ByteSwap(bytes) == Reverse(bytes)
ToEndianness(bytes, from, to) == IF from = to THEN bytes ELSE ByteSwap(bytes)

\* An integer in the memory of the platform.
Integer(bytes) == FoldRight(LAMBDA byte, value : value * 256 + byte, bytes, 0)

RECURSIVE Bytes(_, _)
Bytes(value, size) == IF size = 0 THEN <<>> ELSE <<value % 256>> \o Bytes(value \div 256, size - 1)

\* Integers of the given sizes, one after the other.
ReadIntegers(s, sizes, endianness) ==
    FoldLeft(LAMBDA r, size :
               LET got == ReadSpan(r.stream, size, size, endianness)
               IN [stream |-> got.stream, values |-> Append(r.values, Integer(got.bytes))],
             [stream |-> s, values |-> <<>>], sizes)

-----------------------------------------------------------------------------
(* Texts                                                                   *)

ReadString(s, length) == ReadSpan(s, length, 1, Native)

\* ReadCString: up to a zero.  At the end of the stream the last byte read is
\* appended again and again: "ends" is FALSE.
ReadCString(s) ==
    LET rest == Data(s)
        zero == SelectInSeq(rest, LAMBDA byte : byte = 0)
    IN [ends |-> zero # 0 \/ rest = <<>>,
        stream |-> SkipRead(s, IF zero = 0 THEN Len(rest) ELSE zero),
        text |-> SubSeq(rest, 1, IF zero = 0 THEN Len(rest) ELSE zero - 1)]

WriteString(s, text) == WriteSpan(s, text, 16, Native)
WriteCString(s, text) == WriteSpan(WriteString(s, text), <<0>>, 1, Native)

-----------------------------------------------------------------------------
(* utility::hex and unhex                                                  *)

Alphabet == <<"0", "1", "2", "3", "4", "5", "6", "7", "8", "9", "a", "b", "c", "d", "e", "f">>
Capitals == <<"0", "1", "2", "3", "4", "5", "6", "7", "8", "9", "A", "B", "C", "D", "E", "F">>

Hex(bytes) ==
    FlattenSeq([i \in DOMAIN bytes |-> <<Alphabet[bytes[i] \div 16 + 1], Alphabet[(bytes[i] % 16) + 1]>>])

\* LOOKUP: what is not a digit is zero.
Lookup16(char) ==
    LET found == {n \in 0..15 : char \in {Alphabet[n + 1], Capitals[n + 1]}}
    IN IF found = {} THEN 0 ELSE CHOOSE n \in found : TRUE

Unhex(text) ==
    [i \in 1..(Len(text) \div 2) |-> Lookup16(text[2 * i]) + 16 * Lookup16(text[2 * i - 1])]
=============================================================================
