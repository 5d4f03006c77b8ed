----------------------------- MODULE BlockTable -----------------------------
(***************************************************************************)
(* libtactmon::tact::BLTE, the container in which manifests are stored.    *)
(* A byte is a symbol, a digest is what it was computed from.  A           *)
(* compressed chunk is its content with "end" after it; inflate refuses    *)
(* "bad".                                                                  *)
(***************************************************************************)
EXTENDS Tokenizer, Keys

-----------------------------------------------------------------------------
(* BLTE                                                                    *)

\* The integers of the header with their widths in bytes, as they are hashed:
\* the sizes of a chunk are held as std::size_t.
SizeWidth == 8
HeaderDigest(file, width) ==
    LET header == FoldLeft(LAMBDA engine, value : UpdateInteger(engine, value, 4), NewHash,
                           <<file.magic, file.headerSize, Len(file.chunks)>>)
        Chunk(engine, c) ==
           UpdateData(UpdateInteger(UpdateInteger(engine, c.compressedSize, width),
                                    c.decompressedSize, width), c.checksum)
    IN Finalize(FoldLeft(Chunk, header, file.chunks)).digest

\* The calculated offset of a chunk.
ChunkOffset(file, i) ==
    FoldLeft(LAMBDA offset, c : offset + c.compressedSize, file.headerSize,
             SubSeq(file.chunks, 1, i - 1))

\* The loop around inflate: until the end of the compressed stream, or of the
\* chunk.
Inflate(bytes) ==
    LET last == SelectInSeq(bytes, LAMBDA b : b \in {"end", "bad"})
    IN IF last = 0 THEN Some(bytes)
       ELSE IF bytes[last] = "bad" THEN None
       ELSE Some(SubSeq(bytes, 1, last - 1))

\* LoadChunk, from the read cursor of "stream" to the end of "buffer".
LoadChunk(stream, chunk, buffer) ==
    LET span == SubSeq(Data(stream), 1, chunk.compressedSize)
        content == CASE span[1] = "N" -> Some(Tail(span))
                     [] span[1] = "Z" -> Inflate(Tail(span))
                     [] OTHER         -> None
    IN IF ~CanRead(stream, chunk.compressedSize) \/ DigestOf(span) # chunk.checksum \/ content = None
       THEN None
       ELSE Some(Write(buffer, content[1]))

Validate(buffer, ckey) == SameCKey(ckey, DigestOf(Data(buffer)))

\* _Parse: "keys" is empty, or an encoding key and a content key.
ParseBLTE(file, keys) ==
    LET decoded == FoldLeft(LAMBDA buffer, i :
                              IF buffer = None THEN None
                              ELSE LoadChunk(SeekRead(file.stream, ChunkOffset(file, i)),
                                             file.chunks[i], buffer[1]),
                            Some(Stream("growable", <<>>)), [i \in DOMAIN file.chunks |-> i])
    IN IF \/ file.magic # "BLTE"
          \/ keys # None /\ ~SameEKey(keys[1].ekey, HeaderDigest(file, SizeWidth))
          \/ decoded = None
       THEN None
       ELSE IF keys # None /\ ~Validate(decoded[1], keys[1].ckey) THEN None
       ELSE Some(Data(decoded[1]))

-----------------------------------------------------------------------------
\* Reference: the file of chunks, the damaged ones not those the header was
\* made for, and the last bytes missing.
Archive(chunks, damaged, missing) ==
    LET header == <<"B", "L", "T", "E">>
        body == header \o FlattenSeq(chunks)
    IN [magic |-> "BLTE", headerSize |-> Len(header),
        chunks |-> [i \in DOMAIN chunks |->
           [compressedSize |-> Len(chunks[i]), decompressedSize |-> Len(chunks[i]) - 1,
            checksum |-> IF i \in damaged THEN <<"other">> ELSE chunks[i]]],
        stream |-> Stream("growable", SubSeq(body, 1, Len(body) - missing))]

\* What a chunk holds, if it is of a supported kind.
Content(chunk) ==
    CASE chunk[1] = "N" -> Some(Tail(chunk))
      [] chunk[1] = "Z" /\ Last(chunk) = "end" -> Some(Front(Tail(chunk)))
      [] OTHER -> None
=============================================================================
