----------------------------- MODULE TactTables -----------------------------
(***************************************************************************)
(* libtactmon::tact::data: the tables in which a file of a build is looked *)
(* up, from its name to the bytes of an archive, and the link of the proxy *)
(* that stands for them.  The encoding table is read from a stream of      *)
(* bytes; the install and root manifests are sequences of cells, one for   *)
(* each field.  Keys are sequences of bytes, digests are what they were    *)
(* computed from.                                                          *)
(***************************************************************************)
EXTENDS Tokenizer, Keys, Lookup3

\* Reading past the end of a stream leaves zeros.
Cell(cells, at) == IF at \in DOMAIN cells THEN cells[at] ELSE 0

BigEndian(bytes) == FoldLeft(LAMBDA value, byte : value * 256 + byte, 0, bytes)

FirstMatch(entries, Match(_)) ==
    LET found == SelectSeq(entries, Match) IN IF found = <<>> THEN None ELSE Some(found[1])

-----------------------------------------------------------------------------
(* Install                                                                 *)

\* A tag has a bit for each entry.
BitmaskSize(numEntries) == (numEntries + 7) \div 8

Tag(cells, at, numEntries) ==
    [name |-> Cell(cells, at), type |-> Cell(cells, at + 1), bitmaskSize |-> numEntries,
     bitmask |-> SubSeq(cells, at + 2, at + 1 + BitmaskSize(numEntries))]

\* Install::Entry: a name, a key and a size.  No tag is attached to it.
InstallEntry(cells, at) ==
    [name |-> Cell(cells, at), ckey |-> Cell(cells, at + 1), fileSize |-> Cell(cells, at + 2), tags |-> {}]

\* Install::Parse: signature, number of tags and of entries, then both.
ParseInstall(cells) ==
    IF Len(cells) < 3 THEN None
    ELSE LET tagSize == 2 + BitmaskSize(cells[3])
             start == 4 + cells[2] * tagSize
         IN Some([tags |-> [i \in 1..cells[2] |-> Tag(cells, 4 + (i - 1) * tagSize, cells[3])],
                  entries |-> [i \in 1..cells[3] |-> InstallEntry(cells, start + 3 * (i - 1))]])

\* Install::size and Install::FindFile.
InstallSize(install) == Len(install.entries)
FindInstalled(install, name) == FirstMatch(install.entries, LAMBDA e : e.name = name)

-----------------------------------------------------------------------------
(* Encoding                                                                *)

\* Bound: a page is a multiple of it, 1024 in the code; and the size of the
\* digest of a page.
PageUnit == 24
DigestSize == 16

\* The fields of Encoding::Header before anything is read, and how it is read:
\* not at all from a stream that is too short.
NoHeader == [Signature |-> 0, Version |-> 0, PageSize |-> 0, PageCount |-> 0, EKeySpecPageSize |-> 0,
             EKeySpecPageCount |-> 0, EncodingKeySize |-> 0, ContentKeySize |-> 0, ESpecBlockSize |-> 0]

Fields(v) == [Signature |-> v[1], Version |-> v[2], EncodingKeySize |-> v[3],
              ContentKeySize |-> v[4], PageSize |-> v[5] * PageUnit,
              EKeySpecPageSize |-> v[6] * PageUnit, PageCount |-> v[7],
              EKeySpecPageCount |-> v[8], ESpecBlockSize |-> v[10]]

Header(s) ==
    LET read == ReadIntegers(s, <<2, 1, 1, 1, 2, 2, 4, 4, 1, 4>>, "big")
    IN IF ~CanRead(s, 2 + 1 + 1 + 1 + 2 + 2 + 4 + 4 + 1 + 4)
       THEN [stream |-> s, header |-> NoHeader]
       ELSE [stream |-> read.stream, header |-> Fields(read.values)]

\* ReadUInt40, of the bytes it read: they have no order of their own.
ReadUInt40(bytes) == BigEndian(bytes)

\* CEKeyPageTable: a number of keys, the size of the file, a content key and
\* encoding keys.
CEKeyPageTable(keyCount, fileSize, ckey, ekeys) ==
    [keyCount |-> keyCount, fileSize |-> fileSize, ckey |-> ckey, ekeys |-> ekeys]

\* Its constructor: the number of keys tells how much follows.
KeysOf(keyCount, read) ==
    [stream |-> read.stream,
     entry |-> CEKeyPageTable(keyCount, ReadUInt40(read.buffers[1]), read.buffers[2], read.buffers[3])]

PageEntry(s, header) ==
    LET count == ReadSpan(s, 1, 1, Native)
        keyCount == count.bytes[1]
    IN KeysOf(keyCount, ReadSpans(count.stream, <<5, header.ContentKeySize, keyCount * header.EncodingKeySize>>))

\* Its operator bool, HashSize and ckey.
Valid(entry) == entry.ckey # <<>> /\ entry.ekeys # <<>>
HashSize(header) == header.ContentKeySize
ContentKey(entry, header) == KeyOf(SubSeq(entry.ckey, 1, header.ContentKeySize))

RECURSIVE ReadEntries(_, _, _), AddEntry(_, _, _)

\* The loop of Encoding::Page: until an entry is padding or does not end within
\* the page.
AddEntry(read, header, pageEnd) ==
    IF ~Valid(read.entry) \/ read.stream.readCursor > pageEnd THEN <<>>
    ELSE <<read.entry>> \o ReadEntries(read.stream, header, pageEnd)

ReadEntries(s, header, pageEnd) ==
    IF s.readCursor >= pageEnd THEN <<>> ELSE AddEntry(PageEntry(s, header), header, pageEnd)

\* Encoding::Page: its entry of the index is skipped, and the stream is left
\* behind that.
ReadPage(s, header, pageOffset, pageEnd) ==
    LET skipped == SkipRead(s, HashSize(header) + DigestSize)
    IN [entries |-> ReadEntries(SeekRead(skipped, pageOffset), header, pageEnd),
        stream |-> SeekRead(skipped, skipped.readCursor)]

\* Encoding::Encoding: the specifications are skipped; the pages follow their
\* index.
Pages(header, index) ==
    LET pageStart == index.readCursor + header.PageCount * (DigestSize + header.EncodingKeySize)
        pages == FoldLeft(LAMBDA r, i :
                            LET offset == pageStart + (i - 1) * header.PageSize
                                page == ReadPage(r.stream, header, offset, offset + header.PageSize)
                            IN [stream |-> page.stream, pages |-> Append(r.pages, page.entries)],
                          [stream |-> index, pages |-> <<>>], [i \in 1..header.PageCount |-> i])
    IN IF header.Signature # 17742 THEN <<>> ELSE pages.pages

ParseEncoding(bytes) ==
    LET read == Header(Stream("growable", bytes))
    IN [header |-> read.header,
        pages |-> Pages(read.header, SkipRead(read.stream, read.header.ESpecBlockSize))]

\* Encoding::count and GetContentKeySize.
EncodingCount(encoding) == FoldLeft(LAMBDA value, page : value + Len(page), 0, encoding.pages)
GetContentKeySize(encoding) == encoding.header.ContentKeySize

\* FileLocation with its operator[], and Encoding::FindFile.
FileLocation(fileSize, keyCount, keys) == [fileSize |-> fileSize, keyCount |-> keyCount, keys |-> keys]
KeyAt(location, i) ==
    LET keySize == Len(location.keys) \div location.keyCount
    IN SubSeq(location.keys, (i - 1) * keySize + 1, i * keySize)

FindEncoded(encoding, ckey) ==
    LET found == FirstMatch(FlattenSeq(encoding.pages),
                            LAMBDA e : SameKey(ContentKey(e, encoding.header), KeyOf(ckey)))
        entry == found[1]
    IN IF found = None THEN None
       ELSE Some(FileLocation(entry.fileSize, entry.keyCount,
                   SubSeq(entry.ekeys, 1, entry.keyCount * encoding.header.EncodingKeySize)))

-----------------------------------------------------------------------------
(* Index                                                                   *)

\* Index: the keys of its entries are in one buffer.
Index(name, keySizeBytes, keyBuffer, entries) ==
    [name |-> name, keySizeBytes |-> keySizeBytes, keyBuffer |-> keyBuffer, entries |-> entries]

\* Index::Entry and its constructor: the bytes of the size come first.
EntryAt(keyOffset, size, offset) == [keyOffset |-> keyOffset, size |-> size, offset |-> offset]
IndexEntry(data, sizeBytes, keyOffset) ==
    EntryAt(keyOffset, BigEndian(SubSeq(data, 1, sizeBytes)),
            BigEndian(SubSeq(data, sizeBytes + 1, Len(data))))

\* Index::Entry::key.
EntryKey(entry, index) == SubSeq(index.keyBuffer, entry.keyOffset + 1, entry.keyOffset + index.keySizeBytes)

\* Index::Index: nothing is read if the file does not have its name's digest;
\* blocks with another digest are left out, and so is padding.
ParseIndex(name, file) ==
    LET valid == SelectSeq(file.blocks, LAMBDA b : b.digest = b.data)
        data == FlattenSeq([i \in DOMAIN valid |-> valid[i].data])
        kept == SelectSeq(data, LAMBDA e : ToSet(e.key) # {0})
    IN IF file.digest # name THEN Index(name, 0, <<>>, <<>>)
       ELSE Index(name, file.keySizeBytes, FlattenSeq([i \in DOMAIN kept |-> kept[i].key]),
                  [i \in DOMAIN kept |->
                     IndexEntry(kept[i].data, file.sizeBytes, (i - 1) * file.keySizeBytes)])

\* Index::operator[].
FindEntry(index, ekey) == FirstMatch(index.entries, LAMBDA e : SameEKey(KeyOf(ekey), EntryKey(e, index)))

-----------------------------------------------------------------------------
(* Root                                                                    *)

\* file data IDs are stored as differences, less one.
FileDataIDs(deltas) ==
    FoldLeft(LAMBDA ids, delta : Append(ids, (IF ids = <<>> THEN -1 ELSE Last(ids)) + delta + 1),
             <<>>, deltas)

\* What is known of a file before its blocks: with the signature, how many
\* files it has and how many of them have names.  The first word of a file
\* without it is not read again.
Signature == -1

\* ContentFlags: only this one is looked at.
NoNameHash == 1

Layout(cells) ==
    IF cells[1] = Signature
    THEN [interleave |-> FALSE, canSkip |-> cells[2] # cells[3], start |-> 4]
    ELSE [interleave |-> TRUE, canSkip |-> FALSE, start |-> 2]

\* The block at "at" has name hashes.
Named(layout, cells, at) ==
    layout.interleave \/ ~layout.canSkip \/ cells[at + 1] # NoNameHash

\* Root::Entry and Root::Block; the locales of a block are not used.
RootEntry(contentKey, fileDataID, nameHash) ==
    [ckey |-> contentKey, fdid |-> fileDataID, nameHash |-> nameHash]
Block(content, locales, entries) == [Content |-> content, Locales |-> locales, entries |-> entries]

\* ParseBlock: identifiers, then keys and hashes of names, one by one or the
\* keys first.  SpanStream reads what follows the hash instead.
ParseBlock(layout, cells, at) ==
    LET n == cells[at]
        start == at + 3 + n
        ids == FileDataIDs(SubSeq(cells, at + 3, start - 1))
        key(i) == start + (IF layout.interleave THEN 2 * (i - 1) ELSE i - 1)
        hash(i) == IF layout.interleave THEN key(i) + 1 ELSE key(i) + n
    IN Block(cells[at + 1], cells[at + 2],
             [i \in 1..n |->
                RootEntry(cells[key(i)], ids[i],
                          IF Named(layout, cells, at) THEN Cell(cells, hash(i) + 1) ELSE 0)])

RECURSIVE ReadBlocks(_, _, _)

\* The blocks from "at" on, unless one of them is cut off.
ReadBlocks(layout, cells, at) ==
    LET size == IF Named(layout, cells, at) THEN 3 ELSE 2
        next == at + 3 + size * cells[at]
        rest == ReadBlocks(layout, cells, next)
    IN IF at > Len(cells) THEN Some(<<>>)
       ELSE IF at + 2 > Len(cells) THEN None
       ELSE IF next > Len(cells) + 1 THEN None
       ELSE IF rest = None THEN None
       ELSE Some(<<ParseBlock(layout, cells, at)>> \o rest[1])

\* Root::Parse: the blocks are parsed by four threads and kept in order.
ParseRoot(cells) ==
    IF cells = <<>> \/ (cells[1] = Signature /\ Len(cells) < 3) THEN None
    ELSE ReadBlocks(Layout(cells), cells, Layout(cells).start)

\* Root::size.
RootSize(root) == FoldLeft(LAMBDA value, block : value + Len(block.entries), 0, root)

\* Root::FindFile(fileDataID): the lower bound in the first block that has one.
FindFileDataID(root, fdid) ==
    FirstMatch(FlattenSeq([i \in DOMAIN root |-> FirstMatch(root[i].entries, LAMBDA e : e.fdid >= fdid)]),
               LAMBDA e : TRUE)

\* crypto::JenkinsHash: of the name in capitals, with backslashes.
Letters == <<<<"d", "D">>, <<"f", "F">>, <<"g", "G">>, <<"h", "H">>, <<"/", "\\">>>>
Normalized(name) ==
    [i \in DOMAIN name |->
       LET hit == FirstMatch(Letters, LAMBDA l : l[1] = name[i])
       IN IF hit = None THEN name[i] ELSE hit[1][2]]

JenkinsHash(name) ==
    LET path == Normalized(name)
    IN hashlittle2([i \in 0..(Len(path) + 3) |-> IF i < Len(path) THEN path[i + 1] ELSE "?"],
                   0, Len(path), 0, 0).pc

\* Root::FindFile(fileName): half of a hash is compared with a whole one.
FindNamed(root, name) ==
    FirstMatch(FlattenSeq([i \in DOMAIN root |-> root[i].entries]),
               LAMBDA e : ToString(e.nameHash) = ToString(JenkinsHash(name)))

-----------------------------------------------------------------------------
(* Product                                                                 *)

\* What a product has loaded.
ProductOf(install, root, encoding, fileIndex, indices) ==
    [install |-> install, root |-> root, encoding |-> encoding, fileIndex |-> fileIndex,
     indices |-> indices]

\* ArchiveFileLocation, and Product::FindArchive: a file that is not in an
\* archive is in the file index.
Archived(name, entry) == [name |-> name, offset |-> entry.offset, size |-> entry.size]

FindArchive(product, ekey) ==
    LET loose == FlattenSeq([i \in DOMAIN product.fileIndex |-> FindEntry(product.fileIndex[i], ekey)])
        hits == FlattenSeq([i \in DOMAIN product.indices |->
                  LET entry == FindEntry(product.indices[i], ekey)
                  IN [j \in DOMAIN entry |-> Archived(product.indices[i].name, entry[j])]])
    IN IF loose # <<>> THEN Some(Archived(KeyToString(KeyOf(ekey)), loose[1]))
       ELSE FirstMatch(hits, LAMBDA h : TRUE)

\* Product::FindFile by content key.
Resolve(product, entry) ==
    IF entry = None THEN None ELSE FindEncoded(product.encoding, entry[1].ckey)

\* Product::FindFile by name.
FindInstalledFile(product, name) == Resolve(product, FindInstalled(product.install, name))

\* wow::Product::FindFile: a file that the install manifest does not lead to is
\* looked for in the root.
FindFile(product, name) ==
    LET installed == FindInstalledFile(product, name)
    IN IF installed # None THEN installed ELSE Resolve(product, FindNamed(product.root, name))

\* wow::Product::FindFile by file data ID.
FindFileByID(product, fdid) == Resolve(product, FindFileDataID(product.root, fdid))

-----------------------------------------------------------------------------
(* Links                                                                   *)

\* DownloadCommand: what follows the last separator.
FileNameComponent(file) ==
    LET separators == {i \in DOMAIN file : file[i] \in {"/", "\\"}}
    IN IF separators = {} THEN file ELSE SubSeq(file, Max(separators) + 1, Len(file))

\* std::filesystem::path::filename, where the program runs on POSIX: what
\* follows the last "/".
PathFileName(file) ==
    LET separators == {i \in DOMAIN file : file[i] = "/"}
    IN IF separators = {} THEN file ELSE SubSeq(file, Max(separators) + 1, Len(file))

\* Server::GenerateAdress, without the document root in front of it.
GenerateAdress(product, location, fileName, size) ==
    <<"/", product, "/">> \o location.name
      \o <<"/", ToString(location.offset), "/", ToString(location.size), "/", ToString(size), "/">>
      \o fileName

\* Mutated form of Link: the first key, whether or not it is in an archive.
LinkOfFirstKey(product, file) ==
    LET location == FindFile(product, file)
    IN IF location = None THEN None
       ELSE LET archive == FindArchive(product, KeyAt(location[1], 1))
            IN IF archive = None THEN None
               ELSE Some(GenerateAdress("wow", archive[1], FileNameComponent(file),
                                        location[1].fileSize))

\* Where the copies of a file are, in the order of its keys.
Copies(product, location) ==
    FlattenSeq([i \in 1..location.keyCount |-> FindArchive(product, KeyAt(location, i))])

\* DownloadCommand: the first of the keys that is in an archive.
Link(product, file) ==
    LET location == FindFile(product, file)
        copies == Copies(product, location[1])
    IN IF location = None THEN None
       ELSE IF copies = <<>> THEN None
       ELSE Some(GenerateAdress("wow", copies[1], FileNameComponent(file), location[1].fileSize))

\* The message for a tracked file: a link for each of the keys that is in an
\* archive, with the size it has there.
Mirrors(product, file) ==
    LET location == FindFile(product, file)
        copies == Copies(product, location[1])
    IN IF location = None THEN None
       ELSE IF location[1].keyCount = 0 THEN None
       ELSE Some([i \in DOMAIN copies |->
                    GenerateAdress("wow", copies[i], PathFileName(file), copies[i].size)])

\* Session::ProcessRequest: six components after the first "/".
ParseTarget(target) ==
    LET tokens == Tail(TokenizeChar(target, "/", FALSE))
        numbers == [i \in 1..3 |-> FromChars(tokens[i + 2])]
    IN IF "\\" \in ToSet(target) \/ TokenizeChar(target, "/", FALSE) = <<>> \/ Len(tokens) # 6 THEN None
       ELSE IF None \in ToSet(numbers) \/ numbers[3] = Some(0) THEN None
       ELSE Some([Product |-> tokens[1], ArchiveName |-> tokens[2], Offset |-> numbers[1][1],
                  Length |-> numbers[2][1], DecompressedSize |-> numbers[3][1],
                  FileName |-> tokens[6]])

-----------------------------------------------------------------------------
(* Reference: manifests as they are built                                  *)

\* Tags of "tags", and entries of a name, a content key and a size.
InstallFile(tags, entries) ==
    LET tag(t) == <<t, 1>> \o [i \in 1..((Len(entries) + 7) \div 8) |-> 255]
    IN <<1, Len(tags), Len(entries)>>
         \o FlattenSeq([i \in DOMAIN tags |-> tag(tags[i])])
         \o FlattenSeq([i \in DOMAIN entries |-> <<entries[i].name, entries[i].ckey, 1>>])

\* Pages of "units", padded, for keys of "keySize" bytes.
EncodingFile(units, keySize, especs, pages) ==
    LET big(value, size) == Reverse(Bytes(value, size))
        entry(e) == <<Len(e.keys)>> \o big(e.fileSize, 5) \o e.ckey \o FlattenSeq(e.keys)
        content(p) == FlattenSeq([i \in DOMAIN p |-> entry(p[i])])
    IN <<69, 78, 1, keySize, keySize>> \o big(units, 2) \o big(0, 2) \o big(Len(pages), 4) \o big(0, 4)
         \o <<0>> \o big(Len(especs), 4) \o especs
         \o FlattenSeq([i \in DOMAIN pages |-> pages[i][1].ckey \o [j \in 1..DigestSize |-> 9]])
         \o FlattenSeq([i \in DOMAIN pages |->
              [j \in 1..(units * PageUnit) |-> Cell(content(pages[i]), j)]])

\* The key of a number.
Key(n) == <<7, n>>

\* A signed root with blocks of ascending file data IDs, the content key of
\* each being that of 100 more and the hash of its name 1000 more.
RootFile(named, blocks) ==
    LET deltas(ids) == [i \in DOMAIN ids |-> IF i = 1 THEN ids[1] ELSE ids[i] - ids[i - 1] - 1]
        plus(ids, n) == [i \in DOMAIN ids |-> ids[i] + n]
        keys(ids) == [i \in DOMAIN ids |-> Key(100 + ids[i])]
        block(ids) == <<Len(ids), IF named THEN 0 ELSE NoNameHash, 2>> \o deltas(ids)
                        \o keys(ids) \o (IF named THEN plus(ids, 1000) ELSE <<>>)
    IN <<Signature, 9, IF named THEN 9 ELSE 0>> \o FlattenSeq([i \in DOMAIN blocks |-> block(blocks[i])])
=============================================================================
