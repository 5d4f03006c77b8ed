------------------------------- MODULE Formats ------------------------------
(***************************************************************************)
(* The pure functions of the program, each called with the inputs of a     *)
(* bounded set: the tokenizer, streams and hashes, the documents of ribbit *)
(* and the CDNs, the tables of a build, the SQL statements and the         *)
(* completions.  A call and its result are a state; the properties compare *)
(* the result with what the input was built from.                          *)
(***************************************************************************)
EXTENDS RibbitFormat, ConfigFormat, BlockTable, TactTables, Statements, Completion

VARIABLE call    \* the function called, its input and what it returned

Idle == [of |-> "none"]
Init == call = Idle

Returns(f, input, result) ==
    /\ call = Idle
    /\ call' = [of |-> f, input |-> input, result |-> result]

-----------------------------------------------------------------------------
(* The tokenizer                                                           *)

Texts(n) == UNION {[1..k -> {"a", "|", " "}] : k \in 0..n}

Tokenize(text, removeEmpty) ==
    Returns("tokenize", [text |-> text, removeEmpty |-> removeEmpty],
            [char |-> TokenizeChar(text, "|", removeEmpty),
             chars |-> TokenizeChars(text, {"|", " "}, removeEmpty),
             strings |-> TokenizeStrings(text, {<<"|">>, <<" ">>}, removeEmpty)])

-----------------------------------------------------------------------------
(* Streams and hashes                                                      *)

\* Integers of several sizes and a text, written behind what was there before
\* and read again from a stream of another kind.
Values == {<<[value |-> a, size |-> 1], [value |-> b, size |-> n]>> :
                a \in {0, 255}, b \in {1, 100, 256, 25700}, n \in {2, 4}}

Transfer(kind, before, values, written, read, text) ==
    LET start == WriteCString(SeekWrite(Stream("growable", before), Len(before)), text)
        end == FoldLeft(LAMBDA s, v : WriteSpan(s, Bytes(v.value, v.size), v.size, written),
                        start, values)
        source == SeekRead(Stream(kind, end.data), Len(before))
        first == ReadCString(source)
        rest == ReadIntegers(first.stream, [i \in DOMAIN values |-> values[i].size], read)
    IN Returns("transfer", [values |-> values, same |-> written = read, text |-> text],
               [text |-> first.text, length |-> ReadString(source, Len(text)).count,
                values |-> rest.values, left |-> Data(rest.stream)])

\* A key as it is printed and read, in both cases of letters.
Digits == {0, 9, 10, 171, 255}
Print16(bytes) ==
    LET key == MoveKey(CopyKey(KeyOf(bytes)))
        text == KeyToString(key.target)
        upper == [i \in DOMAIN text |-> Capitals[Lookup16(text[i]) + 1]]
    IN Returns("hex", bytes, [read |-> {KeyData(ParseKey(text)), KeyData(ParseKey(upper))},
                              left |-> KeyToString(key.other)])

\* A key of n different bytes at an address, with other bytes around it.
Memory(at, n) == [i \in 0..(at + n + 12) |-> IF i < at \/ i >= at + n THEN 255 ELSE i - at + 1]

HashKey(at, n, pc, pb) ==
    Returns("hash", [length |-> n, pc |-> pc, pb |-> pb],
            [little2 |-> hashlittle2(Memory(at, n), at, n, pc, pb),
             little |-> hashlittle(Memory(at, n), at, n, pc),
             words2 |-> hashword2(Memory(at, 4 * n), at, n, pc, pb),
             words |-> hashword(Memory(at, 4 * n), at, n, pc),
             big |-> {hashbig(Memory(at, n), at, n, pc, e) : e \in BOOLEAN}])

-----------------------------------------------------------------------------
(* Ribbit                                                                  *)

Optional(column) == {<<>>, <<column>>}

\* Rows as a server may send them: columns that are empty, a build that is not
\* a number.
VersionsRows == {<<<<"eu">>, <<"bc">>, <<"cc">>, ring, build, <<"1.0">>, config>> :
                   ring \in Optional("kr"), build \in {<<"7">>, <<"x">>}, config \in Optional("pc")}
CDNsRows == {<<<<"eu">>, <<"tpr">>, hosts, servers, path>> :
               hosts \in {<<"h1">>, <<"h1", " ", "h2">>}, servers \in Optional("s1"),
               path \in Optional("cp")}
SummaryRows == {<<<<"wow">>, id, flags>> : id \in {<<"2">>, <<"x">>}, flags \in Optional("cdn")}

Heading(n) == [i \in 1..n |-> <<"Name">>]
UpTo(n, rows) == UNION {[1..k -> rows] : k \in 0..n}

\* A server that has one document, for one region, and does not answer others.
Served(page, outcome, response) ==
    [at \in {<<"us", page>>} |-> [outcome |-> outcome, response |-> response]]

\* What a command returns in each protocol version, and if it fails.
Request(f, command, page, n, id, rows) ==
    LET table == Table(Heading(n), id, rows)
        Ask(version, outcome, response, path) ==
           Fetch(Served(path, outcome, response), "US", version, command, "wow")
    IN Returns(f, [id |-> id, rows |-> rows],
               [v1 |-> Ask("V1", "read", ResponseV1(table), <<"v1">> \o page),
                v2 |-> Ask("V2", "read", ResponseV2(table), <<"v2">> \o page),
                failed |-> {Ask("V2", o, ResponseV2(table), <<"v2">> \o page) :
                              o \in {"refused", "unwritten", "unread"}}])

GetVersions(id, rows) ==
    Request("versions", "ProductVersions", <<"products", "wow", "versions">>, 7, id, rows)
GetCDNs(id, rows) ==
    Request("cdns", "ProductCDNs", <<"products", "wow", "cdns">>, 5, id, rows)
GetSummary(id, rows) == Request("summary", "Summary", <<"summary">>, 3, id, rows)

\* A document of background downloads, if there were a path to ask it for.
GetBGDL(id, rows) ==
    LET table == Table(Heading(7), id, rows)
    IN Returns("bgdl", [id |-> id, rows |-> rows],
               [v1 |-> Execute("ProductBGDL", "read", ParseCoreV1(ResponseV1(table))),
                v2 |-> Execute("ProductBGDL", "read", ParseCoreV2(ResponseV2(table))),
                failed |-> {Execute("ProductBGDL", "unread", ParseCoreV2(ResponseV2(table)))}])

\* A product asks for its versions while the server publishes them: the summary
\* may be older or newer, or one of the answers missing.
ProductRows == {<<<<name>>, <<id>>, flags>> : name \in {"wow", "w3"}, id \in {"2", "3"}, flags \in Optional("cdn")}
VersionsRow == <<<<"eu">>, <<"bc">>, <<"cc">>, <<>>, <<"7">>, <<"1.0">>, <<"pc">>>>

RefreshProduct(products, id, missing) ==
    LET summary == Served(<<"v1", "summary">>, "read", ResponseV1(Table(Heading(3), "1", products)))
        versions == Served(<<"v1", "products", "wow", "versions">>, "read",
                           ResponseV1(Table(Heading(7), id, <<VersionsRow>>)))
        replies == [at \in {a \in DOMAIN summary \cup DOMAIN versions : a[2] \notin missing} |->
                      IF at \in DOMAIN summary THEN summary[at] ELSE versions[at]]
    IN Returns("refresh", [products |-> products, id |-> id, missing |-> missing], Refresh(replies, "wow"))

-----------------------------------------------------------------------------
(* Configuration files                                                     *)

BuildLines == {<<"#", " ", "word">>} \cup
              {Setting("root", <<k>>) : k \in Keys} \cup
              {Setting("encoding", <<k, "k2">>) : k \in Keys} \cup
              {Setting("install-size", w) : w \in {<<"1">>, <<"1", "2">>, <<"x">>}} \cup
              {Setting("build-name", <<"b">>), Setting("patch", <<"k1">>)}

CDNLines == {<<>>, Setting("archives", <<"a1", "a2">>), Setting("archives", <<"a1">>),
             Setting("archives-index-size", <<"1", "2">>), Setting("archives-index-size", <<"7">>),
             Setting("file-index", <<"f">>), Setting("file-index-size", <<"7">>)}

ReadBuildConfig(lines) == Returns("build", lines, ParseBuildConfig(File(lines)))
ReadCDNConfig(lines) == Returns("cdn", lines, ParseCDNConfig(File(lines)))

-----------------------------------------------------------------------------
(* Containers                                                              *)

Chunks == {<<"N", "a">>, <<"N", "b", "c">>, <<"Z", "a", "d", "end">>, <<"Z", "bad">>, <<"F", "a">>}

\* Without keys, or with those of the file, or with another content key.
Decode(chunks, damaged, missing, keys) ==
    LET file == Archive(chunks, damaged, missing)
        contents == FlattenSeq([i \in DOMAIN chunks |-> IF Content(chunks[i]) = None THEN <<>>
                                                         ELSE Content(chunks[i])[1]])
        ekey == HeaderDigest(file, 4)
    IN Returns("decode", [chunks |-> chunks, damaged |-> damaged, missing |-> missing, keys |-> keys],
               ParseBLTE(file, CASE keys = "none" -> None
                                 [] keys = "right" -> Some([ekey |-> KeyOf(ekey), ckey |-> KeyOf(contents)])
                                 [] keys = "wrong" -> Some([ekey |-> KeyOf(ekey), ckey |-> KeyOf(<<"other">>)])))

-----------------------------------------------------------------------------
(* Files of a build                                                        *)

Names == {<<"d", "/", "f">>, <<"d", "\\", "g">>, <<"h">>}

\* The files of a build, with content keys of 11 and 12, of which encoding keys
\* 21 to 24 are copies; no index has 24.
InstallTables == {<<[name |-> a, ckey |-> Key(11)], [name |-> b, ckey |-> Key(12)]>> : a, b \in Names}
Encoded(n, keys) == [ckey |-> Key(n), fileSize |-> n, keys |-> [i \in DOMAIN keys |-> Key(keys[i])]]
EncodingTables == {<<<<Encoded(11, <<21>>), Encoded(12, <<22, 23>>)>>>>,
                   <<<<Encoded(12, <<22, 23>>)>>, <<Encoded(11, <<24, 21>>)>>>>,
                   <<<<Encoded(11, <<22, 21>>)>>, <<Encoded(12, <<23>>)>>>>}

\* An index with entries of two bytes of size and one of offset, in blocks of
\* two entries; the digest of a block is right or not.
Entry(n) == [key |-> Key(n), data |-> <<1, 2, n>>]
Padding == [key |-> <<0, 0>>, data |-> <<0, 0, 0>>]
IndexFile(name, keys, intact) ==
    [digest |-> name, keySizeBytes |-> 2, sizeBytes |-> 2,
     blocks |-> [i \in DOMAIN keys |->
        LET data == <<Entry(keys[i]), Padding>>
        IN [data |-> data, digest |-> IF i \in intact THEN data ELSE <<Padding>>]]]

Product(names, pages, units, especs, loose, intact) ==
    ProductOf(ParseInstall(InstallFile(<<"Windows", "OSX">>, names))[1],
              ParseRoot(RootFile(TRUE, <<<<1, 2>>, <<3>>>>))[1],
              ParseEncoding(EncodingFile(units, 2, especs, pages)),
              [i \in 1..Len(loose) |-> ParseIndex(<<"fi">>, IndexFile(<<"fi">>, loose, {1}))],
              <<ParseIndex(<<"a1">>, IndexFile(<<"a1">>, <<21, 22>>, intact)),
                ParseIndex(<<"a2">>, IndexFile(<<"a2">>, <<22, 23>>, {1, 2})),
                ParseIndex(<<"a3">>, IndexFile(<<"a4">>, <<21>>, {1}))>>)

\* The link that /download gives, and those for a tracked file, as the proxy
\* reads them.
Opened(links) == [i \in DOMAIN links |-> ParseTarget(links[i])]

LinksTo(product, file) ==
    [sizes |-> <<InstallSize(product.install), EncodingCount(product.encoding),
                 GetContentKeySize(product.encoding), RootSize(product.root)>>,
     link |-> FlattenSeq(Opened(Link(product, file))),
     mirrors |-> FlattenSeq(Opened(FlattenSeq(Mirrors(product, file))))]

Download(names, pages, units, especs, loose, intact, file) ==
    Returns("download",
            [names |-> names, pages |-> pages, loose |-> loose, intact |-> intact, file |-> file],
            LinksTo(Product(names, pages, units, especs, loose, intact), file))

\* Ascending blocks of file data IDs.
Blocks == {<<<<0, 3>>, <<4>>>>, <<<<1>>, <<2, 5, 6>>>>, <<<<7, 8>>>>}

\* The root is read from a file that may be cut off.
Lookup(blocks, named, missing, fdid) ==
    LET file == RootFile(named, blocks)
        root == ParseRoot(SubSeq(file, 1, Len(file) - missing))
        encoding == [i \in DOMAIN blocks |-> [j \in DOMAIN blocks[i] |->
                       Encoded(100 + blocks[i][j], <<200 + blocks[i][j]>>)]]
    IN Returns("lookup", [fdid |-> fdid, missing |-> missing],
               IF root = None THEN None
               ELSE FindFileByID(ProductOf(<<>>, root[1],
                                           ParseEncoding(EncodingFile(2, 2, <<>>, encoding)),
                                           None, <<>>), fdid))

-----------------------------------------------------------------------------
(* Statements and completions                                              *)

\* A row has in each column the name of the column.
Prepare(prepared, c) ==
    LET text == AsString(c.query)
        columns == Returned(text)
    IN Returns("prepare", c, [outcome |-> PrepareStatement(prepared, c.name, text), text |-> text, types |-> c.query.types,
                              row |-> Hydrate(columns, columns),
                              entity |-> HydrateEntity("entity", columns, columns)])

\* Two tuples of values that are told apart by their places.
Alignments == {1, 4, 8}
Concatenate(first, second) ==
    LET types(from, alignments) ==
           [i \in DOMAIN alignments |-> [name |-> from + i, alignment |-> alignments[i]]]
        tuple(from, alignments) ==
           MakeTuple(types(from, alignments), [i \in DOMAIN alignments |-> from + i])
    IN Returns("concatenate", first \o second,
               TupleCat(<<tuple(0, first), tuple(Len(first), second)>>))

Option(name, value, focused, options) ==
    [name |-> name, value |-> value, focused |-> focused, options |-> options]

\* What Discord sends: the user has typed "text" into an option that is
\* completed and filled in those before it.
Filled(name) == Option(name, Some(<<"w">>), FALSE, <<>>)
Typed(name, text) == Option(name, Some(text), TRUE, <<>>)
Group(name, options) == Option(name, None, FALSE, options)

RECURSIVE Typings(_, _)
Typings(options, text) ==
    UNION {CASE options[i].options # <<>> ->
                  {<<Group(options[i].name, t)>> : t \in Typings(options[i].options, text)}
             [] options[i].autoComplete ->
                  {[j \in 1..i |-> IF j = i THEN Typed(options[j].name, text) ELSE Filled(options[j].name)]}
             [] OTHER -> {} : i \in DOMAIN options}

Events(text) ==
    UNION {Typings(options, text) :
             options \in {DownloadOptions, TrackFileOptions, BindOptions, ProductStatusOptions,
                          CacheStatusOptions}}

Build(p, n) == [product_name |-> p, build_name |-> n, region |-> <<"eu">>]
Tracked(p, f) == [product_name |-> p, file_path |-> f]
Short == {<<"w">>, <<"v">>, <<"w", "v">>}
Databases == {[products |-> <<<<"w">>, <<"v">>, <<"w", "v">>>>,
               builds |-> [i \in DOMAIN names |-> Build(<<"w">>, names[i])],
               trackedFiles |-> <<Tracked(<<"w">>, <<"v">>), Tracked(<<"v">>, <<"v">>)>>] :
                 names \in UNION {[1..k -> Short] : k \in 0..4}}

Suggest(options, db) ==
    Returns("complete", [options |-> options, db |-> db], HandleAutoCompleteEvent(options, db))

\* /track with its options; the display name may be left out.
Track(command, values, displayName) ==
    LET inner == <<Option("product", Some(values[1]), FALSE, <<>>),
                   Option("filepath", Some(values[2]), FALSE, <<>>)>>
                   \o [i \in DOMAIN displayName |-> Option("displayname", Some(displayName[i]), FALSE, <<>>)]
        options == <<Group("filename", <<Group(command, inner)>>)>>
    IN Returns("track", <<command, values, displayName>>,
               <<IF IsGiven(options, "add") THEN "add" ELSE "remove",
                 GetParameter(options, "product") \o GetParameter(options, "filepath"),
                 GetParameter(options, "displayname")>>)

-----------------------------------------------------------------------------
Next ==
    \/ \E text \in Texts(5), removeEmpty \in BOOLEAN : Tokenize(text, removeEmpty)
    \/ \E id \in {"0", "2", "x"} :
         \/ \E rows \in UpTo(2, VersionsRows) : GetVersions(id, rows) \/ GetBGDL(id, rows)
         \/ \E rows \in UpTo(2, CDNsRows) : GetCDNs(id, rows)
         \/ \E rows \in UpTo(2, SummaryRows) : GetSummary(id, rows)
    \/ \E products \in UpTo(2, ProductRows), id \in {"2", "3", "x"},
          missing \in SUBSET {<<"v1", "summary">>, <<"v1", "products", "wow", "versions">>} :
            RefreshProduct(products, id, missing)
    \/ \E lines \in UpTo(3, BuildLines) : ReadBuildConfig(lines)
    \/ \E lines \in UpTo(3, CDNLines) : ReadCDNConfig(lines)
    \/ \E kind \in {"growable", "file"}, before \in {<<>>, <<5>>}, values \in Values,
          written, read \in {"little", "big"}, text \in {<<>>, <<65>>, <<65, 66>>} :
            Transfer(kind, before, values, written, read, text)
    \/ \E bytes \in UpTo(3, Digits) : Print16(bytes)
    \/ \E at \in 0..3, n \in 0..25, pc, pb \in {0, 3} : HashKey(at, n, pc, pb)
    \/ \E names \in InstallTables, pages \in EncodingTables, units \in 1..2, especs \in {<<>>, <<1>>},
          loose \in {<<>>, <<21>>, <<23>>}, intact \in SUBSET {1, 2}, file \in Names :
            Download(names, pages, units, especs, loose, intact, file)
    \/ \E blocks \in Blocks, named \in BOOLEAN, missing \in 0..2, fdid \in 0..9 :
            /\ fdid \in UNION {ToSet(blocks[i]) : i \in DOMAIN blocks}
            /\ Lookup(blocks, named, missing, fdid)
    \/ \E chunks \in UpTo(3, Chunks), missing \in 0..2, keys \in {"none", "right", "wrong"} :
         \E damaged \in {{}, DOMAIN chunks} : chunks # <<>> /\ Decode(chunks, damaged, missing, keys)
    \/ \E r \in ToSet(Database) : \E c \in r.calls : Prepare(r.prepared, c)
    \/ \E c \in OtherCalls : Prepare({c.name}, c)
    \/ \E first, second \in UpTo(3, Alignments) : Concatenate(first, second)
    \/ \E text \in Short \cup {<<>>} : \E options \in Events(text), db \in Databases :
            Suggest(options, db)
    \/ \E command \in {"add", "remove"}, values \in Short \X Short, name \in {None, Some(<<"v">>)} :
            (command = "add" \/ name = None) /\ Track(command, values, name)
    \/ call # Idle /\ call' = Idle

Spec == Init /\ [][Next]_call

-----------------------------------------------------------------------------
(* What the documents say                                                  *)

NonEmpty(pieces) == SelectSeq(pieces, LAMBDA p : p # <<>>)

\* The pieces of a text, without an empty one at its end.
TextPieces(text, chars, removeEmpty) ==
    LET pieces == Pieces(text, chars)
        closed == IF Last(pieces) = <<>> THEN Front(pieces) ELSE pieces
    IN IF removeEmpty THEN NonEmpty(closed) ELSE closed

TokensAreRight ==
    LET text == call.input.text
        removeEmpty == call.input.removeEmpty
    IN call.result = [char |-> TextPieces(text, {"|"}, removeEmpty),
                      chars |-> TextPieces(text, {"|", " "}, removeEmpty),
                      strings |-> {TextPieces(text, {"|", " "}, removeEmpty)}]

\* What both protocol versions return, and a request that fails does not.
Answers(value) ==
    call.result.v1 = value /\ call.result.v2 = value /\ call.result.failed = {None}

ListedVersions ==
    LET valid == SelectSeq(Complete(call.input.rows), LAMBDA r : r[5] = <<"7">>)
    IN [i \in DOMAIN valid |->
          [Region |-> valid[i][1], BuildConfig |-> valid[i][2], CDNConfig |-> valid[i][3],
           KeyRing |-> valid[i][4], BuildID |-> 7, VersionsName |-> valid[i][6],
           ProductConfig |-> valid[i][7]]]

VersionsAreRight ==
    IF ListedVersions = <<>> \/ call.input.id # "2" THEN Answers(None)
    ELSE Answers(Some([Records |-> ListedVersions, SequenceID |-> 2]))

\* The code takes the first record for the column names, which are none.
BGDLIsRight ==
    IF ListedVersions = <<>> THEN Answers(None) ELSE Answers(Some(Tail(ListedVersions)))

ListedNames(column) ==
    IF column = <<>> THEN << <<>> >>
    ELSE LET names == SelectSeq(column, LAMBDA w : w # " ") IN [i \in DOMAIN names |-> <<names[i]>>]

CDNsAreRight ==
    LET rows == Complete(call.input.rows)
    IN Answers(Some([i \in DOMAIN rows |->
         [Name |-> rows[i][1], Path |-> rows[i][2], Hosts |-> ListedNames(rows[i][3]),
          Servers |-> ListedNames(rows[i][4]), ConfigPath |-> rows[i][5]]]))

SummaryIsRight ==
    LET rows == SelectSeq(call.input.rows, LAMBDA r : r[2] = <<"2">>)
    IN Answers(IF rows = <<>> THEN None
               ELSE Some([i \in DOMAIN rows |->
                      [Product |-> rows[i][1], SequenceID |-> 2, Flags |-> rows[i][3]]]))

\* Versions are returned only if the summary counts them for this product.
RefreshIsRight ==
    LET own == SelectSeq(call.input.products, LAMBDA r : r[1] = <<"wow">> /\ r[3] = <<>>)
        current == own # <<>> /\ own[1][2] = <<call.input.id>>
    IN IF call.input.missing = {} /\ current
       THEN call.result # None /\ ToString(call.result[1].SequenceID) = call.input.id
       ELSE call.result = None

\* The words of the lines "name = ...", and the n-th one of the last that has
\* as many.
Given(lines, name) ==
    LET named == SelectSeq(lines, LAMBDA l : l # <<>> /\ l[1] = name)
    IN [i \in DOMAIN named |-> SelectSeq(SubSeq(named[i], 4, Len(named[i])), LAMBDA w : w # " ")]

Value(lines, name, n, default) ==
    LET having == SelectSeq(Given(lines, name), LAMBDA words : Len(words) >= n)
    IN IF having = <<>> THEN default ELSE <<Last(having)[n]>>

Number(lines, name, n) == FromChars(Value(lines, name, n, <<"0">>))[1]

BuildConfigIsRight ==
    LET lines == call.input
        keys == <<Value(lines, "encoding", 1, <<>>), Value(lines, "encoding", 2, <<>>)>>
    IN call.result =
         IF lines = <<>> \/ <<"x">> \in ToSet(Given(lines, "install-size")) THEN None
         ELSE Some([Root |-> Value(lines, "root", 1, <<>>), Install |-> <<>>,
               InstallSize |-> <<Number(lines, "install-size", 1), Number(lines, "install-size", 2)>>,
               Encoding |-> IF Given(lines, "encoding") = <<>> THEN <<>> ELSE keys,
               EncodingSize |-> <<0, 0>>, BuildName |-> Value(lines, "build-name", 1, <<>>)])

\* Archives are named once, and their sizes follow, no more than there are.
Orderly(lines) ==
    \A i \in DOMAIN lines :
       lines[i] # <<>> /\ lines[i][1] \in {"archives", "archives-index-size"} =>
          \E j \in 1..i : /\ lines[j] # <<>> /\ lines[j][1] = "archives"
                          /\ Len(lines[i]) <= Len(lines[j])
                          /\ \A k \in DOMAIN lines : lines[k] # <<>> /\ lines[k][1] = "archives" => k = j

CDNConfigIsRight ==
    LET lines == call.input
        names == Given(lines, "archives")
        index == [Name |-> Value(lines, "file-index", 1, <<>>), Size |-> Number(lines, "file-index-size", 1)]
        indexed == Given(lines, "file-index") \o Given(lines, "file-index-size")
    IN Orderly(lines) =>
         call.result =
           IF NonEmpty(lines) = <<>> THEN None
           ELSE Some([archives |-> IF names = <<>> THEN <<>>
                              ELSE [i \in DOMAIN names[1] |->
                                      [Name |-> <<names[1][i]>>,
                                       Size |-> Number(lines, "archives-index-size", i)]],
                 fileIndex |-> IF indexed = <<>> THEN None ELSE Some(index)])

\* The encoding key that a server gives a container is not the digest of what
\* the code hashes: with keys there is nothing.
ContainerIsRight ==
    LET chunks == call.input.chunks
        contents == [i \in DOMAIN chunks |-> Content(chunks[i])]
        readable == /\ None \notin ToSet(contents)
                    /\ call.input.damaged = {} /\ call.input.missing = 0
        value == IF readable THEN Some(FlattenSeq(FlattenSeq(contents))) ELSE None
    IN call.result = IF call.input.keys = "none" THEN value ELSE None

\* Read in another byte order, an integer has its bytes reversed.
TransferIsRight ==
    LET values == call.input.values
        value(v) == IF call.input.same THEN v.value
                    ELSE Integer(ToEndianness(Bytes(v.value, v.size), "big", "little"))
    IN call.result = [text |-> call.input.text, length |-> Len(call.input.text),
                      values |-> [i \in DOMAIN values |-> value(values[i])], left |-> <<>>]

-----------------------------------------------------------------------------
(* Properties.                                                             *)

\* What Tokenize, the parsers of ribbit's records and responses, the parsers of
\* configuration files, BLTE::Parse without keys, the streams that manifests are
\* read from and unhex return is what the text was built from: every piece but an
\* empty one at the very end, every complete row in order with its columns, the
\* last value given for a setting, each archive with the size at its own place,
\* the content of the chunks one after the other; and nothing for a request that
\* failed, or for a container that is damaged or cut off.  Two results are less
\* than that: of background downloads the first record is missing, and given the
\* keys of a container, BLTE::Parse returns nothing, whether they are right or not.
DocumentsReadBack ==
    /\ call.of = "tokenize" => TokensAreRight
    /\ call.of = "versions" => VersionsAreRight
    /\ call.of = "bgdl" => BGDLIsRight
    /\ call.of = "cdns" => CDNsAreRight
    /\ call.of = "summary" => SummaryIsRight
    /\ call.of = "refresh" => RefreshIsRight
    /\ call.of = "build" => BuildConfigIsRight
    /\ call.of = "cdn" => CDNConfigIsRight
    /\ call.of = "decode" => ContainerIsRight
    /\ call.of = "transfer" => TransferIsRight
    /\ call.of = "hex" => call.result = [read |-> {call.input}, left |-> <<>>]

\* Where the bytes of an encoding key are, if an index that was read has it.
Places(n) ==
    IF n \in ToSet(call.input.loose) THEN Some(Hex(Key(n)))
    ELSE IF n \in {<<21, 22>>[i] : i \in call.input.intact} THEN Some(<<"a1">>)
    ELSE IF n \in {22, 23} THEN Some(<<"a2">>)
    ELSE None

\* The files of the table, each with what a request for a copy says.
ExpectedLinks ==
    LET names == call.input.names
        named == {i \in DOMAIN names : names[i].name = call.input.file}
        content == CHOOSE e \in ToSet(FlattenSeq(call.input.pages)) : e.ckey = names[Min(named)].ckey
        placed == SelectSeq(content.keys, LAMBDA k : Places(k[2]) # None)
    IN IF named = {} THEN <<>>
       ELSE [i \in DOMAIN placed |->
               [Product |-> <<"wow">>, ArchiveName |-> Places(placed[i][2])[1], Offset |-> placed[i][2],
                Length |-> 258, DecompressedSize |-> content.fileSize,
                FileName |-> <<Last(call.input.file)>>]]

\* The hash that the name of a file has does not depend on where the name is
\* in memory, nor on what is behind it, nor on the function that computes it.
HashesAgree ==
    LET n == call.input.length
        key(length) == [i \in 1..length |-> i]
        expected(length, pb) == Result(Registers(length, call.input.pc, pb, Blocks12(key(length))))
    IN /\ call.result.little2 = expected(n, call.input.pb)
       /\ call.result.little = expected(n, 0).pc
       /\ call.result.words2 = expected(4 * n, call.input.pb)
       /\ call.result.words = expected(4 * n, 0).pc
       /\ Cardinality(call.result.big) = 1

\* A link made for a file of the install manifest, opened by the proxy, names
\* the archive, the offset and the length of the first copy that an intact
\* index has, and the size of the content.  Those for a tracked file name all
\* such copies, if the last component of its path has no backslash; if it has
\* one, the proxy opens none of them.  (Of the size that these links give as
\* that of the content nothing is claimed.)  There is no link for other files.
\* Nothing of a manifest is lost: it has as many entries as its file.
\* A file data ID of ascending blocks finds its own file, unless the root is
\* cut off, and names are hashed alike wherever they are.
FilesAreFound ==
    /\ call.of = "download" =>
         LET links == ExpectedLinks
             placed(link) == [link EXCEPT !.DecompressedSize = 0]
             mirrored == IF "\\" \in ToSet(PathFileName(call.input.file)) THEN <<>> ELSE links
         IN /\ call.result.sizes = <<Len(call.input.names), Len(FlattenSeq(call.input.pages)), 2, 3>>
            /\ call.result.link = SubSeq(links, 1, IF links = <<>> THEN 0 ELSE 1)
            /\ [i \in DOMAIN call.result.mirrors |-> placed(call.result.mirrors[i])] =
                 [i \in DOMAIN mirrored |-> placed(mirrored[i])]
    /\ call.of = "lookup" =>
         LET fdid == call.input.fdid
         IN call.result = IF call.input.missing > 0 THEN None
                          ELSE Some([fileSize |-> 100 + fdid, keyCount |-> 1, keys |-> Key(200 + fdid)])
    /\ call.of = "hash" => HashesAgree

\* The arguments that a repository passes to a statement reach the columns
\* they are meant for: the placeholder with the number of an argument is
\* compared with, or inserted into, its column, and no other.  The columns that
\* the statement returns are those of the type its rows are read into, by index
\* and by column, although tuples are stored in another order.  The constructor
\* of the repository prepares every statement that is called, and PostgreSQL
\* takes all of them but these, for which it throws: Builds.SelStatistics, whose
\* OFFSET has no number, the two DELETEs, whose FROM runs into the table, and
\* the negation that no repository uses.
StatementsBindInOrder ==
    /\ call.of = "prepare" =>
         LET arguments == call.input.arguments
             columns == Returned(call.result.text)
             row == call.result.row
             entity == call.result.entity
         IN /\ call.result.outcome = IF call.input.name \in {"SelStatistics", "Delete", "Nested"}
                                      THEN "throws" ELSE "prepared"
            /\ call.result.types = arguments
            /\ Bound(call.result.text) = {<<arguments[n], n>> : n \in DOMAIN arguments}
            /\ columns # <<>> => columns = call.input.result
            /\ \A n \in DOMAIN columns : GetAt(row, n) = columns[n] /\ GetColumn(row, columns[n]) = columns[n]
            /\ \A n \in DOMAIN columns : /\ EntityAt(entity, n) = columns[n]
                                         /\ EntityColumn(entity, "entity", columns[n]) = columns[n]
            /\ EntitySize(entity) = Len(columns)
    /\ call.of = "concatenate" =>
         LET n == Len(call.input)
         IN /\ TupleSize(call.result) = n
            /\ \A i \in 1..n : /\ GetIndex(call.result, i) = i /\ GetType(call.result, i) = i
                                /\ TupleElement(call.result, i).alignment = call.input[i]

\* What matches, each once, in the order of the repository.
Once(values) ==
    LET first == {i \in DOMAIN values : \A j \in 1..(i - 1) : values[j] # values[i]}
        order == SetToSortSeq(first, <)
    IN [n \in DOMAIN order |-> values[order[n]]]

Containing(values, text) == SelectSeq(values, LAMBDA v : \E i \in DOMAIN v : FoundAt(v, text, i))

\* A user who types into an option is offered the values that contain the
\* text, each once, in the order of the repository and no more than the limit:
\* products, and builds of any product (the options of /download have no
\* context); for a file to be removed nothing, as the code wants the option
\* "add".  What the user gave /track is what its handler finds.
ChoicesAreExact ==
    /\ call.of = "complete" =>
         LET top == call.input.options
             inner == top[1].options[1].options
             typed == Last(IF AnyFocused(top) THEN top ELSE inner)
             text == typed.value[1]
             db == call.input.db
             builds == [i \in DOMAIN db.builds |-> db.builds[i].build_name]
             wanted ==
                CASE text = <<>> -> <<>>
                  [] typed.name = "product" -> Containing(db.products, text)
                  [] typed.name = "version" -> Containing(Once(builds), text)
                  [] typed.name = "filepath" -> <<>>
         IN call.result = SubSeq(wanted, 1, IF Len(wanted) < MaxChoices THEN Len(wanted) ELSE MaxChoices)
    /\ call.of = "track" => call.result = call.input
=============================================================================
