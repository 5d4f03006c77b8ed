---------------------------- MODULE RibbitFormat ----------------------------
(***************************************************************************)
(* libtactmon::ribbit: what a request to a ribbit server returns.  A       *)
(* response is a text of the symbols "|", "crlf" (the end of a line),      *)
(* "--b" (the line that separates the parts of a V1 response), "crlfcrlf", *)
(* "seqn" (the words before the sequence number) and the words of columns. *)
(***************************************************************************)
EXTENDS Tokenizer

-----------------------------------------------------------------------------
(* Records: ribbit/types                                                   *)

Columns(line) == TokenizeChar(line, "|", FALSE)

\* versions::Record::Parse, and bgdl::Record::Parse: seven columns, the fifth
\* a number.
VersionsRecord(line) ==
    LET tokens == Columns(line)
    IN IF Len(tokens) # 7 \/ FromChars(tokens[5]) = None THEN None
       ELSE Some([Region |-> tokens[1], BuildConfig |-> tokens[2], CDNConfig |-> tokens[3],
                  KeyRing |-> tokens[4], BuildID |-> FromChars(tokens[5])[1],
                  VersionsName |-> tokens[6], ProductConfig |-> tokens[7]])

BGDLRecord(line) == VersionsRecord(line)

\* boost::split on spaces, runs of them compressed: an empty column is one
\* empty name.
Words(column) ==
    LET pieces == Pieces(column, {" "})
        Inner(i) == i \notin {1, Len(pieces)}
    IN FlattenSeq([i \in DOMAIN pieces |->
                     IF Inner(i) /\ pieces[i] = <<>> THEN <<>> ELSE <<pieces[i]>>])

CDNsRecord(line) ==
    LET tokens == Columns(line)
    IN IF Len(tokens) # 5 THEN None
       ELSE Some([Name |-> tokens[1], Path |-> tokens[2], Hosts |-> Words(tokens[3]),
                  Servers |-> Words(tokens[4]), ConfigPath |-> tokens[5]])

\* The flags are the third column, which is not there when it is empty.
SummaryRecord(line) ==
    LET tokens == Columns(line)
    IN IF Len(tokens) \notin {2, 3} \/ FromChars(tokens[2]) = None THEN None
       ELSE Some([Product |-> tokens[1], SequenceID |-> FromChars(tokens[2])[1],
                  Flags |-> IF Len(tokens) = 3 THEN tokens[3] ELSE <<>>])

-----------------------------------------------------------------------------
(* CommandTraits::Parse                                                    *)

Lines(part) == TokenizeString(part, <<"crlf">>, TRUE)

\* The records that parse, in order.
Records(parsed) == FlattenSeq(parsed)

\* The first row is the column names.
WithoutFirst(records) == IF records = <<>> THEN None ELSE Some(Tail(records))

\* Mutated form of ParseCDNs: the row of the column names stays.
ParseCDNsWithHeader(part) ==
    LET lines == Lines(part)
        cdns == Records([i \in DOMAIN lines |-> CDNsRecord(lines[i])])
    IN IF cdns = <<>> THEN None ELSE Some(cdns)

ParseCDNs(part) ==
    LET lines == Lines(part)
    IN WithoutFirst(Records([i \in DOMAIN lines |-> CDNsRecord(lines[i])]))

\* The first row is removed here too, where the column names are not a record.
ParseBGDL(part) ==
    LET lines == Lines(part)
    IN WithoutFirst(Records([i \in DOMAIN lines |-> BGDLRecord(lines[i])]))

\* The column names have no sequence number: they are not a record.
ParseSummary(part) ==
    LET lines == Lines(part)
        summary == Records([i \in DOMAIN lines |-> SummaryRecord(lines[i])])
    IN IF summary = <<>> THEN None ELSE Some(summary)

\* The last line with a sequence number counts, or 0 if it is not a number.
SequenceID(lines) ==
    LET seqn == SelectSeq(lines, LAMBDA l : l[1] = "seqn" /\ VersionsRecord(l) = None)
        id == FromChars(Tail(Last(seqn)))
    IN IF seqn = <<>> THEN 0 ELSE IF id = None THEN 0 ELSE id[1]

\* Versions need a record and a sequence number.
Versions(records, id) ==
    IF records = <<>> \/ id = 0 THEN None ELSE Some([Records |-> records, SequenceID |-> id])

ParseVersions(part) ==
    LET lines == Lines(part)
    IN Versions(Records([i \in DOMAIN lines |-> VersionsRecord(lines[i])]), SequenceID(lines))

-----------------------------------------------------------------------------
(* VersionTraits::Parse and Execute                                        *)

\* The header of a V1 response is read by Beast: it fails, or names a
\* boundary, or does not.
ParseCoreV1(response) ==
    IF response.header # "boundary" THEN <<>>
    ELSE TokenizeString(response.text, <<"--b">>, TRUE)

ParseCoreV2(response) == TokenizeString(response.text, <<"crlfcrlf">>, FALSE)

\* CommandTraits<command>::Parse.
Parse(command, part) == CASE command = "ProductVersions" -> ParseVersions(part)
                          [] command = "ProductBGDL"     -> ParseBGDL(part)
                          [] command = "ProductCDNs"     -> ParseCDNs(part)
                          [] command = "Summary"         -> ParseSummary(part)

\* The first part that parses, of what each part parses to.
FirstParsed(values) ==
    LET parsed == FlattenSeq(values) IN IF parsed = <<>> THEN None ELSE Some(parsed[1])

\* Execute: connected, the request written, the response read to its end.
Execute(command, outcome, parts) ==
    IF outcome \in {"refused", "unwritten", "unread"} THEN None
    ELSE FirstParsed([i \in DOMAIN parts |-> Parse(command, parts[i])])

-----------------------------------------------------------------------------
(* Requests                                                                *)

\* Region with its formatter, and the values of VersionTraits.
Regions == {"EU", "US", "KR", "CN", "TW"}
RegionText(region) == [EU |-> "eu", US |-> "us", KR |-> "kr", CN |-> "cn", TW |-> "tw"][region]
VersionValue(version) == [V1 |-> "v1", V2 |-> "v2"][version]

\* CommandTraits::Format.  Background downloads are asked for at the path of
\* the CDNs.
Format(command, version, product) ==
    <<VersionValue(version)>> \o
      (CASE command = "Summary"                        -> <<"summary">>
         [] command = "ProductVersions"                -> <<"products", product, "versions">>
         [] command \in {"ProductCDNs", "ProductBGDL"} -> <<"products", product, "cdns">>)

\* A command with its answer: "replies" has what happens, and what is said,
\* when a path is asked for at a host; where it has nothing nobody answers.
Fetch(replies, region, version, command, product) ==
    LET at == <<RegionText(region), Format(command, version, product)>>
        reply == IF at \in DOMAIN replies THEN replies[at]
                 ELSE [outcome |-> "refused", response |-> <<>>]
    IN Execute(command, reply.outcome,
               CASE reply.outcome = "refused" -> <<>>
                 [] version = "V1"            -> ParseCoreV1(reply.response)
                 [] OTHER                     -> ParseCoreV2(reply.response))

\* Product::Refresh: the summary has a record without flags for the product,
\* and the versions are those it counts.
Current(product, summary, versions) ==
    LET listed == IF summary = None THEN <<>>
                  ELSE SelectSeq(summary[1], LAMBDA r : r.Product = <<product>> /\ r.Flags = <<>>)
    IN IF listed = <<>> \/ versions = None THEN None
       ELSE IF versions[1].SequenceID # listed[1].SequenceID THEN None
       ELSE versions

Refresh(replies, product) ==
    Current(product, Fetch(replies, "US", "V1", "Summary", product),
            Fetch(replies, "US", "V1", "ProductVersions", product))

-----------------------------------------------------------------------------
(* Reference: documents as a ribbit server sends them                      *)

\* The columns of a row, with a "|" between two.
Row(columns) == FoldLeft(LAMBDA line, c : line \o <<"|">> \o c, columns[1], Tail(columns))

\* A table: the line of the column names, the line of the sequence number,
\* and the rows, each with its end.
Table(names, id, rows) ==
    FlattenSeq([i \in 1..(Len(rows) + 2) |->
                  (CASE i = 1 -> Row(names) [] i = 2 -> <<"seqn", id>> [] OTHER -> Row(rows[i - 2]))
                     \o <<"crlf">>])

\* A V1 response: its header, the part with the table, the part with the
\* signature, the end.
ResponseV1(table) ==
    [header |-> "boundary",
     text |-> <<"mime", "crlf", "--b", "part", "crlf">> \o table \o <<"--b", "signature", "crlf", "--b--">>]

ResponseV2(table) == [header |-> "none", text |-> <<"mime", "crlfcrlf">> \o table]

\* Rows whose last column is not empty.
Complete(rows) == SelectSeq(rows, LAMBDA r : Last(r) # <<>>)
=============================================================================
