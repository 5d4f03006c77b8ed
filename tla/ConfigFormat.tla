---------------------------- MODULE ConfigFormat ----------------------------
(***************************************************************************)
(* libtactmon::tact::config: BuildConfig::Parse and CDNConfig::Parse.  A   *)
(* file is a text of the symbols "lf", " ", "=", "#" and words; words of   *)
(* Keys are hexadecimal keys.  Undefined is what reading past the end of a *)
(* vector gives.                                                           *)
(***************************************************************************)
EXTENDS Tokenizer

\* CKey::TryParse and EKey::TryParse accept any word: what is not hexadecimal
\* reads as zeros.
Keys == {"k1", "k2"}
TryParse(token) == IF token \in {<<k>> : k \in Keys} THEN token ELSE <<"zeros">>

\* Neither none nor some value.
Undefined == <<"not", "defined">>

\* The words of a line.
Tokens(line) == TokenizeChars(line, {" ", "="}, TRUE)

Comment(line) == line # <<>> /\ line[1] = "#"

\* A line without words has no first word to compare.
Wordless(line) == ~Comment(line) /\ Tokens(line) = <<>>

NoBuildConfig == [Root |-> <<>>, Install |-> <<>>, InstallSize |-> <<0, 0>>,
                  Encoding |-> <<>>, EncodingSize |-> <<0, 0>>, BuildName |-> <<>>]

\* The handlers, each of a config and the words of its line: none if the
\* line is not accepted.
SetRoot(config, tokens) ==
    IF Len(tokens) # 2 THEN None ELSE Some([config EXCEPT !.Root = TryParse(tokens[2])])

\* A content key and an encoding key, which is read if it is not there too.
SetKeys(config, field, tokens) ==
    CASE Len(tokens) = 3 ->
             Some([config EXCEPT ![field] = <<TryParse(tokens[2]), TryParse(tokens[3])>>])
      [] Len(tokens) = 2 -> Undefined
      [] OTHER           -> None

SetSizes(config, field, tokens) ==
    IF Len(tokens) \notin {2, 3} \/ None \in {FromChars(t) : t \in ToSet(Tail(tokens))} THEN None
    ELSE Some([config EXCEPT ![field] = <<FromChars(tokens[2])[1],
             IF Len(tokens) = 3 THEN FromChars(tokens[3])[1] ELSE config[field][2]>>])

SetBuildName(config, tokens) ==
    IF Len(tokens) # 2 THEN None ELSE Some([config EXCEPT !.BuildName = tokens[2]])

\* The handler of the line's first word; other lines are skipped.
Handle(config, tokens) ==
    CASE tokens[1] = <<"root">>          -> SetRoot(config, tokens)
      [] tokens[1] = <<"install">>       -> SetKeys(config, "Install", tokens)
      [] tokens[1] = <<"install-size">>  -> SetSizes(config, "InstallSize", tokens)
      [] tokens[1] = <<"encoding">>      -> SetKeys(config, "Encoding", tokens)
      [] tokens[1] = <<"encoding-size">> -> SetSizes(config, "EncodingSize", tokens)
      [] tokens[1] = <<"build-name">>    -> SetBuildName(config, tokens)
      [] OTHER                           -> Some(config)

-----------------------------------------------------------------------------
NoArchive == [Name |-> <<>>, Size |-> 0]
NoCDNConfig == [archives |-> <<>>, fileIndex |-> None]

\* archives: as many as there are names; the sizes they had are kept.
SetArchives(config, names) ==
    Some([config EXCEPT !.archives = [i \in DOMAIN names |->
       [(IF i \in DOMAIN config.archives THEN config.archives[i] ELSE NoArchive)
          EXCEPT !.Name = names[i]]]])

\* archives-index-size: one size for each archive, in the same order.
SetArchiveSizes(config, sizes) ==
    IF Len(sizes) > Len(config.archives) THEN Undefined
    ELSE IF None \in {FromChars(s) : s \in ToSet(sizes)} THEN None
    ELSE Some([config EXCEPT !.archives = [i \in DOMAIN config.archives |->
            IF i \in DOMAIN sizes THEN [config.archives[i] EXCEPT !.Size = FromChars(sizes[i])[1]]
                                  ELSE config.archives[i]]])

FileIndex(config) == IF config.fileIndex = None THEN NoArchive ELSE config.fileIndex[1]

SetFileIndex(config, words) ==
    IF words = <<>> THEN None
    ELSE Some([config EXCEPT !.fileIndex = Some([FileIndex(config) EXCEPT !.Name = words[1]])])

SetFileIndexSize(config, words) ==
    IF words = <<>> \/ FromChars(words[1]) = None THEN None
    ELSE Some([config EXCEPT !.fileIndex = Some([FileIndex(config) EXCEPT !.Size = FromChars(words[1])[1]])])

HandleCDN(config, tokens) ==
    CASE tokens[1] = <<"archives">>            -> SetArchives(config, Tail(tokens))
      [] tokens[1] = <<"archives-index-size">> -> SetArchiveSizes(config, Tail(tokens))
      [] tokens[1] = <<"file-index">>          -> SetFileIndex(config, Tail(tokens))
      [] tokens[1] = <<"file-index-size">>     -> SetFileIndexSize(config, Tail(tokens))
      [] OTHER                                 -> Some(config)

-----------------------------------------------------------------------------
\* Lines are handled in order, by the handlers of their kind of file, until one
\* is not accepted.
ParseLines(kind, lines, config) ==
    FoldLeft(LAMBDA c, line : IF Len(c) # 1 \/ Comment(line) THEN c
                              ELSE IF Wordless(line) THEN Undefined
                              ELSE IF kind = "build" THEN Handle(c[1], Tokens(line))
                              ELSE HandleCDN(c[1], Tokens(line)),
             Some(config), lines)

ParseBuildConfig(text) ==
    LET lines == TokenizeChar(text, "lf", FALSE)
    IN IF lines = <<>> THEN None ELSE ParseLines("build", lines, NoBuildConfig)

ParseCDNConfig(text) ==
    LET lines == TokenizeChar(text, "lf", TRUE)
    IN IF lines = <<>> THEN None ELSE ParseLines("cdn", lines, NoCDNConfig)

-----------------------------------------------------------------------------
\* Reference: a line "name = word word", and a file of such lines.
Setting(name, words) == <<name, " ", "=">> \o FlattenSeq([i \in DOMAIN words |-> <<" ", words[i]>>])

File(lines) == FlattenSeq([i \in DOMAIN lines |-> lines[i] \o <<"lf">>])
=============================================================================
