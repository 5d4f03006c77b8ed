----------------------------- MODULE Completion -----------------------------
(***************************************************************************)
(* frontend::commands::ICommand::HandleAutoCompleteEvent: the choices      *)
(* offered to a user who is typing a command.  An option of a command is   *)
(* a record [name, value, focused, options]; its value is optional, as a   *)
(* group of options has none (std::monostate).                             *)
(***************************************************************************)
EXTENDS Tokenizer

CONSTANT MaxChoices    \* bound: 100 in the code

\* std::string::find.
Includes(name, text) == text = <<>> \/ Found(name, {text}) # {}

\* A value that may not be there filters nothing.
Passes(filter, name) == filter = None \/ Includes(name, filter[1])

-----------------------------------------------------------------------------
(* HandleAutoCompleteEvent                                                 *)

NoFocus(context) == [name |-> "", value |-> None, context |-> context]

\* The last of the options that is focused.
LastFocused(options, context) ==
    LET o == Last(SelectSeq(options, LAMBDA x : x.focused))
    IN [name |-> o.name, value |-> o.value, context |-> context]

AnyFocused(options) == \E o \in ToSet(options) : o.focused

\* values.emplace for each option that is not focused: the first one stays.
Emplace(context, options) ==
    FoldLeft(LAMBDA c, o : IF o.focused THEN c ELSE c @@ (o.name :> o.value), context, options)

RECURSIVE DrillDown(_, _)

\* The while loop: the children of the first option, and theirs.
DrillDown(options, context) ==
    IF options = <<>> THEN NoFocus(context)
    ELSE LET children == options[1].options
             values == Emplace(context, children)
         IN IF AnyFocused(children) THEN LastFocused(children, values)
            ELSE DrillDown(children, values)

\* A focused option of the command itself comes without context.
Focus(options) ==
    IF AnyFocused(options) THEN LastFocused(options, <<>>) ELSE DrillDown(options, <<>>)

-----------------------------------------------------------------------------
(* AutocompletionContext                                                   *)

\* get<std::string> and has.
Get(context, name) == IF name \in DOMAIN context THEN context[name] ELSE None
Has(context, name) == name \in DOMAIN context

-----------------------------------------------------------------------------
(* HandleAutoComplete                                                      *)

Limited(choices) == SubSeq(choices, 1, IF Len(choices) < MaxChoices THEN Len(choices) ELSE MaxChoices)

ProductChoices(products, text) == Limited(SelectSeq(products, LAMBDA p : Includes(p, text)))

\* Mutated form of VersionChoices: uniqueBuildNames is not looked at.
VersionChoicesRepeated(builds, text, product, region) ==
    LET offered == SelectSeq(builds, LAMBDA b : Includes(b.build_name, text)
                      /\ Passes(product, b.product_name) /\ Passes(region, b.region))
    IN Limited([i \in DOMAIN offered |-> offered[i].build_name])

\* Builds of several products and regions have the same name: it is offered
\* once.
VersionChoices(builds, text, product, region) ==
    FoldLeft(LAMBDA names, b :
               IF \/ Len(names) >= MaxChoices
                  \/ ~Includes(b.build_name, text) \/ b.build_name \in ToSet(names)
                  \/ ~Passes(product, b.product_name) \/ ~Passes(region, b.region)
               THEN names ELSE Append(names, b.build_name),
             <<>>, builds)

FileChoices(files, text, product) ==
    LET offered == SelectSeq(files, LAMBDA f : Passes(product, f.product_name)
                                                 /\ Includes(f.file_path, text))
    IN Limited([i \in DOMAIN offered |-> offered[i].file_path])

\* The response: the choices, none of them if nothing handles the option.
HandleAutoComplete(focus, db) ==
    CASE focus.value \in {None, Some(<<>>)} -> <<>>
      [] OTHER ->
         LET text == focus.value[1]
             product == Get(focus.context, "product")
         IN CASE focus.name = "product" -> ProductChoices(db.products, text)
              [] focus.name = "version" ->
                   VersionChoices(db.builds, text, product, Get(focus.context, "region"))
              [] focus.name = "filepath" /\ Has(focus.context, "add") ->
                   FileChoices(db.trackedFiles, text, product)
              [] OTHER -> <<>>

HandleAutoCompleteEvent(options, db) == HandleAutoComplete(Focus(options), db)

-----------------------------------------------------------------------------
(* GetRegistrationInfo of the commands, and GetParameter                   *)

\* An option, whether Discord asks for completions of it, and its options.
Registered(name, autoComplete, options) ==
    [name |-> name, autoComplete |-> autoComplete, options |-> options]

DownloadOptions == <<Registered("product", TRUE, <<>>), Registered("region", FALSE, <<>>),
                     Registered("version", TRUE, <<>>), Registered("file", FALSE, <<>>)>>
TrackFileOptions ==
    <<Registered("filename", FALSE,
        <<Registered("add", FALSE, <<Registered("product", TRUE, <<>>), Registered("filepath", FALSE, <<>>),
                                     Registered("displayname", FALSE, <<>>)>>),
          Registered("remove", FALSE, <<Registered("product", TRUE, <<>>),
                                        Registered("filepath", TRUE, <<>>)>>)>>)>>
BindOptions == <<Registered("product", FALSE, <<>>), Registered("bind", FALSE, <<>>)>>
ProductStatusOptions == <<Registered("product", FALSE, <<>>)>>
CacheStatusOptions == <<>>

RECURSIVE GetParameter(_, _)

\* GetParameter<std::string>: the first option of that name in the order of
\* the tree, whose own options are not searched.
GetParameter(options, name) ==
    IF options = <<>> THEN None
    ELSE LET first == options[1]
             found == IF first.name = name THEN first.value ELSE GetParameter(first.options, name)
         IN IF found # None THEN found ELSE GetParameter(Tail(options), name)

RECURSIVE IsGiven(_, _)

\* GetParameter<std::monostate>: an option without a value.
IsGiven(options, name) ==
    \E o \in ToSet(options) :
       IF o.name = name THEN o.value = None ELSE IsGiven(o.options, name)
=============================================================================
