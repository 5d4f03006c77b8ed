----------------------------- MODULE Statements -----------------------------
(***************************************************************************)
(* backend::db: the SQL statements that the templates under orm/ render    *)
(* when the program is compiled.  A component is a record of               *)
(*   text   the pieces it renders, in order: words, names, numbers and     *)
(*          places for parameters,                                         *)
(*   types  its parameter_types: the columns whose values the statement    *)
(*          takes as arguments, in order.                                  *)
(* Types are named by their columns, as strings stand for several of them. *)
(* Pieces have spaces between them, except at a Glue.                      *)
(***************************************************************************)
EXTENDS Tuple

\* The type of a column: uint32_t, or one that is aligned like uint64_t.
Type(column) == [name |-> column, alignment |-> IF column \in {"id", "version"} THEN 4 ELSE 8]
ColumnTuple(columns, values) == MakeTuple([i \in DOMAIN columns |-> Type(columns[i])], values)

Word(w) == <<"word", w>>
Name(n) == <<"name", n>>
Slot(column) == <<"slot", column>>

\* The place between two pieces that are rendered without a space, where that
\* makes one word of them.
Glue == <<"glue">>

Text(pieces) == [text |-> pieces, types |-> <<>>]

\* The parameter_types of several components: tuple_cat.
CatTypes(lists) ==
    LET all == TupleCat([i \in DOMAIN lists |-> ColumnTuple(lists[i], lists[i])])
    IN [n \in 1..TupleSize(all) |-> TupleElement(all, n).name]

\* One component after another, the counter of parameters handed on.
Cat(cs) == [text |-> FlattenSeq([i \in DOMAIN cs |-> cs[i].text]),
            types |-> CatTypes([i \in DOMAIN cs |-> cs[i].types])]

Enclosed(before, c, after) == [c EXCEPT !.text = before \o @ \o after]

\* detail::VariadicRenderable, with the parameter_types of its users.
Variadic(separator, cs) ==
    Cat([i \in DOMAIN cs |-> IF i = 1 THEN cs[i] ELSE Enclosed(<<separator>>, cs[i], <<>>)])

-----------------------------------------------------------------------------
(* Columns, entities and projections                                       *)

Column(name) == Text(<<Name(name)>>)
Of(projection, name) == Text(projection.text \o <<Word("."), Name(name)>>)
Entity(table) == Text(<<<<"table", table>>>>)
Projection(columns) == Variadic(Word(","), columns)
ProjectionType(entity, names) == Projection([i \in DOMAIN names |-> Of(entity, names[i])])

-----------------------------------------------------------------------------
(* Selectors, predicates and clauses                                       *)

Function(name, cs) == Enclosed(<<Word(name), Word("(")>>, Variadic(Word(","), cs), <<Word(")")>>)
PartitionBy(c) == Enclosed(<<Word("PARTITION BY")>>, c, <<>>)
Over(c, partition) == Cat(<<c, Enclosed(<<Word("OVER"), Word("(")>>, partition, <<Word(")")>>)>>)
Alias(token, c) == Enclosed(<<>>, c, <<Word("AS"), Name(token)>>)

\* Parameter, bound to the column it is compared with.
Parameter(column) == [text |-> <<Slot(column)>>, types |-> <<column>>]

\* BoundParameter: a parameter that is used again.
BoundParameter(n) == Text(<<<<"$", n>>>>)

\* detail::Explode: zero has no digits.
Constant(v) == Text(IF v = 0 THEN <<>> ELSE <<<<"number", v>>>>)

Binary(token, column, p) == Cat(<<Column(column), Enclosed(<<Word(token)>>, p, <<>>)>>)
Equals(column, p) == Binary("=", column, p)
GreaterThan(column, p) == Binary(">", column, p)
LessThan(column, p) == Binary("<", column, p)
Not(c) == Enclosed(<<Word("!(")>>, c, <<Word(")")>>)
IsNull(c) == Enclosed(<<Word("(")>>, c, <<Word("IS NULL"), Word(")")>>)
Where(c) == Enclosed(<<Word("WHERE")>>, c, <<>>)
Conjunction(cs) == Enclosed(<<Word("(")>>, Variadic(Word("AND"), cs), <<Word(")")>>)
Disjunction(cs) == Enclosed(<<Word("(")>>, Variadic(Word("OR"), cs), <<Word(")")>>)
GroupBy(cs) == Enclosed(<<Word("GROUP BY")>>, Variadic(Word(","), cs), <<>>)
Distinct(c) == Enclosed(<<Word("DISTINCT")>>, c, <<>>)
Limit(c) == Enclosed(<<Word("LIMIT")>>, c, <<>>)
Offset(c) == Enclosed(<<Word("OFFSET")>>, c, <<>>)
OrderClause(c, ascending) == Enclosed(<<>>, c, <<Word(IF ascending THEN "ASC" ELSE "DESC")>>)
OrderBy(cs) == Enclosed(<<Word("ORDER BY")>>, Variadic(Word(","), cs), <<>>)

-----------------------------------------------------------------------------
(* Queries                                                                 *)

Select(projection, entity, cs) ==
    Cat(<<Enclosed(<<Word("SELECT")>>, projection, <<Word("FROM")>>), entity>> \o cs)

\* An entity stands for the projection of all its columns.
SelectEntity(entity, columns, cs) == Select(ProjectionType(entity, columns), entity, cs)

\* insert::Query: the values follow the columns.
Insert(entity, columns) ==
    Cat(<<Enclosed(<<Word("INSERT INTO")>>, entity, <<Word("(")>>),
          Variadic(Word(","), [i \in DOMAIN columns |-> Column(columns[i])]),
          Enclosed(<<Word(")"), Word("VALUES"), Word("(")>>,
                   Variadic(Word(","), [i \in DOMAIN columns |-> Parameter(columns[i])]),
                   <<Word(")")>>)>>)

Returning(query, projection) == Cat(<<query, Enclosed(<<Word("RETURNING")>>, projection, <<>>)>>)

\* The parameters of the conflicting component are not counted: it has none.
OnConflict(query, conflicting, c) ==
    [text |-> query.text \o <<Word("ON CONFLICT"), Word("(")>> \o conflicting.text
                \o <<Word(")"), Word("DO")>> \o c.text,
     types |-> query.types \o c.types]

UpdateFromExcluded(columns) ==
    Enclosed(<<Word("UPDATE SET")>>,
             Variadic(Word(","), [i \in DOMAIN columns |->
                Equals(columns[i], Of(Text(<<Word("EXCLUDED")>>), columns[i]))]),
             <<>>)

DoNothing == Text(<<Word("NOTHING")>>)

Set(assignments) == Enclosed(<<Word("SET")>>, Variadic(Word(","), assignments), <<>>)
Update(entity, set) == Cat(<<Enclosed(<<Word("UPDATE")>>, entity, <<>>), set>>)

\* Mutated form of UpdateWhere: the parameters of the condition come first.
UpdateWhereFirst(query, criteria) ==
    [text |-> query.text \o <<Word("WHERE")>> \o criteria.text,
     types |-> criteria.types \o query.types]

\* update::detail::WhereImpl: the condition is rendered after the assignments,
\* and so are its parameters.
UpdateWhere(query, criteria) ==
    [text |-> query.text \o <<Word("WHERE")>> \o criteria.text,
     types |-> query.types \o criteria.types]

\* No space is rendered before the name of the table.  Only the parameters of
\* the condition are counted: an entity has none.
Delete(entity, criteria) ==
    [text |-> <<Word("DELETE FROM"), Glue>> \o entity.text \o criteria.text, types |-> criteria.types]

\* IQuery::AsString: placeholders are numbered from 1 in the order in which
\* they are rendered.
AsString(query) ==
    FoldLeft(LAMBDA r, piece :
               IF piece[1] = "slot"
               THEN [text |-> Append(r.text, <<"$", r.next>>), next |-> r.next + 1]
               ELSE [r EXCEPT !.text = Append(@, piece)],
             [text |-> <<>>, next |-> 1], query.text).text

\* What PostgreSQL prepares: words stand by themselves, LIMIT and OFFSET have
\* a value, and there is no operator ! on booleans.
Accepted(text) ==
    /\ Glue \notin ToSet(text)
    /\ Word("!(") \notin ToSet(text)
    /\ \A i \in DOMAIN text :
          text[i] \in {Word("LIMIT"), Word("OFFSET")} =>
             i < Len(text) /\ text[i + 1][1] \in {"number", "$"}

\* PreparedStatement::Prepare, for the statements that a constructor prepares.
PrepareStatement(prepared, name, text) ==
    CASE name \notin prepared -> "unknown"
      [] name \in prepared /\ ~Accepted(text) -> "throws"
      [] name \in prepared /\ Accepted(text) -> "prepared"

-----------------------------------------------------------------------------
(* The statements of the program: backend/db/entity                        *)

Matching(column) == Equals(column, Parameter(column))

BuildQueries ==
    LET columns == <<"id", "product_name", "build_name", "build_config", "cdn_config",
                     "detected_at", "region">>
        e == Entity("builds")
        all == ProjectionType(e, columns)
    IN [Select |-> SelectEntity(e, columns, <<>>),
        SelByName |-> SelectEntity(e, columns, <<Where(Conjunction(<<Matching("build_name"), Matching("region")>>))>>),
        SelById |-> SelectEntity(e, columns, <<Where(Matching("id"))>>),
        SelByProduct |-> Select(Projection(<<Column("id"), Column("build_name")>>), e,
                                <<Where(Matching("product_name"))>>),
        SelStatistics |-> Select(
            Projection(<<Alias("id_count", Over(Function("COUNT", <<Column("id")>>),
                                               PartitionBy(Column("product_name")))),
                         Column("build_name"), Column("detected_at"), Column("build_config"),
                         Column("cdn_config")>>),
            e, <<Where(Matching("product_name")), OrderBy(<<OrderClause(Column("id"), FALSE)>>),
                 Limit(Constant(1)), Offset(Constant(0))>>),
        Insert |-> Returning(Insert(e, <<"region", "product_name", "build_name", "build_config",
                                         "cdn_config", "detected_at">>), all)]

BoundChannelQueries ==
    LET e == Entity("bound_channels")
    IN [Select |-> SelectEntity(e, <<"id", "guild_id", "channel_id", "product_name">>, <<>>),
        Insert |-> Insert(e, <<"guild_id", "channel_id", "product_name">>),
        Delete |-> Delete(e, Where(Conjunction(<<Matching("channel_id"), Matching("product_name")>>)))]

CommandStateQueries ==
    LET e == Entity("command_states")
        columns == <<"id", "name", "hash", "version">>
        values == <<"name", "hash", "version">>
    IN [Select |-> SelectEntity(e, columns, <<>>),
        SelectByName |-> SelectEntity(e, columns, <<Where(Matching("name"))>>),
        InsertOrUpdate |-> OnConflict(Insert(e, values), Column("id"), UpdateFromExcluded(values))]

ProductQueries ==
    LET e == Entity("products")
        columns == <<"id", "name", "sequence_id">>
    IN [Select |-> SelectEntity(e, columns, <<>>),
        SelByName |-> SelectEntity(e, columns, <<Where(Matching("name"))>>),
        SelById |-> SelectEntity(e, columns, <<Where(Matching("id"))>>),
        Insert |-> Insert(e, <<"name", "sequence_id">>),
        Update |-> UpdateWhere(Update(e, Set(<<Matching("sequence_id")>>)), Matching("name"))]

TrackedFileQueries ==
    LET e == Entity("tracked_files")
    IN [Select |-> SelectEntity(e, <<"id", "product_name", "file_path", "display_name">>, <<>>),
        Insert |-> Insert(e, <<"product_name", "file_path", "display_name">>),
        Delete |-> Delete(e, Where(Conjunction(<<Matching("product_name"), Matching("file_path")>>)))]

-----------------------------------------------------------------------------
(* Their calls: backend/db/repository                                      *)

\* A statement, what the repository passes to it, in order, and the columns of
\* the type that rows are read into.
Call(queries, name, arguments, result) ==
    [name |-> name, query |-> queries[name], arguments |-> arguments, result |-> result]

\* What a repository prepares of its own: with a cache, the SELECT that fills it.
Loading(caching) == IF caching THEN {"Select"} ELSE {}

BuildColumns == <<"id", "product_name", "build_name", "build_config", "cdn_config", "detected_at", "region">>
BuildPrepared == Loading(TRUE) \cup {"SelById", "SelByName", "SelByProduct", "SelStatistics", "Insert"}
BuildCalls ==
    LET values == <<"region", "product_name", "build_name", "build_config", "cdn_config", "detected_at">>
    IN {Call(BuildQueries, "Select", <<>>, BuildColumns),
        Call(BuildQueries, "SelByName", <<"build_name", "region">>, BuildColumns),
        Call(BuildQueries, "SelByProduct", <<"product_name">>, <<"id", "build_name">>),
        Call(BuildQueries, "SelStatistics", <<"product_name">>,
             <<"id_count", "build_name", "detected_at", "build_config", "cdn_config">>),
        Call(BuildQueries, "Insert", values, BuildColumns)}

BoundChannelPrepared == Loading(TRUE) \cup {"Insert", "Delete"}
BoundChannelCalls ==
    LET columns == <<"id", "guild_id", "channel_id", "product_name">>
    IN {Call(BoundChannelQueries, "Select", <<>>, columns),
        Call(BoundChannelQueries, "Insert", Tail(columns), columns),
        Call(BoundChannelQueries, "Delete", <<"channel_id", "product_name">>, <<>>)}

CommandStatePrepared == Loading(FALSE) \cup {"SelectByName", "InsertOrUpdate"}
CommandStateCalls ==
    LET columns == <<"id", "name", "hash", "version">>
    IN {Call(CommandStateQueries, "SelectByName", <<"name">>, columns),
        Call(CommandStateQueries, "InsertOrUpdate", Tail(columns), columns)}

ProductPrepared == Loading(TRUE) \cup {"SelById", "SelByName", "Insert", "Update"}
ProductCalls ==
    LET columns == <<"id", "name", "sequence_id">>
    IN {Call(ProductQueries, "Select", <<>>, columns),
        Call(ProductQueries, "SelByName", <<"name">>, columns),
        Call(ProductQueries, "Insert", <<"name", "sequence_id">>, columns),
        Call(ProductQueries, "Update", <<"sequence_id", "name">>, <<>>)}

TrackedFilePrepared == Loading(TRUE) \cup {"Insert", "Delete"}
TrackedFileCalls ==
    LET columns == <<"id", "product_name", "file_path", "display_name">>
    IN {Call(TrackedFileQueries, "Select", <<>>, columns),
        Call(TrackedFileQueries, "Insert", Tail(columns), columns),
        Call(TrackedFileQueries, "Delete", <<"product_name", "file_path">>, <<>>)}

\* Statements of templates that no repository uses: parameters in nested
\* clauses, one that is used twice, a conflict that is ignored.
OtherQueries ==
    LET builds == Entity("builds")
        older == Disjunction(<<Matching("region"), Not(IsNull(Column("region"))),
                               LessThan("detected_at", Parameter("detected_at"))>>)
        query == Select(Projection(<<Distinct(Column("build_name")), Column("id")>>), builds,
                        <<Where(Conjunction(<<Matching("product_name"), older,
                                              GreaterThan("id", Parameter("id")),
                                              Equals("region", BoundParameter(2))>>)),
                          GroupBy(<<Column("build_name"), Column("id")>>), Limit(Constant(10))>>)
        insert == OnConflict(Insert(builds, <<"region", "id">>), Column("id"), DoNothing)
    IN [Nested |-> query,
        Ignored |-> Returning(insert, Projection(<<Column("id"), Column("region")>>))]

OtherCalls ==
    {Call(OtherQueries, "Nested", <<"product_name", "region", "detected_at", "id">>, <<"build_name", "id">>),
     Call(OtherQueries, "Ignored", <<"region", "id">>, <<"id", "region">>)}

\* The repositories of the Database, in the order in which it makes them.
Repository(prepared, calls) == [prepared |-> prepared, calls |-> calls]
Database == <<Repository(BuildPrepared, BuildCalls), Repository(ProductPrepared, ProductCalls),
              Repository(BoundChannelPrepared, BoundChannelCalls),
              Repository(TrackedFilePrepared, TrackedFileCalls),
              Repository(CommandStatePrepared, CommandStateCalls)>>

-----------------------------------------------------------------------------
(* Rows: Projection and Entity                                             *)

\* The constructor from a row, and the accessors by index and by column.
Hydrate(columns, row) == ColumnTuple(columns, row)
GetAt(projection, i) == GetIndex(projection, i)
GetColumn(projection, column) == GetType(projection, column)

\* An entity is a projection of its columns, each bound to the entity; a column
\* is bound before it is looked up.
BindToProjection(entity, column) == [Type(column) EXCEPT !.name = <<entity, column>>]
HydrateEntity(entity, columns, row) ==
    MakeTuple([i \in DOMAIN columns |-> BindToProjection(entity, columns[i])], row)
EntityAt(row, i) == GetAt(row, i)
EntityColumn(row, entity, column) == GetColumn(row, BindToProjection(entity, column).name)
EntitySize(row) == TupleSize(row)

-----------------------------------------------------------------------------
(* Reference: what the text of a statement says of its placeholders        *)

OfKind(text, kind) == SelectSeq(text, LAMBDA piece : piece[1] = kind)

\* The columns that are compared with a placeholder, or set to it.
Compared(text) ==
    {<<text[i - 1][2], text[i + 1][2]>> :
       i \in {j \in 2..(Len(text) - 1) : text[j] \in {Word("="), Word(">"), Word("<")} /\ text[j + 1][1] = "$"}}

\* The columns of an INSERT, each with the placeholder of the same place.
Inserted(text) ==
    LET values == SelectInSeq(text, LAMBDA piece : piece = Word("VALUES"))
        columns == OfKind(SubSeq(text, 1, values - 1), "name")
        placeholders == OfKind(SubSeq(text, values, Len(text)), "$")
    IN IF values = 0 THEN {}
       ELSE {<<columns[i][2], placeholders[i][2]>> : i \in DOMAIN columns}

\* The columns that the rows of a statement have, in order: what is between
\* SELECT and FROM, or after RETURNING.
RECURSIVE Listed(_)
Listed(pieces) ==
    IF pieces = <<>> THEN <<>>
    ELSE LET comma == SelectInSeq(pieces, LAMBDA piece : piece = Word(","))
             item == IF comma = 0 THEN pieces ELSE SubSeq(pieces, 1, comma - 1)
         IN <<Last(OfKind(item, "name"))[2]>> \o
            (IF comma = 0 THEN <<>> ELSE Listed(SubSeq(pieces, comma + 1, Len(pieces))))

Returned(text) ==
    LET places(w) == {i \in DOMAIN text : text[i] = Word(w)}
        last(w) == CHOOSE i \in places(w) : \A j \in places(w) : j <= i
    IN IF places("SELECT") # {} THEN Listed(SubSeq(text, last("SELECT") + 1, last("FROM") - 1))
       ELSE IF places("RETURNING") # {} THEN Listed(SubSeq(text, last("RETURNING") + 1, Len(text)))
       ELSE <<>>

Bound(text) == Compared(text) \cup Inserted(text)
=============================================================================
