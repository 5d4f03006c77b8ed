-------------------------------- MODULE Tuple -------------------------------
(***************************************************************************)
(* utility::tuple, which stores its elements by descending alignment and   *)
(* finds them by the index or the type they were declared with.  A type is *)
(* a record of a name and an alignment; the leaves of a tuple are listed   *)
(* in the order of the storage.                                            *)
(***************************************************************************)
EXTENDS Integers, Sequences, SequencesExt

Leaf(i, type, value) == [interface |-> i, type |-> type, value |-> value]

RECURSIVE Sort(_)

\* mp_sort with sort_pred: types as aligned as the first one go before it.
Sort(leaves) ==
    IF leaves = <<>> THEN <<>>
    ELSE LET pivot == Head(leaves)
             before(l) == l.type.alignment >= pivot.type.alignment
             after(l) == ~before(l)
         IN Sort(SelectSeq(Tail(leaves), before)) \o <<pivot>> \o Sort(SelectSeq(Tail(leaves), after))

\* make_tuple_storage and the constructor: an argument goes to the leaf whose
\* interface index it has.
MakeTuple(types, args) == Sort([i \in DOMAIN types |-> Leaf(i, types[i], args[i])])

TupleSize(t) == Len(t)

\* select_base_impl_i and select_base_impl_t: the leaf of an index, the leaf of
\* a type.
SelectIndex(t, i) == CHOOSE leaf \in ToSet(t) : leaf.interface = i
SelectType(t, name) == CHOOSE leaf \in ToSet(t) : leaf.type.name = name

GetIndex(t, i) == SelectIndex(t, i).value
GetType(t, name) == SelectType(t, name).value

\* tuple_element.
TupleElement(t, i) == SelectIndex(t, i).type

\* A tuple is as aligned as its first leaf.
TypeOfTuple(t) == [name |-> t, alignment |-> IF t = <<>> THEN 1 ELSE t[1].type.alignment]

\* tuple_cat_index_gen: the number of a tuple and an index in it.
IndexPairs(tuples) ==
    FlattenSeq([i \in DOMAIN tuples |-> [j \in 1..TupleSize(tuples[i]) |-> <<i, j>>]])

\* tuple_cat, by way of a tuple of the tuples.
TupleCat(tuples) ==
    LET outer == MakeTuple([i \in DOMAIN tuples |-> TypeOfTuple(tuples[i])], tuples)
        pairs == IndexPairs(tuples)
    IN MakeTuple([n \in DOMAIN pairs |-> TupleElement(GetIndex(outer, pairs[n][1]), pairs[n][2])],
                 [n \in DOMAIN pairs |-> GetIndex(GetIndex(outer, pairs[n][1]), pairs[n][2])])
=============================================================================
