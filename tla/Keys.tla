-------------------------------- MODULE Keys --------------------------------
(***************************************************************************)
(* libtactmon::tact::CKey and EKey, and the digests of libtactmon::crypto  *)
(* that they are compared with.  A digest stands for what it was computed  *)
(* from: the bytes, and each integer with its width.                       *)
(***************************************************************************)
EXTENDS Streams

-----------------------------------------------------------------------------
(* tact::detail::Key: bytes on the heap and their number                   *)

KeyOf(span) == [data |-> span, size |-> Len(span)]
KeyData(key) == SubSeq(key.data, 1, key.size)
KeyToString(key) == Hex(KeyData(key))

\* The assignments: the source of a move is left without bytes.
CopyKey(other) == KeyOf(KeyData(other))
MoveKey(other) == [target |-> other, other |-> [data |-> <<>>, size |-> 0]]

\* CKey::TryParse, which accepts every text.
ParseKey(value) == KeyOf(Unhex(value))

\* operator == of two keys of a kind, and of a key and a range.
SameKey(left, right) == left.size = right.size /\ KeyData(left) = KeyData(right)
SameCKey(left, range) == KeyData(left) = range
SameEKey(left, range) == KeyData(left) = range

-----------------------------------------------------------------------------
(* crypto::Hash                                                            *)

NewHash == [context |-> <<>>, digest |-> <<>>]
UpdateData(hash, span) == [hash EXCEPT !.context = @ \o span]
UpdateInteger(hash, value, width) == [hash EXCEPT !.context = Append(@, <<value, width>>)]
Finalize(hash) == [hash EXCEPT !.digest = hash.context]

\* Hash::Of of one span.
DigestOf(span) == Finalize(UpdateData(NewHash, span)).digest
=============================================================================
