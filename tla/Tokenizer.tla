----------------------------- MODULE Tokenizer ------------------------------
(***************************************************************************)
(* libtactmon::detail::Tokenize, which splits the responses of ribbit, the *)
(* configuration files and the targets of requests.  A text is a sequence  *)
(* of symbols, a token the sequence of symbols it is made of.              *)
(***************************************************************************)
EXTENDS Integers, Sequences, FiniteSets, SequencesExt, TLC

FoundAt(input, token, pos) ==
    /\ pos + Len(token) - 1 <= Len(input)
    /\ SubSeq(input, pos, pos + Len(token) - 1) = token

\* input.find for each of the tokens.
Found(input, tokens) ==
    {pos \in DOMAIN input : \E t \in tokens : FoundAt(input, t, pos)}

RECURSIVE Split(_, _, _)

\* The loop of Tokenize: cut at the first of the tokens, until the input is
\* empty.  What follows a token at the very end is not a piece.
Split(input, tokens, removeEmptyTokens) ==
    IF input = <<>> THEN <<>>
    ELSE IF Found(input, tokens) = {} THEN <<input>>
    ELSE LET pos == Min(Found(input, tokens))
             token == CHOOSE t \in tokens : FoundAt(input, t, pos)
             elem == SubSeq(input, 1, pos - 1)
             rest == SubSeq(input, pos + Len(token), Len(input))
         IN (IF removeEmptyTokens /\ elem = <<>> THEN <<>> ELSE <<elem>>)
               \o Split(rest, tokens, removeEmptyTokens)

\* The overloads: a string, a character, one of several characters.
TokenizeString(input, token, removeEmptyTokens) ==
    Split(input, {token}, removeEmptyTokens)

TokenizeChar(input, char, removeEmptyTokens) ==
    Split(input, {<<char>>}, removeEmptyTokens)

TokenizeChars(input, chars, removeEmptyTokens) ==
    Split(input, {<<char>> : char \in chars}, removeEmptyTokens)

RECURSIVE SplitAny(_, _, _)

\* One of several strings.  The token that was found is remembered by the
\* address of a variable that no longer exists: any token's length is removed.
SplitAny(input, tokens, removeEmptyTokens) ==
    IF input = <<>> THEN {<<>>}
    ELSE IF Found(input, tokens) = {} THEN {<<input>>}
    ELSE LET pos == Min(Found(input, tokens))
             elem == SubSeq(input, 1, pos - 1)
             kept == IF removeEmptyTokens /\ elem = <<>> THEN <<>> ELSE <<elem>>
         IN UNION {{kept \o more :
                      more \in SplitAny(SubSeq(input, pos + Len(token), Len(input)), tokens,
                                        removeEmptyTokens)} : token \in tokens}

TokenizeStrings(input, tokens, removeEmptyTokens) == SplitAny(input, tokens, removeEmptyTokens)

\* Reference: the pieces between the places where one of "chars" is.
Pieces(input, chars) ==
    LET cuts == SetToSortSeq({0, Len(input) + 1} \cup {p \in DOMAIN input : input[p] \in chars}, <)
    IN [i \in 1..(Len(cuts) - 1) |-> SubSeq(input, cuts[i] + 1, cuts[i + 1] - 1)]

\* An optional value is a sequence of at most one.
None == <<>>
Some(value) == <<value>>

\* Numbers as they are printed, up to a bound, and std::from_chars: what
\* follows the number is not looked at.
MaxNumber == 300
Numbers == [text \in {ToString(n) : n \in 0..MaxNumber} |->
              CHOOSE n \in 0..MaxNumber : ToString(n) = text]

FromChars(token) ==
    IF token # <<>> /\ token[1] \in DOMAIN Numbers THEN Some(Numbers[token[1]]) ELSE None
=============================================================================
