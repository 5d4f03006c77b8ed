------------------------------- MODULE Lookup3 ------------------------------
(***************************************************************************)
(* crypto/lookup3.hpp, the hashes that names in the root manifest have.    *)
(* The functions differ in how they read a key: by words, half words or    *)
(* bytes, as its address allows.  What they add to the registers a, b and  *)
(* c (0, 1, 2) is modelled, byte by byte; mix and final are kept as        *)
(* symbols, so that two hashes are equal only if they were given the same. *)
(***************************************************************************)
EXTENDS Integers, Sequences

\* A key is the bytes of "memory" from "at" on.  A read adds the byte at
\* offset "from" to a lane of a register; lane 0 is the lowest.
Whole(i) == {[register |-> i, lane |-> l, from |-> 4 * i + l] : l \in 0..3}
Half(i) == {[register |-> i \div 2, lane |-> 2 * (i % 2) + l, from |-> 2 * i + l] : l \in 0..1}
Byte(i) == {[register |-> i \div 4, lane |-> i % 4, from |-> i]}

\* As a big endian machine sees them.
BigWhole(i) == {[register |-> i, lane |-> 3 - l, from |-> 4 * i + l] : l \in 0..3}
BigByte(i) == {[register |-> i \div 4, lane |-> 3 - (i % 4), from |-> i]}

\* The first n reads of a kind.
Reads(n, kind) == UNION {CASE kind = "word"    -> Whole(i)
                           [] kind = "half"    -> Half(i)
                           [] kind = "byte"    -> Byte(i)
                           [] kind = "bigWord" -> BigWhole(i)
                           [] kind = "bigByte" -> BigByte(i) : i \in 0..(n - 1)}

\* What the switch on the last "n" bytes of a key reads: whole words and one
\* that is masked,
LastWords(n) == Reads(n \div 4, "word") \cup {r \in Whole(n \div 4) : r.lane < n % 4}
LastBigWords(n) == Reads(n \div 4, "bigWord") \cup {r \in BigWhole(n \div 4) : r.lane > 3 - (n % 4)}
\* half words and one byte,
LastHalves(n) == Reads(n \div 2, "half") \cup (IF n % 2 = 1 THEN Byte(n - 1) ELSE {})
\* or bytes.
LastBytes(n) == Reads(n, "byte")
LastBigBytes(n) == Reads(n, "bigByte")

\* The registers' increments.
Added(memory, at, reads) ==
    [register \in 0..2 |-> [lane \in 0..3 |->
       LET hits == {r \in reads : r.register = register /\ r.lane = lane}
       IN IF hits = {} THEN 0 ELSE memory[at + (CHOOSE r \in hits : TRUE).from]]]

Mix(added) == <<"mix", added>>
Final(added) == <<"final", added>>

\* Blocks of twelve bytes are mixed while more than twelve are left; the last
\* one, which has at least one byte unless the key is empty, is final.
Absorb(memory, at, length, kind) ==
    LET count == (length + 11) \div 12
        left(n) == length - 12 * (n - 1)
        Last(n) == CASE kind = "word"    -> LastWords(n)
                     [] kind = "half"    -> LastHalves(n)
                     [] kind = "byte"    -> LastBytes(n)
                     [] kind = "bigWord" -> LastBigWords(n)
                     [] kind = "bigByte" -> LastBigBytes(n)
    IN [n \in 1..count |->
          IF left(n) > 12 THEN Mix(Added(memory, at + 12 * (n - 1), Last(12)))
          ELSE Final(Added(memory, at + 12 * (n - 1), Last(left(n))))]

\* The registers start from the length and the seeds, c from both of them.
Registers(length, pc, pb, blocks) == [base |-> length + pc, c |-> pb, blocks |-> blocks]
Result(registers) == [pc |-> <<"c", registers>>, pb |-> <<"b", registers>>]

\* hashlittle2, by the address of the key.
hashlittle2(memory, at, length, pc, pb) ==
    Result(Registers(length, pc, pb,
        CASE at % 4 = 0 -> Absorb(memory, at, length, "word")
          [] at % 4 = 2 -> Absorb(memory, at, length, "half")
          [] OTHER      -> Absorb(memory, at, length, "byte")))

\* hashlittle has one seed and one result.
hashlittle(memory, at, length, initval) ==
    Result(Registers(length, initval, 0,
        CASE at % 4 = 0 -> Absorb(memory, at, length, "word")
          [] at % 4 = 2 -> Absorb(memory, at, length, "half")
          [] OTHER      -> Absorb(memory, at, length, "byte"))).pc

\* hashbig, on a big endian machine or not.
hashbig(memory, at, length, initval, bigEndian) ==
    Result(Registers(length, initval, 0,
        IF bigEndian /\ at % 4 = 0 THEN Absorb(memory, at, length, "bigWord")
        ELSE Absorb(memory, at, length, "bigByte"))).pc

\* hashword and hashword2: the length counts words.
hashword2(memory, at, length, pc, pb) ==
    Result(Registers(4 * length, pc, pb, Absorb(memory, at, 4 * length, "word")))
hashword(memory, at, length, initval) ==
    Result(Registers(4 * length, initval, 0,
                     Absorb(memory, at, 4 * length, "word"))).pc

-----------------------------------------------------------------------------
\* Reference: the key's bytes in order, twelve by twelve, filled up with zeros.
Blocks12(key) ==
    LET count == (Len(key) + 11) \div 12
        byte(i) == IF i \in DOMAIN key THEN key[i] ELSE 0
    IN [n \in 1..count |->
          LET added == [register \in 0..2 |-> [lane \in 0..3 |->
                          byte(12 * (n - 1) + 4 * register + lane + 1)]]
          IN IF n = count THEN Final(added) ELSE Mix(added)]
=============================================================================
