-------------------------------- MODULE Uuid --------------------------------
(***************************************************************************)
(* kb::UUIDv4 (random/uuid.cpp): sixteen bytes, drawn at random, printed   *)
(* and parsed with vector instructions.  Vectors are functions from 0, and *)
(* the shuffles are the masks of the code, byte 0 first.                   *)
(***************************************************************************)
EXTENDS Integers, Sequences

CONSTANTS Draws    \* what the generator may draw: sixteen bytes

VARIABLE uuid    \* data_
vars == <<uuid>>

Dash == 45                      \* '-'
Cleared == 128                  \* index of a shuffle that gives a zero
shuffle_epi8(v, mask) ==        \* within each half of 16 bytes
    [i \in 0 .. 31 |-> IF mask[i + 1] = Cleared THEN 0 ELSE v[(i \div 16) * 16 + mask[i + 1]]]

-----------------------------------------------------------------------------
(* str().                                                                  *)

\* Four bits to their hexadecimal character.
hex(d) == d + (IF ((d + 6) \div 16) % 2 = 1 THEN 87 ELSE 48)

print_shuffle ==
    <<0, 1, 2, 3, 4, 5, 6, 7, 128, 8, 9, 10, 11, 128, 12, 13,
      128, 128, 128, 0, 1, 2, 3, 128, 4, 5, 6, 7, 8, 9, 10, 11>>

\* The characters at 16 and 32 do not fit in the shuffle and are stored apart.
m128itos(x) ==
    LET res == [i \in 0 .. 31 |-> hex(IF i % 2 = 0 THEN x[i \div 2] \div 16 ELSE x[i \div 2] % 16)]
        resd == shuffle_epi8(res, print_shuffle)
    IN  [i \in 0 .. 35 |-> CASE i \in 16 .. 17 -> res[i - 2]
                             [] i \in 32 .. 35 -> res[i - 4]
                             [] i \in {8, 13, 18, 23} -> resd[i] + Dash
                             [] OTHER -> resd[i]]

-----------------------------------------------------------------------------
(* from_str_factory().                                                     *)

unhex(c) == LET a == c - 47 IN a - (IF (a \div 32) % 2 = 1 THEN 40 ELSE 1)

parse_shuffle ==
    <<0, 1, 2, 3, 4, 5, 6, 7, 9, 10, 11, 12, 14, 15, 128, 128,
      3, 4, 5, 6, 8, 9, 10, 11, 12, 13, 14, 15, 128, 128, 128, 128>>
unweave ==
    <<0, 2, 4, 6, 1, 3, 5, 7, 8, 10, 12, 14, 9, 11, 13, 15,
      0, 2, 4, 6, 1, 3, 5, 7, 8, 10, 12, 14, 9, 11, 13, 15>>

\* Upper digits are shifted and added to the lower ones, four bytes at a time.
stom128i(mem) ==
    LET packed == shuffle_epi8(mem, parse_shuffle)
        x == [i \in 0 .. 31 |-> CASE i \in 14 .. 15 -> mem[i + 2]
                                  [] i \in 28 .. 31 -> mem[i + 4]
                                  [] OTHER -> packed[i]]
        a == shuffle_epi8([i \in 0 .. 31 |-> unhex(x[i])], unweave)
    IN  [i \in 0 .. 15 |-> LET upper == (i \div 4) * 8 + (i % 4) IN a[upper] * 16 + a[upper + 4]]

-----------------------------------------------------------------------------
(* The generator.                                                          *)

\* Version 4 and variant 1
from_upper_lower(n) ==
    [n EXCEPT ![6] = (@ % 16) + 64, ![8] = (@ % 64) + 128]

Init == \E n \in Draws : uuid = from_upper_lower(n)
Get == \E n \in Draws : uuid' = from_upper_lower(n)

\* operator>> after operator<<
Reparse == uuid' = stom128i(m128itos(uuid))

Next == Get \/ Reparse
Spec == Init /\ [][Next]_vars

-----------------------------------------------------------------------------
(* The text has the 32 digits of the bytes in their order, in groups of    *)
(* 8, 4, 4, 4 and 12, with the version and the variant where RFC 4122 has  *)
(* them, and parsing it gives the same UUID.                               *)
UuidCanonical ==
    LET mem == m128itos(uuid)
        digits == SelectSeq([i \in 1 .. 36 |-> i - 1], LAMBDA i : i \notin {8, 13, 18, 23})
    IN  /\ \A i \in {8, 13, 18, 23} : mem[i] = Dash
        /\ \A k \in 0 .. 15 : 16 * unhex(mem[digits[2 * k + 1]]) + unhex(mem[digits[2 * k + 2]]) = uuid[k]
        /\ unhex(mem[14]) = 4 /\ unhex(mem[19]) \in 8 .. 11
        /\ stom128i(mem) = uuid
=============================================================================
