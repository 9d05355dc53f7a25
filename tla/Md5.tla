--------------------------------- MODULE Md5 ---------------------------------
(***************************************************************************)
(* kb::md5 (filesystem/md5.cpp): the input comes in pieces of any length,  *)
(* is cut into blocks, and padded at the end.  The compression of a block  *)
(* is left out: what counts is which blocks it is given.                   *)
(*                                                                         *)
(* The i-th byte of the message is the number i.                           *)
(***************************************************************************)
EXTENDS Integers, Sequences

CONSTANTS
    k_block_size,   \* bytes of a block (64)
    LengthSize,     \* bytes of the length at the end (8)
    Pieces,         \* lengths of the pieces
    MaxFed          \* bound: length of the message

\* What md5.h has: a block is longer than the length at its end.
Md5Assumption ==
    /\ k_block_size \in Nat /\ LengthSize \in Nat \ {0} /\ LengthSize < k_block_size
    /\ Pieces \subseteq Nat /\ MaxFed \in Nat

VARIABLES
    md5,       \* buffer_, head_, length_ and the blocks compressed so far
    fed,       \* the length of the message so far
    finished   \* finished_

vars == <<md5, fed, finished>>

Marker == -128                      \* the byte 0x80
LengthField(n) == [i \in 1 .. LengthSize |-> IF i = 1 THEN -1000 - 8 * n ELSE -1000]
Message(from, to) == [i \in 1 .. (to - from + 1) |-> from + i - 1]
Zeros(n) == [i \in 1 .. n |-> 0]

Init ==
    /\ md5 = [buffer |-> [i \in 1 .. 2 * k_block_size |-> 0], head |-> 0, length |-> 0, blocks |-> <<>>]
    /\ fed = 0 /\ finished = FALSE

memcpy(buffer, at, bytes) ==
    [i \in DOMAIN buffer |-> IF i \in at + 1 .. at + Len(bytes) THEN bytes[i - at] ELSE buffer[i]]

\* Behind the bytes that wait.
store(m, bytes) == [m EXCEPT !.buffer = memcpy(@, m.head, bytes)]

process_block(m, offset) ==
    [m EXCEPT !.length = @ + k_block_size, !.head = 0,
              !.blocks = Append(@, SubSeq(m.buffer, offset * k_block_size + 1, (offset + 1) * k_block_size))]

\* MUTANT: what follows the first block of a piece is dropped.
process_forget(m, input) ==
    LET processed == k_block_size - m.head
        filled == process_block(store(m, SubSeq(input, 1, processed)), 0)
    IN  IF m.head + Len(input) < k_block_size
        THEN [store(m, input) EXCEPT !.head = @ + Len(input)]
        ELSE filled

\* process(): complete the block that was begun, then block by block, and the
\* rest stays in the buffer.  processed is a uint32_t in the code: a piece is
\* shorter than 4 GiB here, a longer one keeps the loop from ending.
process(m, input) ==
    LET processed == k_block_size - m.head
        filled == process_block(store(m, SubSeq(input, 1, processed)), 0)
        whole == (Len(input) - processed) \div k_block_size
        Block(k) == SubSeq(input, processed + k * k_block_size + 1, processed + (k + 1) * k_block_size)
        all[k \in 0 .. whole] ==
            IF k = 0 THEN filled
            ELSE process_block(store(all[k - 1], Block(k - 1)), 0)
        rest == SubSeq(input, processed + whole * k_block_size + 1, Len(input))
    IN  IF m.head + Len(input) < k_block_size
        THEN [store(m, input) EXCEPT !.head = @ + Len(input)]
        ELSE [store(all[whole], rest) EXCEPT !.head = Len(rest)]

Process == \E n \in Pieces :
    /\ ~finished /\ fed + n <= MaxFed
    /\ md5' = process(md5, Message(fed + 1, fed + n))
    /\ fed' = fed + n
    /\ UNCHANGED finished

\* Up to two blocks: padding that starts in the last bytes of one runs over.
Finish ==
    LET room == k_block_size - LengthSize - md5.head
        pad == IF room <= 0 THEN room + k_block_size ELSE room
        length == md5.length + md5.head
        padded == [md5 EXCEPT
            !.buffer = memcpy(memcpy(@, md5.head, <<Marker>> \o Zeros(pad - 1)), md5.head + pad, LengthField(length)),
            !.head = @ + pad + LengthSize, !.length = length]
        first == process_block(padded, 0)
    IN  /\ ~finished /\ finished' = TRUE
        /\ md5' = IF padded.head \div k_block_size = 2 THEN process_block(first, 1) ELSE first
        /\ UNCHANGED fed

Next == Process \/ Finish

Spec == Init /\ [][Next]_vars

-----------------------------------------------------------------------------
(* The blocks are those RFC 1321 prescribes for the whole message: a one,  *)
(* the fewest zeros that fill the last block but for its length field, and *)
(* the length; in whatever pieces the message came.                        *)
Rfc1321(n) ==
    LET zeros == CHOOSE z \in 0 .. k_block_size - 1 : (n + 1 + z + LengthSize) % k_block_size = 0
    IN  Message(1, n) \o <<Marker>> \o Zeros(zeros) \o LengthField(n)
DigestOfMessage ==
    finished => LET m == Rfc1321(fed)
                IN  md5.blocks = [b \in 1 .. Len(m) \div k_block_size |->
                                    SubSeq(m, (b - 1) * k_block_size + 1, b * k_block_size)]

-----------------------------------------------------------------------------
(* Why it holds: the blocks, and behind them the bytes of the buffer up to *)
(* head_, are the message so far.                                          *)
Digests == [buffer : [1 .. 2 * k_block_size -> Int], head : Nat, length : Nat, blocks : Seq(Seq(Int))]

Taken(m, n) ==
    /\ m \in Digests /\ m.head < k_block_size /\ n = m.length + m.head
    /\ m.length = Len(m.blocks) * k_block_size
    /\ \A b \in DOMAIN m.blocks : m.blocks[b] = Message((b - 1) * k_block_size + 1, b * k_block_size)
    /\ \A i \in 1 .. m.head : m.buffer[i] = m.length + i

Inv ==
    /\ fed \in Nat /\ finished \in BOOLEAN
    /\ ~finished => Taken(md5, fed)
    /\ DigestOfMessage
=============================================================================
