------------------------------- MODULE Strings -------------------------------
(***************************************************************************)
(* kb::su (string/string.h, string.cpp): tokens, replacing and Base64.     *)
(* A string is a sequence of the characters Delimiter, Blank and letters;  *)
(* a behaviour writes one, or a block of bytes, to its end, and the        *)
(* properties compare what the functions return with what they should.     *)
(***************************************************************************)
EXTENDS Integers, Sequences, SequencesExt, FiniteSetsExt

CONSTANTS
    Delimiter, Blank, Letters,
    Bytes,        \* the bytes that are encoded
    WordBits,     \* bits of the accumulator of the codecs (32)
    MaxText,      \* bound: characters of a string
    MaxBytes      \* bound: bytes of a block

VARIABLES text, data
vars == <<text, data>>

Init == text = <<>> /\ data = <<>>
Write == \/ /\ data = <<>> /\ Len(text) < MaxText
            /\ \E c \in Letters \union {Delimiter, Blank} : text' = Append(text, c)
            /\ UNCHANGED data
         \/ /\ text = <<>> /\ Len(data) < MaxBytes
            /\ \E b \in Bytes : data' = Append(data, b)
            /\ UNCHANGED text
Spec == Init /\ [][Write]_vars

-----------------------------------------------------------------------------
(* Tokens.                                                                 *)

\* std::getline() up to each delimiter: the tokens a delimiter ended, and what
\* was read when the stream ended
getline(s) ==
    FoldLeft(LAMBDA r, c : IF c = Delimiter THEN [tokens |-> Append(r.tokens, r.token), token |-> <<>>]
                           ELSE [r EXCEPT !.token = Append(@, c)],
             [tokens |-> <<>>, token |-> <<>>], s)

\* The stream is good until getline() meets its end: the token before it counts,
\* also an empty one.
tokenize(s) == Append(getline(s).tokens, getline(s).token)

\* The older function stops at a getline() that reads nothing.
split_string(s) ==
    LET r == getline(s) IN IF r.token = <<>> THEN r.tokens ELSE Append(r.tokens, r.token)

\* collapse() writes over the string it reads.  It compares with the underscore,
\* here the Delimiter, whatever the target is.
collapse(s, target) ==
    LET Step(r, read) ==
            IF r.input[read] # Delimiter \/ (read > 1 /\ r.input[read - 1] # target)
            THEN [input |-> [r.input EXCEPT ![r.write] = r.input[read]], write |-> r.write + 1]
            ELSE r
        done == FoldLeft(Step, [input |-> s, write |-> 1], [i \in DOMAIN s |-> i])
    IN  SubSeq(done.input, 1, done.write - 1)

-----------------------------------------------------------------------------
(* regex_replace() for the expression "one or more delimiters" and a       *)
(* replacement of one character.                                           *)

\* What std::regex_iterator finds: positions, from 0, and lengths.
Matches(s) ==
    LET starts == {i \in DOMAIN s : s[i] = Delimiter /\ (i = 1 \/ s[i - 1] # Delimiter)}
        Length(i) == Max({n \in 1 .. Len(s) - i + 1 : \A k \in i .. i + n - 1 : s[k] = Delimiter})
    IN  [k \in DOMAIN SetToSortSeq(starts, <) |->
            LET i == SetToSortSeq(starts, <)[k] IN [position |-> i - 1, length |-> Length(i)]]

\* The callback: what lies between two matches, and the replacement.
replace_match(r, s, match) ==
    LET start == r.end + (match.position - r.pos)
    IN  [ret |-> r.ret \o SubSeq(s, r.end + 1, start) \o <<Blank>>,
         pos |-> match.position + match.length, end |-> start + match.length]

regex_replace(s) ==
    LET r == FoldLeft(LAMBDA x, match : replace_match(x, s, match), [ret |-> <<>>, pos |-> 0, end |-> 0], Matches(s))
    IN  r.ret \o SubSeq(s, r.end + 1, Len(s))

-----------------------------------------------------------------------------
(* Base64.  A character is its index in s_base64_chars.                    *)

Equals == 64
Word(n) == n % 2^WordBits

\* One byte: valb counts the bits that wait in val, minus six.
encode_byte(r, byte) ==
    LET val == Word(r.val * 256 + byte)
        valb == r.valb + 8
        n == valb \div 6 + 1
    IN  [val |-> val, valb |-> valb - 6 * n,
         out |-> r.out \o [k \in 1 .. n |-> (val \div 2^(valb - 6 * (k - 1))) % 64]]

\* MUTANT: the last bits are not moved to the top of their character.
base64_encode_low(bytes) ==
    LET r == FoldLeft(encode_byte, [val |-> 0, valb |-> -6, out |-> <<>>], bytes)
        all == IF r.valb > -6 THEN Append(r.out, r.val % 2^(r.valb + 6)) ELSE r.out
    IN  all \o [k \in 1 .. (-Len(all)) % 4 |-> Equals]

base64_encode(bytes) ==
    LET r == FoldLeft(encode_byte, [val |-> 0, valb |-> -6, out |-> <<>>], bytes)
        all == IF r.valb > -6 THEN Append(r.out, (Word(r.val * 256) \div 2^(r.valb + 8)) % 64) ELSE r.out
    IN  all \o [k \in 1 .. (-Len(all)) % 4 |-> Equals]

decode_char(r, c) ==
    LET val == Word(r.val * 64 + c)
        valb == r.valb + 6
    IN  IF r.ended \/ c = Equals THEN [r EXCEPT !.ended = TRUE]
        ELSE IF valb < 0 THEN [r EXCEPT !.val = val, !.valb = valb]
        ELSE [r EXCEPT !.val = val, !.valb = valb - 8, !.out = Append(@, (val \div 2^valb) % 256)]

base64_decode(chars) == FoldLeft(decode_char, [val |-> 0, valb |-> -8, out |-> <<>>, ended |-> FALSE], chars).out

-----------------------------------------------------------------------------
(* tokenize() loses nothing: the tokens, none of which has a delimiter,    *)
(* put together again are the string; split_string() differs by an empty   *)
(* last token only.                                                        *)
Joined(tokens) == FlattenSeq([k \in DOMAIN tokens |-> <<Delimiter>> \o tokens[k]])
Full(tokens) == SelectSeq(tokens, LAMBDA t : t # <<>>)
TokensRejoin ==
    /\ Joined(tokenize(text)) = <<Delimiter>> \o text
    /\ \A k \in DOMAIN tokenize(text) : ~Contains(tokenize(text)[k], Delimiter)
    /\ tokenize(text) \in {split_string(text), Append(split_string(text), <<>>)}

(* "Replace contiguous substrings of a repeated character by a single      *)
(* occurrence" (string.h), for the underscore: writing in place loses and  *)
(* repeats nothing.  A string that starts with underscores loses them all, *)
(* which is not what the comment says; nothing is claimed about those.     *)
CollapsesRepeats ==
    LET single == [i \in DOMAIN text |->
                     IF i > 1 /\ text[i] = Delimiter /\ text[i - 1] = Delimiter THEN <<>> ELSE <<text[i]>>]
    IN  text # <<>> /\ text[1] # Delimiter => collapse(text, Delimiter) = FlattenSeq(single)

(* regex_replace() changes the matches, all of them, and nothing else: the *)
(* words are the tokens that are not empty.                                *)
ReplacesMatchesOnly ==
    LET marked == [i \in DOMAIN text |->
                     IF text[i] # Delimiter THEN <<text[i]>>
                     ELSE IF i > 1 /\ text[i - 1] = Delimiter THEN <<>> ELSE <<Blank>>]
    IN  regex_replace(text) = FlattenSeq(marked)

(* Base64 is that of RFC 4648 for every length of the data, and decoding   *)
(* gives the data back, however the accumulator has wrapped.               *)
Bits(n, width) == [k \in 1 .. width |-> (n \div 2^(width - k)) % 2]
Rfc4648(bytes) ==
    LET bits == FlattenSeq([k \in DOMAIN bytes |-> Bits(bytes[k], 8)])
        padded == bits \o [k \in 1 .. (-Len(bits)) % 6 |-> 0]
        chars == [k \in 1 .. Len(padded) \div 6 |->
                    FoldLeft(LAMBDA n, b : 2 * n + b, 0, SubSeq(padded, 6 * k - 5, 6 * k))]
    IN  chars \o [k \in 1 .. (-Len(chars)) % 4 |-> Equals]
Base64RoundTrip ==
    /\ base64_encode(data) = Rfc4648(data)
    /\ base64_decode(base64_encode(data)) = data
=============================================================================
