----------------------------- MODULE MCArgParse -----------------------------
(***************************************************************************)
(* Command lines, texts and identifiers on small instances: a behaviour    *)
(* picks one of the three; the others stay as they were built.  Two flags, *)
(* a variable and a list for the parser.                                   *)
(***************************************************************************)
EXTENDS ArgParse

CONSTANTS
    Delimiter, Blank, Letters, Bytes, WordBits, MaxText, MaxBytes,   \* Strings
    DrawnBytes                                                       \* Uuid

VARIABLES
    subject,        \* what the behaviour is about
    text, data, uuid

all_vars == <<subject, vars, text, data, uuid>>

MCOptions == [k \in {"a", "b", "x", "y"} |->
                CASE k \in {"a", "b"} -> "BOOL" [] k = "x" -> "INT" [] OTHER -> "VEC_INT"]
MCExclusives == {{"a", "b"}, {"x", "y"}}
MCDependencies == {<<"a", "x">>, <<"x", "b">>}
MCPositionals == {<<"INT">>, <<"STRING">>}

short(k, t) == [kind |-> "short", key |-> k, text |-> t]
full(k) == [kind |-> "full", key |-> k, text |-> "word"]
group(keys, t) == [kind |-> "group", keys |-> keys, text |-> t]
word(t) == [kind |-> "word", text |-> t]

(* With the operands that start with a dash, "-5" and "-1,2".              *)
MCTokens == {short("a", "word"), full("b"), short("x", "word"), full("y"), short("h", "word"),
             short("5", "number"), group(<<"1", ",", "2">>, "list"),
             group(<<"a", "b">>, "word"), group(<<"b", "x">>, "word"), group(<<>>, "word"),
             word("number"), word("word"), word("huge"), word("list"), word("mixed")}

(* Sixteen bytes that are the same but for one of them.                    *)
MCDraws == {[[i \in 0 .. 15 |-> b] EXCEPT ![k] = c] : b \in DrawnBytes, k \in 0 .. 15, c \in DrawnBytes}

S == INSTANCE Strings
U == INSTANCE Uuid WITH Draws <- MCDraws

MCInit ==
    /\ subject \in {"parse", "string", "uuid"}
    /\ Init /\ (subject # "parse" => exit_on_special)
    /\ S!Init
    /\ IF subject = "uuid" THEN U!Init ELSE uuid = <<>>

(* The disjuncts differ in the component that makes a step.                *)
MCNext ==
    \/ subject = "parse" /\ Next /\ UNCHANGED <<subject, text, data, uuid>>
    \/ subject = "string" /\ S!Write /\ UNCHANGED <<subject, vars, uuid>>
    \/ subject = "uuid" /\ U!Next /\ UNCHANGED <<subject, vars, text, data>>

MCSpec == MCInit /\ [][MCNext]_all_vars

-----------------------------------------------------------------------------
(* parse() accepts the legal lines and no others, sets what they name,     *)
(* explains each refusal, and the synopsis shows every option.             *)
ParserSound == ParsesLegalLines /\ RefusalExplained /\ UsageComplete

(* The functions on texts, blocks of bytes and identifiers return what     *)
(* their references say: the tokens put together are the string, collapse  *)
(* leaves one of each run of delimiters, all matches and nothing else is   *)
(* replaced, Base64 is that of RFC 4648 and is undone, a UUID has the text *)
(* of RFC 4122.                                                            *)
TextExact ==
    /\ subject = "string" => /\ S!TokensRejoin /\ S!CollapsesRepeats
                             /\ S!ReplacesMatchesOnly /\ S!Base64RoundTrip
    /\ subject = "uuid" => U!UuidCanonical
=============================================================================
