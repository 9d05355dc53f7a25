------------------------------ MODULE ArgParse ------------------------------
(***************************************************************************)
(* kb::ap::ArgParse (argparse/argparse.h, argparse.cpp): the declaration   *)
(* of options and of constraints between them, then parse(), one action    *)
(* per token, ended by an exception or by the end of argv and followed by  *)
(* the three checks.                                                       *)
(*                                                                         *)
(* A token is what its dashes make of it, "-k" (short), "--name" (full),   *)
(* "-klm" (group, the lone "-" being the empty one) or anything else       *)
(* (word), and what the casts make of its text when it is read as an       *)
(* operand or a positional: a number, a list of numbers, a list with what  *)
(* is no number behind its first ("mixed"), a number out of range or none  *)
(* of these.  "-5" is a short and a number, "-1,2" a group and a list.     *)
(* The full name of an option is identified with its key.                  *)
(***************************************************************************)
EXTENDS Integers, FiniteSets, Sequences, SequencesExt

CONSTANTS
    Options,      \* what main() declares: key -> type
    Exclusives,   \* the sets that may be declared exclusive
    Dependencies, \* the pairs <<key, req>> that may be declared
    Positionals,  \* the sequences of types of positionals that may be declared
    Tokens,       \* the tokens argv may hold
    MaxTokens     \* bound on the length of argv

\* The keys of the special commands, declared by the constructor.
Special == {"v", "h"}
none == "none"
ArgType == {"BOOL", "INT", "STRING", "VEC_INT"}
Texts == {"number", "list", "mixed", "huge", "word"}

ASSUME OptionsAssumption ==
    /\ DOMAIN Options \cap Special = {}
    /\ \A e \in Exclusives : e \subseteq DOMAIN Options
    /\ \A d \in Dependencies : d[1] \in DOMAIN Options /\ d[2] \in DOMAIN Options
    /\ MaxTokens \in Nat
    /\ IsFiniteSet(DOMAIN Options)
    /\ \A types \in Positionals : types \in Seq(ArgType)

\* A token is of one of four kinds; none is the key of no option.  No number
\* starts with two dashes.
ASSUME TokensAssumption ==
    \A tok \in Tokens :
        /\ tok.kind \in {"short", "full", "group", "word"}
        /\ tok.kind = "group" => tok.keys \in Seq(STRING \ {none})
        /\ tok.text \in Texts
        /\ tok.kind = "full" => tok.text = "word"

VARIABLES
    arguments,           \* arguments_: key -> Option
    positionals,         \* positionals_
    exclusive_flags, exclusive_variables,
    error_log,
    valid_state,
    exit_on_special,     \* exit_on_special_command_
    usage,               \* usage_string_: what its synopsis shows, and of which keys
    phase,               \* "declare", "tokens", "operand", "checks", "parsed", "exited"
    current,             \* parse()'s locals: the positional and the pending option
    argv                 \* the tokens read so far

declared == <<arguments, positionals, exclusive_flags, exclusive_variables>>
vars == <<declared, error_log, valid_state, exit_on_special, usage, phase, current, argv>>

-----------------------------------------------------------------------------
(* Options and casts.                                                      *)

\* Option<T>, as add_variable constructs it.
Option(type) ==
    [type |-> type, is_set |-> FALSE, value |-> none, dependency |-> none, exclusive_sets |-> {}]

\* stoi stops at the comma of a list; it rejects what does not start like a
\* number and throws std::out_of_range for what does not fit.
StringCastInt(text) ==
    CASE text \in {"number", "list", "mixed"} -> "number"
      [] text = "huge" -> "out_of_range"
      [] OTHER -> "invalid_argument"

\* Each part of the list is cast; parts out of range, or no number, throw.
StringCastVec(text) ==
    CASE text \in {"number", "list"} -> text
      [] text = "mixed" -> "invalid_argument"
      [] OTHER -> StringCastInt(text)

StringCast(type, text) ==
    CASE type = "INT" -> StringCastInt(text)
      [] type = "VEC_INT" -> StringCastVec(text)
      [] OTHER -> text

Thrown == {"out_of_range", "invalid_argument"}

\* cast() catches invalid_argument to throw InvalidOperandException; an
\* out_of_range reaches the handler of parse() as it is.
cast_error(result) ==
    IF result = "invalid_argument" THEN "InvalidOperand" ELSE result

is_flag(k) == arguments[k].type = "BOOL"

-----------------------------------------------------------------------------
(* Declarations.                                                           *)

Init ==
    /\ arguments = [k \in Special |-> Option("BOOL")]
    /\ positionals = <<>>
    /\ exclusive_flags = <<>> /\ exclusive_variables = <<>>
    /\ error_log = <<>>
    /\ valid_state = FALSE
    /\ exit_on_special \in BOOLEAN
    /\ usage = [known |-> {}, shown |-> {}]
    /\ phase = "declare"
    /\ current = [positional |-> 0, key |-> none]
    /\ argv = <<>>

\* add_variable, add_flag and add_list for every option of the program: the
\* order does not matter, all come before the constraints.
add_variable ==
    /\ phase = "declare" /\ DOMAIN arguments = Special
    /\ arguments' = [k \in Special \union DOMAIN Options |->
                       IF k \in Special THEN arguments[k] ELSE Option(Options[k])]
    /\ UNCHANGED <<positionals, exclusive_flags, exclusive_variables, error_log, valid_state,
                   exit_on_special, usage, phase, current, argv>>

add_positional ==
    /\ phase = "declare" /\ DOMAIN arguments # Special /\ positionals = <<>>
    /\ \E types \in Positionals :
         positionals' = [i \in DOMAIN types |-> Option(types[i])]
    /\ UNCHANGED <<arguments, exclusive_flags, exclusive_variables, error_log, valid_state,
                   exit_on_special, usage, phase, current, argv>>

\* Each option remembers the index of the set, counted among the sets of the
\* same kind only.
mark_exclusive(set, index) ==
    [k \in DOMAIN arguments |->
        IF k \in set THEN [arguments[k] EXCEPT !.exclusive_sets = @ \union {index}]
        ELSE arguments[k]]

set_flags_exclusive(set) ==
    /\ phase = "declare" /\ set \subseteq DOMAIN arguments /\ ~Contains(exclusive_flags, set)
    /\ \A k \in set : is_flag(k)
    /\ arguments' = mark_exclusive(set, Len(exclusive_flags))
    /\ exclusive_flags' = Append(exclusive_flags, set)
    /\ UNCHANGED <<positionals, exclusive_variables, error_log, valid_state, exit_on_special,
                   usage, phase, current, argv>>

set_variables_exclusive(set) ==
    /\ phase = "declare" /\ set \subseteq DOMAIN arguments /\ ~Contains(exclusive_variables, set)
    /\ \A k \in set : ~is_flag(k)
    /\ arguments' = mark_exclusive(set, Len(exclusive_variables))
    /\ exclusive_variables' = Append(exclusive_variables, set)
    /\ UNCHANGED <<positionals, exclusive_flags, error_log, valid_state, exit_on_special,
                   usage, phase, current, argv>>

compatible(k, l) == arguments[k].exclusive_sets \cap arguments[l].exclusive_sets = {}

\* The assertion on compatible() is a precondition.
set_dependency(key, req) ==
    /\ phase = "declare" /\ {key, req} \subseteq DOMAIN arguments
    /\ compatible(key, req)
    /\ arguments[key].dependency # req
    /\ arguments' = [arguments EXCEPT ![key].dependency = req]
    /\ UNCHANGED <<positionals, exclusive_flags, exclusive_variables, error_log, valid_state,
                   exit_on_special, usage, phase, current, argv>>

-----------------------------------------------------------------------------
(* The usage string, made once: what its synopsis shows.                   *)

\* The unconstrained options without a dependency that nothing depends on, the
\* exclusive sets, and each option that has a dependency along with it.
make_usage_string ==
    LET dependent == {k \in DOMAIN arguments : arguments[k].dependency # none}
        blacklist == Special \union {arguments[k].dependency : k \in dependent}
        free == {k \in DOMAIN arguments \ dependent : arguments[k].exclusive_sets = {}} \ blacklist
        pairs == UNION {{k, arguments[k].dependency} : k \in dependent}
    IN  [known |-> DOMAIN arguments,
         shown |-> free \union (UNION Range(exclusive_flags \o exclusive_variables)) \union pairs]

cached_usage == IF usage.known = {} THEN make_usage_string ELSE usage

-----------------------------------------------------------------------------
(* parse().                                                                *)

begin_parse ==
    /\ phase = "declare" /\ DOMAIN arguments # Special
    /\ valid_state' = TRUE
    /\ phase' = "tokens"
    /\ UNCHANGED <<declared, error_log, exit_on_special, usage, current, argv>>

\* An exception ends the loop; its message is logged.
throw(error) ==
    /\ error_log' = Append(error_log, error)
    /\ valid_state' = FALSE
    /\ phase' = "checks"
    /\ UNCHANGED current

read(tok) == Len(argv) < MaxTokens /\ argv' = Append(argv, tok)

\* The special commands run their trigger first, which may exit.
trigger(key) ==
    /\ usage' = IF key = "h" THEN cached_usage ELSE usage
    /\ phase' = IF exit_on_special THEN "exited" ELSE "tokens"

\* "-k" or "--name".
single_argument(tok) ==
    /\ phase = "tokens" /\ tok.kind \in {"short", "full"} /\ read(tok)
    /\ UNCHANGED <<positionals, exclusive_flags, exclusive_variables, exit_on_special>>
    /\ \/ /\ tok.key \notin DOMAIN arguments
          /\ throw("UnknownArgument") /\ UNCHANGED <<arguments, usage>>
       \/ /\ tok.key \in DOMAIN arguments
          /\ UNCHANGED <<error_log, valid_state>>
          /\ \/ /\ tok.key \in Special
                /\ trigger(tok.key)
                /\ arguments' = [arguments EXCEPT ![tok.key].is_set = ~exit_on_special]
                /\ UNCHANGED current
             \/ /\ tok.key \notin Special
                /\ arguments' = [arguments EXCEPT ![tok.key].is_set = TRUE]
                /\ phase' = IF is_flag(tok.key) THEN "tokens" ELSE "operand"
                /\ current' = IF is_flag(tok.key) THEN current ELSE [current EXCEPT !.key = tok.key]
                /\ UNCHANGED usage

\* The token behind a variable, whatever it looks like, is its operand.
operand(tok) ==
    /\ phase = "operand" /\ read(tok)
    /\ \E result \in {StringCast(arguments[current.key].type, tok.text)} :
         \/ /\ result \in Thrown
            /\ throw(cast_error(result)) /\ UNCHANGED arguments
         \/ /\ result \notin Thrown
            /\ arguments' = [arguments EXCEPT ![current.key].value = result]
            /\ phase' = "tokens"
            /\ current' = [current EXCEPT !.key = none]
            /\ UNCHANGED <<error_log, valid_state>>
    /\ UNCHANGED <<positionals, exclusive_flags, exclusive_variables, exit_on_special, usage>>

missing_operand ==
    /\ phase = "operand"
    /\ throw("MissingOperand")
    /\ UNCHANGED <<declared, exit_on_special, usage, argv>>

\* MUTANT: a variable in a group of flags is taken for a flag.
try_set_flag_group_any(keys) ==
    [key |-> none, set |-> {keys[j] : j \in DOMAIN keys} \cap DOMAIN arguments]

\* The first key of the group that is no flag ends it; those before it are set.
try_set_flag_group(keys) ==
    LET bad == {i \in DOMAIN keys : keys[i] \notin DOMAIN arguments \/ ~is_flag(keys[i])}
        stop == IF bad = {} THEN Len(keys) + 1 ELSE CHOOSE i \in bad : \A j \in bad : i <= j
    IN  [key |-> IF bad = {} THEN none ELSE keys[stop], set |-> {keys[j] : j \in 1..stop - 1}]

flag_group(tok) ==
    /\ phase = "tokens" /\ tok.kind = "group" /\ read(tok)
    /\ \E unknown \in {try_set_flag_group(tok.keys)} :
         /\ arguments' = [k \in DOMAIN arguments |->
                            IF k \in unknown.set THEN [arguments[k] EXCEPT !.is_set = TRUE]
                            ELSE arguments[k]]
         /\ \/ unknown.key # none /\ throw("UnknownArgument")
            \/ unknown.key = none /\ UNCHANGED <<error_log, valid_state, phase, current>>
    /\ UNCHANGED <<positionals, exclusive_flags, exclusive_variables, exit_on_special, usage>>

\* try_set_positional
positional(tok) ==
    /\ phase = "tokens" /\ tok.kind = "word" /\ read(tok)
    /\ UNCHANGED <<arguments, exclusive_flags, exclusive_variables, exit_on_special, usage>>
    /\ \/ /\ current.positional >= Len(positionals)
          /\ throw("SupernumeraryArgument") /\ UNCHANGED positionals
       \/ /\ current.positional < Len(positionals)
          /\ \E n \in {current.positional + 1} :
             \E result \in {StringCast(positionals[n].type, tok.text)} :
               \/ /\ result \in Thrown
                  /\ throw(cast_error(result)) /\ UNCHANGED positionals
               \/ /\ result \notin Thrown
                  /\ positionals' = [positionals EXCEPT ![n].value = result, ![n].is_set = TRUE]
                  /\ current' = [current EXCEPT !.positional = n]
                  /\ UNCHANGED <<error_log, valid_state, phase>>

end_of_argv ==
    /\ phase = "tokens"
    /\ phase' = "checks"
    /\ UNCHANGED <<declared, error_log, valid_state, exit_on_special, usage, current, argv>>

-----------------------------------------------------------------------------
(* The checks: each logs at most one error.                                *)

get_active == {k \in DOMAIN arguments : arguments[k].is_set}

check_positional_requirements ==
    IF \E i \in DOMAIN positionals : ~positionals[i].is_set THEN <<"MissingPositional">> ELSE <<>>

check_intersection(active, exclusives) ==
    \A i \in DOMAIN exclusives : Cardinality(active \cap exclusives[i]) <= 1

check_exclusivity_constraints ==
    IF /\ check_intersection({k \in get_active : is_flag(k)}, exclusive_flags)
       /\ check_intersection({k \in get_active : ~is_flag(k)}, exclusive_variables)
    THEN <<>> ELSE <<"Incompatible">>

check_dependencies ==
    IF {arguments[k].dependency : k \in get_active} \ {none} \subseteq get_active
    THEN <<>> ELSE <<"Required">>

\* parse() runs all three, whatever the tokens did, and returns valid_state_.
check_constraints ==
    /\ phase = "checks"
    /\ \E errors \in {check_positional_requirements \o check_exclusivity_constraints
                      \o check_dependencies} :
         /\ valid_state' = (valid_state /\ errors = <<>>)
         /\ error_log' = error_log \o errors
    /\ phase' = "parsed"
    /\ UNCHANGED <<declared, exit_on_special, usage, current, argv>>

\* usage(), which main() displays after an error.
show_usage ==
    /\ phase = "parsed" /\ usage.known = {}
    /\ usage' = cached_usage
    /\ UNCHANGED <<declared, error_log, valid_state, exit_on_special, phase, current, argv>>

Next ==
    \/ add_variable \/ add_positional
    \/ \E set \in Exclusives : set_flags_exclusive(set) \/ set_variables_exclusive(set)
    \/ \E d \in Dependencies : set_dependency(d[1], d[2])
    \/ begin_parse
    \/ \E tok \in Tokens : single_argument(tok) \/ operand(tok) \/ flag_group(tok) \/ positional(tok)
    \/ missing_operand \/ end_of_argv \/ check_constraints \/ show_usage

Spec == Init /\ [][Next]_vars

-----------------------------------------------------------------------------
(* A reference: what a command line means, read off argv as a whole.       *)

Known(k) == k \in DOMAIN arguments
NamesVariable(tok) == tok.kind \in {"short", "full"} /\ Known(tok.key) /\ ~is_flag(tok.key)

\* The tokens that are operands, and the words that are positionals.
IsOperand == LET op[i \in 0..Len(argv)] == i > 1 /\ ~op[i - 1] /\ NamesVariable(argv[i - 1])
             IN  op
Proper == {i \in 1..Len(argv) : ~IsOperand[i]}
Words == {i \in Proper : argv[i].kind = "word"}
Rank(i) == Cardinality({j \in Words : j <= i})
Castable(type, i) == StringCast(type, argv[i].text) \notin Thrown

NamedBy(i) == IF argv[i].kind = "group" THEN Range(argv[i].keys)
              ELSE IF argv[i].kind = "word" THEN {} ELSE {argv[i].key}
Named == UNION {NamedBy(i) : i \in Proper}

WellFormed ==
    /\ \A k \in Named : Known(k)
    /\ \A i \in Proper : argv[i].kind = "group" => \A k \in NamedBy(i) : is_flag(k)
    /\ \A i \in Proper : NamesVariable(argv[i]) =>
          i < Len(argv) /\ Castable(arguments[argv[i].key].type, i + 1)
    /\ \A i \in Words : Rank(i) <= Len(positionals) /\ Castable(positionals[Rank(i)].type, i)

Exclusive(k, l) == \E s \in Range(exclusive_flags \o exclusive_variables) : {k, l} \subseteq s

Legal ==
    /\ WellFormed
    /\ Cardinality(Words) = Len(positionals)
    /\ \A k, l \in Named : k # l => ~Exclusive(k, l)
    /\ \A k \in Named : arguments[k].dependency \in Named \union {none}

-----------------------------------------------------------------------------
(* Properties.                                                             *)

TypeOK ==
    /\ \A k \in DOMAIN arguments :
          arguments[k].type \in ArgType /\ arguments[k].is_set \in BOOLEAN
          /\ arguments[k].value \notin Thrown
    /\ current.key \in DOMAIN arguments \union {none}
    /\ current.positional \in 0..Len(positionals)

\* parse() returns true exactly for the command lines that respect every rule
\* of the declarations, and has then set exactly the options argv names, each
\* variable to the operand behind one of its mentions: an operand is never
\* taken for an option, an early error is never masked by the checks that
\* still run, and no rule depends on the order of the tokens.
ParsesLegalLines ==
    phase = "parsed" =>
        /\ valid_state <=> Legal
        /\ valid_state => get_active = Named
        /\ valid_state => \A k \in Named : ~is_flag(k) =>
             \E i \in Proper : /\ NamesVariable(argv[i]) /\ argv[i].key = k
                              /\ arguments[k].value = StringCast(Options[k], argv[i + 1].text)

\* A refused command line is always explained, an accepted one never: the
\* caller prints get_errors() when parse() returns false.
RefusalExplained == phase = "parsed" => (valid_state <=> error_log = <<>>)

\* Every declared option appears in the synopsis, however exclusive sets and
\* dependencies overlap.
UsageComplete == usage.known \ Special \subseteq usage.shown

\* "Check if two options are compatible, meaning they don't share an exclusive
\* set" (argparse.h): what set_dependency asserts.
CompatibleExact ==
    \A k, l \in DOMAIN arguments : k # l => (compatible(k, l) <=> ~Exclusive(k, l))

-----------------------------------------------------------------------------
(* Why they hold.                                                          *)

Errors == {"UnknownArgument", "MissingOperand", "InvalidOperand", "out_of_range",
           "SupernumeraryArgument", "MissingPositional", "Incompatible", "Required"}

\* What a declaration leaves, and parse() never changes.
DeclaredOption(k) ==
    LET option == arguments[k]
    IN  /\ option = [type |-> option.type, is_set |-> option.is_set, value |-> option.value,
                     dependency |-> option.dependency, exclusive_sets |-> option.exclusive_sets]
        /\ option.is_set \in BOOLEAN
        /\ k \in DOMAIN Options => option.type = Options[k]
        /\ k \in Special => option.type = "BOOL"
        /\ option.exclusive_sets # {} =>
               \E set \in Range(exclusive_flags) \union Range(exclusive_variables) : k \in set

DeclaredOK ==
    /\ arguments = [k \in DOMAIN arguments |-> arguments[k]]
    /\ DOMAIN arguments \in {Special, Special \union DOMAIN Options}
    /\ \A k \in DOMAIN arguments : DeclaredOption(k)
    /\ positionals \in Seq([type : ArgType, is_set : BOOLEAN, value : Texts \union {none}, dependency : {none},
                            exclusive_sets : {{}}])
    /\ exclusive_flags \in Seq({set \in SUBSET DOMAIN arguments : \A k \in set : is_flag(k)})
    /\ exclusive_variables \in Seq({set \in SUBSET DOMAIN arguments : \A k \in set : ~is_flag(k)})

\* The last token read is a variable that waits for its operand.
Pending == phase = "operand"
PendingHere(i) == i = Len(argv) /\ Pending /\ current.key = argv[i].key

\* The tokens read so far break no rule, and are what the options hold.
Clean ==
    /\ valid_state /\ error_log = <<>>
    /\ \A k \in Named : Known(k)
    /\ \A i \in Proper : argv[i].kind = "group" => \A k \in NamedBy(i) : is_flag(k)
    /\ \A i \in Proper : NamesVariable(argv[i]) =>
          PendingHere(i) \/ (i < Len(argv) /\ Castable(arguments[argv[i].key].type, i + 1))
    /\ Pending => \E i \in Proper : NamesVariable(argv[i]) /\ PendingHere(i)
    /\ \A i \in Words : Rank(i) <= Len(positionals) /\ Castable(positionals[Rank(i)].type, i)
    /\ current.positional = Cardinality(Words) /\ current.positional <= Len(positionals)
    /\ \A n \in DOMAIN positionals : positionals[n].is_set <=> n <= current.positional
    /\ get_active = Named
    /\ \A k \in Named : ~is_flag(k) =>
          \/ Pending /\ k = current.key
          \/ \E i \in Proper : /\ i < Len(argv) /\ NamesVariable(argv[i]) /\ argv[i].key = k
                               /\ arguments[k].value = StringCast(Options[k], argv[i + 1].text)

\* Before a parse nothing is set; during it the tokens are clean until one
\* that is not ends the loop.
Inv ==
    /\ DeclaredOK /\ UsageComplete
    /\ argv \in Seq(Tokens)
    /\ current = [positional |-> current.positional, key |-> current.key]
    /\ phase \in {"declare", "tokens", "operand", "checks", "parsed", "exited"}
    /\ phase = "declare" =>
          /\ argv = <<>> /\ error_log = <<>> /\ current.positional = 0
          /\ get_active = {}
          /\ \A n \in DOMAIN positionals : ~positionals[n].is_set
    /\ phase \in {"tokens", "operand"} => Clean
    /\ phase = "checks" => Clean \/ (~valid_state /\ error_log \in Seq(Errors) \ {<<>>} /\ ~WellFormed)
    /\ ParsesLegalLines /\ RefusalExplained
=============================================================================
