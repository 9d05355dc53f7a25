------------------------------ MODULE UndoGroup ------------------------------
(***************************************************************************)
(* kb::undo::UndoGroup: named undo stacks, one of which is active and      *)
(* takes the operations of the client.  Functors tell an observer what     *)
(* changes; view is what the observer was told last, as in GroupFixture of *)
(* test_undo.cpp.  The functors are installed before the first stack.      *)
(***************************************************************************)
EXTENDS UndoStack

CONSTANTS
    Names, NoName,     \* hashes of stack names, and 0
    Moves,             \* the changes of a value the client makes: pairs of an old and a new one
    MergeIds,          \* the merge ids the client gives its commands
    Macros,            \* whether it pushes macro-commands
    Limits,            \* the undo limits it sets
    CarefulRelabel,    \* whether it relabels stacks to unused names only
    MaxCount           \* bound: the number of commands in all stacks

ASSUME UndoAssumption ==
    /\ NoName \notin Names
    /\ Values # {}
    /\ Moves \subseteq Values \X Values
    /\ MergeIds \subseteq Nat
    /\ Limits \subseteq Nat
    /\ MaxCount \in Nat
    /\ Macros \in BOOLEAN /\ CarefulRelabel \in BOOLEAN

VARIABLES
    stacks,   \* UndoGroup::stacks_
    active,   \* UndoGroup::active_stack_
    view      \* what the functors told the observer

vars == <<stacks, active, view>>

(* The state the four functors report; all zero without an active stack.   *)
NoView  == [head |-> 0, clean |-> FALSE, canUndo |-> FALSE, canRedo |-> FALSE]
Seen(s) == [head |-> s.head, clean |-> IsClean(s), canUndo |-> CanUndo(s), canRedo |-> CanRedo(s)]

(* check_state_transitions: a functor is called when its value is not that *)
(* of the snapshot.                                                        *)
CheckStateTransitions(old, new) ==
    view' = [f \in DOMAIN view |-> IF Seen(new)[f] # Seen(old)[f] THEN Seen(new)[f] ELSE view[f]]

(* The commands a client can make of the document it sees.                 *)
Writes(doc, k) == {[key |-> k, from |-> m[1], to |-> m[2]] : m \in {m \in Moves : m[1] = doc[k]}}
Simple(doc) ==
    {[id |-> i, steps |-> <<w>>, obsolete |-> FALSE] :
        i \in MergeIds \union {NoId}, w \in UNION {Writes(doc, k) : k \in Keys}}
MacrosOf(doc) ==
    UNION {{[id |-> NoId, steps |-> a.steps \o b.steps, obsolete |-> FALSE] :
                b \in Simple(RedoCommand(doc, a))} : a \in Simple(doc)}
Commands(doc) == Simple(doc) \union (IF Macros THEN MacrosOf(doc) ELSE {})

Blank == [k \in Keys |-> CHOOSE v \in Values : TRUE]

-----------------------------------------------------------------------------
Init ==
    /\ stacks = <<>>
    /\ active = NoName
    /\ view = NoView

(* An operation of the group goes to the active stack, if there is one.    *)
OnActive(op(_)) ==
    /\ active # NoName
    /\ stacks' = [stacks EXCEPT ![active] = op(@)]
    /\ CheckStateTransitions(stacks[active], stacks'[active])
    /\ UNCHANGED active

(* The number of commands that the bound is about.                         *)
Total(S) == MapThenSumSet(LAMBDA n : Count(S[n]), DOMAIN S)

GroupPush ==
    /\ active # NoName
    /\ \E c \in Commands(stacks[active].doc), merges \in BOOLEAN :
        /\ OnActive(LAMBDA s : Push(s, c, merges))
        /\ Total(stacks') <= MaxCount
GroupUndo == OnActive(Undo)
GroupRedo == OnActive(Redo)
GroupClear == OnActive(Clear)
(* Mutant: the observer is not told.                                       *)
SetHeadQuietly ==
    /\ active # NoName
    /\ \E i \in 0 .. MaxCount + 1 : stacks' = [stacks EXCEPT ![active] = SetHead(@, i)]
    /\ UNCHANGED <<active, view>>
GroupSetHead == \E i \in 0 .. MaxCount + 1 : OnActive(LAMBDA s : SetHead(s, i))
GroupSetClean == OnActive(SetClean)
GroupResetClean == OnActive(ResetClean)
GroupSetUndoLimit == \E n \in Limits : OnActive(LAMBDA s : SetUndoLimit(s, n))

-----------------------------------------------------------------------------
AddStack(name) ==
    /\ name \notin DOMAIN stacks
    /\ stacks' = [n \in DOMAIN stacks \union {name} |->
                    IF n = name THEN NewStack(Blank) ELSE stacks[n]]
    /\ UNCHANGED <<active, view>>

(* change_active_stack tells the observer everything.                      *)
ChangeActiveStack(name) ==
    /\ active' = name
    /\ view' = IF name = NoName THEN NoView ELSE Seen(stacks[name])

(* Mutant: the active stack is not reset.                                  *)
RemoveOnly(name) ==
    /\ name \in DOMAIN stacks
    /\ stacks' = [n \in DOMAIN stacks \ {name} |-> stacks[n]]
    /\ UNCHANGED <<active, view>>

RemoveStack(name) ==
    /\ name \in DOMAIN stacks
    /\ stacks' = [n \in DOMAIN stacks \ {name} |-> stacks[n]]
    /\ IF active = name THEN ChangeActiveStack(NoName) ELSE UNCHANGED <<active, view>>

SetActive(name) ==
    /\ name # active
    /\ name \in DOMAIN stacks
    /\ ChangeActiveStack(name)
    /\ UNCHANGED stacks

(* The node is extracted and inserted under its new name; if the name is   *)
(* taken the insertion fails and the stack is destroyed.                   *)
RelabelStack(old, new) ==
    /\ old \in DOMAIN stacks
    /\ CarefulRelabel => new \notin DOMAIN stacks /\ new # NoName
    /\ stacks' = [n \in (DOMAIN stacks \ {old}) \union {new} |->
                    IF n \in DOMAIN stacks \ {old} THEN stacks[n] ELSE stacks[old]]
    /\ active' = IF active = old THEN new ELSE active
    /\ UNCHANGED view

Next ==
    \/ GroupPush \/ GroupUndo \/ GroupRedo \/ GroupClear
    \/ GroupSetHead \/ GroupSetClean \/ GroupResetClean \/ GroupSetUndoLimit
    \/ \E n \in Names : AddStack(n) \/ RemoveStack(n) \/ SetActive(n)
    \/ \E n \in Names, m \in Names \union {NoName} : RelabelStack(n, m)

Spec == Init /\ [][Next]_vars

-----------------------------------------------------------------------------
(* Properties.                                                             *)

(* Every stack has its head and its clean index among its commands, and no *)
(* more commands than its limit allows.                                    *)
IndicesValid ==
    \A n \in DOMAIN stacks :
        LET s == stacks[n]
        IN  /\ s.head \in 0 .. Count(s)
            /\ s.clean \in {NoClean} \union 0 .. Count(s)
            /\ s.limit > 0 => Count(s) <= s.limit

(* The active stack exists, so that the group's operations and             *)
(* active_stack() find it (stacks_[active_stack_] would otherwise create a *)
(* stack without functors, stacks_.at() would throw).                      *)
ActiveExists == active # NoName => active \in DOMAIN stacks

(* Undo and redo are inverse all along the history: whatever was pushed,   *)
(* truncated, merged or dropped before, undoing everything and redoing it  *)
(* (set_head) passes through the same documents in both directions.        *)
UndoRedoInverse ==
    \A n \in DOMAIN stacks : \A i \in 0 .. Count(stacks[n]) :
        LET s == stacks[n]
            t == SetHead(s, i)
        IN  /\ i > 0        => Redo(Undo(t)).doc = t.doc
            /\ i < Count(s) => Undo(Redo(t)).doc = t.doc
            /\ SetHead(t, s.head).doc = s.doc

(* The history of every stack can be walked both ways.                     *)
HistorySound == IndicesValid /\ UndoRedoInverse

(* undo.h:258, is_clean and set_clean: a stack that says it is clean holds *)
(* the document that was saved when set_clean() marked this state.  The    *)
(* code does not keep it when commands merge or the undo limit drops one.  *)
CleanMeansSaved ==
    \A n \in DOMAIN stacks : IsClean(stacks[n]) => stacks[n].doc = stacks[n].saved

(* The saved document is not lost sight of: while the clean index is set,  *)
(* moving the head there gives back the document that was saved, whatever  *)
(* was undone, truncated or merged since: the undo limit and a merge into  *)
(* the clean state itself are the only two ways to lose it.                *)
CleanReachable ==
    \A n \in DOMAIN stacks :
        LET s == stacks[n]
        IN  (s.clean # NoClean /\ ~s.spoiled) => SetHead(s, s.clean).doc = s.saved

(* The active stack exists and the observer's view is that of it, after    *)
(* every operation (undo.h: the functors are called whenever the property  *)
(* changes, or the active stack changes itself).                           *)
ViewFresh == ActiveExists /\ view = IF active = NoName THEN NoView ELSE Seen(stacks[active])
=============================================================================
