------------------------------ MODULE UndoStack ------------------------------
(***************************************************************************)
(* kb::undo::UndoStack and UndoCommand (source/kibble/undo): a stack is a  *)
(* record and every operation an operator from stacks to stacks.           *)
(*                                                                         *)
(* The document under edit is a function from Keys to Values.  A command   *)
(* is a sequence of steps that write a key; a macro-command has the steps  *)
(* of its children.  Three fields do not exist in the code: doc and saved, *)
(* the client's document, which the commands act on, and what it was when  *)
(* the client last called set_clean(); spoiled, whether since then the     *)
(* limit has dropped a command or one was merged into the clean state.     *)
(***************************************************************************)
EXTENDS Integers, SequencesExt

CONSTANTS Keys, Values

(* merge_id of a command that does not merge, and the reset clean_index_.  *)
NoId    == -1
NoClean == -1

-----------------------------------------------------------------------------
(* UndoCommand::redo and undo: the children in order, then in reverse.     *)
(* Mutant: undo goes through the children in order.                        *)
RedoCommand(doc, c) == FoldLeft(LAMBDA d, s : [d EXCEPT ![s.key] = s.to], doc, c.steps)
UndoInOrder(doc, c) == FoldLeft(LAMBDA d, s : [d EXCEPT ![s.key] = s.from], doc, c.steps)
UndoCommand(doc, c) ==
    FoldLeft(LAMBDA d, s : [d EXCEPT ![s.key] = s.from], doc, Reverse(c.steps))

(* merge_with, written by the client as its contract asks: the merged      *)
(* command does what both do, and is obsolete when that is nothing.  Here, *)
(* two commands that write one key.                                        *)
CanMergeWith(a, c) ==
    Len(a.steps) = 1 /\ Len(c.steps) = 1 /\ a.steps[1].key = c.steps[1].key
MergeWith(a, c) ==
    [a EXCEPT !.steps    = <<[@[1] EXCEPT !.to = c.steps[1].to]>>,
              !.obsolete = @ \/ a.steps[1].from = c.steps[1].to]

-----------------------------------------------------------------------------
Count(s)   == Len(s.history)
CanUndo(s) == s.head > 0
CanRedo(s) == s.head < Count(s)
IsClean(s) == s.head = s.clean

NewStack(doc) ==
    [history |-> <<>>, limit |-> 0, head |-> 0, clean |-> NoClean, doc |-> doc, saved |-> doc,
     spoiled |-> FALSE]

(* The commands after head go, and the clean index with them if it was     *)
(* there.  Mutant: the clean index stays.                                  *)
TruncateOnly(s) == [s EXCEPT !.history = SubSeq(@, 1, s.head)]
Truncate(s) ==
    [s EXCEPT !.history = SubSeq(@, 1, s.head),
              !.clean   = IF CanRedo(s) /\ s.head < @ THEN NoClean ELSE @]

(* Whether the limit asks for the oldest command to go.                    *)
(* Mutant: off by one.                                                     *)
PastLimit(s) == s.limit > 0 /\ Count(s) > s.limit
AtLimit(s)   == s.limit > 0 /\ Count(s) >= s.limit

(* push: merges says whether merge_with accepts.                           *)
Merges(s, c) ==
    /\ CanUndo(s)
    /\ c.id # NoId
    /\ s.history[s.head].id = c.id
    /\ CanMergeWith(s.history[s.head], c)

(* An obsolete command goes, and the clean index if it stood behind it.    *)
DropObsolete(s) ==
    [s EXCEPT !.history = Front(@),
              !.clean   = IF @ >= Count(s) THEN NoClean ELSE @]

Push(s, c, merges) ==
    LET done   == [s EXCEPT !.doc = RedoCommand(@, c)]
        kept   == Truncate(done)
        pushed == IF merges /\ Merges(kept, c)
                  THEN [kept EXCEPT !.history[kept.head] = MergeWith(@, c),
                                    !.spoiled = @ \/ IsClean(kept)]
                  ELSE [kept EXCEPT !.history = Append(IF AtLimit(kept) THEN Tail(@) ELSE @, c),
                                    !.spoiled = @ \/ AtLimit(kept)]
        final  == IF Last(pushed.history).obsolete THEN DropObsolete(pushed) ELSE pushed
    IN  [final EXCEPT !.head = Count(final)]

Clear(s) == [s EXCEPT !.history = <<>>, !.head = 0, !.clean = NoClean]

Undo(s) == IF CanUndo(s)
           THEN [s EXCEPT !.head = @ - 1, !.doc = UndoCommand(@, s.history[s.head])]
           ELSE s
Redo(s) == IF CanRedo(s)
           THEN [s EXCEPT !.head = @ + 1, !.doc = RedoCommand(@, s.history[s.head + 1])]
           ELSE s

(* set_head clips the index, then undoes or redoes one command at a time.  *)
SetHead(s, index) ==
    LET target == IF index > Count(s) THEN Count(s) ELSE index
        back[i \in 0 .. Count(s)] ==
            IF i >= s.head THEN s.doc ELSE UndoCommand(back[i + 1], s.history[i + 1])
        forth[i \in 0 .. Count(s)] ==
            IF i <= s.head THEN s.doc ELSE RedoCommand(forth[i - 1], s.history[i])
    IN  [s EXCEPT !.head = target,
                  !.doc  = IF target < s.head THEN back[target] ELSE forth[target]]

SetClean(s)   == [s EXCEPT !.clean = s.head, !.saved = s.doc, !.spoiled = FALSE]
ResetClean(s) == [s EXCEPT !.clean = NoClean]

(* Only an empty stack takes a new limit.                                  *)
SetUndoLimit(s, n) == IF s.history = <<>> THEN [s EXCEPT !.limit = n] ELSE s
=============================================================================
