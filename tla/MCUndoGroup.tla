----------------------------- MODULE MCUndoGroup -----------------------------
(* Instances of UndoGroup for TLC.                                         *)
EXTENDS UndoGroup, TLC

(* The client steps through three values, so that three commands in a row  *)
(* leave the document as it was.                                           *)
Cycle == {<<0, 1>>, <<1, 2>>, <<2, 0>>}

(* Between two values: two commands that merge leave no change.            *)
Toggle == {<<0, 1>>, <<1, 0>>}

(* The names of stacks are interchangeable.                                *)
SwapNames == Permutations(Names)
=============================================================================
