---------------------------- MODULE MCUndoHistory ----------------------------
(***************************************************************************)
(* Instances of UndoHistory: strokes are alike.                            *)
(***************************************************************************)
EXTENDS UndoHistory, TLC

Strokes == Permutations(Stroke)
=============================================================================
