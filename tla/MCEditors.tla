----------------------------- MODULE MCEditors -----------------------------
(* Model checking of what editors change: CanvasSync (one asset, two       *)
(* concurrent invocations) and TextEditing (two editors).  A behaviour is  *)
(* of one of the two, the variables of the other keep their initial values.*)
EXTENDS CanvasSync, TextEditing, TLC

VARIABLE part

unionVars == <<part, allVars, textVars>>

UnionInit ==
  /\ part \in {"canvas", "text"}
  /\ CanvasInit
  /\ TextInit

UnionNext ==
  /\ UNCHANGED part
  /\ \/ part = "canvas" /\ CanvasNext /\ UNCHANGED textVars
     \/ part = "text" /\ TextNext /\ UNCHANGED allVars

UnionSpec == UnionInit /\ [][UnionNext]_unionVars

UnionSymmetry == Permutations(Handlers) \cup Permutations(Slots)

(* The canvas, its messages, and the text under its editors are well typed.*)
EditingTypeOK == CanvasTypeOK /\ TextTypeOK
============================================================================
