---------------------------- MODULE SeqRegister ----------------------------
(***************************************************************************)
(* What every seq-guarded cell of the system promises: the asset rows of   *)
(* the assets table, the global volume and the stream preview settings of  *)
(* the rooms table.  A cell is empty or holds a sequence number with some  *)
(* content; while it is filled its content changes only together with a    *)
(* strictly larger sequence number.                                        *)
(***************************************************************************)
EXTENDS Naturals

CONSTANTS
  Keys,    \* the cells
  Empty    \* a cell that does not exist

VARIABLE reg   \* reg[k] is Empty or a record with a field seq

Init == \A k \in Keys : reg[k] = Empty

Fill(k) == reg[k] = Empty /\ reg'[k] # Empty

Advance(k) ==
  /\ reg[k] # Empty
  /\ reg'[k] # Empty
  /\ reg'[k].seq > reg[k].seq

Clear(k) == reg[k] # Empty /\ reg'[k] = Empty

(* One step touches one cell.                                              *)
Next ==
  \E k \in Keys :
    /\ Fill(k) \/ Advance(k) \/ Clear(k)
    /\ \A other \in Keys \ {k} : reg'[other] = reg[other]

Spec == Init /\ [][Next]_reg
============================================================================
