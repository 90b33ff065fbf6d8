--------------------------- MODULE AssetVisibility ---------------------------
(***************************************************************************)
(* AssetStore with a history of who has read what.  The handler computes   *)
(* the visible flag from the row it has read, and the condition of its     *)
(* write looks at the seq only (roomState.ts), so the flag may be that of  *)
(* a box that is there no longer.  The history says when.                  *)
(***************************************************************************)
EXTENDS AssetStore

VARIABLES
  outdated,   \* invocations whose row has got another box since they read it
  skewed      \* assets whose last write was one of an outdated invocation

visibilityVars == <<vars, outdated, skewed>>

----------------------------------------------------------------------------
VisibilityInit ==
  /\ Init
  /\ outdated = {}
  /\ skewed = {}

(* What the flag is computed from.                                         *)
BoxOf(r) ==
  IF r = NoRow THEN Carry(Missing, Missing, Missing) ELSE Carry(r.x, r.width, r.hidden)

Reboxed(a) == BoxOf(row[a]) # BoxOf(row'[a])

(* Between its read and its write.                                         *)
Writing(h) == Pending(h, "write")

HasWritten(h) == Writing(h) /\ job'[h] # Idle /\ job'[h].done

Watch ==
  /\ outdated' = {h \in Handlers :
                    /\ Writing(h) /\ job'[h] = job[h]
                    /\ h \in outdated \/ Reboxed(job[h].asset)}
  /\ skewed' = {a \in Assets :
                  IF row'[a] = row[a] THEN a \in skewed
                  ELSE \E h \in outdated : HasWritten(h) /\ job[h].asset = a}

VisibilityNext == Next /\ Watch

VisibilitySpec == VisibilityInit /\ [][VisibilityNext]_visibilityVars

----------------------------------------------------------------------------
(* Properties.                                                             *)

(* roomState.ts:190-206: a row is visible to the stream if and only if it  *)
(* overlaps the viewport and is not hidden, unless the last write of it    *)
(* was computed from a box that had been changed meanwhile; the next write *)
(* that is not overtaken puts the flag right.                              *)
VisibleIsRight ==
  \A a \in Assets :
    (row[a] # NoRow /\ a \notin skewed) =>
      row[a].visible = Visible(row[a].x, row[a].width, row[a].hidden)

(* A row is whole unless it came back after a delete, and its flag is right*)
(* unless its last write was overtaken.                                    *)
RowsAreSound == RemnantIffDeleted /\ VisibleIsRight
=============================================================================
