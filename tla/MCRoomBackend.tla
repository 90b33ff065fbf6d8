--------------------------- MODULE MCRoomBackend ---------------------------
(* Model checking of the three parts of a room's backend, each by itself:  *)
(* a behaviour is one of AssetStore (with the history of AssetVisibility), *)
(* of RoomTable or of MediaStorage, the variables of the others keep their *)
(* initial values, and so the state spaces add up.  They share no state    *)
(* that a property depends on.                                             *)
(* AssetStore has a viewport [3, 7) with positions and widths on both      *)
(* sides of its edges (0 + 3 touches it, 0 + 5 overlaps).                  *)
EXTENDS AssetVisibility, RoomTable, MediaStorage, TLC

CONSTANTS r1, r2

VARIABLE part

unionVars == <<part, visibilityVars, roomVars, mediaVars>>

(* All uploads are for room r1, and as large as the quota.                 *)
MediaHome == [k \in Media |-> r1]
MediaSize == [k \in Media |-> 1]

UnionInit ==
  /\ part \in {"assets", "room", "media"}
  /\ VisibilityInit
  /\ RoomInit
  /\ MediaInit
  /\ viewing = r1

UnionNext ==
  /\ UNCHANGED part
  /\ \/ part = "assets" /\ VisibilityNext /\ UNCHANGED <<roomVars, mediaVars>>
     \/ part = "room" /\ RoomNext /\ UNCHANGED <<visibilityVars, mediaVars>>
     \/ part = "media" /\ MediaNext /\ UNCHANGED <<visibilityVars, roomVars>>

UnionSpec == UnionInit /\ [][UnionNext]_unionVars

UnionSymmetry ==
  Permutations(Handlers) \cup Permutations(Media) \cup Permutations(AssetIds)

(* The tables' rows and the invocations at work on them are well typed.    *)
BackendTypeOK == TypeOK /\ RoomTypeOK /\ MediaTypeOK
============================================================================
