------------------------- MODULE MCAccountsBackend -------------------------
(* Model checking of the two parts of services/accounts, each by itself: a *)
(* behaviour is one of Accounts or of AccountDeletion, and the variables   *)
(* of the other keep their initial values, so the state spaces add up.     *)
EXTENDS Accounts, AccountDeletion, TLC

VARIABLE part

unionVars == <<part, vars, deletionVars>>

UnionInit ==
  /\ part \in {"accounts", "deletion"}
  /\ Init
  /\ DeletionInit

UnionNext ==
  /\ UNCHANGED part
  /\ \/ part = "accounts" /\ Next /\ UNCHANGED deletionVars
     \/ part = "deletion" /\ DeletionNext /\ UNCHANGED vars

UnionSpec == UnionInit /\ [][UnionNext]_unionVars

UnionSymmetry ==
  Permutations(Handlers) \cup Permutations(Rooms) \cup Permutations(Users)

(* The accounts' tables and the requests at work on them are well typed.   *)
ServiceTypeOK == TypeOK /\ DeletionTypeOK
============================================================================
