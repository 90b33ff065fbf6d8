----------------------------- MODULE MCAccounts -----------------------------
(* Model checking of Accounts: two people, two concurrent invocations.     *)
EXTENDS Accounts, TLC

AccountSymmetry ==
  Permutations(Handlers) \cup Permutations(Tokens) \cup Permutations(Rooms)
    \cup Permutations(Users)
============================================================================
