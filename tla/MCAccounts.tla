----------------------------- MODULE MCAccounts -----------------------------
(***************************************************************************)
(* Model-checking instances of Accounts.                                   *)
(***************************************************************************)
EXTENDS Accounts, TLC

Symmetry ==
    Permutations(Email) \cup Permutations(Password) \cup Permutations(User)
    \cup Permutations(SessionToken) \cup Permutations(ResetToken)
    \cup Permutations(Request)
=============================================================================
