-------------------------- MODULE MCTelegramLinking --------------------------
(***************************************************************************)
(* Instances of TelegramLinking for TLC.  Symmetry is for safety only.     *)
(***************************************************************************)
EXTENDS TelegramLinking, TLC

Symmetry ==
  Permutations(Users) \union Permutations(Accounts)
    \union Permutations(Tokens) \union Permutations(Jobs)
=============================================================================
