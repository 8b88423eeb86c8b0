------------------------------ MODULE MCAccounts ------------------------------
(* One subject known to two providers, two valid names and the empty one.     *)
EXTENDS Accounts, TLC

Names == {"ada", "bob", ""}
Symmetric == Permutations(Request) \cup Permutations(Browser) \cup Permutations(ProviderName)
================================================================================
