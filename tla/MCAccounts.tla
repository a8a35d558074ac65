------------------------------ MODULE MCAccounts ------------------------------
(***************************************************************************)
(* An instance with an owner and a tenant, who streams; two requests are   *)
(* in progress at a time.                                                  *)
(***************************************************************************)
EXTENDS Accounts, TLC

CONSTANTS owner, tenant, r1, r2

RequestSymmetry == Permutations(Requests)
===============================================================================
