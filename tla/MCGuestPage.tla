------------------------------ MODULE MCGuestPage ------------------------------
(***************************************************************************)
(* Instances of the guest's page for TLC.                                  *)
(***************************************************************************)
EXTENDS GuestPage, TLC

CONSTANTS host, g1
================================================================================
