--------------------------------- MODULE MCMesh ---------------------------------
(***************************************************************************)
(* Two guests with up to three faults.                                     *)
(***************************************************************************)
EXTENDS Mesh
================================================================================
