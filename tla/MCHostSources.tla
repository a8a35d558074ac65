------------------------------ MODULE MCHostSources ------------------------------
(***************************************************************************)
(* The two things the sources of a host rely on, the camera behind the     *)
(* host source and the tokens of all sources.  They share no state, so a   *)
(* behaviour follows one of them and leaves the other at rest.             *)
(***************************************************************************)
EXTENDS HostCapture, SourceTokens

VARIABLE followed

vars == <<captureVars, tokenVars, followed>>

Init == CaptureInit /\ TokensInit /\ followed \in {"camera", "tokens"}

Next ==
    /\ UNCHANGED followed
    /\ \/ followed = "camera" /\ CaptureNext /\ UNCHANGED tokenVars
       \/ followed = "tokens" /\ TokensNext /\ UNCHANGED captureVars

Spec ==
    /\ Init /\ [][Next]_vars
    /\ WF_vars(followed = "camera" /\ CaptureProgress /\ UNCHANGED <<tokenVars, followed>>)
    /\ WF_vars(followed = "tokens" /\ TokensProgress /\ UNCHANGED <<captureVars, followed>>)
==================================================================================
