------------------------------ MODULE MCRetention ------------------------------
(***************************************************************************)
(* The jobs with a retention of five ticks, a sweep every other tick and a *)
(* poll every other tick.                                                  *)
(***************************************************************************)
EXTENDS Retention
===============================================================================
