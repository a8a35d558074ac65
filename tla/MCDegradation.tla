----------------------------- MODULE MCDegradation -----------------------------
(***************************************************************************)
(* Instances of the degradation ladder for TLC.                            *)
(***************************************************************************)
EXTENDS Degradation, TLC

CONSTANTS p1, t1, t2

GuestAndCohost == [t \in Thumbs |-> IF t = t1 THEN 1 ELSE 2]
OneStep == << [scale |-> 2, fps |-> Free, rate |-> Free] >>
TwoForPrograms == [k \in Keys |-> IF k \in Programs THEN 2 ELSE 1]
LowCeiling == {[res |-> 360, fps |-> 30, rate |-> 2500]}
================================================================================
