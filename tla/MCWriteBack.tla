---------------------------- MODULE MCWriteBack -----------------------------
(***************************************************************************)
(* Two responses and two times: what one side has and the other has not.   *)
(***************************************************************************)
EXTENDS WriteBack

CONSTANTS yes, no, early, late

TwoRsvps == {yes, no}
TwoSlots == {early, late}
Mishaps  == {"transient", "crash", "release"}
=============================================================================
