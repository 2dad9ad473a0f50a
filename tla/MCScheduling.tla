---------------------------- MODULE MCScheduling ----------------------------
(***************************************************************************)
(* Small instances of the scheduling of passes for TLC.                    *)
(***************************************************************************)
EXTENDS Scheduling

CONSTANTS u1, u2, restore, vacuum

OneUser    == {u1}
TwoUsers   == {u1, u2}
NoHolder   == {}
JustRestore == {restore}
Both       == {restore, vacuum}

=============================================================================
