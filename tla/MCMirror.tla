------------------------------ MODULE MCMirror ------------------------------
(***************************************************************************)
(* Small instances of the mirroring core for TLC.  Two renderings of an    *)
(* event are enough to tell a copy that is right from one that is not; the *)
(* ceilings (5 attempts, 8 ids per call, 50 ids per episode, 3 diffs per   *)
(* pass in the source) are cut to where the instance reaches them.         *)
(***************************************************************************)
EXTENDS Mirror

CONSTANTS p1, c1, c2

OneCopy      == {p1}
Renderings   == {c1, c2}
FewVersions  == 1 .. 2
SomeVersions == 1 .. 3

(* Burning an id takes an edit or a delete of ours, and both are bounded:  *)
(* no instance needs an id past these.                                     *)
Ids == 0 .. 5

None      == {}
Outages   == {"transient", "ingest"}
Faults    == Outages \cup {"lost", "crash", "dies"}
AllFaults == Faults \cup {"rejected", "listing"}
NoDeaths  == AllFaults \ {"dies"}
Cleanup   == {"cleanup_and_pause"}
Endpoints == {"cleanup", "cleanup_and_pause", "pause", "resume",
              "full_resync", "retry_failed", "relabel"}

(* What may go wrong in a run: failures of some kinds, edits by people,    *)
(* calls by operators.                                                     *)
Allow(faults, kinds, edits, admin) ==
  [faults |-> faults, kinds |-> kinds, edits |-> edits, admin |-> admin]

FailuresOrEdits == {Allow(2, Faults, 0, 0), Allow(1, Outages, 2, 0)}
OneCall         == {Allow(0, {}, 0, 1)}
OneOfEverything == {Allow(1, AllFaults, 2, 1), Allow(2, NoDeaths, 1, 1)}
LostAnswer      == {Allow(1, {"lost"}, 1, 0)}

=============================================================================
