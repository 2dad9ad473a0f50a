----------------------------- MODULE Coalescing -----------------------------
(***************************************************************************)
(* What the triggers promise a user, without schedules, claims or locks:   *)
(* whoever asks for a reconcile gets a pass that starts after the asking.  *)
(* Askings that come before that start fold into one.  A pass that is not  *)
(* seen through gives the request back.  Only while the engine is frozen   *)
(* may a request be dropped, or appear from a restored database.           *)
(***************************************************************************)
CONSTANT Users

VARIABLES asked,    \* the user has a request that no pass has answered yet
          serving,  \* how far the pass for the last request is
          frozen    \* maintenance holds the engine; an input

vars == <<asked, serving, frozen>>

Init ==
  /\ asked = [u \in Users |-> FALSE]
  /\ serving = [u \in Users |-> "no"]
  /\ frozen = FALSE

Ask(u) ==
  /\ asked' = [asked EXCEPT ![u] = TRUE]
  /\ UNCHANGED serving

(* The pass answers all that was asked before it; what is asked while the  *)
(* lock is waited for may stay asked.                                      *)
Begin(u) ==
  /\ asked[u]
  /\ serving[u] = "no"
  /\ serving' = [serving EXCEPT ![u] = "running"]
  /\ asked' \in {asked, [asked EXCEPT ![u] = FALSE]}

Complete(u) ==
  /\ serving[u] = "running"
  /\ serving' = [serving EXCEPT ![u] = "done"]
  /\ UNCHANGED asked

Close(u) ==
  /\ serving[u] = "done"
  /\ serving' = [serving EXCEPT ![u] = "no"]
  /\ UNCHANGED asked

(* The pass failed, or it is not on record that it was done.               *)
GiveBack(u) ==
  /\ serving[u] # "no"
  /\ serving' = [serving EXCEPT ![u] = "no"]
  /\ asked' = [asked EXCEPT ![u] = TRUE]

Frozen ==
  /\ frozen
  /\ asked' \in [Users -> BOOLEAN]
  /\ UNCHANGED serving

Freeze == UNCHANGED <<asked, serving>>

Next ==
  /\ frozen' \in BOOLEAN
  /\ \/ \E u \in Users : Ask(u) \/ Begin(u) \/ Complete(u) \/ Close(u)
                           \/ GiveBack(u)
     \/ Frozen
     \/ Freeze

Spec == Init /\ [][Next]_vars

=============================================================================
