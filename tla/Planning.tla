------------------------------ MODULE Planning ------------------------------
(***************************************************************************)
(* app/ledger/planner.py and app/ledger/diff.py: what each projection      *)
(* should be, and the outbox rows that take it there.  Both run inside the *)
(* pass of reconciler.reconcile_user, which holds the user's lock.         *)
(* The target calendar is active and the event neither recurring nor       *)
(* sourced from that calendar, so the planner emits the target explicitly. *)
(***************************************************************************)
EXTENDS Outbox

Queued(p) == ledger[p].queued \cap {"read", "new"} # {}

(* _read_affected_ledger_rows: the queue is read once; rows appended later *)
(* wait for the next pass.                                                 *)
ReadAffected ==
  /\ worker' = [worker EXCEPT !.pc = "plan",
                              !.dirty = {p \in Projections : Queued(p)}]
  /\ ledger' = [p \in Projections |->
                  IF Queued(p)
                    THEN [ledger[p] EXCEPT !.queued = (@ \ {"new"}) \cup {"read"}]
                    ELSE ledger[p]]

(* _upsert_projection: a replan that changes neither state nor hash leaves *)
(* the row alone, version included; a changed hash un-sticks the row.      *)
Planned(p) ==
  IF proj[p].desired = Wanted(p)
    THEN proj[p]
    ELSE [proj[p] EXCEPT !.desired = Wanted(p), !.dver = ledger[p].version,
                         !.failed = FALSE]

PlanRow(p) ==
  /\ worker.pc = "plan"
  /\ p \in worker.dirty
  /\ proj' = [proj EXCEPT ![p] = Planned(p)]
  /\ worker' = [worker EXCEPT !.dirty = @ \ {p}]
  /\ UNCHANGED <<ledger, ops, lastId, paused, google, unseen, budget>>

(* Mutant of PlanDone: the clear empties the user's whole queue.           *)
PlanDoneClearsAll ==
  /\ worker.pc = "plan"
  /\ worker.dirty = {}
  /\ ledger' = [p \in Projections |-> [ledger[p] EXCEPT !.queued = {}]]
  /\ Goto("diff")
  /\ UNCHANGED <<proj, ops, lastId, paused, google, unseen, budget>>

(* _clear_affected_ledger_rows deletes the rows that were read, no others. *)
PlanDone ==
  /\ worker.pc = "plan"
  /\ worker.dirty = {}
  /\ ledger' = [p \in Projections |->
                  [ledger[p] EXCEPT !.queued = @ \ {"read"}]]
  /\ Goto("diff")
  /\ UNCHANGED <<proj, ops, lastId, paused, google, unseen, budget>>

-----------------------------------------------------------------------------
(* Mutant of DecideKind: desired 'absent' is not looked at first.          *)
DecideFromCurrent(row) ==
  IF row.current \in {"absent", "unknown"} \/ row.gid = NULL
    THEN "create"
    ELSE IF row.desired = ABSENT THEN "delete" ELSE "update"

(* _decide.                                                                *)
DecideKind(row) ==
  IF row.desired = ABSENT
    THEN IF row.gid = NULL \/ row.current = "absent"
           THEN "converged" ELSE "delete"
    ELSE IF row.current \in {"absent", "unknown"} \/ row.gid = NULL
           THEN "create" ELSE "update"

(* The body is rendered from the event as it is now, the hash is the one   *)
(* the planner stamped.                                                    *)
Decide(p) == [kind |-> DecideKind(proj[p]), ver |-> proj[p].dver,
              hash |-> proj[p].desired,
              body |-> IF proj[p].desired = ABSENT
                         THEN NULL ELSE ledger[p].content]

(* _diverged_projections: the rows are read once, joined with the events;  *)
(* each verdict is a function of the row as it was read.                   *)
SelectDiverged ==
  /\ worker.pc = "diff"
  /\ worker' = [worker EXCEPT !.pc = "rows",
                              !.todo = [p \in Projections |->
                                IF Diverged(p) THEN Decide(p) ELSE NULL]]
  /\ UNCHANGED <<ledger, proj, ops, lastId, paused, google, unseen, budget>>

(* _snap_applied stamps the hash the row has NOW with the version that was *)
(* read.                                                                   *)
Snap(p, v) ==
  proj' = [proj EXCEPT ![p].aver = v.ver, ![p].applied = proj[p].desired,
                       ![p].current = "absent"]

(* The loop of diff_and_enqueue_for_user.                                  *)
DiffRow(p) ==
  /\ worker.pc = "rows"
  /\ worker.todo[p] # NULL
  /\ LET v == worker.todo[p] IN
     \/ v.kind = "converged" /\ Snap(p, v) /\ UNCHANGED <<ops, lastId>>
     \/ v.kind # "converged" /\ Enqueue(p, v) /\ UNCHANGED proj
  /\ worker' = [worker EXCEPT !.todo[p] = NULL]
  /\ UNCHANGED <<ledger, paused, google, unseen, budget>>

DiffDone ==
  /\ worker.pc = "rows"
  /\ \A p \in Projections : worker.todo[p] = NULL
  /\ Goto("reclaim")
  /\ UNCHANGED <<ledger, proj, ops, lastId, paused, google, unseen, budget>>

-----------------------------------------------------------------------------

PlanningStep ==
  \/ \E p \in Projections : PlanRow(p) \/ DiffRow(p)
  \/ PlanDone \/ SelectDiverged \/ DiffDone

=============================================================================
