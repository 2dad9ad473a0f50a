----------------------------- MODULE Scheduling -----------------------------
(***************************************************************************)
(* When a user is reconciled: app/ledger/triggers.py (requests),           *)
(* app/ledger/runtime.py (the tick and the user's lock),                   *)
(* app/api/webhooks.py (the delayed drain) and app/maintenance.py (the     *)
(* freeze that a restore or VACUUM holds).  One event loop runs them all;  *)
(* they interleave at every await, so each SQL statement is a step.  What  *)
(* a pass does is module Mirror's; here it begins and ends.                *)
(*                                                                         *)
(* Time is seen by the tick, which fixes `now` when it starts: a schedule  *)
(* is "due" when it is not past the now of the running tick (or the next), *)
(* "later" otherwise, and becomes due only between ticks.                  *)
(***************************************************************************)
EXTENDS Integers, FiniteSets

CONSTANTS
  Users,
  Holders,    \* uses of maintenance mode: restores, VACUUMs, shutdown drains
  Restores,   \* those that rewrite rows and then reconcile users themselves
  MaxFaults,  \* bound on crashes and dying ticks
  MaxClicks,  \* bound on manual syncs, which may postpone a request for ever
  NULL

ASSUME SchedulingAssumption ==
  /\ Restores \subseteq Holders
  /\ IsFiniteSet(Holders)
  /\ MaxFaults \in Nat
  /\ MaxClicks \in Nat
  /\ NULL \notin Users
  /\ NULL \notin {"due", "later"}

VARIABLES
  row,     \* reconcile_requests: schedule, claim, whether the claim is stale
  enq,     \* the _upsert_request under way
  tick,    \* drain_all_due_users, which the scheduler never runs twice at once
  hook,    \* the delayed drain of a webhook, at most one per user
  maint,   \* restore_from_backup, vacuum_database
  depth,   \* _maintenance_depth
  budget   \* faults and clicks left

vars == <<row, enq, tick, hook, maint, depth, budget>>

Schedules == {NULL, "due", "later"}
Claims    == {"free", "held", "stale"}
Rows      == [sched : Schedules, claim : Claims]
Kinds     == {"webhook", "manual", "periodic"}

NoEnq  == [user |-> NULL, kind |-> "manual", when |-> "later", read |-> NULL]
NoTick == [pc |-> "idle", todo |-> {}, user |-> NULL, read |-> NULL,
           result |-> "none"]
Out    == [pc |-> "out", todo |-> {}, user |-> NULL]
Gone   == [pc |-> "gone", todo |-> {}, user |-> NULL]

Init ==
  /\ row = [u \in Users |-> [sched |-> NULL, claim |-> "free"]]
  /\ enq = NoEnq
  /\ tick = NoTick
  /\ hook = [u \in Users |-> "none"]
  /\ maint = [h \in Holders |-> Out]
  /\ depth = 0
  /\ budget = [faults |-> MaxFaults, clicks |-> MaxClicks]

in_maintenance == depth > 0

-----------------------------------------------------------------------------
(* Who reconciles.  `track_reconcile` counts a pass from before it waits   *)
(* for the user's lock.                                                    *)
TickPasses(u) == tick.pc = "pass" /\ tick.user = u
InPass(u) ==
  \/ TickPasses(u)
  \/ hook[u] = "pass"
  \/ \E h \in Holders : maint[h].pc = "pass" /\ maint[h].user = u

LockFree(u) == ~InPass(u)

Tracked == {"lock", "pass"}

(* Mutant of Active: a pass that still waits for its lock is not counted.  *)
ActiveOnceLocked ==
  \/ tick.pc = "pass"
  \/ \E u \in Users : hook[u] = "pass"
  \/ \E h \in Holders : maint[h].pc = "pass"

(* _active_reconciles > 0.                                                 *)
Active ==
  \/ tick.pc \in Tracked
  \/ \E u \in Users : hook[u] \in Tracked
  \/ \E h \in Holders : maint[h].pc \in Tracked

-----------------------------------------------------------------------------
(* _upsert_request: the schedule is read, then written back.  A webhook is *)
(* dropped while the engine is frozen; buttons, admin operations and a     *)
(* timer run that began before are not.                                    *)
EnqueueRead(u, kind) ==
  /\ enq = NoEnq
  /\ kind = "webhook" => ~in_maintenance
  /\ kind = "manual" => budget.clicks > 0
  /\ budget' = IF kind = "manual" THEN [budget EXCEPT !.clicks = @ - 1]
                                  ELSE budget
  /\ enq' = [user |-> u, kind |-> kind, read |-> row[u].sched,
             when |-> IF kind = "periodic" /\ tick.pc = "idle"
                        THEN "due" ELSE "later"]
  /\ UNCHANGED <<row, tick, hook, maint, depth>>

(* The debounce keeps the later time, the timer the earlier.               *)
NewSchedule ==
  IF enq.kind = "periodic" /\ "due" \in {enq.read, enq.when} THEN "due"
  ELSE IF enq.kind # "periodic" /\ "later" \in {enq.read, enq.when} THEN "later"
  ELSE enq.when

(* Mutant of EnqueueWrite: INSERT OR REPLACE, which resets the claim.      *)
EnqueueReplaces ==
  /\ enq # NoEnq
  /\ row' = [row EXCEPT ![enq.user] = [sched |-> NewSchedule, claim |-> "free"]]
  /\ hook' = IF enq.kind = "webhook" /\ hook[enq.user] = "none"
               THEN [hook EXCEPT ![enq.user] = "asleep"] ELSE hook
  /\ enq' = NoEnq
  /\ UNCHANGED <<tick, maint, depth, budget>>

(* The second half; a webhook then starts its delayed drain, unless one is *)
(* pending (_claim_webhook_drain).                                         *)
EnqueueWrite ==
  /\ enq # NoEnq
  /\ row' = [row EXCEPT ![enq.user].sched = NewSchedule]
  /\ hook' = IF enq.kind = "webhook" /\ hook[enq.user] = "none"
               THEN [hook EXCEPT ![enq.user] = "asleep"] ELSE hook
  /\ enq' = NoEnq
  /\ UNCHANGED <<tick, maint, depth, budget>>

-----------------------------------------------------------------------------
(* The delayed drain: it does not look at the row.                         *)
HookWakes(u) ==
  /\ hook[u] = "asleep"
  /\ hook' = [hook EXCEPT ![u] = IF in_maintenance THEN "none" ELSE "lock"]
  /\ UNCHANGED <<row, enq, tick, maint, depth, budget>>

HookLocks(u) ==
  /\ hook[u] = "lock"
  /\ LockFree(u)
  /\ hook' = [hook EXCEPT ![u] = "pass"]
  /\ UNCHANGED <<row, enq, tick, maint, depth, budget>>

HookEnds(u) ==
  /\ hook[u] = "pass"
  /\ hook' = [hook EXCEPT ![u] = "none"]
  /\ UNCHANGED <<row, enq, tick, maint, depth, budget>>

-----------------------------------------------------------------------------
(* drain_all_due_users.                                                    *)
TickStart ==
  /\ tick.pc = "idle"
  /\ ~in_maintenance
  /\ tick' = [tick EXCEPT !.pc = "sweep"]
  /\ UNCHANGED <<row, enq, hook, maint, depth, budget>>

Orelse(sched, default) == IF sched = NULL THEN default ELSE sched

(* Mutant of Sweep: abandoned claims are left to their owners.             *)
NeverSweep ==
  /\ tick.pc = "sweep"
  /\ tick' = [tick EXCEPT !.pc = "select"]
  /\ UNCHANGED <<row, enq, hook, maint, depth, budget>>

(* reclaim_stale_requests.                                                 *)
Sweep ==
  /\ tick.pc = "sweep"
  /\ row' = [u \in Users |->
               IF row[u].claim = "stale"
                 THEN [sched |-> Orelse(row[u].sched, "due"), claim |-> "free"]
                 ELSE row[u]]
  /\ tick' = [tick EXCEPT !.pc = "select"]
  /\ UNCHANGED <<enq, hook, maint, depth, budget>>

SelectDue ==
  /\ tick.pc = "select"
  /\ tick' = [tick EXCEPT !.pc = "users",
                          !.todo = {u \in Users : /\ row[u].claim = "free"
                                                  /\ row[u].sched = "due"}]
  /\ UNCHANGED <<row, enq, hook, maint, depth, budget>>

(* claim_due_request, its SELECT: what is no longer due is skipped.        *)
ClaimRead(u) ==
  /\ tick.pc = "users"
  /\ u \in tick.todo
  /\ LET due == \/ row[u].sched = "due"
                \/ row[u].sched = NULL /\ row[u].claim = "stale"
     IN tick' = [tick EXCEPT !.todo = @ \ {u},
                             !.pc = IF due THEN "claim" ELSE @,
                             !.user = IF due THEN u ELSE NULL,
                             !.read = IF due THEN row[u].sched ELSE NULL]
  /\ UNCHANGED <<row, enq, hook, maint, depth, budget>>

(* Its UPDATE, which claims only the row that was read, and the gate of    *)
(* reconcile_user_by_id, which follows with no statement in between.       *)
ClaimWrite ==
  /\ tick.pc = "claim"
  /\ LET u   == tick.user
         won == row[u].claim # "held" /\ row[u].sched = tick.read
     IN /\ row' = IF won THEN [row EXCEPT ![u] = [sched |-> NULL,
                                                  claim |-> "held"]]
                         ELSE row
        /\ tick' = IF ~won THEN [tick EXCEPT !.pc = "users", !.user = NULL,
                                             !.read = NULL]
                   ELSE IF in_maintenance
                     THEN [tick EXCEPT !.pc = "release", !.result = "skipped",
                                       !.read = NULL]
                     ELSE [tick EXCEPT !.pc = "lock", !.read = NULL]
  /\ UNCHANGED <<enq, hook, maint, depth, budget>>

TickLocks ==
  /\ tick.pc = "lock"
  /\ LockFree(tick.user)
  /\ tick' = [tick EXCEPT !.pc = "pass"]
  /\ UNCHANGED <<row, enq, hook, maint, depth, budget>>

PassEnds ==
  /\ tick.pc = "pass"
  /\ \E result \in {"ok", "failed"} :
       tick' = [tick EXCEPT !.pc = "release", !.result = result]
  /\ UNCHANGED <<row, enq, hook, maint, depth, budget>>

NextUser == [tick EXCEPT !.pc = "users", !.user = NULL, !.result = "none"]

(* Mutant of Release: the schedule is consumed by the release.             *)
ReleaseConsumes ==
  /\ tick.pc = "release"
  /\ row' = [row EXCEPT ![tick.user] =
               [sched |-> IF tick.result = "failed" THEN "later" ELSE NULL,
                claim |-> "free"]]
  /\ tick' = NextUser
  /\ UNCHANGED <<enq, hook, maint, depth, budget>>

(* release_request: a clean one leaves the schedule alone, a failed one    *)
(* sets a retry unless a schedule is there.                                *)
Release ==
  /\ tick.pc = "release"
  /\ row' = [row EXCEPT ![tick.user] =
               [sched |-> IF tick.result = "failed" THEN Orelse(@.sched, "later")
                                                    ELSE @.sched,
                claim |-> "free"]]
  /\ tick' = NextUser
  /\ UNCHANGED <<enq, hook, maint, depth, budget>>

(* What the timer took for now during the tick is past for the next one.   *)
TimePasses == enq' = IF enq.kind = "periodic" THEN [enq EXCEPT !.when = "due"]
                                              ELSE enq

TickEnds ==
  /\ tick.pc = "users"
  /\ tick.todo = {}
  /\ tick' = NoTick
  /\ TimePasses
  /\ UNCHANGED <<row, hook, maint, depth, budget>>

(* A statement outside the try raises: ledger_drain_due logs it and this   *)
(* tick is over.  A claim whose release failed stays held.                 *)
TickDies ==
  /\ tick.pc \in {"sweep", "select", "claim", "release"}
  /\ budget.faults > 0
  /\ budget' = [budget EXCEPT !.faults = @ - 1]
  /\ tick' = NoTick
  /\ TimePasses
  /\ UNCHANGED <<row, hook, maint, depth>>

-----------------------------------------------------------------------------
(* Maintenance.                                                            *)
Enter(h) ==
  /\ maint[h].pc = "out"
  /\ maint' = [maint EXCEPT ![h].pc = "quiesce"]
  /\ depth' = depth + 1
  /\ UNCHANGED <<row, enq, tick, hook, budget>>

(* wait_for_reconcile_quiescence: no await between its last look and the   *)
(* start of the swap.                                                      *)
Quiesced(h) ==
  /\ maint[h].pc = "quiesce"
  /\ ~Active
  /\ maint' = [maint EXCEPT ![h].pc = "swap"]
  /\ UNCHANGED <<row, enq, tick, hook, depth, budget>>

QuiesceTimesOut(h) ==
  /\ maint[h].pc = "quiesce"
  /\ Active
  /\ maint' = [maint EXCEPT ![h].pc = "exit"]
  /\ UNCHANGED <<row, enq, tick, hook, depth, budget>>

(* The file is replaced, or the rows of the users of the backup are; then  *)
(* users are re-converged, if so asked and nothing failed.  A release that *)
(* was issued on the connection is run before what the swap issues on it.  *)
Swap(h) ==
  /\ maint[h].pc = "swap"
  /\ tick.pc # "release"
  /\ IF h \in Restores
       THEN /\ row' \in [Users -> Rows]
            /\ \E todo \in {{}, Users} :
                 maint' = [maint EXCEPT ![h].pc = "reconverge", ![h].todo = todo]
       ELSE /\ maint' = [maint EXCEPT ![h].pc = "exit"]
            /\ UNCHANGED row
  /\ UNCHANGED <<enq, tick, hook, depth, budget>>

(* _reconverge_user: past the gate, by allow_in_maintenance.               *)
Reconverge(h, u) ==
  /\ maint[h].pc = "reconverge"
  /\ u \in maint[h].todo
  /\ maint' = [maint EXCEPT ![h] = [pc |-> "lock", todo |-> @.todo \ {u},
                                    user |-> u]]
  /\ UNCHANGED <<row, enq, tick, hook, depth, budget>>

HolderLocks(h) ==
  /\ maint[h].pc = "lock"
  /\ LockFree(maint[h].user)
  /\ maint' = [maint EXCEPT ![h].pc = "pass"]
  /\ UNCHANGED <<row, enq, tick, hook, depth, budget>>

HolderPassed(h) ==
  /\ maint[h].pc = "pass"
  /\ maint' = [maint EXCEPT ![h].pc = "reconverge", ![h].user = NULL]
  /\ UNCHANGED <<row, enq, tick, hook, depth, budget>>

MayExit(h) ==
  \/ maint[h].pc = "exit"
  \/ maint[h].pc = "reconverge" /\ maint[h].todo = {}

(* Mutant of Exit: maintenance mode is a flag, not a count.                *)
ExitClears(h) ==
  /\ MayExit(h)
  /\ maint' = [maint EXCEPT ![h] = Gone]
  /\ depth' = 0
  /\ UNCHANGED <<row, enq, tick, hook, budget>>

Exit(h) ==
  /\ MayExit(h)
  /\ maint' = [maint EXCEPT ![h] = Gone]
  /\ depth' = IF depth = 0 THEN 0 ELSE depth - 1
  /\ UNCHANGED <<row, enq, tick, hook, budget>>

-----------------------------------------------------------------------------
(* The process ends and starts again: coroutines and the hold count are    *)
(* gone, claims are freed before the scheduler starts                      *)
(* (reclaim_in_flight_on_startup).                                         *)
CrashAndRestart ==
  /\ budget.faults > 0
  /\ budget' = [budget EXCEPT !.faults = @ - 1]
  /\ row' = [u \in Users |->
               IF row[u].claim = "free" THEN row[u]
               ELSE [sched |-> Orelse(row[u].sched, "due"), claim |-> "free"]]
  /\ enq' = NoEnq
  /\ tick' = NoTick
  /\ hook' = [u \in Users |-> "none"]
  /\ maint' = [h \in Holders |-> IF maint[h].pc = "out" THEN Out ELSE Gone]
  /\ depth' = 0

Ripen(u) ==
  /\ tick.pc = "idle"
  /\ row[u].sched = "later"
  /\ row' = [row EXCEPT ![u].sched = "due"]
  /\ UNCHANGED <<enq, tick, hook, maint, depth, budget>>

(* STALE_CLAIM_TIMEOUT has passed since the claim.                         *)
Age(u) ==
  /\ tick.pc = "idle"
  /\ row[u].claim = "held"
  /\ row' = [row EXCEPT ![u].claim = "stale"]
  /\ UNCHANGED <<enq, tick, hook, maint, depth, budget>>

TickStep ==
  \/ TickStart \/ Sweep \/ SelectDue \/ ClaimWrite \/ TickLocks \/ PassEnds
  \/ Release \/ TickEnds
  \/ \E u \in Users : ClaimRead(u)

HookStep(u) == HookWakes(u) \/ HookLocks(u) \/ HookEnds(u)

HolderStep(h) ==
  \/ Enter(h) \/ Quiesced(h) \/ QuiesceTimesOut(h) \/ Swap(h)
  \/ HolderLocks(h) \/ HolderPassed(h) \/ Exit(h)
  \/ \E u \in Users : Reconverge(h, u)

Next ==
  \/ \E u \in Users, kind \in Kinds : EnqueueRead(u, kind)
  \/ EnqueueWrite
  \/ TickStep
  \/ TickDies
  \/ \E u \in Users : HookStep(u) \/ Ripen(u) \/ Age(u)
  \/ \E h \in Holders : HolderStep(h)
  \/ CrashAndRestart

Spec == Init /\ [][Next]_vars

(* The event loop runs what can run, the user's lock is first come first   *)
(* served, holds are bounded by their timeouts, and time passes.  Nothing  *)
(* is assumed of who asks or of what fails.                                *)
FairSpec ==
  /\ Spec
  /\ WF_vars(EnqueueWrite)
  /\ SF_vars(TickStep)
  /\ \A u \in Users : SF_vars(HookStep(u)) /\ SF_vars(Ripen(u)) /\ SF_vars(Age(u))
  /\ \A h \in Holders : SF_vars(HolderStep(h))

-----------------------------------------------------------------------------
TypeOK ==
  /\ row \in [Users -> Rows]
  /\ enq \in [user : Users \cup {NULL}, kind : Kinds,
              when : {"due", "later"}, read : Schedules]
  /\ tick \in [pc : {"idle", "sweep", "select", "users", "claim", "lock",
                     "pass", "release"},
               todo : SUBSET Users, user : Users \cup {NULL},
               read : Schedules, result : {"none", "ok", "failed", "skipped"}]
  /\ hook \in [Users -> {"none", "asleep", "lock", "pass"}]
  /\ maint \in [Holders -> [pc : {"out", "quiesce", "swap", "reconverge",
                                  "lock", "pass", "exit", "gone"},
                            todo : SUBSET Users, user : Users \cup {NULL}]]
  /\ depth \in Nat
  /\ budget \in [faults : Nat, clicks : Nat]

(* While a restore rewrites the database, or VACUUM the file, no pass of   *)
(* the tick or of a webhook runs or waits for its lock: the gate and the   *)
(* count of passes leave no gap (maintenance.py, track_reconcile).         *)
SwapExcludesSync ==
  \A h \in Holders : maint[h].pc = "swap" =>
     /\ tick.pc \notin Tracked
     /\ \A u \in Users : hook[u] \notin Tracked

(* From claim to release the row says that it is claimed, whatever is      *)
(* enqueued, restored or swept meanwhile: no second tick takes it.         *)
ClaimHeld ==
  tick.pc \in {"lock", "pass", "release"} => row[tick.user].claim = "held"

(* The request of u still stands: it is scheduled, or claimed and its pass *)
(* has not begun, or has failed, or its claimant is dead.                  *)
Answered(u) ==
  /\ tick.user = u
  /\ \/ tick.pc = "pass"
     \/ tick.pc = "release" /\ tick.result # "failed"

Asked(u) == row[u].sched # NULL \/ (row[u].claim # "free" /\ ~Answered(u))

Serving(u) ==
  IF TickPasses(u) THEN "running"
  ELSE IF tick.user = u /\ tick.pc = "release" /\ tick.result = "ok" THEN "done"
  ELSE "no"

AskedOf   == [u \in Users |-> Asked(u)]
ServingOf == [u \in Users |-> Serving(u)]

Requests == INSTANCE Coalescing WITH
              asked <- AskedOf, serving <- ServingOf, frozen <- in_maintenance

(* The table, its two-statement upsert, the compare-and-claim, the release *)
(* and the sweeps keep the promise of module Coalescing: a request that    *)
(* arrives in the middle of any of them is answered by a later pass, and   *)
(* none is dropped but under maintenance.                                  *)
Coalesced == Requests!Spec

(* A request is not left waiting: a pass for the user begins (the tick's,  *)
(* a webhook's or a restore's), or maintenance begins.                     *)
NoRequestStarves ==
  \A u \in Users : Asked(u) ~> (InPass(u) \/ in_maintenance)

=============================================================================
