------------------------------ MODULE Custody ------------------------------
(***************************************************************************)
(* Who may remove a copy, and who must: one event, its copies on the       *)
(* user's main calendar and on the client calendars, and the parties that  *)
(* decide about them without waiting for each other.  The pass of the      *)
(* reconciler scans for copies nobody owns (ledger/ingest/discovery.py),   *)
(* plans, diffs and drains; retention (jobs/cleanup.py) releases, cancels  *)
(* or forgets the event and purges calendars; the API connects and         *)
(* disconnects calendars (api/calendars.py, admin_ops.disconnect_calendar).*)
(*                                                                         *)
(* A copy is there or not, whatever it shows (Mirror models contents and   *)
(* versions); Google reserves the id of a deleted one, so the next insert  *)
(* has another.                                                            *)
(***************************************************************************)
EXTENDS Naturals

CONSTANTS
  main,             \* the user's main calendar
  Clients,          \* rows of client_calendars, past and future
  Setups,           \* where the event comes from, how retention is set, and
                    \* what the environment may do
  NULL

Targets == Clients \cup {main}

(* source: the client calendar of the event, or NULL if it comes from main *)
(* or another kind of calendar; connected: those connected at the start;   *)
(* release: settings.release_expired_events; how many changes of the       *)
(* source, failures, and calls that connect or disconnect are to come.     *)
Setup == {s \in [source : Clients \cup {NULL}, connected : SUBSET Clients,
                 release : BOOLEAN, changes : Nat, faults : Nat, moves : Nat] :
            s.source \in s.connected \cup {NULL}}

ASSUME CustodyAssumption ==
  /\ main \notin Clients
  /\ NULL \notin Targets \cup {"present", "absent"}
  /\ Setups \subseteq Setup

VARIABLES
  event,      \* the row of ledger_events and its rows in the replan queue
  copy,       \* its projections
  op,         \* the pending outbox operation of each projection
  calendar,   \* client_calendars
  live,       \* targets that carry a copy of the event
  condemned,  \* copies under a tombstone of discovery, to be deleted
  worker,     \* the pass that holds the user's lock
  nightly,    \* run_retention_cleanup, between a cancellation and its plan
  adrift,     \* history: copies discovery condemned and a create adopted
  strays,     \* history: calendars connected or left while nobody looked
  setup

vars == <<event, copy, op, calendar, live, condemned, worker, nightly, adrift,
          strays, setup>>

(* "erased" is user_intentionally_deleted; "gone" a row that was deleted.  *)
(* old: past event_retention_days (of a series, past its soft-delete days).*)
(* queued: its replan rows, read by the pass or since; or "listed", if the *)
(* pass has written the event and not the row: a stop then brings it back  *)
(* from the source (Ingest).                                               *)
EventRow == [status : {"active", "cancelled", "released", "erased", "gone"},
             queued : SUBSET {"listed", "read", "new"}, old : BOOLEAN]

(* id: the recorded google_event_id is none, that of the copy that is there*)
(* ("own"), or of one that was ("past").  echo: Google has yet to list the *)
(* deletion of the recorded one.  desired is NULL if there is no row.      *)
CopyRow == [desired : {"present", "absent", NULL},
            applied : {"present", "absent", NULL},
            current : {"unknown", "present", "absent"},
            id      : {"none", "past", "own"},
            echo    : BOOLEAN]

(* What disconnect_calendar has done to a calendar, each in a statement of *)
(* its own: cancelled its events, made its copies absent, queued all.      *)
Departing == {"closing", "cleared", "leaving"}

(* "scanned": disconnected, and scanned since the last write to it.        *)
CalendarStates ==
  {"unborn", "active", "inactive", "scanned", "purged"} \cup Departing

(* todo: the calendars yet to be scanned; in the drain, the targets whose  *)
(* operation waits for its backoff.                                        *)
Worker == [pc : {"idle", "ingest", "plan", "drain", "record"},
           key : Targets \cup {NULL}, todo : SUBSET Targets]

NoRow == [desired |-> NULL, applied |-> NULL, current |-> "unknown",
          id |-> "none", echo |-> FALSE]
NewRow(desired) == [NoRow EXCEPT !.desired = desired]
Idle == [pc |-> "idle", key |-> NULL, todo |-> {}]

(* client_calendars.is_active; the main calendar always is.                *)
Active(t) == t \in Clients => calendar[t] \in {"active"} \cup Departing
Known(t)  == t \in Clients => calendar[t] \notin {"unborn", "purged"}

Source == setup.source

Diverged(t) == copy[t].desired # NULL /\ copy[t].applied # copy[t].desired

(* What planner._compute_desired_projections asks of an active target.     *)
Due(t) == Active(t) /\ t # Source /\ event.status = "active"

Init ==
  /\ setup \in Setups
  /\ event = [status |-> "active", queued |-> {}, old |-> FALSE]
  /\ copy = [t \in Targets |->
               IF t \notin setup.connected \cup {main} THEN NoRow
               ELSE NewRow(IF t = Source THEN "absent" ELSE "present")]
  /\ op = [t \in Targets |-> "none"]
  /\ calendar = [c \in Clients |-> IF c \in setup.connected THEN "active" ELSE "unborn"]
  /\ live = {} /\ condemned = {} /\ adrift = {} /\ strays = {}
  /\ worker = Idle
  /\ nightly = "idle"

Spend(what) == setup[what] > 0 /\ setup' = [setup EXCEPT ![what] = @ - 1]

-----------------------------------------------------------------------------
(* Mutant of StartPass: discovery walks the connected calendars only.      *)
ScanActiveOnly(scan) ==
  /\ worker.pc = "idle"
  /\ worker' = [worker EXCEPT !.pc = "ingest",
                              !.todo = IF scan THEN {t \in Targets : Active(t)} ELSE {}]
  /\ UNCHANGED <<event, copy, op, calendar, live, condemned, nightly, adrift,
                 strays, setup>>

(* The pass: reconciler.reconcile_user.  Discovery walks every calendar it *)
(* knows, disconnected ones too, but only every six hours.                 *)
StartPass(scan) ==
  /\ worker.pc = "idle"
  /\ worker' = [worker EXCEPT !.pc = "ingest",
                              !.todo = IF scan THEN {t \in Targets : Known(t)} ELSE {}]
  /\ UNCHANGED <<event, copy, op, calendar, live, condemned, nightly, adrift,
                 strays, setup>>

(* The source changes, is cancelled, or comes back.                        *)
SourceChange ==
  /\ worker.pc = "ingest"
  /\ Source = NULL \/ Active(Source)
  /\ event.status \in {"active", "cancelled"}
  /\ Spend("changes")
  /\ \E status \in {"active", "cancelled"} :
       event' = [event EXCEPT !.status = status, !.queued = @ \cup {"listed"}]
  /\ UNCHANGED <<copy, op, calendar, live, condemned, worker, nightly, adrift,
                 strays>>

(* client._maybe_revert_client_drift: a wanted copy that went is forgotten.*)
Forgotten(row) == [row EXCEPT !.applied = NULL, !.current = "absent",
                              !.id = "none", !.echo = FALSE]

(* A deletion of a recorded copy is listed.  Of an unwanted one it is ours.*)
(* Of a wanted one on a client calendar the copy is to be made again; on   *)
(* main it is taken for the person's (_mark_user_intentionally_deleted),   *)
(* unless the event has been released.                                     *)
ListCopy(t) ==
  /\ worker.pc = "ingest"
  /\ Active(t)
  /\ copy[t].echo
  /\ IF copy[t].desired = "present" /\ t # main
       THEN copy' = [copy EXCEPT ![t] = Forgotten(@)] /\ adrift' = adrift \ {t}
       ELSE copy' = [copy EXCEPT ![t].echo = FALSE] /\ UNCHANGED adrift
  /\ IF copy[t].desired = "present" /\ t = main /\ event.status \in {"active", "cancelled"}
       THEN event' = [event EXCEPT !.status = "erased", !.queued = @ \cup {"listed"}]
       ELSE UNCHANGED event
  /\ UNCHANGED <<op, calendar, live, condemned, worker, nightly, strays, setup>>

-----------------------------------------------------------------------------
(* discovery._classify_and_handle on the copy target t carries.  Its id is *)
(* on record: live.  The projection it claims exists and has no id: it is  *)
(* linked again.  Otherwise a tombstone row is made for it, and its delete *)
(* enqueued.  Neither branch asks what the planner wants: a copy no one    *)
(* wants may be linked to a projection that has converged.                 *)
Relinkable(t) == copy[t].desired # NULL /\ copy[t].id = "none"

Relink(t) == copy' = [copy EXCEPT ![t].id = "own", ![t].current = "present",
                                  ![t].echo = FALSE]

Discover(t) ==
  /\ worker.pc = "ingest"
  /\ t \in worker.todo
  /\ worker' = [worker EXCEPT !.todo = @ \ {t}]
  /\ IF t \notin live \/ copy[t].id = "own" \/ t \in condemned
       THEN UNCHANGED <<copy, condemned>>
     ELSE IF Relinkable(t) THEN Relink(t) /\ UNCHANGED condemned
     ELSE condemned' = condemned \cup {t} /\ UNCHANGED copy
  /\ calendar' = IF t \in Clients /\ calendar[t] = "inactive"
                 THEN [calendar EXCEPT ![t] = "scanned"] ELSE calendar
  /\ UNCHANGED <<event, op, live, nightly, adrift, strays, setup>>

-----------------------------------------------------------------------------
(* Ingest is through: its replan rows are written, and all are read.       *)
ReadQueue ==
  /\ worker.pc = "ingest"
  /\ worker.todo = {}
  /\ \A t \in Targets : Active(t) => ~copy[t].echo
  /\ event' = [event EXCEPT !.queued = IF @ = {} THEN {} ELSE {"read"}]
  /\ worker' = [worker EXCEPT !.pc = "plan"]
  /\ UNCHANGED <<copy, op, calendar, live, condemned, nightly, adrift, strays,
                 setup>>

(* Mutant of PlannedRow: a calendar that is not active keeps its row.      *)
PlannedIfActive(t) ==
  LET desired == IF Due(t) THEN "present" ELSE "absent"
  IN  IF ~Active(t) THEN copy[t]
      ELSE IF copy[t].desired = NULL THEN NewRow(desired)
      ELSE [copy[t] EXCEPT !.desired = desired]

(* plan_for_ledger_event: the active calendars get a row, with what the    *)
(* event asks of them; a row for any other goes absent.  A released event  *)
(* is left as it is.                                                       *)
PlannedRow(t) ==
  LET desired == IF Due(t) THEN "present" ELSE "absent"
  IN  IF copy[t].desired # NULL THEN [copy[t] EXCEPT !.desired = desired]
      ELSE IF Active(t) THEN NewRow(desired) ELSE NoRow

(* Mutant of Planned: an event released from sync is planned again.        *)
PlannedAnyway == IF event.status = "gone" THEN copy
                 ELSE [t \in Targets |-> PlannedRow(t)]

Planned == IF event.status \in {"released", "gone"} THEN copy
           ELSE [t \in Targets |-> PlannedRow(t)]

(* A calendar being disconnected that is planned as active goes stray.     *)
PlannedStrays ==
  IF event.status \in {"released", "gone"} THEN strays
  ELSE {c \in Clients : calendar[c] \in {"cleared", "leaving"}}

Plan ==
  /\ worker.pc = "plan"
  /\ IF "read" \in event.queued
       THEN /\ copy' = Planned
            /\ strays' = PlannedStrays
            /\ event' = [event EXCEPT !.queued = @ \ {"read"}]
       ELSE UNCHANGED <<copy, strays, event>>
  /\ worker' = [worker EXCEPT !.pc = "drain"]
  /\ UNCHANGED <<op, calendar, live, condemned, nightly, adrift, setup>>

-----------------------------------------------------------------------------
(* diff._decide and enqueue: what it enqueues supersedes what is pending.  *)
(* Nothing is done about a copy without an id, on a calendar that is gone  *)
(* from the table, or already absent: the row converges as it is.          *)
Nothing(t) ==
  \/ ~Known(t)
  \/ copy[t].desired = "absent" /\ (copy[t].id = "none" \/ copy[t].current = "absent")

OpFor(t) ==
  IF copy[t].desired = "absent" THEN "delete"
  ELSE IF copy[t].current # "present" \/ copy[t].id = "none" THEN "create"
  ELSE "update"

Diff(t) ==
  /\ worker.pc = "drain"
  /\ Diverged(t)
  /\ IF Nothing(t)
       THEN /\ copy' = [copy EXCEPT ![t].applied = copy[t].desired, ![t].current = "absent"]
            /\ UNCHANGED op
       ELSE /\ op[t] # OpFor(t)
            /\ op' = [op EXCEPT ![t] = OpFor(t)]
            /\ UNCHANGED copy
  /\ UNCHANGED <<event, calendar, live, condemned, worker, nightly, adrift,
                 strays, setup>>

(* Mutant of Burn: the tombstone of a copy that went is kept.              *)
BurnCopy(t) == live' = live \ {t} /\ UNCHANGED condemned

(* The copy on t is deleted, whoever knew of it.                           *)
Burn(t) == live' = live \ {t} /\ condemned' = condemned \ {t}

(* _do_create up to its record: the insert, or the update of the copy that *)
(* is found under the id (409).  Burned ids are skipped; nobody edits the  *)
(* copy between the two calls, which would end the create (Mirror has it). *)
Create(t) ==
  /\ worker.pc = "drain"
  /\ op[t] = "create" /\ t \notin worker.todo
  /\ live' = live \cup {t}
  /\ calendar' = IF t \in Clients /\ calendar[t] = "scanned"
                 THEN [calendar EXCEPT ![t] = "inactive"] ELSE calendar
  /\ \/ /\ worker' = [worker EXCEPT !.pc = "record", !.key = t]
        /\ UNCHANGED setup
     \/ /\ Spend("faults")     \* the answer is lost
        /\ worker' = [worker EXCEPT !.todo = @ \cup {t}]
  /\ UNCHANGED <<event, copy, op, condemned, nightly, adrift, strays>>

(* Mutant of Record: it stamps what the projection wants by now.           *)
RecordWanted ==
  /\ worker.pc = "record"
  /\ LET t == worker.key IN
       /\ IF copy[t].desired = NULL THEN UNCHANGED copy
          ELSE copy' = [copy EXCEPT ![t].id = "own", ![t].current = "present",
                                    ![t].applied = copy[t].desired, ![t].echo = FALSE]
       /\ op' = [op EXCEPT ![t] = "none"]
  /\ worker' = [worker EXCEPT !.pc = "drain", !.key = NULL]
  /\ UNCHANGED <<event, calendar, live, condemned, nightly, adrift, strays, setup>>

(* _record_success, of a row that retention may have deleted meanwhile.    *)
Record ==
  /\ worker.pc = "record"
  /\ LET t == worker.key IN
       /\ IF copy[t].desired = NULL THEN UNCHANGED copy
          ELSE copy' = [copy EXCEPT ![t].id = "own", ![t].current = "present",
                                    ![t].applied = "present", ![t].echo = FALSE]
       /\ op' = [op EXCEPT ![t] = "none"]
  /\ worker' = [worker EXCEPT !.pc = "drain", !.key = NULL]
  /\ UNCHANGED <<event, calendar, live, condemned, nightly, adrift, strays, setup>>

(* _do_update, of a copy that is there: only people make one go while its *)
(* update is pending, and Mirror has them.                                 *)
Update(t) ==
  /\ worker.pc = "drain"
  /\ op[t] = "update"
  /\ copy[t].id = "own"
  /\ op' = [op EXCEPT ![t] = "none"]
  /\ copy' = [copy EXCEPT ![t].applied = "present"]
  /\ UNCHANGED <<event, calendar, live, condemned, worker, nightly, adrift,
                 strays, setup>>

(* _do_delete, by the id on record.                                        *)
Delete(t) ==
  /\ worker.pc = "drain"
  /\ op[t] = "delete"
  /\ op' = [op EXCEPT ![t] = "none"]
  /\ copy' = [copy EXCEPT ![t].applied = "absent", ![t].current = "absent",
                          ![t].id = IF @ = "own" THEN "past" ELSE @,
                          ![t].echo = @ \/ copy[t].id = "own"]
  /\ IF copy[t].id = "own" THEN Burn(t) ELSE UNCHANGED <<live, condemned>>
  /\ UNCHANGED <<event, calendar, worker, nightly, adrift, strays, setup>>

(* The delete of a tombstone's projection.  The copy may have been adopted *)
(* meanwhile by the create whose answer was lost.                          *)
DeleteOrphan(t) ==
  /\ worker.pc = "drain"
  /\ t \in condemned
  /\ Burn(t)
  /\ IF copy[t].id = "own"
       THEN /\ copy' = [copy EXCEPT ![t].id = "past", ![t].echo = TRUE]
            /\ adrift' = adrift \cup {t}
       ELSE UNCHANGED <<copy, adrift>>
  /\ UNCHANGED <<event, op, calendar, worker, nightly, strays, setup>>

(* Diff and drain alternate until nothing is left that can be done now.    *)
Quiet(t) ==
  /\ op[t] = "none" \/ t \in worker.todo
  /\ t \notin condemned
  /\ Diverged(t) => ~Nothing(t) /\ op[t] = OpFor(t)

EndPass ==
  /\ worker.pc = "drain"
  /\ \A t \in Targets : Quiet(t)
  /\ worker' = Idle
  /\ UNCHANGED <<event, copy, op, calendar, live, condemned, nightly, adrift,
                 strays, setup>>

-----------------------------------------------------------------------------
(* jobs/cleanup.py, which takes no lock.  An expired event is released as  *)
(* it stands, or cancelled and then planned.                               *)
Grow ==
  /\ ~event.old
  /\ event' = [event EXCEPT !.old = TRUE]
  /\ UNCHANGED <<copy, op, calendar, live, condemned, worker, nightly, adrift,
                 strays, setup>>

Expire ==
  /\ nightly = "idle"
  /\ event.old
  /\ event.status \in {"active", "erased"}
  /\ IF setup.release
       THEN event' = [event EXCEPT !.status = "released"] /\ UNCHANGED nightly
       ELSE event' = [event EXCEPT !.status = "cancelled"] /\ nightly' = "plan"
  /\ UNCHANGED <<copy, op, calendar, live, condemned, worker, adrift, strays, setup>>

(* Mutant of PlanExpired: an event is cancelled and not planned.           *)
CancelExpired ==
  /\ nightly = "plan"
  /\ nightly' = "idle"
  /\ UNCHANGED <<event, copy, op, calendar, live, condemned, worker, adrift,
                 strays, setup>>

PlanExpired ==
  /\ nightly = "plan"
  /\ nightly' = "idle"
  /\ copy' = Planned
  /\ strays' = PlannedStrays
  /\ UNCHANGED <<event, op, calendar, live, condemned, worker, adrift, setup>>

(* The row goes once no projection is present, and with it, by its foreign *)
(* keys, the projections, their operations and the replan queue.           *)
Drained == \A t \in Targets : copy[t].current # "present"

HardDelete ==
  /\ nightly = "idle"
  /\ event.old
  /\ event.status = "cancelled"
  /\ Drained
  /\ event' = [event EXCEPT !.status = "gone", !.queued = {}]
  /\ copy' = [t \in Targets |-> NoRow]
  /\ op' = [t \in Targets |-> "none"]
  /\ adrift' = {} /\ strays' = {}
  /\ UNCHANGED <<calendar, live, condemned, worker, nightly, setup>>

(* _prune_disconnected_calendars, which leaves a calendar that still needs *)
(* its mapping.  Thirty days have gone by: scans came, backoffs ended.     *)
(* Mutant of Needed: only what is known to be there keeps a calendar.      *)
NeededByCopies(c) == copy[c].current = "present"

Needed(c) == copy[c].current = "present" \/ Diverged(c) \/ c \in condemned

Purge(c) ==
  /\ nightly = "idle"
  /\ calendar[c] = "scanned"
  /\ op[c] = "none" /\ worker.key # c
  /\ ~Needed(c)
  /\ calendar' = [calendar EXCEPT ![c] = "purged"]
  /\ UNCHANGED <<event, copy, op, live, condemned, worker, nightly, adrift,
                 strays, setup>>

-----------------------------------------------------------------------------
(* calendars.connect_client_calendar: a row, a request for a pass, and no  *)
(* replan of the events there are.                                         *)
Connect(c) ==
  /\ calendar[c] = "unborn"
  /\ Spend("moves")
  /\ calendar' = [calendar EXCEPT ![c] = "active"]
  /\ strays' = strays \cup {c}
  /\ UNCHANGED <<event, copy, op, live, condemned, worker, nightly, adrift>>

(* admin_ops.disconnect_calendar.  Its cleanup cancels what comes from the *)
(* calendar ...                                                            *)
Cleanup(c) ==
  /\ calendar[c] = "active"
  /\ Spend("moves")
  /\ calendar' = [calendar EXCEPT ![c] = "closing"]
  /\ event' = [event EXCEPT !.status =
       IF Source = c /\ @ \in {"active", "erased"} THEN "cancelled" ELSE @]
  /\ UNCHANGED <<copy, op, live, condemned, worker, nightly, adrift, strays>>

(* Mutant of CleanedUp: it leaves the intent to the planner.               *)
CleanedUpByPlan(c) == copy

(* ... makes the copies on it absent ...                                   *)
CleanedUp(c) == IF copy[c].desired = NULL THEN copy
                ELSE [copy EXCEPT ![c].desired = "absent"]

ClearCopies(c) ==
  /\ calendar[c] = "closing"
  /\ calendar' = [calendar EXCEPT ![c] = "cleared"]
  /\ copy' = CleanedUp(c)
  /\ UNCHANGED <<event, op, live, condemned, worker, nightly, adrift, strays, setup>>

(* ... and queues every event.                                             *)
QueueEvent(c) ==
  /\ calendar[c] = "cleared"
  /\ calendar' = [calendar EXCEPT ![c] = "leaving"]
  /\ event' = [event EXCEPT !.queued =
       IF event.status = "gone" THEN @ ELSE @ \cup {"new"}]
  /\ UNCHANGED <<copy, op, live, condemned, worker, nightly, adrift, strays, setup>>

Deactivate(c) ==
  /\ calendar[c] = "leaving"
  /\ calendar' = [calendar EXCEPT ![c] = "inactive"]
  /\ UNCHANGED <<event, copy, op, live, condemned, worker, nightly, adrift,
                 strays, setup>>

(* The event was cancelled by a cleanup that has yet to queue it.          *)
CancelUnqueued == Source # NULL /\ calendar[Source] \in {"closing", "cleared"}

(* What a stop leaves with a plan nobody renews: all copies, of an event   *)
(* that retention or a cleanup has cancelled; the one a cleanup has taken. *)
Stranded ==
  IF nightly = "plan" \/ (event.queued = {} /\ CancelUnqueued) THEN Targets
  ELSE IF event.queued = {} THEN {c \in Clients : calendar[c] = "cleared"}
  ELSE {}

(* The process ends.  What it did last is in the tables, or is not.        *)
Crash ==
  /\ worker # Idle \/ nightly # "idle" \/ \E c \in Clients : calendar[c] \in Departing
  /\ Spend("faults")
  /\ worker' = Idle
  /\ nightly' = "idle"
  /\ strays' = strays \cup Stranded
  /\ calendar' = [c \in Clients |->
                    IF calendar[c] \in Departing THEN "active" ELSE calendar[c]]
  /\ UNCHANGED <<event, copy, op, live, condemned, adrift>>

-----------------------------------------------------------------------------
PassStep ==
  \/ \E scan \in BOOLEAN : StartPass(scan)
  \/ \E t \in Targets : \/ ListCopy(t) \/ Discover(t) \/ Diff(t) \/ Create(t)
                        \/ Update(t) \/ Delete(t) \/ DeleteOrphan(t)
  \/ ReadQueue \/ Plan \/ Record \/ EndPass

Retention == Expire \/ PlanExpired \/ HardDelete \/ \E c \in Clients : Purge(c)

Disconnecting(c) == ClearCopies(c) \/ QueueEvent(c) \/ Deactivate(c)

Operator == \E c \in Clients : Connect(c) \/ Cleanup(c) \/ Disconnecting(c)

Next == PassStep \/ Retention \/ Operator \/ SourceChange \/ Grow \/ Crash

Spec == Init /\ [][Next]_vars

(* Passes follow each other and the event loop runs them; one in so many   *)
(* scans; and what retention and a disconnect have begun they end.  Nobody *)
(* need change an event, connect, disconnect, or run retention.            *)
FairSpec ==
  /\ Spec
  /\ WF_vars(PassStep)
  /\ SF_vars(StartPass(TRUE))
  /\ WF_vars(PlanExpired)
  /\ \A c \in Clients : WF_vars(Disconnecting(c))

-----------------------------------------------------------------------------
TypeOK ==
  /\ event \in EventRow
  /\ copy \in [Targets -> CopyRow]
  /\ op \in [Targets -> {"none", "create", "update", "delete"}]
  /\ calendar \in [Clients -> CalendarStates]
  /\ live \subseteq Targets
  /\ condemned \subseteq live
  /\ worker \in Worker
  /\ nightly \in {"idle", "plan"}
  /\ adrift \subseteq Targets
  /\ strays \subseteq Targets
  /\ setup \in Setup

(* A calendar leaves the table only when it shows nothing of ours: after it*)
(* no scan visits it and no operation is made for it                       *)
(* (_prune_disconnected_calendars).                                        *)
PurgedIsClean == \A c \in Clients : calendar[c] = "purged" => c \notin live

(* Once nothing is left to do for a copy - no operation, no divergence of  *)
(* the projection from what was applied - it is there iff the projection   *)
(* asks for it, whatever answers were lost, whatever discovery linked or   *)
(* condemned, and whoever changed the plan while an operation was under way*)
(* (_record_success stamps what the operation delivered; _decide takes a   *)
(* projection without an id for one without a copy).                       *)
SettledIsShown ==
  \A t \in Targets :
    \/ op[t] # "none" \/ Diverged(t)
    \/ t \in adrift \/ event.status = "gone"
    \/ t \in live <=> copy[t].desired = "present"

(* A copy is asked for on main and on connected calendars only, and not on *)
(* the event's own.  As long as the event is not queued for planning, no   *)
(* cleanup has cancelled it to queue it next, and retention is not about to*)
(* plan it, all of these are asked for if it is live and none if it is not,*)
(* but for those a released event is left with.  Whoever changes the event *)
(* or the calendars plans it or queues it (the replan queue;               *)
(* _expire_single_events; cleanup_one_calendar); what a stop between the   *)
(* two leaves behind is in strays until the event is planned again.        *)
PlanIsCurrent ==
  \A t \in Targets \ strays :
    LET open == t # setup.source /\ (t = main \/ calendar[t] \in {"active", "closing"})
    IN  /\ copy[t].desired = "present" => open
        /\ /\ event.queued = {} /\ nightly = "idle" /\ ~CancelUnqueued
           /\ event.status # "released"
           => (copy[t].desired = "present" <=> event.status = "active" /\ open)

(* In the end a calendar shows a copy iff the projection asks for one, and *)
(* none if there is no projection: inserts whose record was lost, or whose *)
(* event retention deleted meanwhile, are linked or removed                *)
(* (discover_orphans), and deletions made good.                            *)
CopiesFollowPlan ==
  \A t \in Targets :
    <>[](t \in adrift \/ (t \in live <=> copy[t].desired = "present"))

(* In the end the projections ask for what the event is: of an event that  *)
(* is live, a copy on main and each connected calendar but its own; of any *)
(* other, none (plan_for_ledger_event, _mark_implicit_absent, the queue).  *)
PlanFollowsEvent ==
  \A t \in Targets :
    <>[](\/ event.status = "released"
         \/ t \in strays
         \/ copy[t].desired = "present"
            <=> /\ event.status = "active"
                /\ t # setup.source
                /\ t = main \/ calendar[t] = "active")

(* Nothing of ours stays on a calendar that was disconnected, not even the *)
(* copies of events released from sync (disconnect_calendar).              *)
DisconnectedIsCleared ==
  \A c \in Clients :
    <>[](Active(c) \/ c \in strays \cup adrift \/ c \notin live)

(* A released event keeps the copies it had: as long as the calendar stays *)
(* connected nobody takes them from the plan, so CopiesFollowPlan keeps    *)
(* them on the calendar (_expire_single_events: "leave its copies frozen   *)
(* on main + every client").                                               *)
ReleasedIsFrozen ==
  [][\A t \in Targets :
       event.status = "released" /\ copy[t].desired = "present"
         => copy'[t].desired = "present" \/ (t \in Clients /\ calendar'[t] = "cleared")]_vars

-----------------------------------------------------------------------------
(* What the source's own words promise and the code does not keep.         *)

(* README, "Creating appointments": BusyBridge "casts a Busy block onto    *)
(* every connected client calendar".                                       *)
EveryClientIsCovered ==
  \A c \in Clients : <>[](Due(c) => c \in live)

=============================================================================
