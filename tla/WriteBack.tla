----------------------------- MODULE WriteBack ------------------------------
(***************************************************************************)
(* What people do to the copy on the main calendar: the part of            *)
(* ingest_main_calendar that reads BusyBridge's own events back, and the   *)
(* way such a change takes to the event's source calendar, through the     *)
(* planner, the diff and the outbox (the origin write-back projection).    *)
(* People change the source meanwhile, and the process may stop.           *)
(*                                                                         *)
(* One event: a single one, or an occurrence of a series whose copy is     *)
(* already there.  rsvp is the user's own response; slot is the time and   *)
(* the details, which follow one policy.                                   *)
(***************************************************************************)
EXTENDS Integers

CONSTANTS
  Rsvps,        \* responseStatus of the user's own attendee entry
  Slots,        \* values of start, end, summary, description, location
  FirstRsvp, FirstSlot,   \* as the event begins
  NULL,
  FaultKinds,
  MaxFaults,    \* bound on what goes wrong
  MaxEdits      \* bound on what people do

ASSUME ConstantsAssumption ==
  /\ NULL \notin Rsvps \cup Slots \cup {"main", "origin"}
  /\ NULL \notin [rsvp : Rsvps, slot : Slots \cup {NULL}]
  /\ FirstRsvp \in Rsvps /\ FirstSlot \in Slots
  /\ MaxFaults \in Nat /\ MaxEdits \in Nat

VARIABLES
  event,   \* what does not change about it
  series,  \* what _series_covers says of the occurrence
  source,  \* the event on its own calendar
  copy,    \* the event BusyBridge keeps on the main calendar
  row,     \* ledger_events
  main,    \* its projection on the main calendar
  origin,  \* its write-back projection on the source calendar
  ops,     \* outbox_operations of the two
  replan,  \* affected_ledger_events has the row
  worker,  \* the coroutine that holds the user's reconcile lock
  wish,    \* responses people gave since all was settled (no code state)
  asked,   \* somebody deleted the copy on main (no code state)
  slips,   \* known holes this behaviour went through (no code state)
  budget

vars == <<event, series, source, copy, row, main, origin, ops, replan, worker,
          wish, asked, slips, budget>>

Body == [rsvp : Rsvps, slot : Slots \cup {NULL}]

(* readonly is a personal or webcal source; locked is not user_can_edit;   *)
(* mode is delete_propagation_mode, of which "shadow" only logs.           *)
Event == [origin : {"client", "readonly"}, locked : BOOLEAN,
          shape : {"single", "occurrence"}, mode : {"off", "on"}]

(* covers: inside the series' rule.  beyond: after the end a split gave    *)
(* the series.  moved: and another segment of it has the date.  unknown:   *)
(* the rule cannot be judged.                                              *)
Coverage == {"covers", "beyond", "moved", "unknown"}

(* unread: listed by the next incremental sync.  touched: what people did  *)
(* to the copy since BusyBridge wrote it or read it.                       *)
Source == [state : {"live", "cancelled"}, rsvp : Rsvps, slot : Slots,
           unread : BOOLEAN]
Copy == [state : {"live", "cancelled"}, rsvp : Rsvps, slot : Slots,
         unread : BOOLEAN, touched : SUBSET {"rsvp", "slot", "state"}]

(* deleted, pending and erase are user_intentionally_deleted,              *)
(* origin_writeback_pending and source_delete_pending.                     *)
Row == [status : {"none", "active", "cancelled", "released"},
        rsvp : Rsvps, slot : Slots,
        deleted : BOOLEAN, pending : BOOLEAN, erase : BOOLEAN]

(* body is what the desired hash stands for, NULL for absent; synced: the  *)
(* applied version and hash are the desired ones; id: google_event_id set. *)
Main == [want : {"none", "present", "absent"}, body : Body \cup {NULL},
         synced : BOOLEAN, id : BOOLEAN,
         current : {"unknown", "present", "absent"},
         etag : {"none", "match", "stale"}]
Origin == [want : {"none", "patch", "absent"}, body : Body \cup {NULL},
           applied : Body \cup {NULL}, synced : BOOLEAN]

(* hand: the handler under way read the row before retention released it.  *)
Worker == [pc : {"client", "main", "halfway", "plan", "diff", "drain"},
           hand : BOOLEAN, sent : {NULL, "main", "origin"}, worked : BOOLEAN]

Op == [kind : {"none", "create", "update", "delete", "patch", "delete_source"},
       body : Body \cup {NULL}]

TypeOK ==
  /\ event \in Event /\ series \in Coverage
  /\ source \in Source /\ copy \in Copy /\ row \in Row
  /\ main \in Main /\ origin \in Origin
  /\ ops \in [{"main", "origin"} -> Op]
  /\ replan \in BOOLEAN
  /\ worker \in Worker
  /\ wish \subseteq Rsvps /\ asked \in BOOLEAN
  /\ slips \subseteq {"echo", "overrun", "halfway", "disarmed", "revived",
                     "coincidence"}
  /\ budget \in [faults : Nat, edits : Nat]

people == <<event, series, wish, asked>>

-----------------------------------------------------------------------------
NoOp == [kind |-> "none", body |-> NULL]
Idle == [pc |-> "client", hand |-> FALSE, sent |-> NULL, worked |-> FALSE]

(* payload: the copy on main, and what a patch of the source carries.      *)
Shown(r) == [rsvp |-> r.rsvp, slot |-> r.slot]

(* Mutant of Patch: the backstop for an event one cannot edit is missing.  *)
PatchEverything(r) == Shown(r)

(* _render_origin_writeback.                                               *)
Patch(r) == IF event.locked THEN [Shown(r) EXCEPT !.slot = NULL] ELSE Shown(r)

First == [rsvp |-> FirstRsvp, slot |-> FirstSlot]

(* A single event is mirrored and settled; an occurrence has no row yet,   *)
(* and its copy is the one the series' copy generates.                     *)
Init ==
  /\ event \in {e \in Event :
       /\ e.origin = "readonly" => e.locked
       /\ e.locked \/ e.shape = "occurrence" => e.mode = "off"}
  /\ series \in IF event.shape = "single" THEN {"covers"}
                                          ELSE {"covers", "unknown"}
  /\ source = [state |-> "live", rsvp |-> FirstRsvp, slot |-> FirstSlot,
               unread |-> FALSE]
  /\ copy = [state |-> "live", rsvp |-> FirstRsvp, slot |-> FirstSlot,
             unread |-> FALSE, touched |-> {}]
  /\ row = [status |-> IF event.shape = "single" THEN "active" ELSE "none",
            rsvp |-> FirstRsvp, slot |-> FirstSlot,
            deleted |-> FALSE, pending |-> FALSE, erase |-> FALSE]
  /\ main = IF event.shape = "single"
              THEN [want |-> "present", body |-> First, synced |-> TRUE,
                    id |-> TRUE, current |-> "present", etag |-> "match"]
              ELSE [want |-> "none", body |-> NULL, synced |-> TRUE,
                    id |-> FALSE, current |-> "unknown", etag |-> "none"]
  /\ origin = LET patched == event.shape = "single" /\ event.origin = "client"
                  body == IF patched THEN Patch(row) ELSE NULL
              IN [want |-> IF patched THEN "patch" ELSE "none", body |-> body,
                  applied |-> body, synced |-> TRUE]
  /\ ops = [p \in {"main", "origin"} |-> NoOp]
  /\ replan = FALSE /\ worker = Idle
  /\ wish = {FirstRsvp} /\ asked = FALSE /\ slips = {}
  /\ budget = [faults |-> MaxFaults, edits |-> MaxEdits]

IsClient == event.origin = "client"
IsOccurrence == event.shape = "occurrence"
Editable == IsClient /\ ~event.locked

(* A hole of the code this behaviour goes through.                         *)
Slips(holes) == slips' = slips \cup holes
Hole(name, happens) == IF happens THEN {name} ELSE {}
Slip(name, happens) == Slips(Hole(name, happens))

(* A handler reads the row's status, awaits, and then updates the row by   *)
(* its id alone: a release in between does not stop it, and is undone by   *)
(* every update that sets the status.                                      *)
StatusRead == IF worker.hand THEN "active" ELSE row.status

-----------------------------------------------------------------------------
(* client._ingest_one_event of the event, and the same of a personal or    *)
(* webcal source.  A response that has not reached the source survives the *)
(* source's own; nothing else does.                                        *)
TakenResponse == IF row.pending THEN row.rsvp ELSE source.rsvp

(* Mutant of Reread: the source's response always counts.                  *)
RereadOverwrites ==
  IF row.rsvp = source.rsvp /\ row.slot = source.slot
       /\ (StatusRead = "active" \/ IsOccurrence)
    THEN row
    ELSE [row EXCEPT !.status = "active", !.rsvp = source.rsvp,
                     !.slot = source.slot]

(* _apply_event_to_ledger and _ingest_instance.                            *)
Reread ==
  IF /\ StatusRead # "none"
     /\ row.rsvp = TakenResponse /\ row.slot = source.slot
     /\ StatusRead = "active" \/ IsOccurrence
    THEN row
    ELSE [row EXCEPT !.status = "active", !.rsvp = TakenResponse,
                     !.slot = source.slot]

(* The occurrence was given up for what became of its copy, and the source *)
(* changes before anybody planned that: nothing tells the plan that it has *)
(* something to do if the event is back to what was planned before.        *)
UndoesCancellation ==
  /\ IsOccurrence /\ row.status = "cancelled"
  /\ source.state = "live" /\ Reread.status = "active"
  /\ main.want = "present" /\ main.synced

IngestSource ==
  /\ worker.pc = "client"
  /\ source' = [source EXCEPT !.unread = FALSE]
  /\ IF ~source.unread \/ StatusRead = "released"
       THEN UNCHANGED <<row, replan, slips>>
       ELSE /\ replan' = TRUE
            /\ row' = IF source.state = "live" THEN Reread
                        ELSE [row EXCEPT !.status = "cancelled"]
            /\ Slip("revived", UndoesCancellation)
  /\ worker' = [worker EXCEPT !.pc = "main", !.hand = FALSE]
  /\ UNCHANGED <<people, copy, main, origin, ops, budget>>

-----------------------------------------------------------------------------
(* _ingest_one_main_event of an event with one of our ids.                 *)
Matched == main.id

NothingRead ==
  /\ copy' = [copy EXCEPT !.unread = FALSE, !.touched = {}]
  /\ worker' = [worker EXCEPT !.pc = "plan", !.hand = FALSE]

Read ==
  /\ NothingRead
  /\ replan' = TRUE

(* Mutant of RevertDrift: the bump of the version is counted on, and the   *)
(* plan finds nothing new.                                                 *)
RevertByBumpAlone == UNCHANGED main

(* _mark_main_drift_reverted; the version bump itself reaches nothing.     *)
RevertDrift == main' = [main EXCEPT !.synced = FALSE]

(* Mutant of HonoursDelete: only what is surely out of range is reverted.  *)
HonoursUnlessBeyond == series \in {"covers", "unknown"}

(* An occurrence that is live on the source: was its copy deleted, or is   *)
(* it what a this-and-following split left?  Only a series that surely     *)
(* covers the occurrence makes it a deletion.                              *)
HonoursDelete == series = "covers"

(* The copy of an occurrence is gone.  The copy of a read-only source is   *)
(* put back, but only where the occurrence's own projection is known; and  *)
(* there the status is read twice.                                         *)
OccurrenceDeleted == \E status \in {StatusRead, row.status} :
  LET reverts == \/ Matched /\ ~IsClient
                 \/ status = "active" /\ ~HonoursDelete
  IN
  /\ copy.state = "cancelled" /\ IsOccurrence
  /\ Matched \/ status = StatusRead
  /\ IF reverts THEN RevertDrift /\ UNCHANGED row
                ELSE /\ row' = [row EXCEPT !.status = "cancelled"]
                     /\ UNCHANGED main
  /\ Slip("echo", status = "active" /\ ~reverts /\ "state" \notin copy.touched)
  /\ UNCHANGED origin
  /\ Read

(* Mutant of Arms: the editor of a locked event deletes it for everybody.  *)
ArmsLocked == IsClient /\ ~IsOccurrence

(* _maybe_arm_organizer_source_delete.                                     *)
Arms == Editable /\ ~IsOccurrence /\ event.mode = "on"

(* The copy of a single event is gone: _mark_user_intentionally_deleted,   *)
(* also when it was BusyBridge that deleted it.                            *)
EventDeleted ==
  /\ copy.state = "cancelled" /\ ~IsOccurrence /\ Matched
  /\ IF IsClient
       THEN /\ row' = [row EXCEPT !.deleted = TRUE, !.erase = Arms \/ @]
            /\ UNCHANGED main
       ELSE RevertDrift /\ UNCHANGED row
  /\ Slip("echo", IsClient /\ "state" \notin copy.touched)
  /\ UNCHANGED origin
  /\ Read

(* A change of the copy, by what the row says now.                         *)
RsvpChanged == IsClient /\ copy.rsvp # row.rsvp
SlotChanged == copy.slot # row.slot
AppliesRsvp == RsvpChanged
AppliesSlot == SlotChanged /\ Editable
Propagates  == AppliesRsvp \/ AppliesSlot
Applied == [row EXCEPT !.rsvp = IF AppliesRsvp THEN copy.rsvp ELSE @,
                       !.slot = IF AppliesSlot THEN copy.slot ELSE @]
MisreadsCopy == \/ AppliesRsvp /\ "rsvp" \notin copy.touched
                \/ AppliesSlot /\ "slot" \notin copy.touched

OrphanedBySplit == IsOccurrence /\ IsClient /\ series = "moved"

(* _maybe_apply_main_edit_back: what may go to the source is stored and    *)
(* flagged, the rest is reverted, in either case by a new delivery.        *)
EditedCopy ==
  /\ copy.state = "live" /\ Matched
  /\ IF OrphanedBySplit
       THEN /\ row' = [row EXCEPT !.status = "cancelled"]
            /\ UNCHANGED <<main, origin, slips>>
       ELSE IF ~(RsvpChanged \/ SlotChanged)
       THEN /\ UNCHANGED <<row, main, origin>>
            /\ Slip("coincidence", main.body \notin {NULL, Shown(copy)})
       ELSE /\ row' = [Applied EXCEPT !.pending = Propagates \/ @]
            /\ main' = [main EXCEPT !.synced = FALSE]
            /\ origin' = [origin EXCEPT !.synced = @ /\ ~Propagates]
            /\ Slip("echo", MisreadsCopy)
  /\ Read

(* _ingest_managed_recurring_instance: the occurrence has no projection    *)
(* with an id yet.  Its row, made now if there is none, takes what may go  *)
(* to the source (a response on its way there stays, even so) ...          *)
FirstEdit ==
  LET new == IF row.pending THEN [Applied EXCEPT !.rsvp = row.rsvp] ELSE Applied
      changes == new # row \/ StatusRead = "none"
  IN
  /\ copy.state = "live" /\ IsOccurrence /\ ~Matched
  /\ RsvpChanged \/ SlotChanged
  /\ row' = IF changes THEN [new EXCEPT !.status = "active"] ELSE row
  /\ main' = [main EXCEPT !.synced = @ /\ (SlotChanged => AppliesSlot)]
  /\ Slips(Hole("echo", MisreadsCopy) \cup Hole("revived", StatusRead = "cancelled"))
  /\ IF Propagates /\ changes
       THEN worker' = [worker EXCEPT !.pc = "halfway", !.hand = FALSE] /\ UNCHANGED <<copy, replan>>
       ELSE Read
  /\ UNCHANGED origin

(* ... and is flagged in a statement of its own.                           *)
FirstEditIsFlagged ==
  /\ worker.pc = "halfway"
  /\ row' = [row EXCEPT !.pending = TRUE]
  /\ Read
  /\ UNCHANGED <<people, source, main, origin, ops, slips, budget>>

(* Mutant of HandsOff: the copy of a released event is a copy like another.*)
HandsOffUnlessOurs ==
  \/ ~copy.unread
  \/ ~Matched /\ ~IsOccurrence
  \/ ~Matched /\ copy.state = "live" /\ ~(RsvpChanged \/ SlotChanged)

(* Nothing to read, a frozen copy, or one whose projection has no id yet.  *)
HandsOff ==
  \/ ~copy.unread
  \/ StatusRead = "released"
  \/ ~Matched /\ ~IsOccurrence
  \/ ~Matched /\ copy.state = "live" /\ ~(RsvpChanged \/ SlotChanged)

IngestMain ==
  /\ worker.pc = "main"
  /\ \/ HandsOff /\ NothingRead /\ UNCHANGED <<row, main, origin, replan, slips>>
     \/ ~HandsOff /\ (OccurrenceDeleted \/ EventDeleted \/ EditedCopy \/ FirstEdit)
  /\ UNCHANGED <<people, source, ops, budget>>

-----------------------------------------------------------------------------
(* _compute_desired_projections, for the two calendars that matter here.   *)
Mirrored == row.status = "active" /\ ~row.deleted

(* Mutant of WantedMain: the copy is rendered like the write-back.         *)
WantedAsPatched == IF Mirrored THEN Patch(row) ELSE NULL

WantedMain == IF Mirrored THEN Shown(row) ELSE NULL
WantedOrigin == IF Mirrored THEN Patch(row) ELSE NULL

(* _upsert_projection leaves what is planned as it was alone, except the   *)
(* write-back of a flagged row.                                            *)
Unchanged(p, want, body, armed) == p.want = want /\ p.body = body /\ ~armed

Planned(p, want, body, armed) ==
  IF Unchanged(p, want, body, armed) THEN p
  ELSE [p EXCEPT !.want = want, !.body = body, !.synced = FALSE]

(* plan_for_ledger_event; the replan rows are cleared after.               *)
Plan ==
  /\ worker.pc = "plan"
  /\ replan' = FALSE
  /\ worker' = [worker EXCEPT !.pc = "diff"]
  /\ IF replan /\ row.status \notin {"none", "released"}
       THEN /\ main' = Planned(main, IF Mirrored THEN "present" ELSE "absent",
                               WantedMain, FALSE)
            /\ origin' = IF ~IsClient THEN origin
                         ELSE Planned(origin, IF Mirrored THEN "patch" ELSE "absent",
                                      WantedOrigin, row.pending)
       ELSE UNCHANGED <<main, origin>>
  /\ UNCHANGED <<people, source, copy, row, ops, slips, budget>>

(* _decide, for the copy on main.                                          *)
DecidedMain ==
  IF main.want = "absent"
    THEN IF ~(main.id \/ IsOccurrence) \/ (main.current = "absent" /\ ~IsOccurrence)
           THEN NoOp
           ELSE [kind |-> "delete", body |-> NULL]
    ELSE [kind |-> IF ~IsOccurrence /\ (main.current = "absent" \/ ~main.id)
                     THEN "create" ELSE "update",
          body |-> main.body]

(* _decide, for the source: deleted when flagged, patched when flagged     *)
(* unless it already has the body, never created.                          *)
DecidedOrigin ==
  IF origin.want = "absent" /\ row.erase THEN [kind |-> "delete_source", body |-> NULL]
  ELSE IF origin.want # "patch" \/ ~row.pending \/ origin.applied = origin.body
    THEN NoOp
  ELSE [kind |-> "patch", body |-> origin.body]

SourceHas(body) == body.rsvp = source.rsvp /\ body.slot \in {NULL, source.slot}

ConvergedWriteback ==
  origin.want = "patch" /\ row.pending /\ origin.applied = origin.body

(* diff_and_enqueue_for_user.  What needs no write is snapped applied; a   *)
(* write-back that converged that way is disarmed.  An occurrence has the  *)
(* id its series' copy gives it.                                           *)
Diff ==
  LET visitsMain == main.want # "none" /\ ~main.synced
      visitsOrigin == origin.want # "none" /\ ~origin.synced
  IN
  /\ worker.pc = "diff"
  /\ ops' = [p \in {"main", "origin"} |->
       IF p = "main" /\ visitsMain /\ DecidedMain # NoOp THEN DecidedMain
       ELSE IF p = "origin" /\ visitsOrigin /\ DecidedOrigin # NoOp THEN DecidedOrigin
       ELSE ops[p]]
  /\ main' = IF ~visitsMain THEN main
             ELSE [main EXCEPT !.id = @ \/ IsOccurrence,
                               !.synced = DecidedMain = NoOp]
  /\ origin' = IF visitsOrigin /\ DecidedOrigin = NoOp
                 THEN [origin EXCEPT !.applied = origin.body, !.synced = TRUE]
                 ELSE origin
  /\ row' = [row EXCEPT !.pending = @ /\ ~(visitsOrigin /\ ConvergedWriteback)]
  /\ worker' = [worker EXCEPT !.pc = "drain", !.worked = FALSE]
  /\ Slip("disarmed", visitsOrigin /\ ConvergedWriteback /\ ~SourceHas(origin.body))
  /\ UNCHANGED <<people, source, copy, replan, budget>>

-----------------------------------------------------------------------------
(* drain_user: an op is sent, then its result recorded.                    *)
Sent(p) == [worker EXCEPT !.sent = p, !.worked = TRUE]
Taken(p) == [worker EXCEPT !.sent = NULL, !.worked = TRUE]
DropOp(p) == ops' = [ops EXCEPT ![p] = NoOp]

Sends(p, kind) ==
  worker.pc = "drain" /\ worker.sent = NULL /\ ops[p].kind = kind

WriteCopy(body) ==
  /\ copy' = [state |-> "live", rsvp |-> body.rsvp, slot |-> body.slot,
              unread |-> TRUE, touched |-> {}]
  /\ Slip("overrun", copy.unread /\ copy.touched # {})

(* _do_create; the ids it burns are in Outbox.                             *)
SendCreate ==
  /\ Sends("main", "create")
  /\ WriteCopy(ops["main"].body)
  /\ worker' = Sent("main")
  /\ UNCHANGED <<people, source, row, main, origin, ops, replan, budget>>

Revivable == IsOccurrence /\ series \in {"covers", "unknown"}

(* _do_update finds the revision it expects, or none to check: it writes.  *)
(* An occurrence that was cancelled comes back with it.                    *)
SendUpdate ==
  /\ Sends("main", "update")
  /\ main.id /\ main.etag # "stale"
  /\ copy.state = "live" \/ Revivable
  /\ WriteCopy(ops["main"].body)
  /\ worker' = Sent("main")
  /\ UNCHANGED <<people, source, row, main, origin, ops, replan, budget>>

(* 412: only the etag is read, and the update made again.                  *)
UpdateIsStale ==
  /\ Sends("main", "update")
  /\ main.id /\ main.etag = "stale"
  /\ copy.state = "live" \/ Revivable
  /\ main' = [main EXCEPT !.etag = "match", !.synced = FALSE]
  /\ DropOp("main")
  /\ worker' = Taken("main")
  /\ UNCHANGED <<people, source, copy, row, origin, replan, slips, budget>>

(* 404: a single event's copy is gone; the projection starts again.        *)
UpdateFindsNothing ==
  /\ Sends("main", "update")
  /\ ~main.id \/ (copy.state = "cancelled" /\ ~IsOccurrence)
  /\ main' = [main EXCEPT !.id = FALSE, !.current = "absent", !.etag = "none",
                          !.synced = FALSE]
  /\ DropOp("main")
  /\ worker' = Taken("main")
  /\ UNCHANGED <<people, source, copy, row, origin, replan, slips, budget>>

(* 400: the series' copy does not have the occurrence any more.            *)
(* _retire_orphaned_instance_tombstone gives it up, row and all.           *)
RetireTombstone ==
  /\ Sends("main", "update")
  /\ main.id /\ copy.state = "cancelled" /\ IsOccurrence /\ ~Revivable
  /\ main' = [main EXCEPT !.want = "absent", !.body = NULL, !.synced = TRUE,
                          !.id = FALSE, !.current = "absent", !.etag = "none"]
  /\ row' = [row EXCEPT !.status = IF @ = "active" THEN "cancelled" ELSE @]
  /\ replan' = (replan \/ row.status = "active")
  /\ DropOp("main")
  /\ worker' = Taken("main")
  /\ UNCHANGED <<people, source, copy, origin, slips, budget>>

(* _do_delete is unconditional, and content with nothing to delete.        *)
SendDelete ==
  /\ Sends("main", "delete")
  /\ copy' = IF copy.state = "cancelled" \/ ~main.id THEN copy
             ELSE [copy EXCEPT !.state = "cancelled", !.unread = TRUE,
                               !.touched = {}]
  /\ worker' = Sent("main")
  /\ UNCHANGED <<people, source, row, main, origin, ops, replan, slips, budget>>

(* _record_success and _record_absent.  Only the desired state the op was  *)
(* made for is recorded as applied.                                        *)
RecordMain ==
  LET op == ops["main"]
      settles == (op.kind = "delete") = (main.want = "absent") /\ op.body = main.body
  IN
  /\ worker.pc = "drain" /\ worker.sent = "main"
  /\ main' = IF op.kind = "delete"
               THEN [main EXCEPT !.current = "absent", !.synced = settles]
               ELSE [main EXCEPT !.current = "present", !.synced = settles,
                                 !.id = TRUE,
                                 !.etag = IF copy.touched = {} THEN "match"
                                                               ELSE "stale"]
  /\ DropOp("main")
  /\ worker' = Taken("main")
  /\ UNCHANGED <<people, source, copy, row, origin, replan, slips, budget>>

(* _do_patch: field by field, and a source that is gone is good enough.    *)
SendPatch ==
  LET body == ops["origin"].body
      patched == [source EXCEPT
        !.rsvp = body.rsvp,
        !.slot = IF body.slot = NULL THEN @ ELSE body.slot]
  IN
  /\ Sends("origin", "patch")
  /\ source' = IF source.state = "live" /\ patched # source
                 THEN [patched EXCEPT !.unread = TRUE] ELSE source
  /\ worker' = Sent("origin")
  /\ UNCHANGED <<people, copy, row, main, origin, ops, replan, slips, budget>>

(* _do_delete_source.                                                      *)
SendDeleteSource ==
  /\ Sends("origin", "delete_source")
  /\ source' = IF source.state = "cancelled" THEN source
               ELSE [source EXCEPT !.state = "cancelled", !.unread = TRUE]
  /\ worker' = Sent("origin")
  /\ UNCHANGED <<people, copy, row, main, origin, ops, replan, slips, budget>>

(* Mutant of RecordOrigin: the flag that asked for the write stays.        *)
RecordOriginStaysArmed ==
  /\ worker.pc = "drain" /\ worker.sent = "origin"
  /\ origin' = [origin EXCEPT !.applied = ops["origin"].body,
                              !.synced = ops["origin"].body = origin.body]
  /\ DropOp("origin")
  /\ worker' = Taken("origin")
  /\ UNCHANGED <<people, source, copy, row, main, replan, slips, budget>>

(* _record_origin_writeback_applied, and the end of _do_delete_source: the *)
(* flag that asked for the write is cleared.                               *)
RecordOrigin ==
  LET op == ops["origin"] IN
  /\ worker.pc = "drain" /\ worker.sent = "origin"
  /\ origin' = [origin EXCEPT !.applied = op.body, !.synced = op.body = origin.body]
  /\ row' = IF op.kind = "patch" THEN [row EXCEPT !.pending = FALSE]
                                 ELSE [row EXCEPT !.erase = FALSE]
  /\ DropOp("origin")
  /\ worker' = Taken("origin")
  /\ UNCHANGED <<people, source, copy, main, replan, slips, budget>>

(* Nothing left to send: the diff once more if something was done (the     *)
(* loop is bounded, so perhaps not), else the pass ends.                   *)
DrainEnds ==
  /\ worker.pc = "drain" /\ worker.sent = NULL
  /\ \A p \in {"main", "origin"} : ops[p] = NoOp
  /\ \/ worker.worked /\ worker' = [worker EXCEPT !.pc = "diff"]
     \/ worker' = Idle
  /\ UNCHANGED <<people, source, copy, row, main, origin, ops, replan, slips,
                 budget>>

Deliver ==
  \/ SendCreate \/ SendUpdate \/ UpdateIsStale \/ UpdateFindsNothing
  \/ RetireTombstone \/ SendDelete \/ RecordMain
  \/ SendPatch \/ SendDeleteSource \/ RecordOrigin \/ DrainEnds

Pass == IngestSource \/ IngestMain \/ FirstEditIsFlagged \/ Plan \/ Diff \/ Deliver

-----------------------------------------------------------------------------
Spend(fault) ==
  /\ fault \in FaultKinds
  /\ budget.faults > 0
  /\ budget' = [budget EXCEPT !.faults = @ - 1]

(* A call fails and its op waits for the next pass.                        *)
CallFails ==
  /\ worker.pc = "drain" /\ worker.sent = NULL
  /\ \E p \in {"main", "origin"} : ops[p] # NoOp
  /\ Spend("transient")
  /\ worker' = Idle
  /\ UNCHANGED <<people, source, copy, row, main, origin, ops, replan, slips>>

(* The process stops.  What it had sent is sent again.                     *)
Crash ==
  /\ worker # Idle
  /\ Spend("crash")
  /\ worker' = Idle
  /\ Slip("halfway", worker.pc = "halfway")
  /\ UNCHANGED <<people, source, copy, row, main, origin, ops, replan>>

(* A handler has something to read, so one may be between its check of the *)
(* row and its update.                                                     *)
MayHold == \/ worker.pc = "client" /\ source.unread
           \/ worker.pc = "main" /\ copy.unread

(* Retention's doing, at any time and under no lock: see Custody.          *)
Release ==
  /\ row.status = "active"
  /\ Spend("release")
  /\ row' = [row EXCEPT !.status = "released"]
  /\ \/ worker' = worker
     \/ MayHold /\ worker' = [worker EXCEPT !.hand = TRUE]
  /\ UNCHANGED <<people, source, copy, main, origin, ops, replan, slips>>

-----------------------------------------------------------------------------
Agree == /\ source.rsvp = copy.rsvp /\ source.slot = copy.slot
         /\ row.status = "none" \/ Shown(source) = Shown(row)

(* Nothing is on its way anywhere, as far as the tables and the listings   *)
(* tell.                                                                   *)
Quiet ==
  /\ ~source.unread /\ ~copy.unread /\ ~replan
  /\ main.synced /\ origin.synced /\ worker = Idle
  /\ \A p \in {"main", "origin"} : ops[p] = NoOp

Settled == Quiet /\ ~row.pending /\ Agree

Edit ==
  /\ budget.edits > 0
  /\ budget' = [budget EXCEPT !.edits = @ - 1]
  /\ UNCHANGED <<event, row, main, origin, ops, replan, worker, slips>>

Wishes(r) == wish' = IF Settled THEN {r} ELSE wish \cup {r}

RespondOnSource(r) ==
  /\ IsClient /\ source.state = "live" /\ r # source.rsvp
  /\ source' = [source EXCEPT !.rsvp = r, !.unread = TRUE]
  /\ Wishes(r)
  /\ Edit /\ UNCHANGED <<series, copy, asked>>

ChangeSource(s) ==
  /\ source.state = "live" /\ s # source.slot
  /\ source' = [source EXCEPT !.slot = s, !.unread = TRUE]
  /\ Edit /\ UNCHANGED <<series, copy, asked, wish>>

CancelSource ==
  /\ source.state = "live"
  /\ source' = [source EXCEPT !.state = "cancelled", !.unread = TRUE]
  /\ Edit /\ UNCHANGED <<series, copy, asked, wish>>

(* Back from the bin as it was, with the response it had: a single client  *)
(* event, which is taken back (Ingest has the others).                     *)
RestoreSource ==
  /\ source.state = "cancelled" /\ IsClient /\ ~IsOccurrence
  /\ source' = [source EXCEPT !.state = "live", !.unread = TRUE]
  /\ wish' = wish \cup {source.rsvp}
  /\ Edit /\ UNCHANGED <<series, copy, asked>>

(* On the copy: its revision is no longer the one BusyBridge wrote.        *)
Touch(c, field) ==
  /\ copy.state = "live"
  /\ copy' = [c EXCEPT !.unread = TRUE, !.touched = @ \cup {field}]
  /\ budget.edits > 0
  /\ budget' = [budget EXCEPT !.edits = @ - 1]
  /\ main' = [main EXCEPT !.etag = IF @ = "match" THEN "stale" ELSE @]
  /\ UNCHANGED <<event, series, source, row, origin, ops, replan, worker, slips>>

RespondOnMain(r) ==
  /\ IsClient /\ r # copy.rsvp
  /\ Touch([copy EXCEPT !.rsvp = r], "rsvp")
  /\ Wishes(r) /\ UNCHANGED asked

ChangeOnMain(s) ==
  /\ s # copy.slot
  /\ Touch([copy EXCEPT !.slot = s], "slot")
  /\ UNCHANGED <<wish, asked>>

(* A response on the copy that nobody read goes with it.                   *)
DeleteOnMain ==
  /\ Touch([copy EXCEPT !.state = "cancelled"], "state")
  /\ asked' = TRUE /\ wish' = wish \cup {source.rsvp}

(* Somebody splits the series, "this and following"; its copy on main is   *)
(* cut short too, and what is past the cut is cancelled by nobody.         *)
Split(cover) ==
  /\ IsOccurrence /\ series = "covers" /\ cover \in {"beyond", "moved"}
  /\ series' = cover
  /\ Edit /\ UNCHANGED <<source, copy, wish, asked>>

SplitCancelsCopy ==
  /\ IsOccurrence /\ series # "covers"
  /\ Touch([copy EXCEPT !.state = "cancelled"], "state")
  /\ wish' = wish \cup {source.rsvp} /\ UNCHANGED asked

People ==
  \/ \E r \in Rsvps : RespondOnSource(r) \/ RespondOnMain(r)
  \/ \E s \in Slots : ChangeSource(s) \/ ChangeOnMain(s)
  \/ \E c \in Coverage : Split(c)
  \/ CancelSource \/ RestoreSource \/ DeleteOnMain \/ SplitCancelsCopy

Next == Pass \/ CallFails \/ Crash \/ Release \/ People

Spec == Init /\ [][Next]_vars

(* A pass keeps being requested (Scheduling) and goes on step by step.     *)
FairSpec == Spec /\ WF_vars(Pass)

-----------------------------------------------------------------------------
(* A source calendar is written only where the user may write: never one   *)
(* that is read-only, the time or the details of an event only when the    *)
(* user can edit it, and an event is never brought back.                   *)
WritesWithinRights ==
  [][ (source' # source /\ worker' # worker /\ worker.pc = "drain") =>
        /\ IsClient
        /\ source'.slot # source.slot => Editable
        /\ source.state = "live" ]_vars

(* BusyBridge deletes an event at its source only after somebody deleted   *)
(* the copy of a single event they could edit, with delete propagation     *)
(* switched on.                                                            *)
ErasesOnlyWhenAsked ==
  [][ (source'.state # source.state /\ worker' # worker) =>
        /\ slips = {} => asked
        /\ Editable /\ ~IsOccurrence /\ event.mode = "on" ]_vars

(* The mirror of an event that is live, and was read so, is given up only  *)
(* because somebody deleted the copy, or because the series surely does    *)
(* not have the occurrence any more.                                       *)
LiveMirrorIsKept ==
  [][ (Mirrored /\ ~Mirrored' /\ row'.status # "released"
         /\ source.state = "live" /\ ~source.unread) =>
        asked \/ series \in {"beyond", "moved"} \/ slips' # {} ]_vars

(* Once retention released the event, neither a change nor a deletion of   *)
(* the frozen copy, nor anything on the source, reaches its row or has a   *)
(* projection delivered again, but through the one handler that had read   *)
(* the row before; no other step takes the release back.                   *)
FrozenCopyIsLeftAlone ==
  [][ row.status = "released" =>
        /\ worker.pc \in {"client", "main"} =>
             worker.hand \/ UNCHANGED <<row, main.synced, origin, replan>>
        /\ row'.status = "released" \/ worker.hand ]_vars

(* The response that reaches the source, and stays there, is one that was  *)
(* given since the two calendars last agreed, on whichever of them.        *)
RsvpLands == <>[](Mirrored /\ source.state = "live" /\ slips = {}
                    => source.rsvp \in wish)

(* The copy shows what the source has, and so does the ledger; or the event*)
(* is not mirrored, and there is no copy.                                  *)
SidesMatch ==
  IF row.status = "none" \/ Mirrored
    THEN /\ source.state = "live" /\ ~row.pending
         /\ copy.state = "live" /\ Agree
    ELSE copy.state = "cancelled"

(* When people leave the event alone, the two sides match in the end.      *)
SidesAgree == <>[](slips = {} /\ row.status # "released" => SidesMatch)

(* No change of either side gets lost on its way to the other: when nothing*)
(* is listed, queued, flagged, diverged or in the outbox any more, the two *)
(* sides match, whoever changed what meanwhile and whatever failed         *)
(* (origin_writeback_pending, _mark_main_drift_reverted, _upsert_projection*)
(* and _record_success are for that: nobody looks at a quiet event again). *)
QuietIsMatched == Quiet /\ slips = {} /\ row.status # "released" => SidesMatch

=============================================================================
