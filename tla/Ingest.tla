------------------------------- MODULE Ingest -------------------------------
(***************************************************************************)
(* Reading a source calendar into the ledger: the incremental pass of      *)
(* ingest_client_calendar, ingest_personal_calendar and, for the events    *)
(* that live natively on main, ingest_main_calendar; and the content audit *)
(* of client calendars, the backstop of the first.  One calendar is read,  *)
(* of a kind fixed at the start; people change it meanwhile.               *)
(*                                                                         *)
(* An event is a revision: what _content_hash sees of it (content), the    *)
(* conference room the hash leaves out, and Google's "updated" (stamp).    *)
(***************************************************************************)
EXTENDS Integers

CONSTANTS
  Events,        \* source events: single ones, series, and occurrences that
                 \* are exceptions (moved or cancelled) of their series
  SeriesOf,      \* the series of each occurrence, NULL for the others
  Casts,         \* which of them one calendar may hold
  Contents,      \* values of _content_hash
  NewContents,   \* those an event may start with
  Rooms,         \* values of conferenceId
  Conferences,   \* the events that may have one
  Kinds,         \* kinds of source calendar
  NULL,
  FaultKinds,    \* what the environment may do to the pass
  MaxFaults,     \* bound on how often
  MaxEdits,      \* bound on what people do
  RestoredAsWas  \* <<kind, event>> that may come back from the bin unchanged:
                 \* no others are known to be taken back

GONE == ""       \* candidate of a conference that was removed

ASSUME ConstantsAssumption ==
  /\ NULL \notin Events \cup Contents \cup Rooms
  /\ GONE \notin Rooms /\ NULL \notin {GONE, "good", "expired"}
  /\ SeriesOf \in [Events -> Events \cup {NULL}]
  /\ \A e \in Events :
       SeriesOf[e] \in Events => SeriesOf[SeriesOf[e]] = NULL
  /\ Casts \subseteq SUBSET Events
  /\ NewContents \subseteq Contents
  /\ Kinds \subseteq {"client", "personal", "main_native"}
  /\ RestoredAsWas \subseteq {"client"} \X {e \in Events : SeriesOf[e] = NULL}
  /\ MaxFaults \in Nat /\ MaxEdits \in Nat

VARIABLES
  kind,       \* source_type of the calendar
  cast,       \* the events it may hold
  ours,       \* they are copies BusyBridge wrote on a client calendar
  source,     \* Google's revision of each
  before,     \* and the one before it, which a lagging replica still serves
  had,        \* the conference rooms each has had (no code state)
  changed,    \* "listed" by the pass under way, "new" since it read them
  token,      \* calendar_sync_state.sync_token
  rows,       \* ledger_events
  queue,      \* affected_ledger_events
  unplanned,  \* rows whose version the planner has not seen
  missed,     \* events a pass read wrongly or not at all (no code state)
  worker,     \* the coroutine that holds the user's reconcile lock
  budget

vars == <<kind, cast, ours, source, before, had, changed, token, rows, queue,
          unplanned, missed, worker, budget>>

google == <<source, before, had>>

Revision == [state   : {"none", "live", "cancelled"},
             content : Contents \cup {NULL},
             room    : Rooms \cup {NULL},
             stamp   : 0 .. MaxEdits + 1]

(* candidate is pending_conference_id.                                     *)
Row == [status    : {"none", "active", "cancelled", "released"},
        content   : Contents \cup {NULL},
        room      : Rooms \cup {NULL},
        candidate : Rooms \cup {GONE, NULL},
        stamp     : 0 .. MaxEdits + 1]

(* The local variables of a pass: the events still to be read (todo), the  *)
(* series to scan (parents), affected_ledger_ids, whether the listing is a *)
(* full one, whether a scan failed; and the event whose row the handler    *)
(* under way has read and not yet written, if retention came in between    *)
(* (hand).                                                                 *)
Worker == [pc       : {"idle", "list", "scan", "record", "token", "audit",
                       "plan"},
           todo     : SUBSET Events,
           parents  : SUBSET Events,
           affected : SUBSET Events,
           full     : BOOLEAN,
           held     : BOOLEAN,
           hand     : Events \cup {NULL}]

TypeOK ==
  /\ kind \in Kinds
  /\ cast \in Casts
  /\ ours \in BOOLEAN
  /\ source \in [Events -> Revision] /\ before \in [Events -> Revision]
  /\ had \in [Events -> SUBSET (Rooms \cup {NULL})]
  /\ changed \in [Events -> SUBSET {"listed", "new"}]
  /\ token \in {NULL, "good", "expired"}
  /\ rows \in [Events -> Row]
  /\ queue \subseteq Events
  /\ unplanned \subseteq Events
  /\ missed \subseteq Events
  /\ worker \in Worker
  /\ budget \in [faults : Nat, edits : Nat]

Unborn == [state |-> "none", content |-> NULL, room |-> NULL, stamp |-> 0]

NoRow == [status |-> "none", content |-> NULL, room |-> NULL,
          candidate |-> NULL, stamp |-> 0]

Idle == [pc |-> "idle", todo |-> {}, parents |-> {}, affected |-> {},
         full |-> FALSE, held |-> FALSE, hand |-> NULL]

Init ==
  /\ kind \in Kinds
  /\ cast \in Casts
  /\ ours \in (IF kind = "client" THEN BOOLEAN ELSE {FALSE})
  /\ source = [e \in Events |-> Unborn] /\ before = source
  /\ had = [e \in Events |-> {}]
  /\ changed = [e \in Events |-> {}]
  /\ token = NULL
  /\ rows = [e \in Events |-> NoRow]
  /\ queue = {} /\ unplanned = {} /\ missed = {}
  /\ worker = Idle
  /\ budget = [faults |-> MaxFaults, edits |-> MaxEdits]

RoomsOf(e) == IF e \in Conferences THEN Rooms \cup {NULL} ELSE {NULL}
IsOccurrence(e) == SeriesOf[e] # NULL
OccurrencesOf(s) == {o \in Events : SeriesOf[o] = s}

-----------------------------------------------------------------------------
(* What a handler makes of one event: the row it leaves, whether it gives  *)
(* the row's id to the pass, and whether it bumped the row's version.      *)
Outcome(row, id, bumped) == [row |-> row, id |-> id, bumped |-> bumped]

(* Mutant of Skipped: what is found as it was is not given to the pass.    *)
SkippedForgets(row) == Outcome(row, FALSE, FALSE)

Skipped(row) == Outcome(row, TRUE, FALSE)
Ignored(row) == Outcome(row, FALSE, FALSE)
Written(row) == Outcome(row, TRUE, TRUE)

Inserted(r) == Written([status |-> "active", content |-> r.content,
                        room |-> r.room, candidate |-> NULL,
                        stamp |-> r.stamp])

(* _mark_cancelled leaves the content and source_updated_at as they are.   *)
Cancelled(row) == Written([row EXCEPT !.status = "cancelled"])

Conference(room, candidate, moved) ==
  [room |-> room, candidate |-> candidate, moved |-> moved]

(* Mutants of ResolveConference: it adopts the candidate, the mark of a     *)
(* removed conference included; it adopts what it reads at once; it never  *)
(* takes a conference away.                                                *)
ResolveConferenceAdoptsMark(row, room) ==
  LET seen == IF room = NULL THEN GONE ELSE room IN
  IF room = row.room THEN Conference(row.room, NULL, FALSE)
  ELSE IF row.candidate = seen THEN Conference(seen, NULL, TRUE)
  ELSE Conference(row.room, seen, FALSE)

ResolveConferenceAtOnce(row, room) == Conference(room, NULL, room # row.room)

ResolveConferenceKeeps(row, room) ==
  IF room \in {row.room, NULL} THEN Conference(row.room, NULL, FALSE)
  ELSE IF row.candidate = room THEN Conference(room, NULL, TRUE)
  ELSE Conference(row.room, room, FALSE)

(* _resolve_conference: another room counts when two reads in a row agree. *)
ResolveConference(row, room) ==
  LET seen == IF room = NULL THEN GONE ELSE room IN
  IF room = row.room THEN Conference(row.room, NULL, FALSE)
  ELSE IF row.candidate = seen THEN Conference(room, NULL, TRUE)
  ELSE Conference(row.room, seen, FALSE)

(* Mutant of ReadIsStale: every read is good.                              *)
ReadIsFresh(row, r) == FALSE

(* _read_is_stale.                                                         *)
ReadIsStale(row, r) == r.stamp < row.stamp

(* _content_hash of what was read and of what is stored.                   *)
Differs(row, r) == r.content # row.content

Settled(row, r, conference) ==
  [status |-> "active", content |-> r.content, room |-> conference.room,
   candidate |-> conference.candidate, stamp |-> r.stamp]

(* _apply_event_to_ledger; audit is skip_if_older.                         *)
Applied(row, r, audit) ==
  LET conference == ResolveConference(row, r.room) IN
  IF audit /\ ReadIsStale(row, r) THEN Skipped(row)
  ELSE IF \/ Differs(row, r)
          \/ row.status = "cancelled"
          \/ conference.moved
    THEN Written(Settled(row, r, conference))
    ELSE Skipped([row EXCEPT !.candidate = conference.candidate])

(* The upsert of personal and native main events compares the hash alone.  *)
Overwritten(row, r) ==
  IF ~Differs(row, r) THEN Skipped(row)
  ELSE Written([row EXCEPT !.status = "active", !.content = r.content,
                           !.room = r.room, !.stamp = r.stamp])

CancelledInstance(row) ==
  IF row.status = "cancelled" THEN Skipped(row) ELSE Cancelled(row)

LiveInstance(row, r, audit) ==
  LET conference == ResolveConference(row, r.room) IN
  IF audit /\ ReadIsStale(row, r) THEN Skipped(row)
  ELSE IF row.status = "none" THEN Inserted(r)
  ELSE IF Differs(row, r) \/ conference.moved
    THEN Written(Settled(row, r, conference))
    ELSE Skipped([row EXCEPT !.candidate = conference.candidate])

(* Mutant of Instance: retention's mark is not looked at.                  *)
InstanceUnreleased(row, r, audit) ==
  IF r.state = "cancelled" THEN CancelledInstance(row)
  ELSE LiveInstance(row, r, audit)

(* _ingest_instance, of every kind: a cancelled occurrence gets a row.     *)
Instance(row, r, audit) ==
  IF row.status = "released" THEN Ignored(row)
  ELSE IF r.state = "cancelled" THEN CancelledInstance(row)
  ELSE LiveInstance(row, r, audit)

(* _maybe_ingest_detached_cancellation: the cancellation of an occurrence  *)
(* that names no series is its series' all the same, if that has a row.    *)
NoSeries(e) == rows[SeriesOf[e]].status \in {"none", "released"}

Detached(row, e, r) ==
  IF NoSeries(e) THEN Ignored(row)
  ELSE Instance(row, r, FALSE)

TopCancelled(row) ==
  IF row.status = "none" THEN Ignored(row)
  ELSE IF row.status = "cancelled" THEN Skipped(row)
  ELSE Cancelled(row)

(* A client row somebody else's: a series, a single event, an occurrence.  *)
ForeignEvent(row, e, r, detached, audit) ==
  IF detached THEN Detached(row, e, r)
  ELSE IF IsOccurrence(e) THEN Instance(row, r, audit)
  ELSE IF row.status = "released" THEN Ignored(row)
  ELSE IF r.state = "cancelled" THEN TopCancelled(row)
  ELSE IF row.status = "none" THEN Inserted(r)
  ELSE Applied(row, r, audit)

(* Mutant of ClientEvent: an occurrence has an id of its own, not ours.    *)
ClientEventNoBase(row, e, r, detached, audit) ==
  IF ours /\ ~IsOccurrence(e) THEN Ignored(row)
  ELSE ForeignEvent(row, e, r, detached, audit)

(* client._ingest_one_event.  Of what BusyBridge wrote nothing is minted,  *)
(* an occurrence of its series that somebody moved or deleted included     *)
(* (_managed_series_instance_base).                                        *)
ClientEvent(row, e, r, detached, audit) ==
  IF ours THEN Ignored(row) ELSE ForeignEvent(row, e, r, detached, audit)

(* personal._ingest_one, and main._ingest_one_main_event from where the    *)
(* event is known to be nobody's copy.                                     *)
PersonalTop(row, r) ==
  IF row.status = "released" THEN Ignored(row)
  ELSE IF r.state = "cancelled" THEN TopCancelled(row)
  ELSE IF row.status = "none" THEN Inserted(r)
  ELSE Overwritten(row, r)

PersonalEvent(row, e, r, detached) ==
  IF detached THEN Detached(row, e, r)
  ELSE IF IsOccurrence(e) THEN Instance(row, r, FALSE)
  ELSE PersonalTop(row, r)

NativeTop(row, r) == PersonalTop(row, r)

NativeEvent(row, e, r, detached) ==
  IF detached THEN Detached(row, e, r)
  ELSE IF IsOccurrence(e) THEN Instance(row, r, FALSE)
  ELSE NativeTop(row, r)

Handler(row, e, r, detached, audit) ==
  CASE kind = "client"      -> ClientEvent(row, e, r, detached, audit)
    [] kind = "personal"    -> PersonalEvent(row, e, r, detached)
    [] kind = "main_native" -> NativeEvent(row, e, r, detached)

(* The row as the handler read it, which is not the row it writes to when  *)
(* retention has released it since.                                        *)
InHand(e) ==
  IF e = worker.hand /\ rows[e].status = "released"
    THEN [rows[e] EXCEPT !.status = "active"] ELSE rows[e]

(* No UPDATE asks again what the status is: one that sets it undoes the    *)
(* release, and one that does not (last_seen_at, pending_conference_id)    *)
(* leaves the status the table has.                                        *)
Handled(e, r, detached, audit) ==
  LET out == Handler(InHand(e), e, r, detached, audit) IN
  IF out.bumped THEN out ELSE [out EXCEPT !.row.status = rows[e].status]

-----------------------------------------------------------------------------
(* The pass.                                                               *)
Spend(fault) ==
  /\ fault \in FaultKinds
  /\ budget.faults > 0
  /\ budget' = [budget EXCEPT !.faults = @ - 1]

(* Full events.list leaves cancelled occurrences out: Google's quirk.      *)
FullListing == {e \in Events : /\ source[e].state # "none"
                               /\ ~(IsOccurrence(e) /\ source[e].state = "cancelled")}

Listing(full) ==
  IF full THEN FullListing ELSE {e \in Events : changed[e] # {}}

(* _get_or_create_sync_state and the first request.                        *)
StartPass ==
  /\ worker.pc = "idle"
  /\ worker' = [Idle EXCEPT !.pc = "list", !.full = token = NULL,
                            !.todo = Listing(token = NULL)]
  /\ changed' = IF token = NULL THEN [e \in Events |-> {}] ELSE changed
  /\ UNCHANGED <<kind, cast, ours, google, token, rows, queue, unplanned,
                 missed, budget>>

(* Mutant of SyncTokenExpired: the pass gives up, and so does each next one.*)
SyncTokenExpiredGivesUp ==
  /\ worker.pc = "list" /\ ~worker.full
  /\ token = "expired"
  /\ worker' = [Idle EXCEPT !.pc = "plan"]
  /\ UNCHANGED <<kind, cast, ours, google, changed, token, rows, queue,
                 unplanned, missed, budget>>

(* 410: the listing starts again without a token, and what was found stays *)
(* found; the series are collected anew.                                   *)
SyncTokenExpired ==
  /\ worker.pc = "list" /\ ~worker.full
  /\ token = "expired"
  /\ worker' = [worker EXCEPT !.full = TRUE, !.todo = Listing(TRUE),
                              !.parents = {}, !.hand = NULL]
  /\ changed' = [e \in Events |-> {}]
  /\ UNCHANGED <<kind, cast, ours, google, token, rows, queue, unplanned,
                 missed, budget>>

IsRecurringParent(e) == OccurrencesOf(e) # {} /\ source[e].state = "live" /\ ~ours

(* The row e becomes what the handler makes of revision r.                 *)
TakeIn(e, r, detached, audit) ==
  LET out == Handled(e, r, detached, audit) IN
  /\ rows' = [rows EXCEPT ![e] = out.row]
  /\ unplanned' = IF out.bumped THEN unplanned \cup {e} ELSE unplanned

OlderRead(r) == {[r EXCEPT !.content = c] : c \in Contents \ {r.content}}

(* One event of a page.  Google may serve it before a change has folded    *)
(* into the revision ("race"), with the other surface's conference link    *)
(* ("link"), or name no series in a cancelled occurrence ("detached"); and *)
(* the handler may raise ("poison"), which is isolated.                    *)
IngestEvent(e) ==
  LET r == source[e]
      found(s) == [worker EXCEPT
        !.todo = @ \ {e},
        !.affected = IF s.id THEN @ \cup {e} ELSE @,
        !.parents = IF IsRecurringParent(e) THEN @ \cup {e} ELSE @,
        !.hand = NULL]
      read(s, detached) == TakeIn(e, s, detached, FALSE)
                       /\ worker' = found(Handled(e, s, detached, FALSE))
  IN
  /\ worker.pc = "list" /\ e \in worker.todo /\ worker.hand \in {e, NULL}
  /\ worker.full \/ token # "expired"
  /\ changed' = [changed EXCEPT ![e] = {"listed"}]
  /\ \/ read(r, FALSE) /\ missed' = missed \ {e} /\ UNCHANGED budget
     \/ /\ Spend("race") /\ r.state = "live"
        /\ \E s \in OlderRead(r) : read(s, FALSE)
        /\ missed' = missed \cup {e}
     \/ /\ Spend("link") /\ kind = "client" /\ r.state = "live"
        /\ \E room \in RoomsOf(e) \ {r.room} :
             read([r EXCEPT !.room = room], FALSE)
        /\ missed' = missed \ {e}
     \/ /\ Spend("detached") /\ IsOccurrence(e) /\ r.state = "cancelled"
        /\ read(r, TRUE)
        /\ missed' = IF NoSeries(e) THEN missed \cup {e} ELSE missed \ {e}
     \/ /\ Spend("poison")
        /\ worker' = found(Ignored(rows[e]))
        /\ missed' = missed \cup {e}
        /\ UNCHANGED <<rows, unplanned>>
  /\ UNCHANGED <<kind, cast, ours, google, token, queue>>

(* The last page has come: nextSyncToken, and on to the scan.              *)
ListingEnds ==
  /\ worker.pc = "list" /\ worker.todo = {}
  /\ worker.full \/ token # "expired"
  /\ worker' = [worker EXCEPT
       !.pc = IF worker.full /\ worker.parents # {} THEN "scan" ELSE "record"]
  /\ UNCHANGED <<kind, cast, ours, google, changed, token, rows, queue,
                 unplanned, missed, budget>>

(* scan_full_sync_recurring_cancellations, one series: events.instances    *)
(* does list what the full listing left out.  A series that fails holds    *)
(* the token back.                                                         *)
ScanInstances(s) ==
  LET lost == {o \in OccurrencesOf(s) : source[o].state = "cancelled"}
      out(o) == Handled(o, source[o], FALSE, FALSE)
      left(w) == [w EXCEPT !.parents = @ \ {s}, !.hand = NULL,
                           !.pc = IF w.parents = {s} THEN "record" ELSE @]
  IN
  /\ worker.pc = "scan" /\ s \in worker.parents
  /\ worker.hand \in OccurrencesOf(s) \cup {NULL}
  /\ \/ /\ rows' = [e \in Events |-> IF e \in lost THEN out(e).row ELSE rows[e]]
        /\ unplanned' = unplanned \cup {o \in lost : out(o).bumped}
        /\ missed' = missed \ lost
        /\ worker' = left([worker EXCEPT
             !.affected = @ \cup {o \in lost : out(o).id}])
        /\ changed' = [e \in Events |->
             IF e \in lost THEN {"listed"} ELSE changed[e]]
        /\ UNCHANGED budget
     \/ /\ Spend("scan")
        /\ worker' = left([worker EXCEPT !.held = TRUE])
        /\ UNCHANGED <<rows, unplanned, missed, changed>>
  /\ UNCHANGED <<kind, cast, ours, google, token, queue>>

(* The replan rows first ...                                               *)
RecordAffected ==
  /\ worker.pc = "record"
  /\ queue' = queue \cup worker.affected
  /\ worker' = [worker EXCEPT !.pc = "token"]
  /\ UNCHANGED <<kind, cast, ours, google, changed, token, rows, unplanned,
                 missed, budget>>

(* Mutant of AdvanceToken: a series that could not be scanned is let go.   *)
AdvanceTokenRegardless ==
  /\ worker.pc = "token"
  /\ token' = "good"
  /\ changed' = [e \in Events |-> changed[e] \ {"listed"}]
  /\ worker' = [Idle EXCEPT !.pc = "plan"]
  /\ UNCHANGED <<kind, cast, ours, google, rows, queue, unplanned, missed,
                 budget>>

(* ... and the token last.                                                 *)
AdvanceToken ==
  /\ worker.pc = "token"
  /\ token' = IF worker.held THEN NULL ELSE "good"
  /\ changed' = [e \in Events |-> changed[e] \ {"listed"}]
  /\ worker' = [Idle EXCEPT !.pc = "plan"]
  /\ UNCHANGED <<kind, cast, ours, google, rows, queue, unplanned, missed,
                 budget>>

(* The listing raised: reconcile_user goes on to plan without it, and the  *)
(* affected ids of this calendar are forgotten.                            *)
IngestFails ==
  /\ worker.pc = "list"
  /\ Spend("ingest")
  /\ worker' = [Idle EXCEPT !.pc = "plan"]
  /\ UNCHANGED <<kind, cast, ours, google, changed, token, rows, queue,
                 unplanned, missed>>

IngestPass ==
  \/ StartPass \/ SyncTokenExpired \/ ListingEnds
  \/ RecordAffected \/ AdvanceToken
  \/ \E e \in Events : IngestEvent(e) \/ ScanInstances(e)

(* The same loop in three files, around the three handlers.                *)
ClientPass   == kind = "client"      /\ IngestPass
PersonalPass == kind = "personal"    /\ IngestPass
MainPass     == kind = "main_native" /\ IngestPass

-----------------------------------------------------------------------------
(* audit_user: a window of a client calendar, without the token.           *)
StartAudit ==
  /\ worker.pc = "idle" /\ kind = "client"
  /\ worker' = [Idle EXCEPT !.pc = "audit",
                  !.todo = {e \in Events :
                     "live" \in {source[e].state, before[e].state}}]
  /\ UNCHANGED <<kind, cast, ours, google, changed, token, rows, queue,
                 unplanned, missed, budget>>

(* Only a change is queued.  A replica that lags serves the revision       *)
(* before; it is taken for news when the row's own stamp is older still,   *)
(* for a read that finds the same hash leaves the stamp as it was.         *)
AuditEvent(e) ==
  LET read(r) ==
        LET out == Handled(e, r, FALSE, TRUE) IN
        /\ TakeIn(e, r, FALSE, TRUE)
        /\ worker' = [worker EXCEPT !.todo = @ \ {e}, !.hand = NULL,
             !.affected = IF out.bumped THEN @ \cup {e} ELSE @]
  IN
  /\ worker.pc = "audit" /\ e \in worker.todo /\ worker.hand \in {e, NULL}
  /\ \/ /\ source[e].state = "live"
        /\ read(source[e]) /\ UNCHANGED budget
        /\ missed' = IF e \in unplanned' \ worker'.affected THEN missed
                                                            ELSE missed \ {e}
     \/ /\ source[e].state # "live"
        /\ worker' = [worker EXCEPT !.todo = @ \ {e}, !.hand = NULL]
        /\ UNCHANGED <<rows, unplanned, missed, budget>>
     \/ /\ Spend("stale") /\ before[e].state = "live"
        /\ read(before[e])
        /\ missed' = IF e \in worker'.affected THEN missed \cup {e} ELSE missed
  /\ UNCHANGED <<kind, cast, ours, google, changed, token, queue>>

AuditRecords ==
  /\ worker.pc = "audit" /\ worker.todo = {}
  /\ queue' = queue \cup worker.affected
  /\ worker' = [Idle EXCEPT !.pc = "plan"]
  /\ UNCHANGED <<kind, cast, ours, google, changed, token, rows, unplanned,
                 missed, budget>>

(* The listing of the audit raised.  An event of a page may raise too, or  *)
(* the process end, before the page's replan rows are written ("audit").   *)
AuditFails ==
  /\ worker.pc = "audit"
  /\ Spend(IF worker.affected = {} THEN "ingest" ELSE "audit")
  /\ worker' = [Idle EXCEPT !.pc = "plan"]
  /\ UNCHANGED <<kind, cast, ours, google, changed, token, rows, queue,
                 unplanned, missed>>

AuditPass == AuditRecords \/ \E e \in Events : AuditEvent(e)

(* plan_for_ledger_event of every queued row, the occurrences of a series  *)
(* with it (_replan_instance_children); the queue is emptied after.        *)
PlanAffected ==
  /\ worker.pc = "plan"
  /\ unplanned' = unplanned \ (queue \cup {o \in Events : SeriesOf[o] \in queue})
  /\ queue' = {}
  /\ worker' = Idle
  /\ UNCHANGED <<kind, cast, ours, google, changed, token, rows, missed, budget>>

-----------------------------------------------------------------------------
(* People, on the source calendar.                                         *)
Revise(e, r) ==
  /\ source' = [source EXCEPT ![e] = r]
  /\ before' = [before EXCEPT ![e] = source[e]]
  /\ had' = [had EXCEPT ![e] = @ \cup {r.room}]
  /\ changed' = [changed EXCEPT ![e] = @ \cup {"new"}]

Present(c, r, stamp) ==
  [state |-> "live", content |-> c, room |-> r, stamp |-> stamp]

Edit ==
  /\ budget.edits > 0
  /\ budget' = [budget EXCEPT !.edits = @ - 1]

SeriesIsLive(e) == IsOccurrence(e) => source[SeriesOf[e]].state = "live"

(* Not an event whose row is cancelled with the very content it has again. *)
TakenBack(e, c) ==
  \/ rows[e].status # "cancelled" \/ rows[e].content # c
  \/ <<kind, e>> \in RestoredAsWas

(* A new event, or an occurrence that becomes an exception of its series.  *)
SomebodyAdds(e) ==
  /\ e \in cast /\ source[e].state = "none" /\ SeriesIsLive(e)
  /\ \E c \in NewContents, r \in RoomsOf(e) : Revise(e, Present(c, r, 1))
  /\ UNCHANGED <<kind, cast, ours, token, rows, queue, unplanned, missed,
                 worker, budget>>

SomebodyEdits(e) ==
  /\ Edit
  /\ source[e].state = "live"
  /\ \E c \in Contents, r \in RoomsOf(e) :
       /\ c # source[e].content \/ r # source[e].room
       /\ TakenBack(e, c)
       /\ Revise(e, Present(c, r, source[e].stamp + 1))
  /\ UNCHANGED <<kind, cast, ours, token, rows, queue, unplanned, missed, worker>>

(* The exceptions of a deleted series go with it; Google need not list them.*)
SomebodyDeletes(e) ==
  LET gone == {e} \cup {o \in OccurrencesOf(e) : source[o].state = "live"} IN
  /\ Edit
  /\ source[e].state = "live"
  /\ source' = [x \in Events |->
       IF x \in gone THEN [source[x] EXCEPT !.state = "cancelled",
                                            !.stamp = @ + 1] ELSE source[x]]
  /\ before' = [x \in Events |-> IF x \in gone THEN source[x] ELSE before[x]]
  /\ \E listed \in {{e}, gone} :
       changed' = [x \in Events |->
         IF x \in listed THEN changed[x] \cup {"new"} ELSE changed[x]]
  /\ UNCHANGED <<kind, cast, ours, had, token, rows, queue, unplanned, missed, worker>>

(* An occurrence of a live series is cancelled that never was an exception.*)
SomebodySkips(o) ==
  /\ Edit
  /\ o \in cast /\ IsOccurrence(o) /\ SeriesIsLive(o)
  /\ source[o].state = "none"
  /\ Revise(o, [Unborn EXCEPT !.state = "cancelled", !.stamp = 1])
  /\ UNCHANGED <<kind, cast, ours, token, rows, queue, unplanned, missed, worker>>

(* Back from the bin: a single event or an occurrence.                     *)
SomebodyRestores(e) ==
  /\ Edit
  /\ source[e].state = "cancelled" /\ SeriesIsLive(e) /\ OccurrencesOf(e) = {}
  /\ \E c \in Contents, r \in RoomsOf(e) :
       /\ TakenBack(e, c)
       /\ Revise(e, Present(c, r, source[e].stamp + 1))
  /\ UNCHANGED <<kind, cast, ours, token, rows, queue, unplanned, missed, worker>>

People == \E e \in Events :
  \/ SomebodyAdds(e) \/ SomebodyEdits(e) \/ SomebodyDeletes(e)
  \/ SomebodySkips(e) \/ SomebodyRestores(e)

(* Google forgets the token; an operator's full resync deletes it.         *)
TokenExpires ==
  /\ token = "good"
  /\ Spend("expiry")
  /\ token' \in {"expired", NULL}
  /\ UNCHANGED <<kind, cast, ours, google, changed, rows, queue, unplanned,
                 missed, worker>>

(* The handler under way may have e's row in hand: it has read the status  *)
(* and has yet to write.                                                   *)
MayHold(e) ==
  /\ worker.hand = NULL
  /\ \/ worker.pc \in {"list", "audit"} /\ e \in worker.todo
     \/ /\ worker.pc = "scan" /\ SeriesOf[e] \in worker.parents
        /\ source[e].state = "cancelled"

(* _expire_single_events retires what has ended and does not recur.  It    *)
(* takes no lock: a pass may be under way, and its handler between its     *)
(* SELECT and its UPDATE.  A SELECT that nothing comes after but its own   *)
(* UPDATE is no step of its own: it is read with the release, or with the  *)
(* write.                                                                  *)
Release(e) ==
  /\ "release" \in FaultKinds
  /\ rows[e].status = "active" /\ OccurrencesOf(e) = {}
  /\ Edit
  /\ rows' = [rows EXCEPT ![e].status = "released"]
  /\ unplanned' = unplanned \ {e}
  /\ \/ UNCHANGED worker
     \/ MayHold(e) /\ worker' = [worker EXCEPT !.hand = e]
  /\ UNCHANGED <<kind, cast, ours, google, changed, token, queue, missed>>

(* The process ends, in a pass or its planning.                            *)
Crash ==
  /\ worker.pc \notin {"idle", "audit"}
  /\ Spend("crash")
  /\ worker' = Idle
  /\ UNCHANGED <<kind, cast, ours, google, changed, token, rows, queue,
                 unplanned, missed>>

Next ==
  \/ ClientPass \/ PersonalPass \/ MainPass \/ IngestFails
  \/ StartAudit \/ AuditPass \/ AuditFails \/ PlanAffected
  \/ People \/ TokenExpires \/ Crash \/ \E e \in Events : Release(e)

Spec == Init /\ [][Next]_vars

(* The scheduler starts passes and audits for ever (the periodic sync and  *)
(* audit jobs), and the event loop runs the one under way.                 *)
FairSpec ==
  /\ Spec
  /\ WF_vars(IngestPass \/ AuditPass \/ PlanAffected)
  /\ SF_vars(StartPass) /\ SF_vars(StartAudit)

-----------------------------------------------------------------------------

WillBeListed(e) ==
  token # "good" \/ changed[e] # {} \/ (IsOccurrence(e) /\ changed[SeriesOf[e]] # {})

(* An occurrence has no copies unless its series has: the planner makes it *)
(* absent (_parent_is_inactive), or the diff has no id to derive its own   *)
(* from; and planning the series plans it again.                           *)
HasCopies(e) ==
  IsOccurrence(e) => rows[SeriesOf[e]].status = "active"

Misread(e) == e \in missed \/ SeriesOf[e] \in missed

(* Nothing a pass wrote is forgotten: a row whose version the planner has  *)
(* not seen is in affected_ledger_events, or its event will be listed once *)
(* more, because the sync token is the last durable write of the pass      *)
(* (ingest_client_calendar), or the audit under way holds it; unless the   *)
(* handler raised when the event was listed once more.                     *)
NoChangeStranded ==
  \A e \in unplanned :
    \/ ~HasCopies(e)
    \/ e \in queue \/ SeriesOf[e] \in queue
    \/ WillBeListed(e) \/ Misread(e)
    \/ worker.pc = "audit" /\ {e, SeriesOf[e]} \cap worker.affected # {}

Effective(e) == rows[e].status = "active" /\ HasCopies(e)

(* What a live series on main shows of an occurrence that has no row is    *)
(* the occurrence as the series has it: that it is cancelled takes a row.  *)
Hidden(e) ==
  rows[e].status = "none" /\ IsOccurrence(e)
    => ~HasCopies(e) \/ source[SeriesOf[e]].state # "live"

Agrees(e) ==
  CASE source[e].state = "none"      -> rows[e].status = "none"
    [] source[e].state = "cancelled" -> ~Effective(e) /\ Hidden(e)
    [] source[e].state = "live"      ->
         \/ rows[e].status = "released"
         \/ rows[e].status = "active" /\ rows[e].content = source[e].content

(* The token never gets ahead of the ledger: an event the token says is    *)
(* read is in the ledger as it is at the source, cancellations a full sync *)
(* leaves out (the "recurring-cancellation amnesia") included.             *)
TokenIsHonest ==
  \A e \in Events :
    \/ ours \/ WillBeListed(e) \/ Misread(e)
    \/ Agrees(e)

(* Our own copies, and occurrences of them somebody moved or deleted, are  *)
(* never read back as somebody's events (_managed_series_instance_base).   *)
NoEcho == ours => \A e \in Events : rows[e].status = "none"

(* A single odd read of a conference link never reaches a row that is      *)
(* there: the room an update adopts is one the event has or has had, and   *)
(* not one that only the odd read shows (_resolve_conference).             *)
NoRoomFromOneRead ==
  [][\A e \in Events :
       /\ kind = "client" /\ rows[e].status \in {"active", "released"}
       /\ rows'[e].room # rows[e].room
       => rows'[e].room \in had[e]]_vars

(* No read takes a row back: not to a revision that Google itself dates     *)
(* earlier, whatever a lagging replica says (_read_is_stale), and not from *)
(* released, whatever the row's kind and whichever of the four handlers    *)
(* reads it (_expire_single_events: "planner, diff, and ingest all skip"), *)
(* but for the handler that had read the row before retention came: what   *)
(* that one takes back is planned again.                                   *)
RowsGoForward ==
  [][\A e \in Events :
       /\ rows'[e].stamp >= rows[e].stamp
       /\ rows[e].status = "released" =>
            \/ rows'[e] = rows[e]
            \/ /\ e = worker.hand
               /\ rows'[e].status = "released" \/ e \in unplanned']_vars

Audited(e) == kind = "client" /\ source[e].state = "live"

CaughtUp(e) == /\ Agrees(e) \/ (Misread(e) /\ ~Audited(e))
               /\ e \notin unplanned \/ ~HasCopies(e)

RoomIsRight(e) ==
  Audited(e) /\ rows[e].status = "active" => rows[e].room = source[e].room

(* Left alone, the ledger and the plan catch up with the source, but for   *)
(* what was misread and no audit covers; of client calendars, whose audit  *)
(* sees what is there and not what is gone, that is only a lost deletion.  *)
(* There the room catches up too, whatever one read said of it.            *)
CatchesUp ==
  ~ours => \A e \in Events : <>[](CaughtUp(e) /\ RoomIsRight(e))

=============================================================================
