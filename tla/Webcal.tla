------------------------------- MODULE Webcal -------------------------------
(***************************************************************************)
(* A webcal subscription: a read-only ICS feed polled in every reconcile   *)
(* pass (ingest_webcal_subscription), the planner that places its events,  *)
(* and what its owner does meanwhile in the dashboard, which takes no lock *)
(* the pass holds: unsubscribe, subscribe to the same URL again, move the  *)
(* placement, rename, disconnect the client calendar it is placed on.      *)
(*                                                                         *)
(* An ETag stands for the body it was served with.  Time matters through   *)
(* one fact alone, whether a row was last seen two poll intervals ago.     *)
(***************************************************************************)
EXTENDS Naturals, Sequences

CONSTANTS
  Stable,     \* feed events with a UID that lasts
  SeriesOf,   \* the series a RECURRENCE-ID override belongs to, else NULL
  MaxSame,    \* bound on the events without such a UID that share their time
  Contents,   \* values of _content_hash
  Families,   \* sets of bodies; a feed serves those of one
  Tags,       \* whether the server sends ETags: a set of BOOLEAN
  Placements, \* placements the owner picks: "main", "client"
  NULL,
  FaultKinds, \* what may go wrong
  MaxMoves    \* bound on what the provider, the owner and chance do together

Ordinals == 0 .. MaxSame - 1

(* Rows by canonical_uid: of the UID (canonical_uid_webcal_stable and       *)
(* _for_instance), or of the time and an ordinal (_unstable).              *)
Keys == Stable \cup Ordinals

Item == [state : {"absent", "live", "cancelled"}, content : Contents \cup {NULL}]

(* What icalendar makes of a body: an item for each UID, and the contents  *)
(* of the same-time events in their order.                                 *)
Body == [stable : [Stable -> Item], sametime : UNION {[1 .. n -> Contents] : n \in 0 .. MaxSame}]

Bodies == UNION Families

ASSUME ConstantsAssumption ==
  /\ MaxSame \in Nat /\ MaxMoves \in Nat
  /\ Stable \cap Ordinals = {}
  /\ SeriesOf \in [Keys -> Stable \cup {NULL}] /\ NULL \notin Keys
  /\ \A e \in Keys : SeriesOf[e] # NULL => SeriesOf[SeriesOf[e]] = NULL
  /\ Families \subseteq SUBSET Body
  /\ NULL \notin Bodies /\ NULL \notin Contents
  /\ Tags \subseteq BOOLEAN
  /\ Placements \subseteq {"main", "client"}

VARIABLES
  family,    \* the bodies this feed may serve
  tagged,    \* its server sends ETags and honours If-None-Match
  feed,      \* the body served now
  sub,       \* webcal_subscriptions: is_active, last_etag, placement_kind
  client,    \* client_calendars.is_active of the placement target
  rows,      \* ledger_events of the subscription
  planned,   \* what the planner last made of each row
  queue,     \* affected_ledger_events
  pass,      \* the coroutine that holds the user's reconcile lock
  request,   \* the owner's request under way
  adrift,    \* rows a known hole of the code has left behind (no code state)
  budget

vars == <<family, tagged, feed, sub, client, rows, planned, queue, pass,
          request, adrift, budget>>

server == <<family, tagged>>
ledger == <<rows, planned, queue>>

(* old: last_seen_at is two poll intervals behind.                         *)
Row == [status  : {"none", "active", "cancelled", "released"},
        content : Contents \cup {NULL},
        old     : BOOLEAN]

NoRow == [status |-> "none", content |-> NULL, old |-> FALSE]

(* Where the full copies are: nowhere, on main, on main and the client.    *)
Plan == [where : {"nowhere", "main", "client"}, content : Contents \cup {NULL}]

Nowhere == [where |-> "nowhere", content |-> NULL]

(* The locals of a pass: the ETag asked with, the body, the UIDs still to  *)
(* be read, how many same-time events were, the ids found, whether one     *)
(* failed; then the queue entries read and those not planned yet.          *)
Pass == [pc       : {"idle", "fetch", "read", "record", "success", "plan", "planning"},
         asked    : Bodies \cup {NULL},
         body     : Bodies \cup {NULL},
         todo     : SUBSET Stable,
         line     : 0 .. MaxSame,
         affected : SUBSET Keys,
         failed   : BOOLEAN,
         reading  : SUBSET Keys,
         left     : SUBSET Keys]

Idle == [pc |-> "idle", asked |-> NULL, body |-> NULL, todo |-> {}, line |-> 0,
         affected |-> {}, failed |-> FALSE, reading |-> {}, left |-> {}]

(* ids: the rows to queue; of a cleanup, those whose copies it has cut.    *)
Request == [pc : {"idle", "end", "append", "queue", "deactivate", "replan"},
            ids : SUBSET Keys]

NoRequest == [pc |-> "idle", ids |-> {}]

TypeOK ==
  /\ family \in Families /\ tagged \in Tags
  /\ feed \in family
  /\ sub \in [active : BOOLEAN, etag : Bodies \cup {NULL}, placement : {"main", "client"}]
  /\ client \in BOOLEAN
  /\ rows \in [Keys -> Row]
  /\ planned \in [Keys -> Plan]
  /\ queue \subseteq Keys
  /\ pass \in Pass
  /\ request \in Request
  /\ adrift \subseteq Keys
  /\ budget \in Nat

Init ==
  /\ family \in Families /\ tagged \in Tags
  /\ feed \in family
  /\ sub \in [active : {TRUE}, etag : {NULL}, placement : Placements]
  /\ client = TRUE
  /\ rows = [e \in Keys |-> NoRow]
  /\ planned = [e \in Keys |-> Nowhere]
  /\ queue = {}
  /\ pass = Idle
  /\ request = NoRequest
  /\ adrift = {}
  /\ budget = MaxMoves

Spend == budget > 0 /\ budget' = budget - 1

Fault(kind) == kind \in FaultKinds /\ Spend

Active(e) == rows[e].status = "active"
ActiveRows == {e \in Keys : Active(e)}

-----------------------------------------------------------------------------
(* What a handler makes of one event: the row, and whether the pass is     *)
(* given its id.                                                           *)
Outcome(row, id) == [row |-> row, id |-> id]

Ignored(row) == Outcome(row, FALSE)
Seen(row) == Outcome([row EXCEPT !.old = FALSE], TRUE)

(* Mutant of Upserted: the outcome is taken for the status.                *)
UpsertedAsOutcome(c) == Outcome([status |-> "updated", content |-> c, old |-> FALSE], TRUE)

Upserted(c) == Outcome([status |-> "active", content |-> c, old |-> FALSE], TRUE)

(* _mark_cancelled.                                                        *)
Cancelled(row) == [row EXCEPT !.status = "cancelled", !.old = FALSE]

(* Same hash: only last_seen_at is written, the status stays what it was.  *)
Live(row, c) ==
  IF row.status = "none" \/ row.content # c THEN Upserted(c) ELSE Seen(row)

(* _ingest_ics_event, for what is not an override.                         *)
TopEvent(row, item) ==
  CASE item.state = "cancelled" /\ row.status = "active" -> Outcome(Cancelled(row), TRUE)
    [] item.state = "cancelled" /\ row.status # "active" -> Ignored(row)
    [] item.state = "live" /\ row.status = "released"    -> Ignored(row)
    [] item.state = "live" /\ row.status # "released"    -> Live(row, item.content)

(* _ingest_ics_instance: a cancelled override gets a row of its own.       *)
Override(row, item) ==
  IF item.state = "live" THEN Live(row, item.content)
  ELSE IF row.status = "cancelled" THEN Outcome(row, TRUE)
  ELSE Outcome(Cancelled(row), TRUE)

Handled(e, item) ==
  IF SeriesOf[e] # NULL THEN Override(rows[e], item) ELSE TopEvent(rows[e], item)

-----------------------------------------------------------------------------
(* The poll.                                                               *)
TagOf(body) == IF tagged THEN body ELSE NULL

Listed(body) == {e \in Stable : body.stable[e].state # "absent"}

(* "seen" is zero.                                                         *)
IsEmpty(body) == Listed(body) = {} /\ Len(body.sametime) = 0

Gone(body) == (Stable \ Listed(body)) \cup {k \in Ordinals : k >= Len(body.sametime)}

(* What has left the feed and stays active: it is not looked at again      *)
(* while the server answers 304 or the feed has no event.                  *)
Lingering(body) ==
  IF tagged \/ IsEmpty(body) THEN Gone(body) \cap ActiveRows ELSE {}

(* reconcile_user_by_id finds it active, and so does _get_subscription.    *)
StartPoll ==
  /\ pass.pc = "idle" /\ sub.active
  /\ pass' = [Idle EXCEPT !.pc = "fetch", !.asked = sub.etag]
  /\ UNCHANGED <<server, feed, sub, client, ledger, request, adrift, budget>>

(* A pass without a poll plans what others have queued.                    *)
StartPass ==
  /\ pass.pc = "idle" /\ ~sub.active
  /\ pass' = [Idle EXCEPT !.pc = "plan"]
  /\ UNCHANGED <<server, feed, sub, client, ledger, request, adrift, budget>>

(* 304 writes back the tag it asked with, and looks at no row.             *)
NotModified ==
  /\ pass.pc = "fetch"
  /\ pass.asked # NULL /\ pass.asked = feed
  /\ sub' = [sub EXCEPT !.etag = pass.asked]
  /\ pass' = [Idle EXCEPT !.pc = "plan"]
  /\ UNCHANGED <<server, feed, client, ledger, request, adrift, budget>>

(* Mutant of EmptyFeedIsKept: an eventless body is a body like another.    *)
EmptyFeedIsNotKept(body) == FALSE

(* The guard that keeps a provider's outage from wiping the busy blocks.   *)
EmptyFeedIsKept(body) == IsEmpty(body) /\ ActiveRows # {}

(* 200 with a body that parses.                                            *)
Fetched ==
  /\ pass.pc = "fetch"
  /\ ~(pass.asked # NULL /\ pass.asked = feed)
  /\ IF EmptyFeedIsKept(feed)
     THEN /\ sub' = [sub EXCEPT !.etag = TagOf(feed)]
          /\ adrift' = adrift \cup Lingering(feed)
          /\ pass' = [Idle EXCEPT !.pc = "plan"]
     ELSE /\ pass' = [pass EXCEPT !.pc = "read", !.body = feed, !.todo = Listed(feed)]
          /\ UNCHANGED <<sub, adrift>>
  /\ UNCHANGED <<server, feed, client, ledger, request, budget>>

(* It raised, or the status is 400 and up, or the body does not parse: the *)
(* failure is counted for the dashboard.                                   *)
FetchFails ==
  /\ pass.pc = "fetch"
  /\ Fault("fetch")
  /\ pass' = [Idle EXCEPT !.pc = "plan"]
  /\ UNCHANGED <<server, feed, sub, client, ledger, request, adrift>>

(* The row e becomes what its handler makes of it.  A cancelled row that   *)
(* is skipped for its equal hash stays cancelled, and one written after    *)
(* the owner has unsubscribed is nobody's any more: both are adrift.       *)
TakeIn(e, out) ==
  /\ rows' = [rows EXCEPT ![e] = out.row]
  /\ adrift' = IF \/ ~sub.active
                  \/ out.id /\ out.row.status = "cancelled" /\ rows[e].status = "cancelled"
               THEN adrift \cup {e}
               ELSE IF out.id /\ ~(pass.failed /\ e \in Ordinals) THEN adrift \ {e}
               ELSE adrift

(* One event of the body; or its handler raises ("poison"), which is       *)
(* isolated and holds stale-detection back, but not the ETag.              *)
IngestEvent(e) ==
  LET out == Handled(e, pass.body.stable[e]) IN
  /\ pass.pc = "read" /\ e \in pass.todo
  /\ \/ /\ TakeIn(e, out)
        /\ pass' = [pass EXCEPT !.todo = @ \ {e},
             !.affected = IF out.id THEN @ \cup {e} ELSE @]
        /\ UNCHANGED budget
     \/ /\ Fault("poison")
        /\ pass' = [pass EXCEPT !.todo = @ \ {e}, !.failed = TRUE]
        /\ adrift' = adrift \cup {e}
        /\ UNCHANGED rows
  /\ UNCHANGED <<server, feed, sub, client, planned, queue, request>>

(* Mutant of Slot: the row of the time, whoever was read into it.          *)
SlotTaken == 0

(* The ordinal probe: the first slot this poll has not touched.            *)
Slot ==
  CHOOSE k \in Ordinals \ pass.affected :
    \A j \in Ordinals \ pass.affected : k <= j

(* The next event without a lasting UID.  After a failure those behind it  *)
(* move up a slot.                                                         *)
IngestSameTime ==
  LET out == TopEvent(rows[Slot], [state |-> "live", content |-> pass.body.sametime[pass.line + 1]])
  IN
  /\ pass.pc = "read" /\ pass.line < Len(pass.body.sametime)
  /\ \/ /\ TakeIn(Slot, out)
        /\ pass' = [pass EXCEPT !.line = @ + 1,
             !.affected = IF out.id THEN @ \cup {Slot} ELSE @]
        /\ UNCHANGED budget
     \/ /\ Fault("poison")
        /\ pass' = [pass EXCEPT !.line = @ + 1, !.failed = TRUE]
        /\ adrift' = adrift \cup Ordinals
        /\ UNCHANGED rows
  /\ UNCHANGED <<server, feed, sub, client, planned, queue, request>>

(* Mutant of Stale: what a failed event left unseen is swept with the rest.*)
StaleRegardless == {e \in ActiveRows : rows[e].old /\ e \notin pass.affected}

(* Stale-detection: active, not in this body, not seen for two intervals.  *)
Stale ==
  IF pass.failed THEN {}
  ELSE {e \in ActiveRows : rows[e].old /\ e \notin pass.affected}

CancelStale ==
  /\ pass.pc = "read" /\ pass.todo = {} /\ pass.line = Len(pass.body.sametime)
  /\ rows' = [e \in Keys |-> IF e \in Stale THEN Cancelled(rows[e]) ELSE rows[e]]
  /\ pass' = [pass EXCEPT !.pc = "record", !.affected = @ \cup Stale]
  /\ UNCHANGED <<server, feed, sub, client, planned, queue, request, adrift, budget>>

(* The replan rows first ...                                               *)
RecordAffected ==
  /\ pass.pc = "record"
  /\ queue' = queue \cup pass.affected
  /\ pass' = [pass EXCEPT !.pc = "success", !.affected = {}]
  /\ UNCHANGED <<server, feed, sub, client, rows, planned, request, adrift, budget>>

(* ... and the ETag last.                                                  *)
RecordFetchSuccess ==
  /\ pass.pc = "success"
  /\ sub' = [sub EXCEPT !.etag = TagOf(pass.body)]
  /\ adrift' = adrift \cup Lingering(pass.body)
  /\ pass' = [Idle EXCEPT !.pc = "plan"]
  /\ UNCHANGED <<server, feed, client, ledger, request, budget>>

-----------------------------------------------------------------------------
(* The planner.                                                            *)

(* _get_ledger_row joins the target only while it is active: a placement   *)
(* whose calendar is gone renders like one on main.                        *)
Placed == IF sub.placement = "client" /\ client THEN "client" ELSE "main"

(* An occurrence whose series is not active is absent.                     *)
Wanted(e) ==
  IF /\ Active(e)
     /\ SeriesOf[e] # NULL => Active(SeriesOf[e])
  THEN [where |-> Placed, content |-> rows[e].content]
  ELSE Nowhere

(* plan_for_ledger_event leaves a released row's copies alone.             *)
Replanned(e) == IF rows[e].status = "released" THEN planned[e] ELSE Wanted(e)

(* _read_affected_ledger_rows.                                             *)
PlanReads ==
  /\ pass.pc = "plan"
  /\ pass' = [pass EXCEPT !.pc = "planning", !.reading = queue, !.left = queue]
  /\ queue' = {}
  /\ UNCHANGED <<server, feed, sub, client, rows, planned, request, adrift, budget>>

(* plan_for_ledger_event, with the occurrences of a series after it.       *)
PlanRow(e) ==
  /\ pass.pc = "planning" /\ e \in pass.left
  /\ planned' = [x \in Keys |->
       IF x = e \/ SeriesOf[x] = e THEN Replanned(x) ELSE planned[x]]
  /\ pass' = [pass EXCEPT !.left = @ \ {e}]
  /\ UNCHANGED <<server, feed, sub, client, rows, queue, request, adrift, budget>>

(* Mutant of ClearAffected: every entry goes, one that came since as well. *)
ClearAffectedAll ==
  /\ pass.pc = "planning" /\ pass.left = {}
  /\ pass' = Idle
  /\ queue' = {}
  /\ UNCHANGED <<server, feed, sub, client, rows, planned, request, adrift, budget>>

(* _clear_affected_ledger_rows: by id, so an entry that came since stays.  *)
ClearAffected ==
  /\ pass.pc = "planning" /\ pass.left = {}
  /\ pass' = Idle
  /\ UNCHANGED <<server, feed, sub, client, ledger, request, adrift, budget>>

Poll ==
  \/ StartPoll \/ NotModified \/ Fetched \/ IngestSameTime
  \/ CancelStale \/ RecordAffected \/ RecordFetchSuccess
  \/ \E e \in Stable : IngestEvent(e)

PlanPass ==
  \/ StartPass \/ PlanReads \/ ClearAffected
  \/ \E e \in Keys : PlanRow(e)

-----------------------------------------------------------------------------
(* The owner, one request at a time.                                       *)
Click ==
  /\ request.pc = "idle"
  /\ Spend

(* delete_webcal_subscription: its rows are cancelled, and for a moment    *)
(* (or for good, if the process stops) are not what an active subscription *)
(* serves ...                                                              *)
Unsubscribe ==
  /\ Click
  /\ sub.active
  /\ rows' = [e \in Keys |->
       IF Active(e) THEN [rows[e] EXCEPT !.status = "cancelled"] ELSE rows[e]]
  /\ request' = [pc |-> "end", ids |-> ActiveRows]
  /\ adrift' = adrift \cup ActiveRows
  /\ UNCHANGED <<server, feed, sub, client, planned, queue, pass>>

(* ... it is made inactive; a poll may have written rows meanwhile, which  *)
(* are nobody's any more ...                                               *)
EndSubscription ==
  /\ request.pc = "end"
  /\ sub' = [sub EXCEPT !.active = FALSE]
  /\ request' = [request EXCEPT !.pc = "append"]
  /\ LET settled == {e \in request.ids :
                        rows[e].status = "cancelled" /\ ~(pass.failed /\ e \in Ordinals)}
     IN  adrift' = (adrift \ settled) \cup ActiveRows
  /\ UNCHANGED <<server, feed, client, rows, planned, queue, pass, budget>>

(* ... and then come the replan rows.                                      *)
AppendAffected ==
  /\ request.pc = "append"
  /\ queue' = queue \cup request.ids
  /\ request' = NoRequest
  /\ UNCHANGED <<server, feed, sub, client, rows, planned, pass, adrift, budget>>

(* create_webcal_subscription of the same URL: the old row with its poll   *)
(* state cleared.  The ledger rows stay as the deletion left them.         *)
Resubscribe(placement) ==
  /\ Click
  /\ ~sub.active
  /\ placement = "client" => client
  /\ sub' = [active |-> TRUE, etag |-> NULL, placement |-> placement]
  /\ adrift' = adrift \cup {e \in Keys : rows[e].status = "cancelled"}
  /\ UNCHANGED <<server, feed, client, ledger, pass, request>>

(* update_webcal_subscription, a placement: one transaction.               *)
ChangePlacement(placement) ==
  /\ Click
  /\ sub.active /\ placement # sub.placement
  /\ placement = "client" => client
  /\ sub' = [sub EXCEPT !.placement = placement]
  /\ queue' = queue \cup ActiveRows
  /\ UNCHANGED <<server, feed, client, rows, planned, pass, request, adrift>>

(* The same, a prefix, which every copy's footer shows.                    *)
ChangePrefix ==
  /\ Click
  /\ sub.active
  /\ sub' = [sub EXCEPT !.etag = NULL]
  /\ queue' = queue \cup ActiveRows
  /\ UNCHANGED <<server, feed, client, rows, planned, pass, request, adrift>>

(* The rows with a copy on the placement target.                           *)
OnClient == {e \in Keys : planned[e].where = "client"}

(* disconnect_calendar of the placement target.  cleanup_one_calendar      *)
(* makes its projections absent ...                                        *)
DisconnectTarget ==
  /\ Click
  /\ client
  /\ planned' = [e \in Keys |->
       IF e \in OnClient THEN [planned[e] EXCEPT !.where = "main"] ELSE planned[e]]
  /\ request' = [pc |-> "queue", ids |-> OnClient]
  /\ UNCHANGED <<server, feed, sub, client, rows, queue, pass, adrift>>

(* ... then, apart, queues everything ...                                  *)
QueueEverything ==
  /\ request.pc = "queue"
  /\ queue' = queue \cup {e \in Keys : rows[e].status # "none"}
  /\ request' = [pc |-> "deactivate", ids |-> {}]
  /\ UNCHANGED <<server, feed, sub, client, rows, planned, pass, adrift, budget>>

(* ... then the calendar is made inactive; a plan may come between ...     *)
Deactivate ==
  /\ request.pc = "deactivate"
  /\ client' = FALSE
  /\ request' = [request EXCEPT !.pc = "replan"]
  /\ UNCHANGED <<server, feed, sub, ledger, pass, adrift, budget>>

(* Mutant of ReplanPlaced: cleanup's queue entries are thought enough.     *)
ReplanPlacedNot ==
  /\ request.pc = "replan"
  /\ request' = NoRequest
  /\ UNCHANGED <<server, feed, sub, client, ledger, pass, adrift, budget>>

(* ... and the rows of a subscription placed there are queued once more.   *)
ReplanPlaced ==
  /\ request.pc = "replan"
  /\ queue' = IF sub.active /\ sub.placement = "client"
              THEN queue \cup ActiveRows ELSE queue
  /\ request' = NoRequest
  /\ UNCHANGED <<server, feed, sub, client, rows, planned, pass, adrift, budget>>

Answer == EndSubscription \/ AppendAffected \/ QueueEverything \/ Deactivate \/ ReplanPlaced

Owner ==
  \/ Unsubscribe \/ ChangePrefix \/ DisconnectTarget
  \/ \E p \in Placements : Resubscribe(p) \/ ChangePlacement(p)

-----------------------------------------------------------------------------
(* The provider serves another body, not the one whose tag is held.        *)
FeedChanges ==
  /\ Spend
  /\ \E body \in family \ {feed, sub.etag, pass.asked} : feed' = body
  /\ UNCHANGED <<server, sub, client, ledger, pass, request, adrift>>

(* Two poll intervals go by.                                               *)
TimePasses ==
  /\ pass.pc = "idle"
  /\ \E e \in Keys : rows[e].status # "none" /\ ~rows[e].old
  /\ rows' = [e \in Keys |->
       IF rows[e].status = "none" THEN rows[e] ELSE [rows[e] EXCEPT !.old = TRUE]]
  /\ UNCHANGED <<server, feed, sub, client, planned, queue, pass, request, adrift, budget>>

(* _expire_single_events retires an event that has ended, at any time.  A  *)
(* handler that found the row active writes it active or cancelled all the *)
(* same, as if it had not been released: IngestEvent without a Release.    *)
Release(e) ==
  /\ Fault("release")
  /\ Active(e)
  /\ SeriesOf[e] = NULL /\ (\A o \in Keys : SeriesOf[o] # e)
  /\ rows' = [rows EXCEPT ![e].status = "released"]
  /\ UNCHANGED <<server, feed, sub, client, planned, queue, pass, request, adrift>>

(* The process ends.  A cancellation that was not queued yet is never      *)
(* found again: the row is skipped as cancelled; nor is what a cleanup has *)
(* cut and not queued.                                                     *)
Crash ==
  /\ Fault("crash")
  /\ pass.pc # "idle" \/ request.pc # "idle"
  /\ pass' = Idle /\ request' = NoRequest
  /\ queue' = queue \cup pass.reading
  /\ adrift' = adrift \cup {e \in pass.affected : ~Active(e)} \cup request.ids
                 \cup (IF request.pc = "replan" THEN Keys ELSE {})
  /\ UNCHANGED <<server, feed, sub, client, rows, planned>>

Next ==
  \/ Poll \/ FetchFails \/ PlanPass
  \/ Owner \/ Answer
  \/ FeedChanges \/ TimePasses \/ Crash
  \/ \E e \in Stable : Release(e)

Spec == Init /\ [][Next]_vars

(* The scheduler starts passes for ever, the event loop runs the coroutines*)
(* under way, the provider answers now and then, and time goes by.         *)
FairSpec ==
  /\ Spec
  /\ WF_vars(Poll \/ PlanPass) /\ WF_vars(Answer)
  /\ SF_vars(TimePasses)

-----------------------------------------------------------------------------
(* Whether the ledger shows what the feed serves.                          *)
Shows(e, item) ==
  CASE item.state = "live"      -> \/ Active(e) /\ rows[e].content = item.content
                                   \/ rows[e].status = "released"
    [] item.state = "cancelled" -> ~Active(e)
    [] item.state = "absent"    -> ~Active(e)

ItemOf(e) ==
  IF e \in Stable THEN feed.stable[e]
  ELSE IF e < Len(feed.sametime)
    THEN [state |-> "live", content |-> feed.sametime[e + 1]]
    ELSE [state |-> "absent", content |-> NULL]

Agrees(e) == Shows(e, ItemOf(e))

(* A plan that is out of date is known to be: its row is in                *)
(* affected_ledger_events, or with the pass or request that will put it    *)
(* there (the comments on the order of the writes in                       *)
(* ingest_webcal_subscription, disconnect_calendar and update_webcal_      *)
(* subscription), or in a body that will be read again.                    *)
NoPlanStranded ==
  \A e \in Keys :
    planned[e] # Replanned(e) =>
      \/ e \in queue \cup pass.left \cup pass.affected \cup request.ids
      \/ SeriesOf[e] # NULL /\ SeriesOf[e] \in queue \cup pass.left \cup pass.affected \cup request.ids
      \/ request.pc = "replan"
      \/ sub.active /\ sub.etag # feed
      \/ e \in adrift \/ (SeriesOf[e] # NULL /\ SeriesOf[e] \in adrift)

(* The ETag never gets ahead of the ledger: while the server would answer  *)
(* 304, what it serves is what the rows show; events that share their time *)
(* and have no lasting UID each in a row of its own.                       *)
ETagIsHonest ==
  sub.active /\ sub.etag = feed /\ pass.body = NULL
    => \A e \in Keys : e \in adrift \/ Agrees(e)

(* A pass cancels only what the body it read cancels, or what is missing   *)
(* from it while every event of it was read and it has some: an outage     *)
(* that serves an eventless calendar, or an event that cannot be read,     *)
(* wipes nothing.                                                          *)
CancelledForCause ==
  [][\A e \in Keys :
       Active(e) /\ rows'[e].status = "cancelled" /\ request' = request =>
         \/ e \in Stable /\ pass.body.stable[e].state = "cancelled"
         \/ /\ e \in Gone(pass.body) /\ rows[e].old
            /\ ~IsEmpty(pass.body) /\ ~pass.failed]_vars

CaughtUp(e) ==
  /\ planned[e] = Replanned(e)
  /\ IF sub.active THEN Agrees(e) ELSE ~Active(e)

(* In the end the copies are where the placement says, with what the feed  *)
(* says, or nowhere once its owner has unsubscribed.                       *)
CatchesUp == \A e \in Keys : <>[](e \in adrift \/ CaughtUp(e))

(* What create_webcal_subscription says: a subscription taken up again is  *)
(* read like a fresh one.                                                  *)
ReadAfresh ==
  sub.active /\ sub.etag = feed /\ pass.body = NULL /\ request = NoRequest
    => \A e \in Keys : ItemOf(e).state = "live" => Active(e)

=============================================================================
