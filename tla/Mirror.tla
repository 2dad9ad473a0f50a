------------------------------- MODULE Mirror -------------------------------
(***************************************************************************)
(* The mirroring core as a whole: the pass of reconciler.reconcile_user    *)
(* (ingest, plan, diff, drain), which one coroutine at a time runs for a   *)
(* user, against everything that does not wait for it: the people who edit *)
(* calendars, the operators who call the admin endpoints, Google's         *)
(* failures, and the end of the process.                                   *)
(***************************************************************************)
EXTENDS Planning

CONSTANTS
  Budgets,      \* bounds on what the environment does
  AdminKinds    \* the endpoints the instance may call

ASSUME BudgetAssumption == Budgets \subseteq Budget

InitRow(p) == [desired |-> Wanted(p), dver |-> ledger[p].version,
               applied |-> NULL, aver |-> NULL, current |-> "unknown",
               gid |-> NULL, etag |-> NULL, gen |-> 0, floor |-> 0,
               failed |-> FALSE]

FreshWorker == [pc |-> "idle", key |-> NULL, gen |-> 0, floor |-> 0,
                tries |-> 0, etag |-> "match", pass |-> 1, worked |-> FALSE,
                dirty |-> {}, todo |-> [p \in Projections |-> NULL]]

(* An event has just been ingested and planned for the first time.         *)
Init ==
  /\ ledger \in [Projections -> {r \in LedgerRow :
                   /\ \A v \in Versions : r.version <= v
                   /\ r.active
                   /\ r.queued = {} /\ r.owed = "nothing"}]
  /\ proj = [p \in Projections |-> InitRow(p)]
  /\ ops = [k \in Keys |-> [status |-> "none", hash |-> NULL, body |-> NULL,
                            attempts |-> 0, ripe |-> FALSE, id |-> 0]]
  /\ lastId = 0
  /\ paused = FALSE
  /\ google = [p \in Projections |-> [g \in Generations |-> NONE]]
  /\ unseen = [p \in Projections |-> {}]
  /\ worker = FreshWorker
  /\ budget \in Budgets

-----------------------------------------------------------------------------
(* A pass starts.  The soft pause is read here and not again: a paused     *)
(* user's pass goes straight to the diff.                                  *)
StartPass ==
  /\ worker.pc = "idle"
  /\ worker' = IF paused THEN [worker EXCEPT !.pc = "diff"]
                         ELSE [worker EXCEPT !.pc = "ingest",
                                             !.dirty = Projections]
  /\ UNCHANGED <<ledger, proj, ops, lastId, paused, google, unseen, budget>>

(* Ingest of the source calendar finds the event changed: new content, or  *)
(* cancelled, or back.                                                     *)
SourceChange(p) ==
  /\ worker.pc = "ingest"
  /\ ledger[p].version + 1 \in Versions
  /\ \E row \in {[ledger[p] EXCEPT !.active = ~@],
                 [ledger[p] EXCEPT !.active = FALSE]}
           \cup {[ledger[p] EXCEPT !.content = c] : c \in Contents} :
       /\ row # ledger[p]
       /\ ledger' = [ledger EXCEPT ![p] = [row EXCEPT !.version = @ + 1,
                                                    !.queued = @ \cup {"listed"}]]
  /\ UNCHANGED <<proj, ops, lastId, paused, google, unseen, worker, budget>>

(* _record_affected at the end of the listing, before the token: what this *)
(* listing changed, or one before it that a stop or a failure cut short.   *)
RecordAffected ==
  /\ worker.pc = "ingest"
  /\ \E p \in Projections : "listed" \in ledger[p].queued
  /\ ledger' = [p \in Projections |-> IF "listed" \in ledger[p].queued
                                        THEN Dirty(ledger[p]) ELSE ledger[p]]
  /\ UNCHANGED <<proj, ops, lastId, paused, google, unseen, worker, budget>>

(* Mutant of Listed: a tombstone of our copy is always taken for our own.  *)
TombstonesIgnored(p) ==
  LET row == proj[p] IN
  IF /\ row.gid # NULL /\ row.gid \in unseen[p] /\ Live(p, row.gid)
     /\ row.etag = "stale"
    THEN [row EXCEPT !.aver = NULL, !.etag = "match"] ELSE row

(* _maybe_revert_client_drift on every listed id that is the projection's: *)
(* a tombstone of a wanted copy forgets the copy, one of an unwanted copy  *)
(* is taken for our own delete; a live copy with another ETag diverges.    *)
Listed(p) ==
  LET row == proj[p] IN
  IF row.gid = NULL \/ row.gid \notin unseen[p] THEN row
  ELSE IF ~Live(p, row.gid)
         THEN IF row.desired = ABSENT THEN row ELSE Forgotten(row)
  ELSE IF row.etag = "stale" THEN [row EXCEPT !.aver = NULL, !.etag = "match"]
  ELSE row

(* ingest_client_calendar on the calendar the copy is on.                  *)
IngestCopy(p) ==
  /\ worker.pc = "ingest"
  /\ p \in worker.dirty
  /\ proj' = [proj EXCEPT ![p] = Listed(p)]
  /\ unseen' = [unseen EXCEPT ![p] = {}]
  /\ worker' = [worker EXCEPT !.dirty = @ \ {p}]
  /\ UNCHANGED <<ledger, ops, lastId, paused, google, budget>>

(* The listing raised: the pass goes on without it, the token stays.       *)
IngestFails(p) ==
  /\ worker.pc = "ingest"
  /\ p \in worker.dirty
  /\ Spend("ingest")
  /\ worker' = [worker EXCEPT !.dirty = @ \ {p}]
  /\ UNCHANGED <<ledger, proj, ops, lastId, paused, google, unseen>>

(* The pass goes on to the plan: without what the source's listing changed *)
(* if that raised before it was recorded.                                  *)
IngestDone ==
  /\ worker.pc = "ingest"
  /\ worker.dirty = {}
  /\ \/ /\ \A p \in Projections : "listed" \notin ledger[p].queued
        /\ UNCHANGED budget
     \/ Spend("listing")
  /\ ReadAffected
  /\ UNCHANGED <<proj, ops, lastId, paused, google, unseen>>

-----------------------------------------------------------------------------
(* People, on the target calendar.  They edit or delete the copy; nobody   *)
(* restores one from the bin.                                              *)
Edit ==
  /\ budget.edits > 0
  /\ budget' = [budget EXCEPT !.edits = @ - 1]

UserEdit(p, g) ==
  /\ Edit
  /\ Live(p, g)
  /\ GoogleWrites(p, g, TAMPERED)
  /\ proj' = [proj EXCEPT ![p].etag = EtagAfterForeignWrite(p, g)]
  /\ worker' = IF /\ worker.pc \in {"adopt", "landed", "record"}
                  /\ OpProj = p /\ worker.gen = g
                 THEN [worker EXCEPT !.etag = "stale"] ELSE worker
  /\ UNCHANGED <<ledger, ops, lastId, paused>>

UserDelete(p, g) ==
  /\ Edit
  /\ Live(p, g)
  /\ GoogleWrites(p, g, CANCELLED)
  /\ UNCHANGED <<ledger, proj, ops, lastId, paused, worker>>

-----------------------------------------------------------------------------
(* app/ledger/admin_ops.py and the endpoints: none takes the user's lock.  *)
Admin(kind) ==
  /\ kind \in AdminKinds
  /\ budget.admin > 0
  /\ budget' = [budget EXCEPT !.admin = @ - 1]

Cleaned(p) == [proj[p] EXCEPT !.desired = ABSENT, !.dver = ledger[p].version]

(* A lost sync token: the next listing is a full one, tombstones included. *)
Relisted(p) == {g \in Generations : google[p][g] # NONE}

(* A cleanup is under way at copy p; one at a time is.                     *)
Cleaning(p) == ledger[p].owed \in {"token", "pause", "queue"}

(* cleanup_one_calendar, on the calendar of copy p: the projection ...     *)
CleanupCalendar(p) ==
  /\ Admin("cleanup")
  /\ ~Cleaning(p)
  /\ proj' = [proj EXCEPT ![p] = Cleaned(p)]
  /\ ledger' = [ledger EXCEPT ![p].owed = "token"]
  /\ UNCHANGED <<ops, lastId, paused, google, unseen, worker>>

(* ... then the token ...                                                  *)
ClearToken(p) ==
  /\ ledger[p].owed = "token"
  /\ unseen' = [unseen EXCEPT ![p] = Relisted(p)]
  /\ ledger' = [ledger EXCEPT ![p].owed = "queue"]
  /\ UNCHANGED <<proj, ops, lastId, paused, google, worker, budget>>

(* cleanup_and_pause: every projection, then the pause ...                 *)
CleanupAndPause ==
  /\ Admin("cleanup_and_pause")
  /\ \A p \in Projections : ~Cleaning(p)
  /\ proj' = [p \in Projections |-> Cleaned(p)]
  /\ ledger' = [p \in Projections |-> [ledger[p] EXCEPT !.owed = "pause"]]
  /\ UNCHANGED <<ops, lastId, paused, google, unseen, worker>>

PauseAfterCleanup ==
  /\ \E p \in Projections : ledger[p].owed = "pause"
  /\ paused' = TRUE
  /\ ledger' = [p \in Projections |->
                  [ledger[p] EXCEPT !.owed = IF @ = "pause" THEN "queue" ELSE @]]
  /\ UNCHANGED <<proj, ops, lastId, google, unseen, worker, budget>>

(* ... and the events to the replan queue last, one by one, in either.     *)
QueueCleaned(p) ==
  /\ ledger[p].owed = "queue"
  /\ ledger' = [ledger EXCEPT ![p] = Dirty([@ EXCEPT !.owed = "nothing"])]
  /\ UNCHANGED <<proj, ops, lastId, paused, google, unseen, worker, budget>>

(* The endpoint's own next statement.                                      *)
CleanupGoesOn ==
  \/ \E p \in Projections : ClearToken(p) \/ QueueCleaned(p)
  \/ PauseAfterCleanup

(* The person's own switch (api/sync.py); the circuit breaker's, too.      *)
PauseSync ==
  /\ Admin("pause")
  /\ ~paused
  /\ paused' = TRUE
  /\ UNCHANGED <<ledger, proj, ops, lastId, google, unseen, worker>>

(* As often as there is a pause to end.                                    *)
ResumeSync ==
  /\ "resume" \in AdminKinds
  /\ paused
  /\ paused' = FALSE
  /\ UNCHANGED <<ledger, proj, ops, lastId, google, unseen, worker, budget>>

FullResync ==
  /\ Admin("full_resync")
  /\ unseen' = [p \in Projections |-> Relisted(p)]
  /\ UNCHANGED <<ledger, proj, ops, lastId, paused, google, worker>>

RetryPermanentFailures ==
  /\ Admin("retry_failed")
  /\ \E p \in Projections : proj[p].failed
  /\ proj' = [p \in Projections |->
                IF proj[p].failed
                  THEN [proj[p] EXCEPT !.failed = FALSE, !.floor = proj[p].gen]
                  ELSE proj[p]]
  /\ ledger' = [p \in Projections |->
                  IF proj[p].failed THEN Dirty(ledger[p]) ELSE ledger[p]]
  /\ UNCHANGED <<ops, lastId, paused, google, unseen, worker>>

(* Rendering changes with no new version: a webcal display prefix.         *)
Relabel(p, c) ==
  /\ Admin("relabel")
  /\ ledger[p].active /\ ledger[p].content # c
  /\ ledger' = [ledger EXCEPT ![p] = Dirty([@ EXCEPT !.content = c])]
  /\ UNCHANGED <<proj, ops, lastId, paused, google, unseen, worker>>

AdminStep ==
  \/ \E p \in Projections : CleanupCalendar(p)
  \/ CleanupAndPause \/ CleanupGoesOn
  \/ PauseSync \/ ResumeSync \/ FullResync
  \/ RetryPermanentFailures
  \/ \E p \in Projections, c \in Contents : Relabel(p, c)

-----------------------------------------------------------------------------
(* The process stops and starts again: reclaim_in_flight_on_startup.  A    *)
(* cleanup under way is not taken up again.                                *)
CrashAndRestart ==
  /\ worker.pc # "idle" \/ \E p \in Projections : Cleaning(p)
  /\ Spend("crash")
  /\ ledger' = [p \in Projections |->
                  [ledger[p] EXCEPT !.owed = IF Cleaning(p) THEN "lost" ELSE @]]
  /\ ops' = [k \in Keys |-> IF ops[k].status = "in_flight"
                              THEN [ops[k] EXCEPT !.status = "pending",
                                                  !.ripe = TRUE]
                              ELSE ops[k]]
  /\ worker' = FreshWorker
  /\ UNCHANGED <<proj, lastId, paused, google, unseen>>

(* The pass dies (a database error, a cancelled task) and the process does *)
(* not: a claimed row stays in flight.                                     *)
PassDies ==
  /\ worker.pc # "idle"
  /\ Spend("dies")
  /\ worker' = FreshWorker
  /\ UNCHANGED <<ledger, proj, ops, lastId, paused, google, unseen>>

-----------------------------------------------------------------------------

IngestStep == (\E p \in Projections : IngestCopy(p) \/ IngestFails(p))
              \/ RecordAffected \/ IngestDone

PassStep == StartPass \/ IngestStep \/ PlanningStep \/ DrainStep

Environment ==
  \/ \E p \in Projections : SourceChange(p)
  \/ \E p \in Projections, g \in Generations :
       UserEdit(p, g) \/ UserDelete(p, g)
  \/ AdminStep \/ CrashAndRestart \/ PassDies

Time == \E k \in Keys : Ripen(k)

Next == PassStep \/ Environment \/ Time

Spec == Init /\ [][Next]_vars

(* The scheduler starts passes for ever and the event loop runs the one    *)
(* under way, and a request; a clock that is read again and again has moved*)
(* on.  Nothing is assumed of people, operators and failures.              *)
FairSpec == Spec /\ WF_vars(PassStep) /\ WF_vars(CleanupGoesOn) /\ SF_vars(Time)

-----------------------------------------------------------------------------

Idle(p) == worker.key = NULL \/ worker.key.proj # p

(* Nothing is left to do for copy p, as far as BusyBridge can tell, and no *)
(* cleanup that made it absent is under way or was stopped half-way.       *)
Settled(p) ==
  /\ ~paused /\ ~proj[p].failed /\ ~Diverged(p)
  /\ ledger[p].queued = {} /\ ledger[p].owed = "nothing" /\ unseen[p] = {}
  /\ \A k \in Keys : k.proj = p => ~Outstanding(k)
  /\ Idle(p)

(* Google shows of copy p exactly what the event asks for.                 *)
Mirrored(p) ==
  IF Wanted(p) = ABSENT
    THEN \A g \in Generations : ~Live(p, g)
    ELSE proj[p].gid # NULL /\ google[p][proj[p].gid] = Wanted(p)

(* The tables never lie: a projection that is neither diverged (applied    *)
(* version and hash against desired ones), nor queued, nor in the outbox,  *)
(* nor awaiting a listing, is on Google as the event is now; and if the    *)
(* event wants no copy there is none under any id, recorded or not.  It is *)
(* what _record_success, _record_absent, _snap_applied,                    *)
(* _request_projection_replan and _maybe_revert_client_drift are for: a    *)
(* wrong stamp is a copy nothing will ever look at again.                  *)
SettledIsMirrored == \A p \in Projections : Settled(p) => Mirrored(p)

(* A copy exists at most once: whatever is lost, retried or stopped between*)
(* a call and its record, only the id of the projection's current          *)
(* generation can be live (_do_create, derive_google_event_id).            *)
AtMostOneCopy ==
  \A p \in Projections, g \in Generations : Live(p, g) => g = proj[p].gen

(* An id is left behind only once Google has burned it: _do_create may not *)
(* move google_id_generation past a live copy, nor past an id it never     *)
(* tried, and nothing else moves it.                                       *)
BurnsOnlyTombstones ==
  [][\A p \in Projections, g \in Generations :
       proj[p].gen <= g /\ g < proj'[p].gen => google[p][g] = CANCELLED]_vars

(* A projection burns at most _MAX_TOTAL_ID_GENERATIONS ids in one episode,*)
(* across retries, restarts and other drains, and an operator's retry,     *)
(* which starts a new episode under a running drain, never lengthens one.  *)
EpisodeBounded ==
  \A p \in Projections : proj[p].gen - proj[p].floor <= MaxTotalIdGenerations

(* No pass of this environment dies and leaves an operation in flight.     *)
PassesEnd == "dies" \notin budget.kinds

(* What is on record as showing a version is not taken back to an older    *)
(* one, nor removed by an older deletion: whatever is retried, superseded, *)
(* resurrected or reclaimed at a start, the queue of a projection works    *)
(* off no version behind the stamp.  Where a pass dies it may: enqueue     *)
(* leaves an operation in flight as it is, thinking that "the drain will   *)
(* discover their work is stale via etag mismatch".                        *)
OldNeverOverNew ==
  [][\A p \in Projections, g \in Generations :
       /\ PassesEnd
       /\ Live(p, g) /\ google'[p][g] # google[p][g]
       /\ budget'.edits = budget.edits
       /\ proj[p].current = "present" /\ proj[p].aver # NULL
       => worker.key # NULL /\ proj[p].aver <= worker.key.ver]_vars

(* No change is forgotten: while a projection's desired state is not what  *)
(* the event asks for, the event is in affected_ledger_events, whether the *)
(* row came before or during the pass (_read_affected_ledger_rows,         *)
(* _clear_affected_ledger_rows, admin_ops._append_affected), or a listing  *)
(* that will be read again has yet to put it there (_record_affected before*)
(* the token), or a cleanup has.  The exception: a cleanup that the process*)
(* stopped before its last statement never does (owed is "lost").          *)
StalePlanIsQueued ==
  \A p \in Projections :
    proj[p].desired # Wanted(p) => ledger[p].queued # {} \/ ledger[p].owed # "nothing"

(* When people, operators and failures leave it alone the copy becomes, and*)
(* stays, what the event asks for, unless the user is paused or the        *)
(* projection permanently failed.                                          *)
Converges ==
  \A p \in Projections : <>[](paused \/ proj[p].failed \/ Mirrored(p))

-----------------------------------------------------------------------------
(* What the source's own words promise and the code does not keep.         *)

(* diff._decide, of an unwanted copy without an id: "No google_event_id    *)
(* ever assigned -> nothing to delete".  So when an unwanted copy is       *)
(* settled, no insert that went unrecorded has left it on the calendar.    *)
NoOrphan ==
  \A p \in Projections :
    Settled(p) /\ Wanted(p) = ABSENT => \A g \in Generations : ~Live(p, g)

(* admin_ops.cleanup_and_pause: "After the outbox drains, the user's       *)
(* calendars contain none of our writes", which the pause is to preserve.  *)
CleanupLeavesNothing ==
  paused /\ worker.pc = "idle"
    => \A p \in Projections :
         \/ Diverged(p)
         \/ \E k \in Keys : k.proj = p /\ Outstanding(k)
         \/ \A g \in Generations : ~Live(p, g)

=============================================================================
