# BusyBridge: a verification project

BusyBridge mirrors events between a person's calendars. It keeps a *ledger* of
the events it knows, decides what copy each calendar should show, and writes
the copies to Google through a persistent outbox. This directory holds TLA+
models of that machinery, TLC runs on small instances, and theorems checked by
TLAPS for all instances. Paths below are relative to `src/app/` unless they
begin with `src/`.

## 1. The system

| component | state it keeps | operations | talks to |
|---|---|---|---|
| Triggers (`ledger/triggers.py`) | `reconcile_requests` (one row per user: schedule, in-flight claim) | enqueue by webhook, timer, button; claim, release, sweep | tick (`runtime.drain_all_due_users`) |
| Runtime (`ledger/runtime.py`) | a lock per user, failure streaks | one pass per user at a time; start-up reclaim; audit | triggers, reconciler, maintenance |
| Reconciler (`ledger/reconciler.py`) | `affected_ledger_events` (the replan queue) | pass = ingest, discovery, plan, then diff and drain until quiet; audit | ingest, planner, diff, outbox |
| Ingest of client, personal and main calendars (`ledger/ingest/{client,personal,main}.py`) | `ledger_events`, sync tokens | list changes since the token; apply, cancel, rebuild after expiry; tell drift of our copies from echoes | Google, replan queue |
| Webcal ingest (`ledger/ingest/webcal.py`, `api/webcal.py`) | `ledger_events`, the subscription with its ETag | poll a feed; cancel what is gone; subscribe, move, unsubscribe | the feed's server, replan queue |
| Write-back (in `main.py`, `planner.py`, `diff.py`, `outbox.py`) | flags on the event, the `origin` projection | carry responses, times and deletions made on main to the source | Google |
| Planner (`ledger/planner.py`) | `ledger_projections.desired_*` | what each target calendar should show | replan queue |
| Diff (`ledger/diff.py`) | `applied_*` (snap) | compare desired with applied, enqueue an op | outbox |
| Outbox (`ledger/outbox.py`) | `outbox_operations`, `applied_*`, `google_id_generation` | enqueue, claim, create, update, patch, delete, retry, fail, record | Google |
| Discovery (`ledger/ingest/discovery.py`) | projections | relink or delete what carries our marks | Google |
| Admin operations (`ledger/admin_ops.py`, `api/*`) | the above | cleanup, pause, resync, connect, disconnect, retry, recolour | no lock: any time |
| Maintenance (`maintenance.py`) | a hold count, a pass count | freeze, wait for quiescence | restore, VACUUM, shutdown |
| Retention (`jobs/cleanup.py`) | all tables | release, cancel or delete expired events; purge disconnected calendars | no lock |
| Backup, circuit breaker, alerts, webhooks (`sync/backup.py`, `jobs/*`, `alerts/*`) | their tables | periodic jobs | |
| Google Calendar (external) | events, tombstones, ETags, change feed | insert, get, update with If-Match, delete, list | people |

What is hard here: the database is in autocommit, so the process may stop
between any two statements and between a Google call and its record; answers
get lost; people edit and delete the copies; operators, owners and retention act without the user's
lock; an op may outlive the plan it was made for; deleted ids can never be used
again; a listing is told only once, so what was read and not kept is lost with
the token. `PROJECT.json` lists every hazard with its line.

What makes each part correct: *outbox* - a copy at most once, what is recorded
is what was delivered, no op stranded; *planner and queue* - no change
forgotten; *diff* - what is settled is what Google shows; *ingest* - no change
lost between listing and token, no row taken back to an older revision, our own
echoes told from people's edits; *webcal* - an outage cancels nothing, the ETag
never gets ahead of the ledger; *write-back* - the source is written only within
the user's rights and for a person's doing; *triggers* - every request is
followed by a pass that starts after it; *maintenance* - never a pass and a swap
at once; *discovery, retention, disconnect* - no copy left behind, none taken
from its owner.

## 2. The modules

| module | models | lines up with |
|---|---|---|
| `Ledger` | the durable state of `Mirror` and its types | `schema.py`; `proj` is a row of `ledger_projections`, `ops` the outbox by idempotency key, `ledger[p]` the event of copy p with its rows in the replan queue, `google` and `unseen` the calendar and its change feed |
| `Outbox` | `outbox.py` | one action per statement or Google call: `Enqueue`, `ReclaimStale`, `ClaimNext`, `_do_create` as `CreateEntry`, `Insert`, `Conflict`, `BumpGeneration`, `Adopt`, `Landed`; `_do_update` as `Update`, `Refetch`, `TargetGone`; `Delete`; `RecordSuccess`, `RecordAbsent`, `OpDone`; the failure classes |
| `Planning` | `planner.py`, `diff.py`, the queue in `reconciler.py` | `PlanRow`, `PlanDone`, `SelectDiverged`, `DiffRow`, `DiffDone` |
| `Mirror` | the pass and everything that does not wait for it | composes the three: `StartPass`, `IngestCopy`, `SourceChange`; people; operator endpoints; crash, dying pass, time. Properties are here |
| `Coalescing` | abstract | what triggers promise a user: a pass that starts after the asking |
| `Scheduling` | `triggers.py`, the tick and lock of `runtime.py`, the delayed drain of `webhooks.py`, `maintenance.py` with its users | `row` is `reconcile_requests`; `enq` is `_upsert_request` between its two statements; `tick` is `drain_all_due_users`; `hook[u]` a delayed drain; `maint[h]` a restore, VACUUM or shutdown drain; `depth` is `_maintenance_depth` |
| `Ingest` | `ingest/client.py`, `personal.py`, the native events of `main.py`, the content audit of `reconciler.py` | `rows` is `ledger_events`, `token` the sync token, `queue` the replan queue; `ClientEvent`, `PersonalEvent`, `NativeEvent` are the handlers, `ClientPass`, `PersonalPass`, `MainPass` the passes with their order of durable writes, `AuditPass` the audit |
| `WriteBack` | the managed copies in `main.py`; the origin projection in `planner.py`, `diff.py`, `outbox.py` | `row` with its flags, `main` and `origin` the two projections, `ops` their outbox rows; `Pass` reads the source, then main, plans, diffs, delivers |
| `Webcal` | `ingest/webcal.py`, the endpoints of `api/webcal.py`, the webcal branch of the planner | `rows` by canonical uid, `sub` the subscription with its ETag, `pass` the locals of the poll, `request` the owner's request between its commits |
| `Custody` | `ingest/discovery.py`, `jobs/cleanup.py`, `disconnect_calendar`, connecting | `copy` is `ledger_projections`, `calendar` is `client_calendars`, `live` what Google shows, `condemned` the tombstones of discovery, `nightly` the retention job |
| `MC*` | - | small instances for TLC |
| `MirrorProofs`, `MirrorSafety`, `MirrorSettles`, `SchedulingProofs`, `IngestProofs`, `WriteBackProofs`, `WebcalProofs`, `CustodyProofs` | - | theorems |

The four modules after `Scheduling` are cuts of the same system, each with the
part it is about in detail and the rest as small as it can be. `Mirror` knows
ids, ETags and versions of one copy but not where its event comes from;
`Ingest` knows how a calendar is read but of the copies only that the planner
will see a row; `Custody` knows all targets of an event but of a copy only
whether it is there. What they have in common (the replan queue, the
diff-drain pair) is written in each in the detail its properties need.

**Mirror.** `worker` is the coroutine that holds the user's lock: its `pc` is the place in
the pass and its other fields are the Python locals that survive an `await`.
Closed outbox rows (done, superseded, failed) are one status: `enqueue` treats
them alike. A payload is its hash. Time is one bit per op (`ripe`): its backoff
has ended, or it has been in flight past the stale timeout. It assumes: the
event is single and its target calendar active and not its source; `enqueue` is
one step (its statements follow each other with no Google call and, inside the
lock, no other writer of the outbox), as is the give-up of burned ids; nobody
restores a copy from the bin; Google answers 404 only for what is gone.
A listing of the source writes the row and queues it (`RecordAffected`) in
separate steps: an event is `"listed"` in between, since a stop before the token
advances lists it again. The two cleanup endpoints are split at their
statements: the projections (`CleanupCalendar`, `CleanupAndPause`), the token
(`ClearToken`) or the pause (`PauseAfterCleanup`), the replan rows
(`QueueCleaned`, one event at a time). `owed` says which is next, and `"lost"`
that the process stopped before the last. One cleanup at a time is under way at a
copy: a bound. An operator's retry (`RetryPermanentFailures`) stays one step: its
statements are durable apart, but its queue row is a convenience, since the diff
finds the failed row diverged without it.

**Scheduling.** A pass is opaque here: it begins when it has the user's lock
and ends well or badly (a pass skipped for want of a token or a main calendar
ends well, as in the code). Time is relative to
the `now` that a tick takes when it starts: a schedule is `"due"` or
`"later"`, a claim `"held"` or `"stale"`, and both ripen between ticks. `Asked`
and `Serving` map this to `Coalescing`: a request stands while it is scheduled,
or claimed and its pass has not begun, has failed, or has lost its claimant.
It assumes: one upsert is under way at a time, and takes less than the shortest
debounce; a missing row is an idle one; `ClaimWrite` includes the gate of
`reconcile_user_by_id`, since nothing is awaited between the claim's answer and it; statements
run in the order they are issued on the one connection; ticks do not overlap (the scheduler runs one instance of a job); a crash and the
start-up reclaim are one step, for `main.py` runs it before the
scheduler starts. The audit, the orphan scan and an operator's reconcile pass
the same gate and lock as a delayed drain and are represented by it.

**Ingest.** One calendar is read, of a kind fixed at the start. An event is a
revision: what the content hash sees of it, the conference room (which the hash
leaves out) and Google's date. A pass lists what changed since the token (or
everything), applies it event by event in an order of its own, records the rows
in the replan queue and only then stores the token; the model keeps the order
and lets it stop at each place. Google may serve the revision before the newest
one for an event (`stale`), serve it before a change has folded into the
revision (`race`) or with the conference link of its other surface (`link`),
name no series in a cancelled occurrence (`detached`), forget the token
(`expiry`), fail a listing or the scan of a series; and a handler may raise on
one event (`poison`), which the pass logs and passes over. Paging is an order; what each kind of calendar leaves
out of a listing is kept. `had` and `missed` are history the properties need.
Retention releases a row at any time. A handler reads the row, awaits, and
updates it by id alone; nothing in between depends on another row, so the model
keeps the handler one step and lets a release put the row in its `hand`: the
handler then decides by the row as it was (`InHand`) and writes to the row as it
is (`Handled`). An update that sets the status undoes the release; one that does
not (`last_seen_at`, the candidate room) leaves it.

**WriteBack.** One event, single or an occurrence of a series, with rights,
propagation mode and kind of origin fixed at the start. People answer, move,
delete and restore on both sides. `touched` says what of the copy a person
changed since it was last written or read, which is what the ETag of the copy
tells the code. `slips` names the holes of section 5 that a behaviour has gone
through; the properties that they break are about the behaviours that have not.
A release between a handler's check and its update is `hand`, as in `Ingest`:
the handler goes on with the status it read (`StatusRead`), and where `main.py`
reads the status twice (lines 224 and 241) the second read may see the release.

**Webcal.** A feed serves one body at a time; an ETag stands for the body it
was served with. Events without lasting UIDs are rows by time and ordinal, as in
the code. The requests are split at their statements: an unsubscription cancels
the rows (`Unsubscribe`), ends the subscription (`EndSubscription`), queues the
rows (`AppendAffected`); a disconnection of the placement target cuts the copies
(`DisconnectTarget`), queues everything (`QueueEverything`), deactivates and
replans. Queueing several rows is one step: a stop inside the loop leaves each
row as a stop before or after the loop does. `request.ids` are the rows a
request has still to queue; a stop makes them adrift. Release applies to events
with lasting UIDs only, at any time; a handler that found the row active writes
it as if it had not been released, which is the same behaviour without the
release. `adrift` holds the rows a hole of section 5 has left.

**Custody.** One event and its targets. A copy is there or not. Retention, the
API and the pass take a step at a time with no order between them. A
disconnection goes through the states of `Departing`, a statement each: it cancels
what comes from the calendar (`Cleanup`), makes the copies on it absent
(`ClearCopies`), queues the event (`QueueEvent`), and only then deactivates; a
stop leaves the calendar active and, until the event is planned again, what is
`Stranded` in `strays`. An event the pass has read and not yet queued is
`"listed"`, as in `Mirror`. A calendar
that is connected again is a new row. A purge comes 30 days after a disconnect,
so the model lets it wait for a scan since the last write and for no op pending.

## 3. The runs

| run | bounds | shows |
|---|---|---|
| `mirror_settles` | two environments: 2 failures of any passing kind (transient, lost answer, failed ingest of copies, crash, dead pass), or 2 edits or deletions by people and 1 outage; 3 versions | `SettledIsMirrored`: what the tables call settled is what Google shows. `Converges`: once things calm down the copy becomes, and stays, right |
| `mirror_admin` | any endpoint once, stopped anywhere, and 2 edits with 1 failure of any kind (a listing of the source that fails half-way too) or 1 edit with 2 failures other than a dying pass; 2 versions; one id per episode | `AtMostOneCopy`, `EpisodeBounded`, `StalePlanIsQueued`, `BurnsOnlyTombstones`; `OldNeverOverNew`: where no pass dies, the queue never overwrites a version on record with an older one |
| `orphaned_insert` | one lost answer, one edit | **violated**: `NoOrphan` |
| `cleanup_races_pass` | one `cleanup_and_pause` | **violated**: `CleanupLeavesNothing` |
| `requests` | 2 users, webhooks and timers without bound, 2 overlapping holds, 1 crash or dead tick | `Coalesced`: the table refines `Coalescing`. `ClaimHeld`: a claim stays on record from claim to release. `SwapExcludesSync`: no pass of tick or webhook meets a file operation |
| `starvation` | 1 user, 1 restore that rewrites requests and reconciles, 1 crash or dead tick, 1 click | `NoRequestStarves`: who asks gets a pass, or maintenance begins |
| `ingest` | a calendar of each kind with a single event, or a series and an occurrence, which may be our own copies; 3 edits, 1 mishap of any kind | `NoChangeStranded`: a change the planner has not seen is queued or will be listed again. `TokenIsHonest`: what the token calls read is in the ledger. `NoEcho`, `NoRoomFromOneRead`; `RowsGoForward`: no older revision over a newer one, and what a handler takes back from retention is planned; `CatchesUp`: the ledger becomes what the calendar says, the room included |
| `writeback` | one event of each origin, right, shape and propagation mode; 3 edits on either side, 1 failed call, crash or release | `WritesWithinRights`, `ErasesOnlyWhenAsked`, `LiveMirrorIsKept`; `FrozenCopyIsLeftAlone`: only the handler that had read a row before its release writes it; `QuietIsMatched`: when no table and no listing has anything left to do, source, ledger and copy match; `RsvpLands`: the response the source ends with is one given since the two last agreed; `SidesAgree`: in the end copy and source agree |
| `webcal` | a feed with an event, with a series and its override, or with two same-time events without lasting UIDs; with and without ETags; 2 of: another body, failed fetch or event, crash, release, owner's request | `NoPlanStranded`, `ETagIsHonest`, `CancelledForCause`; `CatchesUp`: the copies are in the end where the placement says |
| `resubscribed` | unsubscribe and subscribe | **violated**: `ReadAfresh` |
| `custody` | an event from main with 1 client connected and 1 to come, 2 changes, release on; or from client `a`, 1 change, release off; 1 failure, 1 connect or disconnect | `PurgedIsClean`, `ReleasedIsFrozen`; `SettledIsShown`: with nothing left to do for it, a copy is there iff it is asked for; `PlanIsCurrent`: an event nobody has yet to queue or plan asks for what it should; `CopiesFollowPlan`: no copy is forgotten or orphaned; `PlanFollowsEvent`; `DisconnectedIsCleared` |
| `newcomer` | one calendar connected | **violated**: `EveryClientIsCovered` |

Every passing run but those of scheduling's and `mirror_settles` also checks its `TypeOK`.

**Bounds.** `Mirror` is on one projection, two renderings, ids 0 to 5: rows of
different projections meet only in the claim order and the replan queue.
Ceilings are cut (1 retry, 2 ids per call, 1 or 3 per episode, 2 diffs per
pass) so that every one is reached. The bound of 2 failures is a real limit: with 3, `SettledIsMirrored` has a
counterexample in the gap between `_mark_superseded` and
`_request_projection_replan` (a hazard in `PROJECT.json`). The half-failed
listing of section 5 breaks it too, so `mirror_settles` leaves that fault, and
with the endpoints the cleanups, to `mirror_admin`. A give-up by the
loop limit with more than one id burned per call needs a restored database and is not reached.
Two users let a tick work on one while a hold begins and another request waits;
two holds let one end inside the other; one user is enough for
starvation, as users meet only in the order of a tick. Clicks are bounded: the
debounce keeps the later time, so someone who clicks without end postpones the
request without end. In `Ingest` two contents tell a right row from a wrong
one, and three edits are a change, its reversal and one more (create, cancel,
restore); a second mishap in one behaviour finds what section 5 lists. In
`WriteBack` two responses and two times are what one side has and the other has
not. In `Webcal` two same-time events are the least that can change places. In
`Custody` a second client is the calendar that is not the source.

**Fairness.** Nothing is assumed of people, operators or failures, which are
bounded by budgets.

* `Mirror`: `WF(PassStep)`, since the scheduler starts passes for ever
  (every 30 s due requests, every few minutes a periodic one) and the event loop runs the one under
  way; `WF(CleanupGoesOn)`, since a request under way is a coroutine like any other; `SF(Time)`, since a time that has come stays come and is looked at by each drain.
* `Scheduling`: `WF` of the second half of an upsert; `SF` of the
  tick, of each delayed drain and of each holder, whose waits are for an
  `asyncio.Lock`, which is first come first served, and for holds that end by
  their timeouts; `SF` of `Ripen` and `Age`, which is time.
* `Ingest`: `WF` of the pass, audit and planning under way; `SF` of the start of
  each, since the scheduler has a periodic job for either and they compete for one lock.
* `WriteBack`: `WF(Pass)`. `Webcal`: `WF` of the poll and planning, of the
  owner's request, which is a coroutine under way, and `SF(TimePasses)`.
* `Custody`: `WF(PassStep)`; `SF(StartPass(TRUE))`, since one in so many passes
  scans for orphans; `WF` of what retention (`PlanExpired`) and a disconnect
  (`Disconnecting`) have begun. Not of retention itself: nothing here waits for it.

**Findings.** The four violated runs are disagreements between the code and its
own words; `PROJECT.json` "findings" quotes each.

* If the answer to an insert is lost, the id is not recorded. When the create
  that would adopt the copy is superseded (a person edited it) and the event is
  cancelled, the diff takes the projection without id for converged.
* `cleanup_and_pause` during the ingest of a pass is planned over by that pass.
* A subscription that is removed and taken up again finds its own cancelled
  rows, whose hash has not changed, and leaves them cancelled.
* Connecting a calendar requests a pass but queues no event: those that do not
  change afterwards never get a block there.

## 4. The proofs

For every value of the constants that satisfies the assumptions of the module
(`ConstantsAssumption`, with `BudgetAssumption` for `Mirror`;
`SchedulingAssumption`; `CustodyAssumption`) and without the bounds of section 3:

| theorem | statement |
|---|---|
| `MirrorProofs!TypeCorrect` | `Spec => []TypeOK` |
| `MirrorSafety!NoDuplicate` | `Spec => []AtMostOneCopy` |
| `MirrorSafety!EpisodeCeiling` | `Spec => []EpisodeBounded` |
| `MirrorSafety!GenerationsBurned` | `Spec => BurnsOnlyTombstones` |
| `MirrorSafety!NoForgottenChange` | `Spec => []StalePlanIsQueued` |
| `MirrorSafety!NewestStays` | `Spec => OldNeverOverNew` |
| `MirrorSettles!SettledCopies` | `Spec => []SettledIsMirrored` if no answer is lost, no listing of the source fails half-way, no process or pass dies and no endpoint of cleanup or relabel is called |
| `MirrorSettles!LostAnswersSettle` | `Spec => []SettledIsMirrored` with any number of lost answers and crashes, if nobody edits copies, nothing is refused for good, no listing of the source fails half-way, no pass dies alone, and no endpoint of pause, cleanup or relabel is called |
| `SchedulingProofs!TypeCorrect` | `Spec => []TypeOK` |
| `SchedulingProofs!SwapSafe` | `Spec => []SwapExcludesSync` |
| `SchedulingProofs!ClaimsOnRecord` | `Spec => []ClaimHeld` |
| `SchedulingProofs!Implements` | `Spec => Coalesced`, a refinement |
| `IngestProofs!TypeCorrect` | `Spec => []TypeOK` |
| `IngestProofs!OwnCopiesMintNothing` | `Spec => []NoEcho` |
| `IngestProofs!RowsNeverGoBack` | `Spec => RowsGoForward` |
| `IngestProofs!TokenNeverAhead` | `Spec => []TokenIsHonest` |
| `IngestProofs!NothingStranded` | `Spec => []NoChangeStranded` if `"audit" \notin FaultKinds` |
| `IngestProofs!RoomsAreCredible` | `Spec => NoRoomFromOneRead` if `MaxFaults <= 1` |
| `WriteBackProofs!TypeCorrect` | `Spec => []TypeOK` |
| `WriteBackProofs!StaysWithinRights` | `Spec => WritesWithinRights` |
| `WriteBackProofs!ErasesForCause` | `Spec => ErasesOnlyWhenAsked` |
| `WriteBackProofs!KeepsLiveMirror` | `Spec => LiveMirrorIsKept` |
| `WriteBackProofs!LeavesFrozenAlone` | `Spec => FrozenCopyIsLeftAlone` |
| `WriteBackProofs!QuietMatches` | `Spec => []QuietIsMatched` |
| `WebcalProofs!TypeCorrect` | `Spec => []TypeOK` |
| `WebcalProofs!PlansAreRecalled` | `Spec => []NoPlanStranded` |
| `WebcalProofs!CancelsForCause` | `Spec => CancelledForCause` |
| `WebcalProofs!TagNeverAhead` | `Spec => []ETagIsHonest` |
| `CustodyProofs!TypeCorrect` | `Spec => []TypeOK` |
| `CustodyProofs!PurgedClean` | `Spec => []PurgedIsClean` |
| `CustodyProofs!ReleasedFrozen` | `Spec => ReleasedIsFrozen` |
| `CustodyProofs!SettledShown` | `Spec => []SettledIsShown` |
| `CustodyProofs!PlanCurrent` | `Spec => []PlanIsCurrent` |

**Mirror.** `TypeOK` is not inductive: a handler writes what its claimed op carries, so one
must know that the op it holds is a real one, in flight, with a payload if it
is a create or update, and that a recorded id is a generation. `TypeInv` adds
that. `SafeInv` adds, for the copies,
that a create holds the projection's current generation, that a conflict is
about a known id and a burned one about a tombstone (`CopyInv`); for the
ceiling, that the floor a create holds is never later than the row's and that
its generation is within the episode (`EpisodeInv`): this is why an operator's
retry, which moves the floor under a running create, cannot lengthen an
episode. `PlanInv` is needed for the queue: in the plan phase every stale
projection is either still to be planned or has a row appended since, and a
cleanup under way, or stopped, still owes its row.

`NewestStays` is about order. `OrderInv` says that what is in flight is what the
drain holds, that a projection has at most one outstanding row, and that no
version overtakes the one before it on the way from the event by plan, verdict
and queue to the stamp. An enqueue supersedes only what is pending; that is
enough because the diff runs when nothing is in flight, which a retry, a crash
with its reclaim and a supersession all preserve. A pass that dies alone does
not: then the invariant is lost and the property with it (section 5), so
`OldNeverOverNew` speaks of environments without that fault (`PassesEnd`), and
no ETag mismatch steps in, whatever the comment at `outbox.py:203` says.

`SettledCopies` needs `Settles`, which follows one write from the diff to the
stamp. A projection has at most one outstanding row, and it writes what it will
be said to have written (`QueueInv`). A verdict of the diff is about the row as
it still is (`VerdictInv`). A desired state changes only with a version, so the
compare-and-set on the version also compares the content (`VersionInv`). A live
copy is the one recorded or the one the drain is about to record (`PlaceInv`).
What the drain is about to record (`WriteInv`), and what is stamped
(`TruthInv`), is what Google shows, or a person changed it and ingest will be
told. `Uncleaned` says that in such an environment no cleanup is ever owed.

`LostAnswersSettle` is the other environment: answers are lost and the process
stops between any two statements, as often as it likes. A copy no record speaks
of, and a row behind its copy, are then ordinary states, and `Recovers` says what
makes up for them. A live copy is on record or a create of its projection is
still in the queue (`Located`): a create is closed only once its copy is on
record, superseded only by a create or when the copy is recorded, and given up
only when an episode ran out of ids with nothing left behind (`TriedInv`). A
stamp of the version the planner wants tells the truth (`Truthful`), since a
call that overwrites the copy carries that version and so its content
(`FaithfulInv`, with `OrderInv`). No body is rendered from an event that a plan
is behind (`FreshInv`): a pass that stopped is followed by one that plans before
it diffs. What the drain remembers of the copy at hand is in `HandInv`.

**Scheduling.** The invariant says that the hold count is exactly the number of holders inside
(`DepthInv`, by induction on steps with the cardinality of `Inside`), so the
gate is closed from the moment a holder starts to wait until it has finished, and nobody
can enter between its last look at the count of passes and its swap.
`ClaimHeld` holds because only a release, a sweep of *stale* claims or a restore
clears a claim, ages pass only between ticks, and a restore waits for the
tick's pass. `Implements` rests on it: a tick that dies before its release
leaves a claim which the mapping counts as a request, so the failure gives the
request back instead of losing it.

**Ingest.** `Base` is type correctness with the order of dates (`Dated`: neither
a row nor a lagging replica is ahead of the source), that what is not there has
left no trace (`Born`), that copies of ours make no rows (`Echoless`), what the
locals of a pass are at each of its steps (`InStep`), and that no event waits to
be taken back by a handler that would not do it (`Revivable`). `Honest` says of
each event that its row is right, or that the pass under way or a later one will
make it so, or that it was misread. Each handler is shown once, over all kinds
of calendar, to make right what it reads; `Handler` is what it makes of the row
it read, and `Leaves` what that means for the row in the table, which retention
may have released since. `Remembered` follows an unplanned row
from the locals of the pass to the queue, and through a crash back to the
listing, with the series standing in for its occurrences (`WithSeries`).
`Frugal` bounds what one odd read can leave: a candidate room the event never
had means that the one mishap is spent, so the read that confirms it is not odd.

**WriteBack.** `Rights`: what is planned and enqueued for the source is for a
client's event, and carries a time only if the user may change it; what is
enqueued for main is a whole body. `Causes`: a deletion of the source is armed or
enqueued only for a single event the user may edit, in the right mode, after
somebody asked for it or a named hole; and a copy that a person touched so that
it is gone was deleted by one or lost its place in the series. `QuietMatches`
is what liveness cannot be proved of: not that the passes end, but that when
they have nothing left to do everything is right. Source, row, plan and copy are
a chain, and each link is right or carries a mark that somebody will look at:
the row is as the source, or the source is listed or the row flagged
(`RowFollows`); the plan is as the row, or the row is queued (`PlanFollows`); the
copy is as planned, or listed, unsynced or in the outbox, or the event is given
up and queued (`CopyFollows`, `OutboxFollows`). A flag is cleared only when the
source has what the row shows (`PatchFollows`). `HandFollows` keeps these links for
the row that a handler read before its release and may yet take back. Each action that breaks a link
must be seen to leave the mark; where the code does not, the hole has a name in
`slips`.

**Webcal.** The invariant says what the coroutines hold and when (`Locals`), that
a body without events is read only when nothing is active and that what was read
was given to the pass (`Complete`), that an active row the body has is known
once read (`Examined`), that what was never a row is planned nowhere
(`Unplaced`), and that an outdated plan nothing points at - no queue row, no pass and no
request at its next statement - is that of a feed that
will be read again or of a placement being disconnected (`OwedRecalled`). For
the ETag, `Honest`: of the body whose tag is held (`TagHeld`) or asked about
(`TagAsked`) every row shows its item, and of the one being read those it has
reached (`Reached`).

**Custody.** What was never connected has no rows (`UnbornIsEmpty`); an id on
record is that of a copy the row says is there (`OwnIsPresent`); after the scan
that followed the last write to a disconnected calendar, what is there is on
record or condemned (`ScannedIsKnown`); no insert is made once the calendar is
gone (`PurgedIsClosed`). `SettledShown` and `PlanCurrent` are the two halves of
what the liveness properties promise in the end, as far as a state can tell:
either something is left to do, or the calendar is right. For the first, each
row is `Honest` on its own: what is there is on record, or its insert is still
an operation (`Recorded`), so discovery can only link a copy whose create will
run again and say so; an id that is past belongs to a copy known to have gone
(`IdIsKnown`), so no create is superseded by the delete of an older copy; and
what was applied is known to be there (`AppliedIsTrue`), so that a calendar with
a wanted copy is not purged. `OneRow` reduces each action to the row it writes.
For the second, a calendar on its way out whose event has been queued still has it
queued, or is already stray (`LeavingIsStray`): a crash from then on, which takes
the calendar back among the connected, strands nothing more. A crash before, with
the event cancelled or the copy absent and nothing queued, does, and makes a stray
of what it strands (`Stranded`, section 5). That a wanted copy is on a connected calendar (`WantedIsOpen`)
must hold whether or not the event is queued, since a queued event may be
released and its queue row cleared without a plan.

**Hypotheses.** An audit that dies half-way loses what it read (section 5),
so `NothingStranded` excludes that fault; `ingest` runs without it. A
conference debounced on two reads believes two odd reads, so `RoomsAreCredible`
allows one mishap. `SettledCopies` excludes lost answers, crashes and dead
passes, because in combination they break the property (sections 3 and 5), and
the endpoints that change a projection or its rendering without a new version
(`cleanup`, `cleanup_and_pause`, `relabel`), on which `VersionInv` fails, and a
listing of the source that fails half-way (`listing`), after which the diff
renders an event no plan has seen (section 5); other
failures, edits and endpoints may come in any number. `LostAnswersSettle` turns
this round. It keeps the exclusion of those endpoints and of that fault; for each of the others
TLC showed a settled copy that is wrong: a lost answer or a crash with an edit
(the first finding), or with refusals up to the poison pill (the create that
would have found the copy is closed), a dead pass with a crash (two rows of a
projection queued), and a crash with a pause (section 5). Transient failures, failed ingests of copies, resyncs, resumes
and an operator's retry may come in any number.

**Only model-checked.** Liveness, which the prover cannot do under fairness:
`Converges`, `NoRequestStarves`, `Ingest!CatchesUp`, `RsvpLands`, `SidesAgree`, `Webcal!CatchesUp`, `CopiesFollowPlan`,
`PlanFollowsEvent`, `DisconnectedIsCleared`. And
`SettledIsMirrored` under dead passes, within the budget of `mirror_settles`.

## 5. What the code does not keep

Besides the findings, these came to light while modelling. Each is in a model,
as an exception the property names, or kept out of a run by a bound that is
named here.

*Admin operations* (autocommit, `database.py:232`: every statement is durable)
* A stop inside `cleanup_one_calendar` after the rows are cancelled
  (`admin_ops.py:128`) or the projections made absent (`147`) and before the
  replan rows (`179`), or inside `cleanup_and_pause` between `200` and `222`,
  leaves cancelled events with their copies, or live events without, on calendars
  that are still active, and nothing queued. Neither ingest nor the audit repairs
  that: the event must change, or the operator repeat the call. The projections so
  stranded are named `owed = "lost"` in `Mirror`, `strays` in `Custody`, `adrift`
  in `Webcal`; every property about the replan queue excepts exactly those.
* A stop between the two statements of an unsubscription (`api/webcal.py:459`,
  `460`) leaves an active subscription over cancelled rows, which an unchanged
  hash keeps cancelled: `adrift`.
* A person's deletion of a copy between the cleanup and the drain of its delete
  is taken for BusyBridge's own (`client.py:508`, `admin_ops.py:140-146`). If the
  copy is wanted again before that delete is recorded, it is not put back. No
  model has it: `SettledIsMirrored` is checked without the cleanups.
* A change of a client calendar's colour (`admin_ops.py:60-101`) writes rows and
  queue apart, with the same gap. Not modelled.

*Outbox and scheduling*
* A create left in flight by a dead pass is not superseded by later versions
  (`outbox.py:203-206`, `501`). Once reclaimed it meets its successor's live
  copy (409), reads its ETag and overwrites it with the old version. It heals
  at the next diff.
* A crash between ingest and plan, then a pause: the paused pass goes straight to
  the diff, renders the body from the event as it is now and keeps the hash and
  the version of the plan (`diff.py:332`). If the event goes back to what was
  planned before anything is planned again, the planner sees no change, and the
  copy that shows the event in between counts as settled. A listing of the
  source that raises after it has written rows does it without a stop: the error
  is logged (`reconciler.py:226-232`), nothing is queued, and the same pass goes
  on to the diff. The fault kind `listing`, which `mirror_settles` and the two
  theorems about it leave out.
* Operations of a soft-paused user that need a retry wait for the resume, also
  the deletes staged by a cleanup (`outbox.py:285-291`).
* Every attempt counts towards the poison pill, an outage's too
  (`outbox.py:1287-1290`): a single 404 afterwards is a permanent failure.
* The tick looks at maintenance mode once (`runtime.py:149-150`, `473-474`,
  `501`; `jobs/ledger_jobs.py:59-64`). A request claimed after a VACUUM or
  restore began is skipped by the gate, and released as if served. The timer
  makes up for it, except for a paused user, whom it leaves out.
* Webhooks that arrive in maintenance mode are dropped (`webhooks.py:154-160`).
* A restore reconciles its users one by one under its own hold
  (`maintenance.py:98-105`, `sync/backup.py:825-829`). Between two of
  them no pass is counted: a VACUUM or second restore that waits for quiescence
  starts, and the next of those passes runs beside it.
* A full resync that an operator asks for during a pass is lost: the pass
  stores its new token over the deletion.

*Ingest*
* A single event of a personal calendar or of main that comes back from the bin
  as it was stays cancelled: its hash has not changed (the client handler looks at the
  status too, `client.py:1133`; `personal.py:321-328` does not). `RestoredAsWas` keeps it out.
* `skip_if_older` is to keep a lagging replica from reverting fresher data
  (`reconciler.py:371-372`). A read that finds the same hash, and a
  cancellation, leave the row's date as it was (`client.py:1226`, `1109`), so a
  revision dated in between still counts as news to the audit.
* An audit that dies before it records what it changed leaves rows whose plan
  is never made (`reconciler.py:438-495`): the fault kind `audit`.
* A cancelled occurrence that names no series, listed before its series has a
  row, is dropped (`client.py:707-710`).
* An event whose handler raised is passed over and the token advances.
* "Never re-ingest or un-release it" (`client.py:850-851`) holds between handlers,
  not within one. Each reads the status, awaits, and updates by id
  (`client.py:844-1032`, `1143-1222`; `main.py:221-236` and `992-1044`), mostly with
  `status = 'active'`: a release that falls in between is undone, and the event
  planned and mirrored again until retention comes back. Where `main.py:241` reads
  the status a second time, a release before it turns the revert of a deleted
  occurrence into its cancellation (`287`, `302`). `hand` in `Ingest` and
  `WriteBack`; `RowsGoForward` and `FrozenCopyIsLeftAlone` except that one
  handler. A release inside `plan_for_ledger_event`, between its read of the event
  and its upserts, is in no model: its plan is that of the event as it was, so it
  matters only if the copy has also just been given up.

*Write-back*
* *echo*: BusyBridge's own doing on the copy is read as a person's. It deletes
  the copy when the source is cancelled; its tombstone then makes the event
  `user_intentionally_deleted` and, in the right mode, arms the deletion of the
  source, although a cancellation "ingested from the source never re-triggers a
  delete" (`diff.py:402-405`; also `src/README.md:201`).
* *overrun*: after a 412 only the ETag is read again, so the update that follows
  runs over an edit of the copy that nobody has read (`outbox.py:14-17`,
  `src/README.md:192-193`).
* *disarmed*: a write-back whose hash equals the last one applied is taken for
  delivered (`diff.py:516-517`), although the source was changed since.
* *halfway*: a stop between the statements of `main.py:817-841` leaves an
  edited occurrence without the flag that would carry the edit to the source.
* *revived*: an edit of the copy of a cancelled occurrence makes its row active.
  And an occurrence cancelled because its copy was deleted, whose source goes
  back to what was planned before anybody planned the cancellation (a stop in
  between), is planned as before: the replan is skipped as identical
  (`planner.py:549-554`), nothing was nulled, and the copy stays gone.
* *coincidence*: an edit of the copy that equals what the row says is no drift,
  also when another body is on its way to the copy.
* A time changed on main is lost if the source is listed again before the patch
  lands. Deleting an unmodified occurrence of a read-only series is not
  undone. `cleanup.py` says that planner, diff and ingest skip released rows; the
  diff has no such filter, and neither has the drift check of client copies.

*Webcal*
* An event that comes back with the same hash after it was cancelled stays
  cancelled. One that is dropped less than two intervals after it was seen
  lingers as long as the server answers 304 or an empty feed (`webcal.py:14-15`).
* An event that could not be read is not tried again until the body changes,
  since the ETag advances all the same.
* A stop between `_mark_cancelled` and `_record_affected` strands the
  cancellation: the row is skipped as cancelled ever after.
* Unsubscribing while a poll runs lets it write rows afterwards.
* Overrides of a released series have no released guard; a cancelled event
  without a lasting UID hits ordinal 0.

*Custody*
* An insert whose answer was lost, on a projection whose recorded id is an
  earlier, burned one, is a copy that discovery condemns although it is wanted.
  `adrift` names these.
* Discovery relinks an unrecorded copy to a projection that converged absent
  (`discovery.py:16-19` says otherwise). While its create is pending that is made
  good: the create runs again, is recorded as present, and the diff deletes the
  copy (`SettledShown` rests on this). If the create was superseded by an edit
  meanwhile, as in the first finding, nothing removes it; nobody edits copies in
  `Custody`.
* A plan between a disconnect's cleanup and its `is_active = 0` casts a copy on
  the calendar again; a stop of the disconnect is described above; a stop between retention's cancel and its plan leaves the copies. `strays` names these.

*Planner*
* `_main_native_is_redundant` (`planner.py:127`) is asked when the event on
  main is planned. Nothing replans it when the client's event with the same
  iCalUID is ingested later, or is cancelled: a double block, or none.

## 6. Not modelled

* The circuit breaker: one query over failure counters; the pause it sets is in
  `Mirror`. Alerts: a mail queue no synchronisation depends on.
* The re-convergence a restore does with an older database: it needs two
  histories of one database at once.
* The redundancy of events on main across lineages: it needs two events.
* Recolouring and the sweep of all-day blocks (they queue replans, as `Relabel`
  does), colours, rendering, wording; OAuth, sessions, HTTP, UI; iCalendar
  parsing and rule expansion, which are libraries'; ICS export, verification and
  facade, which are read-only; the renewal of webhook channels; migrations.
* A feed whose body returns to an earlier one within one ETag (ABA), and a
  calendar read twice with a change and its reversal in between.

## 7. Plan

Done: the core; triggers and maintenance against `Coalescing`; ingest of all
kinds of source; write-back; webcal; discovery, retention and disconnect; the
proofs above. Left, in order: a module of two lineages with the redundancy
rule; restore and re-convergence (`Mirror` from a ledger older than Google);
the circuit breaker with pause modes; planner rules as operators against a
reference definition.
