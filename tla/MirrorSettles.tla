--------------------------- MODULE MirrorSettles ---------------------------
(***************************************************************************)
(* What a settled projection is worth.  SettledIsMirrored rests on the     *)
(* answers of Google arriving, on a pass that began ending, on no listing  *)
(* of the source that fails after it has written rows, and on no endpoint  *)
(* that rewrites a projection or a rendering without a version;            *)
(* with those, it is proved here for every instance, whatever fails and    *)
(* whoever edits (SettledCopies).  And it is proved where answers are lost *)
(* and the process stops, if nobody edits (LostAnswersSettle).             *)
(***************************************************************************)
EXTENDS MirrorSafety

USE DEF ABSENT, NONE, CANCELLED, TAMPERED

(* The environments the theorem is about.                                  *)
AnswersArrive == FaultKinds \cap {"lost", "crash", "dies", "listing"} = {}
VersionedOnly ==
  AdminKinds \cap {"cleanup", "cleanup_and_pause", "relabel"} = {}

-----------------------------------------------------------------------------

(* The WHERE clause of the diff, failed or not.                            *)
Stamped(p) == proj[p].aver = proj[p].dver /\ proj[p].applied = proj[p].desired

Shown(p) == Stamped(p) /\ proj[p].desired # ABSENT

NoCopy(p) == proj[p].gid = NULL \/ ~Live(p, proj[p].gid)

(* Where the drain holds an id that a call has written and no row records. *)
RecordPC == {"landed", "record"}

(* One outstanding row per projection, of a version the projection has     *)
(* seen, that writes what it will be said to have written; and none for a  *)
(* copy stamped as shown, but the row whose stamp that is.                 *)
QueueInv ==
  \A k \in Keys :
    /\ ops[k].status = "in_flight" => worker.key = k /\ worker.pc \in HeldPC
    /\ Outstanding(k) =>
         /\ \A j \in Keys : Outstanding(j) /\ j.proj = k.proj => j = k
         /\ k.kind # "delete" => ops[k].body = ops[k].hash
         /\ k.ver <= proj[k.proj].dver
         /\ Shown(k.proj) => worker.pc = "done" /\ worker.key = k

(* A verdict of the diff is about the row as it still is.                  *)
VerdictInv ==
  worker.pc = "rows" =>
    \A p \in Projections :
      LET v == worker.todo[p] IN
      v # NULL =>
        /\ ~Stamped(p) /\ v.ver = proj[p].dver
        /\ v.kind \in {"create", "update"} => v.body = v.hash
        /\ v.kind = "converged" => /\ proj[p].desired = ABSENT
                                   /\ \/ proj[p].gid = NULL
                                      \/ proj[p].current = "absent"

(* Desired states follow versions: one the planner has yet to see is of a  *)
(* later version than the stamp, and past the plan phase there is none.    *)
VersionInv ==
  \A p \in Projections :
    /\ proj[p].dver <= ledger[p].version
    /\ proj[p].aver # NULL => proj[p].aver <= proj[p].dver
    /\ proj[p].desired # Wanted(p) =>
         /\ proj[p].dver < ledger[p].version
         /\ \/ worker.pc = "ingest"
            \/ worker.pc = "plan" /\ p \in worker.dirty

(* A live copy is the one recorded, or the one the drain is about to       *)
(* record.                                                                 *)
PlaceInv ==
  \A p \in Projections :
    /\ \A g \in Generations :
         Live(p, g) => \/ proj[p].gid = g
                       \/ worker.pc \in RecordPC /\ OpProj = p /\ worker.gen = g
    /\ proj[p].gid # NULL =>
         proj[p].etag # NULL /\ google[p][proj[p].gid] # NONE
    /\ proj[p].current \in {"absent", "unknown"} => NoCopy(p)

(* What the drain is about to record is so, or ingest will be told.        *)
WriteInv ==
  /\ worker.pc \in {"gone", "absent"} => NoCopy(OpProj)
  /\ worker.pc \in RecordPC =>
       /\ worker.key.kind # "delete"
       /\ google[OpProj][worker.gen] # NONE
       /\ \A g \in Generations : Live(OpProj, g) => g = worker.gen
       /\ \/ google[OpProj][worker.gen] = Op.body
          \/ /\ worker.gen \in unseen[OpProj]
             /\ Live(OpProj, worker.gen) => worker.etag = "stale"

(* What is stamped is so, or ingest will be told.                          *)
TruthInv ==
  \A p \in Projections :
    /\ Shown(p) =>
         /\ proj[p].gid # NULL
         /\ \/ google[p][proj[p].gid] = proj[p].desired
            \/ /\ proj[p].gid \in unseen[p]
               /\ Live(p, proj[p].gid) => proj[p].etag = "stale"
    /\ Stamped(p) /\ proj[p].desired = ABSENT => NoCopy(p)

Settles == /\ QueueInv /\ VerdictInv /\ VersionInv
           /\ PlaceInv /\ WriteInv /\ TruthInv

(* No cleanup is under way, and none was stopped.                          *)
Uncleaned == \A p \in Projections : ledger[p].owed = "nothing"

(* The step starts where everything proved so far holds.                   *)
Base == TypeInv /\ TypeInv' /\ SafeInv /\ SafeInv' /\ PlanInv /\ Uncleaned

-----------------------------------------------------------------------------

LEMMA UncleanedKept ==
  ASSUME TypeInv, Uncleaned, VersionedOnly, [Next]_vars PROVE Uncleaned'
<1>1. ~CleanupAndPause /\ \A p \in Projections : ~CleanupCalendar(p)
  BY DEF VersionedOnly, CleanupAndPause, CleanupCalendar, Admin
<1>2. CASE CleanupGoesOn \/ RecordAffected
  BY <1>2, QueueMoves DEF Uncleaned, QueueMoved
<1>3. ASSUME NEW p \in Projections, SourceChange(p) PROVE Uncleaned'
  <2>1. PICK row \in {[ledger[p] EXCEPT !.active = ~@],
                      [ledger[p] EXCEPT !.active = FALSE]}
                \cup {[ledger[p] EXCEPT !.content = c] : c \in Contents} :
          ledger' = [ledger EXCEPT ![p] =
                       [row EXCEPT !.version = @ + 1,
                                   !.queued = @ \cup {"listed"}]]
    BY <1>3 DEF SourceChange
  <2>2. row \in [DOMAIN ledger[p] -> {row[f] : f \in DOMAIN ledger[p]}]
        /\ row.owed = ledger[p].owed /\ DOMAIN row = DOMAIN ledger[p]
    BY <2>1, LedgerTypes DEF LedgerRow
  <2>3. ledger'[p].owed = ledger[p].owed
    BY <2>1, <2>2, LedgerTypes DEF TypeInv, TypeOK, LedgerRow
  <2>4. \A q \in Projections : q # p => ledger'[q] = ledger[q]
    BY <2>1 DEF TypeInv, TypeOK
  <2> QED BY <2>3, <2>4 DEF Uncleaned
<1>4. CASE IngestDone \/ PlanDone
  BY <1>4, LedgerTypes DEF IngestDone, ReadAffected, PlanDone, Uncleaned, LedgerRow
<1>5. CASE RetryPermanentFailures
  <2>1. \A p \in Projections : ledger'[p] \in {ledger[p], Dirty(ledger[p])}
    BY <1>5 DEF RetryPermanentFailures
  <2> QED BY <2>1, LedgerTypes, DirtyFields DEF Uncleaned
<1>6. ASSUME NEW p \in Projections, NEW c \in Contents, Relabel(p, c)
      PROVE  Uncleaned'
  BY <1>6 DEF VersionedOnly, Relabel, Admin
<1>7. CASE CrashAndRestart
  <2>1. \A p \in Projections : ~Cleaning(p)
    BY DEF Cleaning, Uncleaned
  <2>2. \A p \in Projections : ledger'[p].owed = ledger[p].owed
    BY <1>7, <2>1, LedgerTypes DEF CrashAndRestart, LedgerRow
  <2> QED BY <2>2 DEF Uncleaned
<1>8. CASE DrainStep
  BY <1>8, DrainMoves DEF Uncleaned
<1>9. CASE UNCHANGED ledger
  BY <1>9 DEF Uncleaned
<1>10. \/ StartPass \/ PassDies \/ PauseSync \/ ResumeSync \/ FullResync
       \/ SelectDiverged \/ DiffDone \/ UNCHANGED vars \/ Time
       \/ \E p \in Projections : \/ IngestCopy(p) \/ IngestFails(p)
                                \/ PlanRow(p) \/ DiffRow(p)
       \/ \E p \in Projections, g \in Generations :
            UserEdit(p, g) \/ UserDelete(p, g)
       => UNCHANGED ledger
  BY DEF StartPass, PassDies, PauseSync, ResumeSync, FullResync, SelectDiverged,
         DiffDone, vars, Time, Ripen, IngestCopy, IngestFails, PlanRow, DiffRow,
         UserEdit, UserDelete
<1> QED BY <1>1, <1>2, <1>3, <1>4, <1>5, <1>6, <1>7, <1>8, <1>9, <1>10
        DEF Next, PassStep, IngestStep, PlanningStep, Environment, AdminStep

LEMMA SettlesMeansMirrored ==
  ASSUME TypeInv, PlanInv, Settles PROVE SettledIsMirrored
<1> SUFFICES ASSUME NEW p \in Projections, Settled(p) PROVE Mirrored(p)
  BY DEF SettledIsMirrored
<1>1. Stamped(p) /\ unseen[p] = {}
  BY DEF Settled, Diverged, Stamped
<1>2. proj[p].desired = Wanted(p)
  BY DEF Settled, PlanInv
<1>3. worker.pc \in OpPC => OpProj # p
  BY HeldRow, ConstantsAssumption DEF Settled, Idle, OpProj
<1>4. \A g \in Generations : Live(p, g) => proj[p].gid = g
  BY <1>3 DEF Settles, PlaceInv, RecordPC, OpPC, HeldPC, CreatePC
<1>5. CASE Wanted(p) = ABSENT
  <2>1. NoCopy(p)
    BY <1>1, <1>2, <1>5 DEF Settles, TruthInv
  <2> QED BY <1>4, <1>5, <2>1, ConstantsAssumption DEF NoCopy, Mirrored
<1>6. CASE Wanted(p) # ABSENT
  <2>1. Shown(p)
    BY <1>1, <1>2, <1>6 DEF Shown
  <2> QED BY <1>1, <1>2, <1>6, <2>1 DEF Settles, TruthInv, Mirrored
<1> QED BY <1>5, <1>6

LEMMA InitSettles == Init => Settles
<1> SUFFICES ASSUME Init PROVE Settles
  OBVIOUS
<1>1. /\ worker.pc = "idle"
      /\ \A k \in Keys : ops[k].status = "none"
      /\ \A p \in Projections, g \in Generations : google[p][g] = NONE
  BY DEF Init, FreshWorker
<1>2. \A p \in Projections :
        /\ proj[p].gid = NULL /\ proj[p].aver = NULL
        /\ proj[p].desired = Wanted(p) /\ proj[p].dver = ledger[p].version
        /\ proj[p].dver \in Versions
  BY DEF Init, InitRow, LedgerRow
<1>3. \A p \in Projections : ~Stamped(p) /\ ~Shown(p) /\ NoCopy(p)
  BY <1>2, ConstantsAssumption DEF Stamped, Shown, NoCopy
<1>4. QueueInv /\ VerdictInv
  BY <1>1 DEF QueueInv, VerdictInv, Outstanding
<1>5. VersionInv
  <2>1. \A p \in Projections :
          proj[p].dver = ledger[p].version /\ ledger[p].version \in Nat
    BY <1>2, ConstantsAssumption
  <2>2. ASSUME NEW p \in Projections
        PROVE  /\ proj[p].dver <= ledger[p].version
               /\ proj[p].aver = NULL /\ proj[p].desired = Wanted(p)
    BY <1>2, <2>1
  <2> QED BY <2>2 DEF VersionInv
<1>6. PlaceInv
  BY <1>1, <1>2, <1>3 DEF PlaceInv, Live
<1>7. WriteInv /\ TruthInv
  BY <1>1, <1>3 DEF WriteInv, TruthInv, RecordPC
<1> QED BY <1>4, <1>5, <1>6, <1>7 DEF Settles

-----------------------------------------------------------------------------

(* A step that opens no row of the outbox.                                 *)
LEMMA QueueKept ==
  ASSUME Base, QueueInv,
         \A k \in Keys : Outstanding(k)' =>
           /\ Outstanding(k)
           /\ ops'[k].hash = ops[k].hash /\ ops'[k].body = ops[k].body,
         \A k \in Keys : ops'[k].status = "in_flight" =>
           worker'.key = k /\ worker'.pc \in HeldPC,
         \A p \in Projections : proj[p].dver <= proj'[p].dver,
         \A k \in Keys : Outstanding(k)' /\ Shown(k.proj)' =>
           \/ /\ Shown(k.proj)
              /\ worker.pc = "done" /\ worker.key = k =>
                   worker'.pc = "done" /\ worker'.key = k
           \/ worker'.pc = "done" /\ worker'.key = k
  PROVE  QueueInv'
<1> SUFFICES ASSUME NEW k \in Keys, Outstanding(k)'
             PROVE  /\ \A j \in Keys :
                         Outstanding(j)' /\ j.proj = k.proj => j = k
                    /\ k.kind # "delete" => ops'[k].body = ops'[k].hash
                    /\ k.ver <= proj'[k.proj].dver
                    /\ Shown(k.proj)' => worker'.pc = "done" /\ worker'.key = k
  BY DEF QueueInv
<1>1. Outstanding(k)
  OBVIOUS
<1>2. k.proj \in Projections /\ k.ver \in Nat
  BY ConstantsAssumption DEF Keys
<1>3. /\ proj[k.proj].dver \in Nat /\ proj'[k.proj].dver \in Nat
      /\ proj[k.proj].dver <= proj'[k.proj].dver
  BY <1>2, ConstantsAssumption DEF Base, TypeInv, TypeOK, ProjRow
<1>4. k.ver <= proj'[k.proj].dver
  BY <1>1, <1>2, <1>3 DEF QueueInv
<1> QED BY <1>1, <1>4 DEF QueueInv

LEMMA VersionKept ==
  ASSUME VersionInv,
         \A p \in Projections :
           /\ Wanted(p)' = Wanted(p) /\ ledger'[p].version = ledger[p].version
           /\ proj'[p].desired = proj[p].desired
           /\ proj'[p].dver = proj[p].dver
           /\ \/ proj'[p].aver \in {proj[p].aver, NULL}
              \/ proj'[p].aver <= proj[p].dver,
         worker.pc = "ingest" => worker'.pc = "ingest",
         worker.pc = "plan" =>
           worker'.pc = "plan" /\ worker'.dirty = worker.dirty
  PROVE  VersionInv'
BY DEF VersionInv

LEMMA VerdictKept ==
  ASSUME VerdictInv,
         worker'.pc = "rows" =>
           /\ worker.pc = "rows" /\ worker'.todo = worker.todo
           /\ \A p \in Projections :
                /\ proj'[p].desired = proj[p].desired
                /\ proj'[p].dver = proj[p].dver
                /\ proj'[p].applied = proj[p].applied
                /\ proj'[p].aver = proj[p].aver
                /\ proj'[p].gid = proj[p].gid
                /\ proj'[p].current = proj[p].current
  PROVE  VerdictInv'
BY DEF VerdictInv, Stamped

(* A step that makes no copy live and forgets none.                        *)
LEMMA PlaceKept ==
  ASSUME PlaceInv,
         \A p \in Projections, g \in Generations :
           /\ Live(p, g)' => Live(p, g)
           /\ google[p][g] # NONE => google'[p][g] # NONE,
         \A p \in Projections :
           /\ proj'[p].gid = proj[p].gid
           /\ proj'[p].gid \in Generations \cup {NULL}
           /\ proj[p].etag # NULL => proj'[p].etag # NULL
           /\ \/ proj'[p].current = proj[p].current
              \/ proj'[p].current \notin {"absent", "unknown"},
         worker.pc \in RecordPC =>
           /\ worker'.pc \in RecordPC
           /\ worker'.key = worker.key /\ worker'.gen = worker.gen
  PROVE  PlaceInv'
BY DEF PlaceInv, NoCopy, OpProj

(* A step that stamps nothing, and leaves what is shown alone or to be     *)
(* listed.                                                                 *)
LEMMA TruthKept ==
  ASSUME TruthInv,
         \A p \in Projections, g \in Generations : Live(p, g)' => Live(p, g),
         \A p \in Projections :
           /\ Stamped(p)' => /\ Stamped(p)
                            /\ proj'[p].desired = proj[p].desired
           /\ proj'[p].gid = proj[p].gid
           /\ proj'[p].gid \in Generations \cup {NULL}
           /\ (Shown(p) /\ proj[p].gid # NULL) =>
                \/ /\ google'[p][proj[p].gid] = google[p][proj[p].gid]
                   /\ proj[p].gid \in unseen[p] => proj[p].gid \in unseen'[p]
                   /\ proj'[p].etag = proj[p].etag
                \/ /\ proj[p].gid \in unseen'[p]
                   /\ Live(p, proj[p].gid)' => proj'[p].etag = "stale"
  PROVE  TruthInv'
<1> SUFFICES ASSUME NEW p \in Projections
             PROVE  /\ Shown(p)' =>
                         /\ proj'[p].gid # NULL
                         /\ \/ google'[p][proj'[p].gid] = proj'[p].desired
                            \/ /\ proj'[p].gid \in unseen'[p]
                               /\ Live(p, proj[p].gid)' => proj'[p].etag = "stale"
                    /\ Stamped(p)' /\ proj'[p].desired = ABSENT => NoCopy(p)'
  BY DEF TruthInv
<1>1. ASSUME Shown(p)'
      PROVE  /\ proj'[p].gid # NULL
             /\ \/ google'[p][proj'[p].gid] = proj'[p].desired
                \/ /\ proj'[p].gid \in unseen'[p]
                   /\ Live(p, proj[p].gid)' => proj'[p].etag = "stale"
  <2>1. Shown(p) /\ proj'[p].desired = proj[p].desired
    BY <1>1 DEF Shown
  <2>2. proj[p].gid # NULL /\ proj[p].gid \in Generations
    BY <2>1 DEF TruthInv
  <2> QED BY <2>1, <2>2 DEF TruthInv, Live
<1>2. ASSUME Stamped(p)', proj'[p].desired = ABSENT PROVE NoCopy(p)'
  <2>1. NoCopy(p)
    BY <1>2 DEF TruthInv
  <2> QED BY <2>1 DEF NoCopy
<1> QED BY <1>1, <1>2

LEMMA WriteKept ==
  ASSUME WriteInv,
         worker'.pc \in {"gone", "absent"} =>
           /\ worker'.pc = worker.pc /\ worker'.key = worker.key
           /\ NoCopy(OpProj) => NoCopy(OpProj)',
         worker'.pc \in RecordPC =>
           /\ worker.pc \in RecordPC /\ worker'.key = worker.key
           /\ worker'.gen = worker.gen
           /\ ops'[worker.key].body = ops[worker.key].body
           /\ google[OpProj][worker.gen] # NONE =>
                google'[OpProj][worker.gen] # NONE
           /\ \A g \in Generations : Live(OpProj, g)' => Live(OpProj, g)
           /\ \/ /\ google'[OpProj][worker.gen] = google[OpProj][worker.gen]
                 /\ worker.gen \in unseen[OpProj] =>
                      worker.gen \in unseen'[OpProj]
                 /\ worker'.etag = worker.etag
              \/ /\ worker.gen \in unseen'[OpProj]
                 /\ Live(OpProj, worker.gen)' => worker'.etag = "stale"
  PROVE  WriteInv'
BY DEF WriteInv, OpProj, Op, NoCopy, Live

-----------------------------------------------------------------------------
(* The steps of the drain.                                                 *)

(* What most of them do to the projections.                                *)
RowsLoosened ==
  \A p \in Projections :
    /\ proj'[p].desired = proj[p].desired /\ proj'[p].dver = proj[p].dver
    /\ proj'[p].applied = proj[p].applied /\ proj'[p].gid = proj[p].gid
    /\ proj'[p].aver \in {proj[p].aver, NULL}
    /\ \/ proj'[p].etag = proj[p].etag
       \/ proj'[p].etag # NULL /\ ~Shown(p)
    /\ proj'[p].current \in {proj[p].current, "errored"}

LEMMA UnstampedKept ==
  ASSUME Base, RowsLoosened, NEW p \in Projections
  PROVE  /\ Stamped(p)' => Stamped(p)
         /\ Shown(p)' => Shown(p)
         /\ proj[p].dver <= proj'[p].dver
         /\ proj'[p].gid \in Generations \cup {NULL}
<1>1. proj[p] \in ProjRow /\ proj'[p] \in ProjRow
  BY DEF Base, TypeInv, TypeOK
<1>2. proj[p].dver \in Nat /\ NULL \notin Versions
  BY <1>1, ConstantsAssumption DEF ProjRow
<1> QED BY <1>1, <1>2 DEF RowsLoosened, Stamped, Shown, ProjRow

(* The handler goes on to its next step.                                   *)
LEMMA StayQueue ==
  ASSUME Base, QueueInv, RowsLoosened, UNCHANGED ops,
         worker.pc \in HeldPC \ {"done"}, worker'.pc \in HeldPC,
         worker'.key = worker.key
  PROVE  QueueInv'
<1>1. \A k \in Keys : ops'[k].status = "in_flight" =>
        worker'.key = k /\ worker'.pc \in HeldPC
  BY DEF QueueInv
<1>2. \A k \in Keys : k.proj \in Projections
  BY DEF Keys
<1> QED BY <1>1, <1>2, QueueKept, UnstampedKept DEF Outstanding

(* Outside a handler no row is in flight.                                  *)
LEMMA LeaveQueue ==
  ASSUME Base, QueueInv, RowsLoosened, worker.pc \notin HeldPC,
         \A k \in Keys : /\ ops'[k].status = ops[k].status
                         /\ ops'[k].hash = ops[k].hash
                         /\ ops'[k].body = ops[k].body
  PROVE  QueueInv'
<1>1. \A k \in Keys : ops'[k].status # "in_flight"
  BY DEF QueueInv
<1>2. \A k \in Keys : k.proj \in Projections
  BY DEF Keys
<1>3. worker.pc # "done"
  BY DEF HeldPC
<1> QED BY <1>1, <1>2, <1>3, QueueKept, UnstampedKept DEF Outstanding

(* The claimed row goes back, or is closed.                                *)
LEMMA ReleaseQueue ==
  ASSUME Base, QueueInv, RowsLoosened, worker.pc \in HeldPC,
         \/ /\ ops' = [ops EXCEPT ![worker.key].status = "pending"]
            /\ worker.pc # "done"
         \/ ops' = [ops EXCEPT ![worker.key] = Close(@)]
  PROVE  QueueInv'
<1>1. worker.key \in Keys /\ Outstanding(worker.key)
  BY HeldRow DEF OpPC, Base
<1>2. ops \in [Keys -> OpRow]
  BY DEF Base, TypeInv, TypeOK
<1>3. \A k \in Keys : k # worker.key => ops'[k] = ops[k]
  BY <1>1, <1>2
<1>4. \/ ops'[worker.key].status = "closed"
      \/ /\ ops'[worker.key].status = "pending" /\ worker.pc # "done"
         /\ ops'[worker.key].hash = ops[worker.key].hash
         /\ ops'[worker.key].body = ops[worker.key].body
  <2>1. ops[worker.key] \in OpRow
    BY <1>1, <1>2
  <2>2. \/ /\ ops'[worker.key] = [ops[worker.key] EXCEPT !.status = "pending"]
           /\ worker.pc # "done"
        \/ ops'[worker.key] = Close(ops[worker.key])
    BY <1>1, <1>2
  <2>3. Close(ops[worker.key]).status = "closed"
    BY <2>1 DEF Close, OpRow
  <2> QED BY <2>1, <2>2, <2>3 DEF OpRow
<1>5. \A k \in Keys : ops'[k].status # "in_flight"
  BY <1>1, <1>3, <1>4 DEF QueueInv
<1>6. \A k \in Keys : Outstanding(k)' =>
        /\ Outstanding(k) /\ ops'[k].hash = ops[k].hash
        /\ ops'[k].body = ops[k].body
        /\ worker.pc = "done" => worker.key # k
  <2> SUFFICES ASSUME NEW k \in Keys, Outstanding(k)'
               PROVE  /\ Outstanding(k) /\ ops'[k].hash = ops[k].hash
                      /\ ops'[k].body = ops[k].body
                      /\ worker.pc = "done" => worker.key # k
    OBVIOUS
  <2>1. CASE k = worker.key
    BY <1>1, <1>4, <2>1 DEF Outstanding
  <2>2. CASE k # worker.key
    BY <1>3, <2>2 DEF Outstanding
  <2> QED BY <2>1, <2>2
<1>7. \A k \in Keys : k.proj \in Projections
  BY DEF Keys
<1> QED BY <1>5, <1>6, <1>7, QueueKept, UnstampedKept

(* What is on Google, and what is said of it, stays.                       *)
LEMMA QuietCopies ==
  ASSUME Base, Settles, UNCHANGED <<google, unseen>>, RowsLoosened,
         worker.pc \notin RecordPC,
         worker'.pc \notin RecordPC \cup {"gone", "absent"}
  PROVE  PlaceInv' /\ WriteInv' /\ TruthInv'
<1>1. PlaceInv'
  BY PlaceKept, UnstampedKept DEF Settles, RowsLoosened, Live
<1>2. WriteInv'
  BY DEF WriteInv
<1>3. TruthInv'
  BY TruthKept, UnstampedKept DEF Settles, RowsLoosened, Live
<1> QED BY <1>1, <1>2, <1>3

(* A step that calls no one, or to no effect.                              *)
LEMMA QuietDrain ==
  ASSUME Base, Settles, UNCHANGED <<ledger, google, unseen>>, RowsLoosened,
         worker.pc \notin {"ingest", "plan"} \cup RecordPC,
         worker'.pc \notin {"rows"} \cup RecordPC,
         worker'.pc \in {"gone", "absent"} =>
           NoCopy(OpProj) /\ worker'.key = worker.key,
         OpProj \in Projections \/ worker'.pc \notin {"gone", "absent"},
         QueueInv'
  PROVE  Settles'
<1>1. VerdictInv'
  BY VerdictKept DEF Settles
<1>2. VersionInv'
  BY VersionKept DEF Settles, Wanted, RowsLoosened
<1>3. PlaceInv'
  BY PlaceKept, UnstampedKept DEF Settles, RowsLoosened, Live
<1>4. WriteInv'
  BY DEF WriteInv, NoCopy, Live, OpProj, RowsLoosened
<1>5. TruthInv'
  BY TruthKept, UnstampedKept DEF Settles, RowsLoosened, Live
<1> QED BY <1>1, <1>2, <1>3, <1>4, <1>5 DEF Settles

(* A call that changes a copy that is there.                               *)
LEMMA LiveWrite ==
  ASSUME Base, Settles, UNCHANGED <<ledger, proj, ops>>,
         worker.pc \in HeldPC \ {"done"}, worker.pc \notin RecordPC,
         worker'.pc \in HeldPC, worker'.key = worker.key,
         NEW g \in Generations, Live(OpProj, g),
         NEW what \in Contents \cup {CANCELLED},
         GoogleWrites(OpProj, g, what), WriteInv'
  PROVE  Settles'
<1>1. OpProj \in Projections /\ Outstanding(worker.key) /\ worker.key \in Keys
  BY HeldRow DEF OpPC, Base
<1>2. /\ \A q \in Projections, h \in Generations :
           google'[q][h] = IF q = OpProj /\ h = g THEN what ELSE google[q][h]
      /\ \A q \in Projections : unseen[q] \subseteq unseen'[q]
  BY <1>1 DEF GoogleWrites, Base, TypeInv, TypeOK
<1>3. what # NONE
  BY ConstantsAssumption
<1>4. \A q \in Projections, h \in Generations :
        /\ Live(q, h)' => Live(q, h)
        /\ google[q][h] # NONE => google'[q][h] # NONE
  BY <1>2, <1>3 DEF Live
<1>5. RowsLoosened
  BY DEF RowsLoosened
<1>6. QueueInv'
  BY <1>5, StayQueue DEF Settles
<1>7. VerdictInv'
  BY VerdictKept DEF Settles, HeldPC, CreatePC, UpdatePC, DeletePC
<1>8. VersionInv'
  BY VersionKept DEF Settles, Wanted, HeldPC, CreatePC, UpdatePC, DeletePC
<1>9. PlaceInv'
  BY <1>4, <1>5, PlaceKept, UnstampedKept DEF Settles
<1>10. ~Shown(OpProj)
  BY <1>1 DEF Settles, QueueInv, OpProj
<1>11. TruthInv'
  BY <1>2, <1>4, <1>5, <1>10, TruthKept, UnstampedKept DEF Settles
<1> QED BY <1>6, <1>7, <1>8, <1>9, <1>11 DEF Settles

LEMMA NoneLost ==
  ASSUME TypeInv, AnswersArrive
  PROVE  ~Spend("lost") /\ ~Spend("crash") /\ ~Spend("dies") /\ ~Spend("listing")
BY DEF TypeInv, TypeOK, Budget, Spend, AnswersArrive

LEMMA HeldOp ==
  ASSUME Base, worker.pc \in OpPC
  PROVE  /\ worker.key \in Keys /\ OpProj \in Projections
         /\ OpProj = worker.key.proj
         /\ proj \in [Projections -> ProjRow] /\ proj[OpProj] \in ProjRow
         /\ worker \in WorkerState /\ worker.gen \in Generations
BY HeldRow, WorkerTypes DEF Base, OpProj, TypeInv, TypeOK

(* A handler that raised.                                                  *)
LEMMA RaisedSettles ==
  ASSUME Base, Settles, MarkRetry \/ MarkRejected,
         worker.pc \in HeldPC \ {"done"}, worker.pc \notin RecordPC,
         UNCHANGED <<google, unseen>>
  PROVE  Settles'
<1>1. /\ UNCHANGED <<ledger, proj>>
      /\ worker'.pc \in {"drain", "failed"}
      /\ \/ ops' = [ops EXCEPT ![worker.key].status = "pending"]
         \/ ops' = [ops EXCEPT ![worker.key] = Close(@)]
  BY WorkerTypes
     DEF Base, MarkRetry, MarkRejected, NextOp, Goto, WorkerState
<1>2. RowsLoosened
  BY <1>1 DEF RowsLoosened
<1>3. QueueInv'
  BY <1>1, <1>2, ReleaseQueue DEF Settles
<1> QED BY <1>1, <1>2, <1>3, QuietDrain
        DEF RecordPC, HeldPC, CreatePC, UpdatePC, DeletePC

LEMMA GaveUpSettles ==
  ASSUME Base, Settles, NEW g \in Generations, GiveUp(g),
         worker.pc \in {"create", "burned"}
  PROVE  Settles'
<1>1. worker.pc \in HeldPC /\ worker.pc \in OpPC
  BY DEF HeldPC, OpPC, CreatePC
<1>2. /\ UNCHANGED ledger
      /\ worker'.pc = "failed"
      /\ ops' = [ops EXCEPT ![worker.key] = Close(@)]
  BY WorkerTypes DEF Base, GiveUp, Goto, WorkerState
<1>3. RowsLoosened
  BY <1>1, HeldOp DEF GiveUp, RowsLoosened, ProjRow
<1>4. QueueInv'
  BY <1>1, <1>2, <1>3, ReleaseQueue DEF Settles
<1> QED BY <1>2, <1>3, <1>4, QuietDrain DEF RecordPC, GiveUp

(* The drain between two rows of the outbox.                               *)
LEMMA ClaimSettles ==
  ASSUME Base, Settles,
         ReclaimStale \/ (\E k \in Keys : ClaimNext(k)) \/ DrainEnds
  PROVE  Settles'
<1> USE DEF Base
<1>1. /\ worker.pc \in {"reclaim", "drain"} /\ worker.pc \notin HeldPC
      /\ UNCHANGED <<ledger, proj, google, unseen>>
  BY DEF ReclaimStale, ClaimNext, DrainEnds, HeldPC, CreatePC, UpdatePC, DeletePC
<1>2. RowsLoosened
  BY <1>1 DEF RowsLoosened
<1>3. \A k \in Keys : ops[k].status # "in_flight"
  BY <1>1 DEF Settles, QueueInv
<1>4. CASE ReclaimStale \/ DrainEnds
  <2>1. UNCHANGED ops \/ ops' = [k \in Keys |-> ops[k]]
    BY <1>3, <1>4 DEF ReclaimStale, DrainEnds
  <2>2. QueueInv'
    BY <1>1, <1>2, <2>1, LeaveQueue DEF Settles
  <2>3. worker'.pc \in {"drain", "diff", "idle"}
    BY <1>4, WorkerTypes DEF ReclaimStale, DrainEnds, WorkerState
  <2> QED BY <1>1, <1>2, <2>2, <2>3, QuietDrain DEF RecordPC
<1>5. ASSUME NEW k \in Keys, ClaimNext(k) PROVE Settles'
  <2>1. /\ worker'.pc = k.kind /\ worker'.key = k
        /\ k.kind \in {"create", "update", "delete"}
    BY <1>5, WorkerTypes DEF ClaimNext, WorkerState, Keys, Kinds
  <2>2. worker'.pc \in HeldPC
    BY <2>1 DEF HeldPC, CreatePC, UpdatePC, DeletePC
  <2>3. \A j \in Keys : j # k => ops'[j] = ops[j]
    BY <1>5 DEF ClaimNext, TypeInv, TypeOK
  <2>4. /\ Outstanding(k)
        /\ ops'[k].hash = ops[k].hash /\ ops'[k].body = ops[k].body
    <3>1. ops[k] \in OpRow
      BY DEF TypeInv, TypeOK
    <3> QED BY <1>5, <3>1 DEF ClaimNext, Due, Outstanding, TypeInv, TypeOK, OpRow
  <2>5. \A j \in Keys : ops'[j].status = "in_flight" =>
          worker'.key = j /\ worker'.pc \in HeldPC
    BY <1>3, <2>1, <2>2, <2>3
  <2>6. \A j \in Keys : Outstanding(j)' =>
          /\ Outstanding(j)
          /\ ops'[j].hash = ops[j].hash /\ ops'[j].body = ops[j].body
    BY <2>3, <2>4 DEF Outstanding
  <2>7. \A j \in Keys : j.proj \in Projections
    BY DEF Keys
  <2>8. QueueInv'
    BY <1>1, <1>2, <2>5, <2>6, <2>7, QueueKept, UnstampedKept DEF Settles
  <2> QED BY <1>1, <1>2, <2>1, <2>8, QuietDrain DEF RecordPC
<1> QED BY <1>4, <1>5

(* A new copy, under an id Google has never seen: no row holds it yet.     *)
LEMMA InsertSettles ==
  ASSUME Base, Settles, AnswersArrive, Insert PROVE Settles'
<1> USE DEF Base
<1>1. /\ worker.pc = "insert" /\ worker.pc \in HeldPC \ {"done"}
      /\ worker.pc \in OpPC /\ worker.pc \in CreatePC
  BY DEF Insert, HeldPC, OpPC, CreatePC
<1>2. CASE google[OpProj][worker.gen] # NONE
  <2>1. /\ worker'.pc = "conflict" /\ worker'.key = worker.key
        /\ UNCHANGED <<ledger, proj, ops, google, unseen>>
    BY <1>2, WorkerTypes DEF Insert, Goto, WorkerState
  <2>2. RowsLoosened
    BY <2>1 DEF RowsLoosened
  <2>3. QueueInv'
    BY <1>1, <2>1, <2>2, StayQueue DEF Settles, HeldPC, CreatePC
  <2> QED BY <1>1, <2>1, <2>2, <2>3, QuietDrain DEF RecordPC
<1>3. CASE google[OpProj][worker.gen] = NONE
  <2>1. /\ worker' = [worker EXCEPT !.pc = "landed", !.etag = "match"]
        /\ UNCHANGED <<ledger, proj, ops>>
        /\ GoogleWrites(OpProj, worker.gen, Op.body)
    BY <1>3, NoneLost DEF Insert
  <2>2. /\ worker'.pc = "landed" /\ worker'.key = worker.key
        /\ worker'.gen = worker.gen
    BY <2>1, WorkerTypes DEF WorkerState
  <2>3. /\ OpProj \in Projections /\ worker.gen \in Generations
        /\ worker.key \in Keys /\ Outstanding(worker.key)
        /\ Op.body \in Contents
    BY <1>1, HeldOp, HeldRow
  <2>4. \A q \in Projections, h \in Generations :
          google'[q][h] = IF q = OpProj /\ h = worker.gen
                            THEN Op.body ELSE google[q][h]
    BY <2>1, <2>3 DEF GoogleWrites, TypeInv, TypeOK
  <2>5. \A q \in Projections : unseen[q] \subseteq unseen'[q]
    BY <2>1, <2>3 DEF GoogleWrites, TypeInv, TypeOK
  <2>6. RowsLoosened
    BY <2>1 DEF RowsLoosened
  <2>7. QueueInv'
    BY <1>1, <2>1, <2>2, <2>6, StayQueue DEF Settles, HeldPC, CreatePC
  <2>8. VerdictInv' /\ VersionInv'
    BY <1>1, <2>1, <2>2, VerdictKept, VersionKept DEF Settles, Wanted
  <2>9. Op.body # NONE
    BY <2>3, ConstantsAssumption
  <2>10. ~Shown(OpProj)
    BY <1>1, <2>3 DEF Settles, QueueInv, OpProj
  <2>11. \A p \in Projections : proj[p].gid # NULL =>
           /\ proj[p].gid \in Generations
           /\ ~(p = OpProj /\ proj[p].gid = worker.gen)
    <3>1. \A p \in Projections : proj[p].gid \in Generations \cup {NULL}
      BY DEF TypeInv, TypeOK, ProjRow
    <3> QED BY <1>3, <3>1 DEF Settles, PlaceInv
  <2>12. \A p \in Projections : proj[p].gid # NULL =>
           google'[p][proj[p].gid] = google[p][proj[p].gid]
    BY <2>4, <2>11
  <2>13. PlaceInv'
    <3> SUFFICES ASSUME NEW p \in Projections
                 PROVE  /\ \A g \in Generations :
                             Live(p, g)' =>
                               \/ proj'[p].gid = g
                               \/ worker'.pc \in RecordPC /\ OpProj' = p
                                  /\ worker'.gen = g
                        /\ proj'[p].gid # NULL =>
                             /\ proj'[p].etag # NULL
                             /\ google'[p][proj'[p].gid] # NONE
                        /\ proj'[p].current \in {"absent", "unknown"}
                             => NoCopy(p)'
      BY DEF PlaceInv
    <3>1. \A g \in Generations :
            Live(p, g)' => \/ proj[p].gid = g
                           \/ OpProj = p /\ worker.gen = g
      BY <1>1, <2>4 DEF Settles, PlaceInv, Live, RecordPC
    <3>2. NoCopy(p) => NoCopy(p)'
      BY <2>1, <2>12 DEF NoCopy, Live
    <3> QED BY <2>1, <2>2, <2>12, <3>1, <3>2
            DEF Settles, PlaceInv, RecordPC, OpProj
  <2>14. WriteInv'
    <3>1. /\ worker'.pc \in TryPC /\ OpProj' = OpProj /\ Op' = Op
      BY <2>1, <2>2 DEF TryPC, OpProj, Op
    <3>2. \A g \in Generations : Live(OpProj, g)' => g = worker.gen
      BY <2>2, <2>3, <3>1 DEF SafeInv, CopyInv, AtMostOneCopy
    <3>3. google'[OpProj][worker.gen] = Op.body
      BY <2>3, <2>4
    <3> QED BY <1>1, <2>2, <2>9, <3>1, <3>2, <3>3
            DEF WriteInv, Live, TypeInv, WorkerInv
  <2>15. TruthInv'
    <3> SUFFICES ASSUME NEW p \in Projections
                 PROVE  /\ Shown(p) =>
                             /\ proj[p].gid # NULL
                             /\ \/ google'[p][proj[p].gid] = proj[p].desired
                                \/ /\ proj[p].gid \in unseen'[p]
                                   /\ Live(p, proj[p].gid)'
                                        => proj[p].etag = "stale"
                        /\ Stamped(p) /\ proj[p].desired = ABSENT => NoCopy(p)'
      BY <2>1 DEF TruthInv, Shown, Stamped
    <3>1. NoCopy(p) => NoCopy(p)'
      BY <2>1, <2>12 DEF NoCopy, Live
    <3>2. proj[p].gid # NULL => (Live(p, proj[p].gid)' <=> Live(p, proj[p].gid))
      BY <2>12, <2>1 DEF Live
    <3> QED BY <2>5, <2>12, <3>1, <3>2 DEF Settles, TruthInv
  <2> QED BY <2>7, <2>8, <2>13, <2>14, <2>15 DEF Settles
<1> QED BY <1>2, <1>3

(* The generation and the floor of a row are nothing to what it shows.     *)
LEMMA LandedSettles ==
  ASSUME Base, Settles, Landed PROVE Settles'
<1> USE DEF Base
<1>1. /\ worker.pc = "landed" /\ worker.pc \in HeldPC \ {"done"}
      /\ worker.pc \in OpPC /\ worker.pc \in RecordPC
  BY DEF Landed, HeldPC, OpPC, CreatePC, RecordPC
<1>2. /\ worker'.pc = "record" /\ worker'.key = worker.key
      /\ worker'.gen = worker.gen /\ worker'.etag = worker.etag
      /\ UNCHANGED <<ledger, ops, google, unseen>>
  BY WorkerTypes DEF Landed, Goto, WorkerState
<1>3. /\ RowsLoosened
      /\ \A p \in Projections : proj'[p].etag = proj[p].etag
  BY <1>1, HeldOp DEF Landed, RowsLoosened, ProjRow
<1>4. QueueInv'
  BY <1>1, <1>2, <1>3, StayQueue DEF Settles, HeldPC
<1>5. VerdictInv' /\ VersionInv'
  BY <1>1, <1>2, <1>3, VerdictKept, VersionKept
     DEF Settles, Wanted, RowsLoosened
<1>6. PlaceInv'
  BY <1>1, <1>2, <1>3, PlaceKept, UnstampedKept
     DEF Settles, RowsLoosened, Live, RecordPC
<1>7. WriteInv'
  BY <1>1, <1>2 DEF Settles, WriteInv, RecordPC, Live, OpProj, Op
<1>8. TruthInv'
  BY <1>2, <1>3, TruthKept, UnstampedKept DEF Settles, RowsLoosened, Live
<1> QED BY <1>4, <1>5, <1>6, <1>7, <1>8 DEF Settles

LEMMA CreateSettles ==
  ASSUME Base, Settles, AnswersArrive,
         CreateEntry \/ Conflict \/ BumpGeneration \/ Adopt
  PROVE  Settles'
<1> USE DEF Base
<1>1. /\ worker.pc \in {"create", "conflict", "burned", "adopt"}
      /\ worker.pc \in HeldPC \ {"done"} /\ worker.pc \in OpPC
      /\ worker.pc \in CreatePC
      /\ worker.pc \notin {"ingest", "plan"} \cup RecordPC
  BY DEF CreateEntry, Conflict, BumpGeneration, Adopt, HeldPC, OpPC, CreatePC,
         RecordPC
<1>2. ASSUME worker'.pc \in CreatePC \cup {"supersede"}, worker'.pc # "landed",
             worker'.key = worker.key,
             UNCHANGED <<ledger, ops, google, unseen>>, RowsLoosened
      PROVE  Settles'
  <2>1. QueueInv'
    BY <1>1, <1>2, StayQueue DEF Settles, HeldPC
  <2> QED BY <1>1, <1>2, <2>1, QuietDrain DEF CreatePC, RecordPC
<1>3. CASE CreateEntry
  <2>1. CASE GiveUp(proj[OpProj].gen)
    BY <1>1, <1>3, <2>1, HeldOp, GaveUpSettles DEF CreateEntry, ProjRow
  <2>2. CASE worker' = [worker EXCEPT !.pc = "insert",
                                      !.gen = proj[OpProj].gen,
                                      !.floor = proj[OpProj].floor,
                                      !.tries = 0]
             /\ UNCHANGED <<ledger, proj, ops, lastId, paused, google, unseen,
                            budget>>
    <3>1. worker'.pc = "insert" /\ worker'.key = worker.key
      BY <2>2, WorkerTypes DEF WorkerState
    <3> QED BY <1>2, <2>2, <3>1 DEF RowsLoosened, CreatePC
  <2> QED BY <1>3, <2>1, <2>2 DEF CreateEntry
<1>4. CASE Conflict
  <2>1. /\ worker'.pc \in {"adopt", "burned"} /\ worker'.key = worker.key
        /\ UNCHANGED <<ledger, proj, ops, google, unseen>>
    BY <1>4, WorkerTypes DEF Conflict, WorkerState
  <2> QED BY <1>2, <2>1 DEF RowsLoosened, CreatePC
<1>5. CASE BumpGeneration
  <2>1. CASE GiveUp(worker.gen + 1)
    BY <1>1, <1>5, <2>1, GaveUpSettles DEF BumpGeneration
  <2>2. CASE /\ proj' = [proj EXCEPT ![OpProj].gen = worker.gen + 1]
             /\ \/ /\ worker' = [worker EXCEPT !.pc = "insert", !.gen = @ + 1,
                                               !.tries = @ + 1]
                   /\ UNCHANGED ops
                \/ /\ ops' = [ops EXCEPT ![worker.key].status = "pending"]
                   /\ worker' = NextOp
             /\ UNCHANGED <<ledger, google, unseen>>
    <3>1. RowsLoosened
      BY <1>1, <2>2, HeldOp DEF RowsLoosened, ProjRow
    <3>2. CASE /\ worker' = [worker EXCEPT !.pc = "insert", !.gen = @ + 1,
                                           !.tries = @ + 1]
               /\ UNCHANGED ops
      <4>1. worker'.pc = "insert" /\ worker'.key = worker.key
        BY <3>2, WorkerTypes DEF WorkerState
      <4> QED BY <1>2, <2>2, <3>1, <3>2, <4>1 DEF CreatePC
    <3>3. CASE /\ ops' = [ops EXCEPT ![worker.key].status = "pending"]
               /\ worker' = NextOp
      <4>1. worker'.pc = "drain"
        BY <3>3, WorkerTypes DEF NextOp, WorkerState
      <4>2. QueueInv'
        BY <1>1, <3>1, <3>3, ReleaseQueue DEF Settles
      <4> QED BY <1>1, <2>2, <3>1, <4>1, <4>2, QuietDrain DEF RecordPC
    <3> QED BY <2>2, <3>2, <3>3
  <2> QED BY <1>5, <2>1, <2>2 DEF BumpGeneration
<1>6. CASE Adopt
  <2>1. CASE ~Live(OpProj, worker.gen)
    <3>1. (MarkRetry \/ MarkRejected) /\ UNCHANGED <<google, unseen>>
      BY <1>6, <2>1 DEF Adopt
    <3> QED BY <1>1, <3>1, RaisedSettles
  <2>2. CASE Goto("supersede")
             /\ UNCHANGED <<ledger, proj, ops, google, unseen>>
    <3>1. worker'.pc = "supersede" /\ worker'.key = worker.key
      BY <2>2, WorkerTypes DEF Goto, WorkerState
    <3> QED BY <1>2, <2>2, <3>1 DEF RowsLoosened
  <2>3. CASE /\ Live(OpProj, worker.gen)
             /\ GoogleWrites(OpProj, worker.gen, Op.body)
             /\ Goto("landed") /\ UNCHANGED <<ledger, proj, ops>>
    <3>1. /\ worker'.pc = "landed" /\ worker'.key = worker.key
          /\ worker'.gen = worker.gen
      BY <2>3, WorkerTypes DEF Goto, WorkerState
    <3>2. /\ OpProj \in Projections /\ worker.gen \in Generations
          /\ Op.body \in Contents
      BY <1>1, HeldOp, HeldRow
    <3>3. google'[OpProj][worker.gen] = Op.body /\ Op.body # NONE
      BY <2>3, <3>2, ConstantsAssumption DEF GoogleWrites, TypeInv, TypeOK
    <3>4. /\ worker'.pc \in TryPC /\ OpProj' = OpProj /\ Op' = Op
      BY <2>3, <3>1 DEF TryPC, OpProj, Op
    <3>5. \A g \in Generations : Live(OpProj, g)' => g = worker.gen
      BY <3>1, <3>2, <3>4 DEF SafeInv, CopyInv, AtMostOneCopy
    <3>6. WriteInv'
      BY <1>1, <3>1, <3>3, <3>4, <3>5
         DEF WriteInv, Live, TypeInv, WorkerInv
    <3>7. worker'.pc \in HeldPC
      BY <3>1 DEF HeldPC, CreatePC
    <3> QED BY <1>1, <2>3, <3>1, <3>2, <3>6, <3>7, LiveWrite
  <2> QED BY <1>6, <2>1, <2>2, <2>3, NoneLost DEF Adopt
<1> QED BY <1>3, <1>4, <1>5, <1>6

LEMMA UpdateSettles ==
  ASSUME Base, Settles, AnswersArrive, Update \/ Refetch
  PROVE  Settles'
<1> USE DEF Base
<1>1. /\ worker.pc \in {"update", "refetch"}
      /\ worker.pc \in HeldPC \ {"done"} /\ worker.pc \in OpPC
      /\ worker.pc \in UpdatePC
      /\ worker.pc \notin {"ingest", "plan"} \cup RecordPC
  BY DEF Update, Refetch, HeldPC, OpPC, UpdatePC, RecordPC
<1>2. /\ OpProj \in Projections /\ worker.gen \in Generations
      /\ proj[OpProj] \in ProjRow /\ worker.key \in Keys
      /\ OpProj = worker.key.proj
      /\ Op.body \in Contents /\ Outstanding(worker.key)
  BY <1>1, HeldOp, HeldRow
<1>3. ~Shown(OpProj)
  BY <1>1, <1>2 DEF Settles, QueueInv
<1>4. CASE Refetch
  <2>1. /\ worker'.pc = "supersede" /\ worker'.key = worker.key
        /\ UNCHANGED <<ledger, ops, google, unseen>>
    BY <1>4, WorkerTypes DEF Refetch, Goto, WorkerState
  <2>2. RowsLoosened
    <3>1. CASE UNCHANGED proj
      BY <3>1 DEF RowsLoosened
    <3>2. CASE proj' = [proj EXCEPT ![OpProj].etag = "match"]
      <4>1. "match" # NULL
        BY ConstantsAssumption
      <4> QED BY <1>1, <1>3, <3>2, <4>1, HeldOp DEF RowsLoosened, ProjRow
    <3> QED BY <1>4, <3>1, <3>2 DEF Refetch
  <2>3. QueueInv'
    BY <1>1, <2>1, <2>2, StayQueue DEF Settles, HeldPC
  <2> QED BY <1>1, <2>1, <2>2, <2>3, QuietDrain DEF RecordPC
<1>5. CASE Update /\ proj[OpProj].gid = NULL
  <2>1. MarkRejected /\ UNCHANGED <<google, unseen>>
    BY <1>5 DEF Update
  <2> QED BY <1>1, <2>1, RaisedSettles
<1>6. CASE Update /\ proj[OpProj].gid # NULL
  <2>1. PICK g \in Generations : g = proj[OpProj].gid
    BY <1>2, <1>6 DEF ProjRow
  <2>2. CASE /\ Goto(IF Live(OpProj, g) THEN "refetch" ELSE "gone")
             /\ UNCHANGED <<ledger, proj, ops, google, unseen>>
    <3>1. /\ worker'.pc = IF Live(OpProj, g) THEN "refetch" ELSE "gone"
          /\ worker'.key = worker.key
      BY <2>2, WorkerTypes DEF Goto, WorkerState
    <3>2. RowsLoosened
      BY <2>2 DEF RowsLoosened
    <3>3. worker'.pc \in HeldPC
      BY <3>1 DEF HeldPC, UpdatePC
    <3>4. QueueInv'
      BY <1>1, <2>2, <3>1, <3>2, <3>3, StayQueue DEF Settles
    <3>5. worker'.pc \in {"gone", "absent"} => NoCopy(OpProj)
      BY <2>1, <3>1 DEF NoCopy
    <3>6. worker'.pc \notin {"rows"} \cup RecordPC
      BY <3>1 DEF RecordPC
    <3> QED BY <1>1, <1>2, <2>2, <3>1, <3>2, <3>4, <3>5, <3>6, QuietDrain
  <2>3. CASE /\ Live(OpProj, g) /\ GoogleWrites(OpProj, g, Op.body)
             /\ worker' = [worker EXCEPT !.pc = "record", !.gen = g,
                                         !.etag = "match"]
             /\ UNCHANGED <<ledger, proj, ops>>
    <3>1. /\ worker'.pc = "record" /\ worker'.key = worker.key
          /\ worker'.gen = g
      BY <2>3, WorkerTypes DEF WorkerState
    <3>2. google'[OpProj][g] = Op.body /\ Op.body # NONE
      BY <1>2, <2>1, <2>3, ConstantsAssumption DEF GoogleWrites, TypeInv, TypeOK
    <3>3. OpProj' = OpProj /\ Op' = Op
      BY <2>3, <3>1 DEF OpProj, Op
    <3>4. Live(OpProj, g)'
      BY <1>2, <3>2, <3>3, ConstantsAssumption DEF Live
    <3>5. \A h \in Generations : Live(OpProj, h)' => h = g
      <4>1. \A h \in Generations : Live(OpProj, h)' => h = proj'[OpProj].gen
        BY <1>2, <3>3 DEF SafeInv, CopyInv, AtMostOneCopy
      <4> QED BY <2>1, <3>3, <3>4, <4>1
    <3>6. WriteInv'
      BY <1>1, <3>1, <3>2, <3>3, <3>5 DEF WriteInv, Live, TypeInv, WorkerInv
    <3>7. worker'.pc \in HeldPC
      BY <3>1 DEF HeldPC
    <3> QED BY <1>1, <1>2, <2>1, <2>3, <3>1, <3>6, <3>7, LiveWrite
  <2> QED BY <1>6, <2>1, <2>2, <2>3, NoneLost DEF Update
<1> QED BY <1>4, <1>5, <1>6

LEMMA DeleteSettles ==
  ASSUME Base, Settles, AnswersArrive, Delete PROVE Settles'
<1> USE DEF Base
<1>1. /\ worker.pc = "delete"
      /\ worker.pc \in HeldPC \ {"done"} /\ worker.pc \in OpPC
      /\ worker.pc \notin {"ingest", "plan"} \cup RecordPC
  BY DEF Delete, HeldPC, OpPC, DeletePC, RecordPC
<1>2. OpProj \in Projections /\ proj[OpProj] \in ProjRow
  BY <1>1, HeldOp
<1>3. Goto("absent") /\ UNCHANGED <<ledger, proj, ops>>
  BY NoneLost DEF Delete
<1>4. /\ worker'.pc = "absent" /\ worker'.key = worker.key
      /\ worker'.pc \in HeldPC
  BY <1>3, WorkerTypes DEF Goto, WorkerState, HeldPC, DeletePC
<1>5. RowsLoosened
  BY <1>3 DEF RowsLoosened
<1>6. CASE proj[OpProj].gid # NULL /\ Live(OpProj, proj[OpProj].gid)
  <2>1. PICK g \in Generations : g = proj[OpProj].gid
    BY <1>2, <1>6 DEF ProjRow
  <2>2. Live(OpProj, g) /\ GoogleWrites(OpProj, g, CANCELLED)
    BY <1>6, <2>1 DEF Delete
  <2>3. google'[OpProj][g] = CANCELLED
    BY <1>2, <2>1, <2>2 DEF GoogleWrites, TypeInv, TypeOK
  <2>4. WriteInv'
    BY <1>3, <1>4, <2>1, <2>3 DEF WriteInv, NoCopy, Live, OpProj, RecordPC
  <2> QED BY <1>1, <1>3, <1>4, <2>1, <2>2, <2>4, LiveWrite
<1>7. CASE ~(proj[OpProj].gid # NULL /\ Live(OpProj, proj[OpProj].gid))
  <2>1. UNCHANGED <<google, unseen>> /\ NoCopy(OpProj)
    BY <1>7 DEF Delete, NoCopy
  <2>2. QueueInv'
    BY <1>1, <1>3, <1>4, <1>5, StayQueue DEF Settles
  <2>3. worker'.pc \notin {"rows"} \cup RecordPC
    BY <1>4 DEF RecordPC
  <2> QED BY <1>1, <1>2, <1>3, <1>4, <1>5, <2>1, <2>2, <2>3, QuietDrain
<1> QED BY <1>6, <1>7

(* The steps that close a row, or follow its end.                          *)
LEMMA CloseSettles ==
  ASSUME Base, Settles,
         MarkSuperseded \/ OpDone \/ FailProjection \/ RequestReplan
  PROVE  Settles'
<1> USE DEF Base
<1>1. /\ worker.pc \in {"supersede", "done", "failed", "replan"}
      /\ worker.pc \in OpPC
      /\ worker.pc \notin {"ingest", "plan"} \cup RecordPC
  BY DEF MarkSuperseded, OpDone, FailProjection, RequestReplan, HeldPC, OpPC,
         RecordPC
<1>2. /\ worker'.pc \in {"replan", "drain"}
      /\ UNCHANGED <<ledger, google, unseen>>
  BY WorkerTypes DEF MarkSuperseded, OpDone, FailProjection, RequestReplan,
                     Goto, NextOp, WorkerState
<1>3. RowsLoosened
  <2>1. CASE UNCHANGED proj
    BY <2>1 DEF RowsLoosened
  <2>2. CASE FailProjection
    BY <1>1, <2>2, HeldOp DEF FailProjection, RowsLoosened, ProjRow
  <2>3. CASE RequestReplan
    BY <1>1, <2>3, HeldOp DEF RequestReplan, RowsLoosened, ProjRow
  <2> QED BY <2>1, <2>2, <2>3 DEF MarkSuperseded, OpDone
<1>4. QueueInv'
  <2>1. CASE MarkSuperseded \/ OpDone
    <3>1. worker.pc \in HeldPC
      BY <2>1 DEF MarkSuperseded, OpDone, HeldPC
    <3> QED BY <1>3, <2>1, <3>1, ReleaseQueue
            DEF Settles, MarkSuperseded, OpDone
  <2>2. CASE FailProjection \/ RequestReplan
    <3>1. worker.pc \notin HeldPC
      BY <2>2 DEF FailProjection, RequestReplan, HeldPC, CreatePC, UpdatePC,
                  DeletePC
    <3> QED BY <1>3, <2>2, <3>1, LeaveQueue
            DEF Settles, FailProjection, RequestReplan
  <2> QED BY <2>1, <2>2
<1> QED BY <1>1, <1>2, <1>3, <1>4, QuietDrain DEF RecordPC

(* The write of a record: what the projection says of its copy, and when.  *)
LEMMA RecordSettles ==
  ASSUME Base, Settles, RecordSuccess PROVE Settles'
<1> USE DEF Base
<1>1. /\ worker.pc = "record" /\ worker.pc \in RecordPC
      /\ worker.pc \in HeldPC /\ worker.pc \in OpPC
  BY DEF RecordSuccess, HeldPC, OpPC, RecordPC
<1>2. /\ OpProj \in Projections /\ worker.gen \in Generations
      /\ proj \in [Projections -> ProjRow] /\ proj[OpProj] \in ProjRow
      /\ worker.key \in Keys /\ OpProj = worker.key.proj
      /\ worker.etag \in {"match", "stale"}
      /\ Op = ops[worker.key] /\ Outstanding(worker.key)
  BY <1>1, HeldOp, HeldRow DEF Op, WorkerState
<1>3. /\ worker'.pc = "done" /\ worker'.key = worker.key
      /\ UNCHANGED <<ledger, ops, google, unseen>>
  BY WorkerTypes DEF RecordSuccess, Goto, WorkerState
<1>4. /\ proj'[OpProj].desired = proj[OpProj].desired
      /\ proj'[OpProj].dver = proj[OpProj].dver
      /\ proj'[OpProj].current = "present" /\ proj'[OpProj].gid = worker.gen
      /\ proj'[OpProj].etag = worker.etag /\ proj'[OpProj].applied = Op.hash
      /\ proj'[OpProj].aver = worker.key.ver
  BY <1>2 DEF RecordSuccess, ProjRow
<1>5. \A q \in Projections : q # OpProj => proj'[q] = proj[q]
  BY <1>2 DEF RecordSuccess
<1>6. Op.hash = Op.body /\ Op.body \in Contents
  BY <1>1, <1>2 DEF Settles, WriteInv, QueueInv, TypeInv, BodyInv
<1>7. QueueInv'
  <2>1. \A k \in Keys : Outstanding(k) /\ k.proj = OpProj => k = worker.key
    BY <1>2 DEF Settles, QueueInv
  <2>2. \A k \in Keys : k.proj \in Projections
    BY DEF Keys
  <2>3. \A k \in Keys : ops'[k].status = "in_flight" =>
          worker'.key = k /\ worker'.pc \in HeldPC
    BY <1>3 DEF Settles, QueueInv, HeldPC
  <2>4. \A p \in Projections :
          proj[p].dver \in Nat /\ proj'[p].dver = proj[p].dver
    BY <1>4, <1>5, ConstantsAssumption DEF TypeInv, TypeOK, ProjRow
  <2>5. \A p \in Projections : p # OpProj /\ Shown(p)' => Shown(p)
    BY <1>5 DEF Shown, Stamped
  <2>6. \A k \in Keys : Outstanding(k)' /\ Shown(k.proj)' =>
          \/ Shown(k.proj) /\ worker.pc # "done"
          \/ worker'.pc = "done" /\ worker'.key = k
    BY <1>1, <1>3, <2>1, <2>2, <2>5 DEF Outstanding
  <2> QED BY <1>3, <2>3, <2>4, <2>6, QueueKept DEF Settles, Outstanding
<1>8. VerdictInv' /\ WriteInv'
  BY <1>3, VerdictKept DEF Settles, WriteInv, RecordPC
<1>9. VersionInv'
  <2>1. worker.key.ver <= proj[OpProj].dver
    BY <1>2 DEF Settles, QueueInv
  <2> QED BY <1>1, <1>3, <1>4, <1>5, <2>1, VersionKept DEF Settles, Wanted
<1>10. PlaceInv'
  <2>1. ASSUME NEW p \in Projections
        PROVE  /\ \A g \in Generations : Live(p, g) => proj'[p].gid = g
               /\ proj'[p].gid # NULL =>
                    /\ proj'[p].etag # NULL
                    /\ google[p][proj'[p].gid] # NONE
    <3>1. CASE p = OpProj
      BY <1>1, <1>2, <1>4, <3>1, ConstantsAssumption DEF Settles, WriteInv
    <3>2. CASE p # OpProj
      BY <1>5, <3>2 DEF Settles, PlaceInv
    <3> QED BY <3>1, <3>2
  <2>2. ASSUME NEW p \in Projections,
               proj'[p].current \in {"absent", "unknown"}
        PROVE  NoCopy(p)'
    <3>1. p # OpProj
      BY <1>4, <2>2
    <3> QED BY <1>3, <1>5, <2>2, <3>1 DEF Settles, PlaceInv, NoCopy, Live
  <2> QED BY <1>3, <2>1, <2>2 DEF PlaceInv, Live
<1>11. TruthInv'
  <2> SUFFICES ASSUME NEW p \in Projections
               PROVE  /\ Shown(p)' =>
                           /\ proj'[p].gid # NULL
                           /\ \/ google[p][proj'[p].gid] = proj'[p].desired
                              \/ /\ proj'[p].gid \in unseen[p]
                                 /\ google[p][proj'[p].gid]
                                      \notin {NONE, CANCELLED}
                                      => proj'[p].etag = "stale"
                      /\ Stamped(p)' /\ proj'[p].desired = ABSENT => NoCopy(p)'
    BY <1>3 DEF TruthInv, Live
  <2>1. CASE p = OpProj
    <3>1. worker.gen # NULL
      BY <1>2, ConstantsAssumption
    <3>2. Op.hash # ABSENT
      BY <1>6, ConstantsAssumption
    <3> QED BY <1>1, <1>4, <1>6, <2>1, <3>1, <3>2
            DEF Settles, WriteInv, Shown, Stamped, Live
  <2>2. CASE p # OpProj
    BY <1>3, <1>5, <2>2
       DEF Settles, TruthInv, Shown, Stamped, NoCopy, Live
  <2> QED BY <2>1, <2>2
<1> QED BY <1>7, <1>8, <1>9, <1>10, <1>11 DEF Settles

(* The record of a delete, and of a copy found gone: nothing is live.      *)
LEMMA AbsentSettles ==
  ASSUME Base, Settles, RecordAbsent \/ TargetGone PROVE Settles'
<1> USE DEF Base
<1>1. /\ worker.pc \in {"absent", "gone"}
      /\ worker.pc \notin {"ingest", "plan"} \cup RecordPC
      /\ worker.pc \in HeldPC \ {"done"} /\ worker.pc \in OpPC
  BY DEF RecordAbsent, TargetGone, HeldPC, OpPC, RecordPC, UpdatePC, DeletePC
<1>2. /\ OpProj \in Projections /\ worker.key.ver <= proj[OpProj].dver
      /\ proj \in [Projections -> ProjRow] /\ proj[OpProj] \in ProjRow
      /\ worker.key \in Keys /\ OpProj = worker.key.proj
  BY <1>1, HeldOp, HeldRow DEF Settles, QueueInv
<1>3. NoCopy(OpProj)
  BY <1>1 DEF Settles, WriteInv
<1>4. /\ worker'.pc \in {"done", "supersede"} /\ worker'.key = worker.key
      /\ worker'.pc \in HeldPC
      /\ UNCHANGED <<ledger, ops, google, unseen>>
  BY WorkerTypes DEF RecordAbsent, TargetGone, Goto, WorkerState, HeldPC
<1>5. /\ proj'[OpProj].desired = proj[OpProj].desired
      /\ proj'[OpProj].dver = proj[OpProj].dver
      /\ \/ /\ proj'[OpProj].gid = proj[OpProj].gid
            /\ proj'[OpProj].etag = proj[OpProj].etag
            /\ proj'[OpProj].aver = worker.key.ver
            /\ proj'[OpProj].applied = ABSENT
         \/ proj'[OpProj].gid = NULL /\ proj'[OpProj].aver = NULL
  <2>1. CASE RecordAbsent
    BY <1>2, <2>1 DEF RecordAbsent, ProjRow
  <2>2. CASE TargetGone
    <3>1. proj'[OpProj] = Forgotten(proj[OpProj])
      BY <1>2, <2>2 DEF TargetGone
    <3> QED BY <1>2, <3>1 DEF Forgotten, ProjRow
  <2> QED BY <2>1, <2>2
<1>6. \A q \in Projections : q # OpProj => proj'[q] = proj[q]
  BY <1>2 DEF RecordAbsent, TargetGone
<1>7. \A p \in Projections :
        proj[p].dver \in Versions /\ proj'[p].dver = proj[p].dver
  BY <1>5, <1>6 DEF TypeInv, TypeOK, ProjRow
<1>8. ~Shown(OpProj)'
  <2>1. proj'[OpProj].dver # NULL
    BY <1>2, <1>7, ConstantsAssumption
  <2> QED BY <1>4, <1>5, <2>1 DEF Shown, Stamped, OpProj
<1>9. \A p \in Projections : Shown(p)' => Shown(p) /\ p # OpProj
  BY <1>4, <1>6, <1>8 DEF Shown, Stamped, OpProj
<1>10. ASSUME NEW p \in Projections, p = OpProj PROVE NoCopy(p)'
  <2>1. NoCopy(p) /\ proj'[p].gid \in {proj[p].gid, NULL}
    BY <1>3, <1>5, <1>10
  <2> QED BY <1>4, <2>1 DEF NoCopy, Live
<1>11. ASSUME NEW p \in Projections, NoCopy(p) PROVE NoCopy(p)'
  <2>1. CASE p # OpProj
    BY <1>4, <1>6, <1>11, <2>1 DEF NoCopy, Live
  <2> QED BY <1>10, <2>1
<1>12. QueueInv'
  <2>1. \A k \in Keys : k.proj \in Projections
    BY DEF Keys
  <2>2. \A p \in Projections : proj[p].dver <= proj'[p].dver
    <3>1. \A v \in Versions : v <= v
      BY ConstantsAssumption
    <3> QED BY <1>7, <3>1
  <2>3. \A k \in Keys : ops'[k].status = "in_flight" =>
          worker'.key = k /\ worker'.pc \in HeldPC
    BY <1>4 DEF Settles, QueueInv
  <2> QED BY <1>1, <1>4, <1>9, <2>1, <2>2, <2>3, QueueKept
          DEF Settles, Outstanding
<1>13. VerdictInv' /\ WriteInv'
  BY <1>4, VerdictKept DEF Settles, WriteInv, RecordPC
<1>14. VersionInv'
  <2>1. \A p \in Projections :
          /\ proj'[p].desired = proj[p].desired
          /\ \/ proj'[p].aver \in {proj[p].aver, NULL}
             \/ proj'[p].aver <= proj[p].dver
    BY <1>2, <1>5, <1>6
  <2> QED BY <1>1, <1>4, <1>7, <2>1, VersionKept DEF Settles, Wanted
<1>15. PlaceInv'
  <2>1. ASSUME NEW p \in Projections
        PROVE  /\ \A g \in Generations : Live(p, g) => proj'[p].gid = g
               /\ proj'[p].gid # NULL =>
                    /\ proj'[p].etag # NULL
                    /\ google[p][proj'[p].gid] # NONE
    <3>1. \A g \in Generations : Live(p, g) => proj[p].gid = g /\ p # OpProj
      BY <1>1, <1>3, ConstantsAssumption DEF Settles, PlaceInv, NoCopy
    <3>2. proj'[p].gid # NULL =>
            proj'[p].gid = proj[p].gid /\ proj'[p].etag = proj[p].etag
      BY <1>5, <1>6
    <3> QED BY <1>6, <3>1, <3>2 DEF Settles, PlaceInv
  <2>2. ASSUME NEW p \in Projections,
               proj'[p].current \in {"absent", "unknown"}
        PROVE  NoCopy(p)'
    BY <1>6, <1>10, <1>11, <2>2 DEF Settles, PlaceInv
  <2> QED BY <1>4, <2>1, <2>2 DEF PlaceInv, Live
<1>16. TruthInv'
  <2> SUFFICES ASSUME NEW p \in Projections
               PROVE  /\ Shown(p)' =>
                           /\ proj'[p].gid # NULL
                           /\ \/ google[p][proj'[p].gid] = proj'[p].desired
                              \/ /\ proj'[p].gid \in unseen[p]
                                 /\ google[p][proj'[p].gid]
                                      \notin {NONE, CANCELLED}
                                      => proj'[p].etag = "stale"
                      /\ Stamped(p)' /\ proj'[p].desired = ABSENT => NoCopy(p)'
    BY <1>4 DEF TruthInv, Live
  <2>1. Shown(p)' => Shown(p) /\ proj'[p] = proj[p]
    BY <1>6, <1>9
  <2>2. Stamped(p)' /\ proj'[p].desired = ABSENT => NoCopy(p)'
    <3>1. CASE p = OpProj
      BY <1>10, <3>1
    <3>2. CASE p # OpProj
      BY <1>6, <1>11, <3>2 DEF Settles, TruthInv, Stamped
    <3> QED BY <3>1, <3>2
  <2> QED BY <2>1, <2>2 DEF Settles, TruthInv, Live
<1> QED BY <1>12, <1>13, <1>14, <1>15, <1>16 DEF Settles

LEMMA DrainSettles ==
  ASSUME Base, Settles, AnswersArrive, DrainStep PROVE Settles'
<1>1. CASE CallFails
  <2>1. /\ MarkRetry \/ MarkRejected
        /\ UNCHANGED <<google, unseen>>
        /\ worker.pc \in {"insert", "conflict", "adopt", "update", "delete"}
    BY <1>1 DEF CallFails
  <2> QED BY <2>1, RaisedSettles
          DEF HeldPC, CreatePC, UpdatePC, DeletePC, RecordPC
<1> QED BY <1>1, ClaimSettles, InsertSettles, LandedSettles, CreateSettles,
           UpdateSettles, DeleteSettles, CloseSettles, RecordSettles,
           AbsentSettles
        DEF DrainStep

-----------------------------------------------------------------------------
(* The pass before the drain.                                              *)

EarlyPC == {"idle", "ingest", "plan", "diff", "rows"}

LEMMA EarlyWorker ==
  ASSUME worker.pc \in EarlyPC
  PROVE  worker.pc \notin HeldPC \cup RecordPC \cup {"gone", "absent", "done"}
BY DEF EarlyPC, HeldPC, CreatePC, UpdatePC, DeletePC, RecordPC

LEMMA StartSettles ==
  ASSUME Base, Settles, StartPass \/ DiffDone PROVE Settles'
<1> USE DEF Base
<1>1. /\ worker.pc \in {"idle", "rows"} /\ worker.pc \in EarlyPC
      /\ worker'.pc \in {"diff", "ingest", "reclaim"}
      /\ UNCHANGED <<ledger, proj, ops, google, unseen>>
  BY WorkerTypes DEF StartPass, DiffDone, Goto, WorkerState, EarlyPC
<1>2. RowsLoosened
  BY <1>1 DEF RowsLoosened
<1>3. QueueInv'
  BY <1>1, <1>2, EarlyWorker, LeaveQueue DEF Settles
<1> QED BY <1>1, <1>2, <1>3, EarlyWorker, QuietDrain DEF RecordPC

LEMMA PlanRowSettles ==
  ASSUME Base, Settles, NEW p \in Projections, PlanRow(p) PROVE Settles'
<1> USE DEF Base
<1>1. /\ worker.pc = "plan" /\ worker.pc \in EarlyPC
      /\ worker'.pc = "plan" /\ worker'.dirty = worker.dirty \ {p}
      /\ worker'.key = worker.key
      /\ UNCHANGED <<ledger, ops, google, unseen>>
  BY WorkerTypes DEF PlanRow, WorkerState, EarlyPC
<1>2. \A q \in Projections : q # p => proj'[q] = proj[q]
  BY DEF PlanRow, TypeInv, TypeOK
<1>3. /\ proj'[p].desired = Wanted(p) /\ proj'[p].aver = proj[p].aver
      /\ proj'[p].applied = proj[p].applied /\ proj'[p].gid = proj[p].gid
      /\ proj'[p].etag = proj[p].etag /\ proj'[p].current = proj[p].current
      /\ \/ /\ proj[p].desired = Wanted(p) /\ proj'[p].dver = proj[p].dver
         \/ /\ proj[p].desired # Wanted(p)
            /\ proj'[p].dver = ledger[p].version
  BY RowTypes DEF PlanRow, Planned, TypeInv, TypeOK, ProjRow
<1>4. /\ proj[p].dver \in Nat /\ ledger[p].version \in Nat
      /\ proj[p].aver # NULL => proj[p].aver \in Nat
  BY RowTypes, LedgerTypes, ConstantsAssumption DEF ProjRow, LedgerRow
<1>5. /\ proj[p].dver <= ledger[p].version
      /\ proj[p].aver # NULL => proj[p].aver <= proj[p].dver
      /\ proj[p].desired # Wanted(p) => proj[p].dver < ledger[p].version
  BY DEF Settles, VersionInv
<1>6. proj'[p].dver \in Versions /\ proj'[p].dver # NULL
  BY ConstantsAssumption DEF TypeInv, TypeOK, ProjRow
<1>7. Stamped(p)' => Stamped(p) /\ proj'[p].desired = proj[p].desired
  <2>1. CASE proj[p].desired = Wanted(p) /\ proj'[p].dver = proj[p].dver
    BY <1>3, <2>1 DEF Stamped
  <2>2. CASE proj[p].desired # Wanted(p) /\ proj'[p].dver = ledger[p].version
    <3>1. proj'[p].aver # proj'[p].dver
      BY <1>3, <1>4, <1>5, <1>6, <2>2
    <3> QED BY <3>1 DEF Stamped
  <2> QED BY <1>3, <2>1, <2>2
<1>8. \A q \in Projections :
        Stamped(q)' => Stamped(q) /\ proj'[q].desired = proj[q].desired
  BY <1>2, <1>7 DEF Stamped
<1>9. \A q \in Projections : proj[q].dver <= proj'[q].dver
  <2>1. proj[p].dver <= proj'[p].dver
    BY <1>3, <1>4, <1>5
  <2>2. ASSUME NEW q \in Projections PROVE proj[q].dver <= proj[q].dver
    <3>1. proj[q].dver \in Nat
      BY RowTypes, ConstantsAssumption DEF ProjRow
    <3> QED BY <3>1
  <2> QED BY <1>2, <2>1, <2>2
<1>10. QueueInv'
  <2>1. \A k \in Keys : ops'[k].status # "in_flight"
    BY <1>1, EarlyWorker DEF Settles, QueueInv
  <2>2. \A q \in Projections : Shown(q)' => Shown(q)
    BY <1>8 DEF Shown
  <2>3. \A k \in Keys : k.proj \in Projections
    BY DEF Keys
  <2> QED BY <1>1, <1>9, <2>1, <2>2, <2>3, QueueKept DEF Settles, Outstanding
<1>11. VerdictInv' /\ WriteInv'
  BY <1>1 DEF VerdictInv, WriteInv, RecordPC
<1>12. VersionInv'
  <2>1. ASSUME NEW q \in Projections
        PROVE  /\ proj'[q].dver <= ledger'[q].version
               /\ proj'[q].aver # NULL => proj'[q].aver <= proj'[q].dver
               /\ proj'[q].desired # Wanted(q)' =>
                    /\ proj'[q].dver < ledger'[q].version
                    /\ q \in worker'.dirty
    <3>1. Wanted(q)' = Wanted(q)
      BY <1>1 DEF Wanted
    <3>2. CASE q = p
      BY <1>1, <1>3, <1>4, <1>5, <3>1, <3>2
    <3>3. CASE q # p
      BY <1>1, <1>2, <3>1, <3>3 DEF Settles, VersionInv
    <3> QED BY <3>2, <3>3
  <2> QED BY <1>1, <2>1 DEF VersionInv
<1>13. \A q \in Projections :
         /\ proj'[q].gid = proj[q].gid /\ proj'[q].etag = proj[q].etag
         /\ proj'[q].current = proj[q].current
         /\ proj'[q].gid \in Generations \cup {NULL}
  BY <1>2, <1>3 DEF TypeInv, TypeOK, ProjRow
<1>14. PlaceInv'
  BY <1>1, <1>13, EarlyWorker, PlaceKept DEF Settles, Live
<1>15. TruthInv'
  BY <1>1, <1>8, <1>13, TruthKept DEF Settles, Live
<1> QED BY <1>10, <1>11, <1>12, <1>14, <1>15 DEF Settles

(* Past the plan phase, and past the read of the queue, nothing is stale.  *)
LEMMA PhaseSettles ==
  ASSUME Base, Settles, PlanDone \/ IngestDone \/ RecordAffected,
         ~Spend("listing")
  PROVE  Settles'
<1> USE DEF Base
<1>1. /\ worker.pc \in {"plan", "ingest"} /\ worker.pc \in EarlyPC
      /\ worker'.pc \in {"ingest", "plan", "diff"}
      /\ UNCHANGED <<proj, ops, google, unseen>>
  BY WorkerTypes
     DEF PlanDone, IngestDone, RecordAffected, ReadAffected, Goto, WorkerState,
         EarlyPC
<1>2. RowsLoosened
  BY <1>1 DEF RowsLoosened
<1>3. QueueInv'
  BY <1>1, <1>2, EarlyWorker, LeaveQueue DEF Settles
<1>4. VerdictInv'
  BY <1>1 DEF VerdictInv
<1>5. PlaceInv' /\ WriteInv' /\ TruthInv'
  BY <1>1, <1>2, EarlyWorker, QuietCopies DEF RecordPC
<1>6. VersionInv'
  <2>1. ASSUME NEW p \in Projections
        PROVE  Wanted(p)' = Wanted(p) /\ ledger'[p].version = ledger[p].version
    BY LedgerTypes, QueueMoves
       DEF PlanDone, IngestDone, ReadAffected, Wanted, LedgerRow, QueueMoved
  <2>4. CASE RecordAffected
    BY <1>1, <2>1, <2>4, VersionKept DEF RecordAffected, Settles
  <2>2. CASE PlanDone
    <3>1. \A p \in Projections : proj[p].desired = Wanted(p)
      BY <2>2 DEF PlanDone, Settles, VersionInv
    <3> QED BY <1>1, <2>1, <3>1 DEF Settles, VersionInv
  <2>3. CASE IngestDone
    <3>1. worker'.pc = "plan"
          /\ worker'.dirty = {p \in Projections : Queued(p)}
      BY <2>3, WorkerTypes DEF IngestDone, ReadAffected, WorkerState
    <3>2. \A p \in Projections : "listed" \notin ledger[p].queued
      BY <2>3 DEF IngestDone
    <3>3. \A p \in Projections :
            proj[p].desired # Wanted(p) => p \in worker'.dirty
      BY <3>1, <3>2 DEF PlanInv, Uncleaned, Queued
    <3> QED BY <1>1, <2>1, <3>1, <3>3 DEF Settles, VersionInv
  <2> QED BY <2>2, <2>3, <2>4
<1> QED BY <1>3, <1>4, <1>5, <1>6 DEF Settles

(* The verdicts: each about a row that asks for what the event is now.     *)
LEMMA SelectSettles ==
  ASSUME Base, Settles, SelectDiverged PROVE Settles'
<1> USE DEF Base
<1>1. /\ worker.pc = "diff" /\ worker.pc \in EarlyPC /\ worker'.pc = "rows"
      /\ UNCHANGED <<ledger, proj, ops, google, unseen>>
  BY WorkerTypes DEF SelectDiverged, WorkerState, EarlyPC
<1>2. RowsLoosened
  BY <1>1 DEF RowsLoosened
<1>3. QueueInv'
  BY <1>1, <1>2, EarlyWorker, LeaveQueue DEF Settles
<1>4. PlaceInv' /\ WriteInv' /\ TruthInv'
  BY <1>1, <1>2, EarlyWorker, QuietCopies DEF RecordPC
<1>5. VersionInv'
  BY <1>1, VersionKept DEF Settles, Wanted
<1>6. VerdictInv'
  <2>1. ASSUME NEW p \in Projections, worker'.todo[p] # NULL
        PROVE  /\ ~Stamped(p)
               /\ worker'.todo[p].ver = proj[p].dver
               /\ worker'.todo[p].kind \in {"create", "update"}
                    => worker'.todo[p].body = worker'.todo[p].hash
               /\ worker'.todo[p].kind = "converged"
                    => /\ proj[p].desired = ABSENT
                       /\ proj[p].gid = NULL \/ proj[p].current = "absent"
    <3>1. Diverged(p) /\ worker'.todo[p] = Decide(p)
      BY <2>1, WorkerTypes DEF SelectDiverged, WorkerState
    <3>2. ~Stamped(p)
      BY <3>1 DEF Diverged, Stamped
    <3>3. proj[p].desired = Wanted(p)
      BY <1>1 DEF Settles, VersionInv
    <3>4. proj[p].desired # ABSENT => ledger[p].content = proj[p].desired
      BY <3>3 DEF Wanted
    <3>5. /\ DecideKind(proj[p]) \in {"create", "update"}
               => proj[p].desired # ABSENT
          /\ DecideKind(proj[p]) = "converged"
               => /\ proj[p].desired = ABSENT
                  /\ proj[p].gid = NULL \/ proj[p].current = "absent"
      BY DEF DecideKind
    <3> QED BY <3>1, <3>2, <3>4, <3>5 DEF Decide
  <2> QED BY <1>1, <2>1 DEF VerdictInv, Stamped
<1> QED BY <1>3, <1>4, <1>5, <1>6 DEF Settles

(* A verdict to do nothing: the stamp says that there is no copy.          *)
LEMMA SnapSettles ==
  ASSUME Base, Settles, NEW p \in Projections, DiffRow(p),
         worker.todo[p].kind = "converged"
  PROVE  Settles'
<1> USE DEF Base
<1> DEFINE v == worker.todo[p]
<1>1. /\ worker.pc = "rows" /\ worker.pc \in EarlyPC /\ v # NULL
      /\ Snap(p, v) /\ UNCHANGED <<ledger, ops, google, unseen>>
      /\ worker' = [worker EXCEPT !.todo[p] = NULL]
  BY DEF DiffRow, EarlyPC
<1>2. /\ worker'.pc = "rows" /\ worker'.todo[p] = NULL
      /\ \A q \in Projections : q # p => worker'.todo[q] = worker.todo[q]
  BY <1>1, WorkerTypes DEF WorkerState
<1>3. /\ proj[p].desired = ABSENT /\ v.ver = proj[p].dver
      /\ proj[p].gid = NULL \/ proj[p].current = "absent"
  BY <1>1 DEF Settles, VerdictInv
<1>4. NoCopy(p)
  BY <1>3 DEF Settles, PlaceInv, NoCopy
<1>5. \A q \in Projections : q # p => proj'[q] = proj[q]
  BY <1>1 DEF Snap, TypeInv, TypeOK
<1>6. /\ proj'[p].desired = proj[p].desired /\ proj'[p].dver = proj[p].dver
      /\ proj'[p].aver = proj[p].dver /\ proj'[p].gid = proj[p].gid
      /\ proj'[p].etag = proj[p].etag
  <2>1. proj[p] \in ProjRow
    BY RowTypes
  <2>2. proj'[p] = [proj[p] EXCEPT !.aver = v.ver, !.applied = proj[p].desired,
                                   !.current = "absent"]
    BY <1>1 DEF Snap, TypeInv, TypeOK
  <2> QED BY <1>3, <2>1, <2>2 DEF ProjRow
<1> HIDE DEF v
<1>7. \A q \in Projections : Shown(q)' => Shown(q)
  BY <1>3, <1>5, <1>6 DEF Shown, Stamped
<1>8. QueueInv'
  <2>1. \A k \in Keys : ops'[k].status # "in_flight"
    BY <1>1, EarlyWorker DEF Settles, QueueInv
  <2>2. \A k \in Keys : k.proj \in Projections
    BY DEF Keys
  <2>3. ASSUME NEW q \in Projections PROVE proj[q].dver <= proj'[q].dver
    <3>1. proj[q].dver \in Nat /\ proj'[q].dver = proj[q].dver
      BY <1>5, <1>6, RowTypes, ConstantsAssumption DEF ProjRow
    <3> QED BY <3>1
  <2> QED BY <1>1, <1>7, <2>1, <2>2, <2>3, QueueKept DEF Settles, Outstanding
<1>9. VerdictInv'
  BY <1>1, <1>2, <1>5 DEF Settles, VerdictInv, Stamped
<1>10. VersionInv'
  <2>1. proj[p].dver <= proj[p].dver
    <3>1. proj[p].dver \in Nat
      BY RowTypes, ConstantsAssumption DEF ProjRow
    <3> QED BY <3>1
  <2>2. \A q \in Projections :
          /\ proj'[q].desired = proj[q].desired /\ proj'[q].dver = proj[q].dver
          /\ proj'[q].aver = proj[q].aver \/ proj'[q].aver <= proj[q].dver
    BY <1>5, <1>6, <2>1
  <2> QED BY <1>1, <1>2, <2>2, VersionKept DEF Settles, Wanted
<1>11. \A q \in Projections :
         proj'[q].gid = proj[q].gid /\ proj'[q].etag = proj[q].etag
  BY <1>5, <1>6
<1>12. ASSUME NEW q \in Projections PROVE NoCopy(q)' <=> NoCopy(q)
  BY <1>1, <1>11 DEF NoCopy, Live
<1>13. PlaceInv'
  <2>1. ASSUME NEW q \in Projections,
               proj'[q].current \in {"absent", "unknown"}
        PROVE  NoCopy(q)'
    <3>1. CASE q = p
      BY <1>4, <1>12, <3>1
    <3>2. CASE q # p
      BY <1>5, <1>12, <2>1, <3>2 DEF Settles, PlaceInv
    <3> QED BY <3>1, <3>2
  <2> QED BY <1>1, <1>11, <2>1, EarlyWorker DEF Settles, PlaceInv, Live
<1>14. WriteInv'
  BY <1>2 DEF WriteInv, RecordPC
<1>15. TruthInv'
  <2> SUFFICES ASSUME NEW q \in Projections
               PROVE  /\ Shown(q)' =>
                           /\ proj'[q].gid # NULL
                           /\ \/ google[q][proj'[q].gid] = proj'[q].desired
                              \/ /\ proj'[q].gid \in unseen[q]
                                 /\ google[q][proj'[q].gid]
                                      \notin {NONE, CANCELLED}
                                      => proj'[q].etag = "stale"
                      /\ Stamped(q)' /\ proj'[q].desired = ABSENT => NoCopy(q)'
    BY <1>1 DEF TruthInv, Live
  <2>1. CASE q = p
    BY <1>3, <1>4, <1>6, <1>12, <2>1 DEF Shown
  <2>2. CASE q # p
    BY <1>5, <1>12, <2>2 DEF Settles, TruthInv, Shown, Stamped, Live
  <2> QED BY <2>1, <2>2
<1> QED BY <1>8, <1>9, <1>10, <1>13, <1>14, <1>15 DEF Settles

(* A verdict to write: its row replaces the one that was waiting.          *)
LEMMA EnqueueSettles ==
  ASSUME Base, Settles, NEW p \in Projections, DiffRow(p),
         worker.todo[p].kind # "converged"
  PROVE  Settles'
<1> USE DEF Base
<1>1. /\ worker.pc = "rows" /\ worker.pc \in EarlyPC /\ worker.todo[p] # NULL
      /\ Enqueue(p, worker.todo[p])
      /\ UNCHANGED <<ledger, proj, google, unseen>>
      /\ worker' = [worker EXCEPT !.todo[p] = NULL]
  BY DEF DiffRow, EarlyPC
<1>2. /\ worker'.pc = "rows" /\ worker'.todo[p] = NULL
      /\ \A q \in Projections : q # p => worker'.todo[q] = worker.todo[q]
  BY <1>1, WorkerTypes DEF WorkerState
<1>3. PICK v \in Verdict : v = worker.todo[p]
  BY <1>1, WorkerTypes DEF WorkerState
<1>4. /\ ~Stamped(p) /\ v.ver = proj[p].dver
      /\ v.kind \in {"create", "update"} => v.body = v.hash
      /\ v.kind \in Kinds /\ v.ver \in Versions
  BY <1>1, <1>3 DEF Settles, VerdictInv, Verdict
<1>5. RowsLoosened
  BY <1>1 DEF RowsLoosened
<1>6. PlaceInv' /\ WriteInv' /\ TruthInv'
  BY <1>1, <1>2, <1>5, EarlyWorker, QuietCopies DEF RecordPC
<1>7. VersionInv'
  BY <1>1, <1>2, VersionKept DEF Settles, Wanted
<1>8. VerdictInv'
  BY <1>1, <1>2 DEF Settles, VerdictInv, Stamped
<1>9. QueueInv'
  <2>1. PICK k \in Keys : k = [proj |-> p, ver |-> v.ver, kind |-> v.kind]
    BY <1>4 DEF Keys
  <2>2. CASE Outstanding(k)
    <3>1. UNCHANGED ops
      BY <1>1, <1>3, <2>1, <2>2 DEF Enqueue
    <3> QED BY <1>1, <1>5, <3>1, EarlyWorker, LeaveQueue DEF Settles
  <2>3. CASE ~Outstanding(k)
    <3>1. PICK id \in Nat :
            ops' = [j \in Keys |->
                      IF j = k
                        THEN [status |-> "pending", hash |-> v.hash,
                              body |-> v.body, attempts |-> 0, ripe |-> TRUE,
                              id |-> id]
                        ELSE IF j.proj = p /\ ops[j].status = "pending"
                               THEN Close(ops[j]) ELSE ops[j]]
      <4>1. (IF ops[k].id = 0 THEN lastId + 1 ELSE ops[k].id) \in Nat
        BY DEF TypeInv, TypeOK, OpRow
      <4> QED BY <1>1, <1>3, <2>1, <2>3, <4>1 DEF Enqueue, Superseded
    <3>2. \A j \in Keys : ops[j].status # "in_flight"
      BY <1>1, EarlyWorker DEF Settles, QueueInv
    <3>3. /\ ops'[k].status = "pending"
          /\ ops'[k].hash = v.hash /\ ops'[k].body = v.body
      BY <3>1
    <3>4. ASSUME NEW j \in Keys, j # k, Outstanding(j)'
          PROVE  j.proj # p /\ ops'[j] = ops[j] /\ Outstanding(j)
      <4>1. CASE j.proj = p /\ ops[j].status = "pending"
        <5>1. Close(ops[j]).status = "closed"
          BY DEF Close, TypeInv, TypeOK, OpRow
        <5> QED BY <3>1, <3>4, <4>1, <5>1 DEF Outstanding
      <4>2. CASE ~(j.proj = p /\ ops[j].status = "pending")
        BY <3>1, <3>2, <3>4, <4>2 DEF Outstanding
      <4> QED BY <4>1, <4>2
    <3>5. \A j \in Keys : ops'[j].status # "in_flight"
      BY <3>2, <3>3, <3>4 DEF Outstanding
    <3>6. k.proj = p /\ k.kind = v.kind /\ k.ver = v.ver
      BY <2>1
    <3>7. k.ver <= proj[p].dver
      <4>1. proj[p].dver \in Nat
        BY RowTypes, ConstantsAssumption DEF ProjRow
      <4> QED BY <1>4, <3>6, <4>1
    <3>8. ASSUME NEW j \in Keys, Outstanding(j)'
          PROVE  /\ \A i \in Keys :
                      Outstanding(i)' /\ i.proj = j.proj => i = j
                 /\ j.kind # "delete" => ops'[j].body = ops'[j].hash
                 /\ j.ver <= proj'[j.proj].dver
                 /\ ~Shown(j.proj)'
      <4>1. CASE j = k
        BY <1>1, <1>4, <3>3, <3>4, <3>6, <3>7, <4>1
           DEF Kinds, Shown, Stamped
      <4>2. CASE j # k
        <5>1. j.proj # p /\ ops'[j] = ops[j] /\ Outstanding(j)
          BY <3>4, <3>8, <4>2
        <5>2. \A i \in Keys : Outstanding(i)' /\ i.proj = j.proj => i = j
          BY <3>4, <3>6, <5>1 DEF Settles, QueueInv
        <5>3. ~Shown(j.proj)
          BY <1>1, <5>1 DEF Settles, QueueInv
        <5> QED BY <1>1, <5>1, <5>2, <5>3
                DEF Settles, QueueInv, Shown, Stamped
      <4> QED BY <4>1, <4>2
    <3> QED BY <3>5, <3>8 DEF QueueInv
  <2> QED BY <2>2, <2>3
<1> QED BY <1>6, <1>7, <1>8, <1>9 DEF Settles

-----------------------------------------------------------------------------
(* Ingest.                                                                 *)

(* The row as SourceChange found the event, before the version.            *)
LEMMA ChangedRow ==
  ASSUME TypeInv, NEW p \in Projections,
         NEW row \in {[ledger[p] EXCEPT !.active = ~@],
                      [ledger[p] EXCEPT !.active = FALSE]}
                \cup {[ledger[p] EXCEPT !.content = c] : c \in Contents}
  PROVE  row \in LedgerRow /\ row.version = ledger[p].version
<1>1. CASE row = [ledger[p] EXCEPT !.active = ~@]
  BY <1>1, LedgerTypes DEF LedgerRow
<1>2. CASE row = [ledger[p] EXCEPT !.active = FALSE]
  BY <1>2, LedgerTypes DEF LedgerRow
<1>3. ASSUME NEW c \in Contents, row = [ledger[p] EXCEPT !.content = c]
      PROVE  row \in LedgerRow /\ row.version = ledger[p].version
  BY <1>3, LedgerTypes DEF LedgerRow
<1> QED BY <1>1, <1>2, <1>3

LEMMA SourceSettles ==
  ASSUME Base, Settles, NEW p \in Projections, SourceChange(p) PROVE Settles'
<1> USE DEF Base
<1>1. /\ worker.pc = "ingest" /\ worker.pc \in EarlyPC
      /\ UNCHANGED <<proj, ops, google, unseen, worker>>
  BY DEF SourceChange, EarlyPC
<1>2. RowsLoosened
  BY <1>1 DEF RowsLoosened
<1>3. QueueInv'
  BY <1>1, <1>2, EarlyWorker, LeaveQueue DEF Settles
<1>4. VerdictInv'
  BY <1>1 DEF VerdictInv
<1>5. PlaceInv' /\ WriteInv' /\ TruthInv'
  BY <1>1, <1>2, EarlyWorker, QuietCopies
<1>6. VersionInv'
  <2>1. PICK row \in {[ledger[p] EXCEPT !.active = ~@],
                      [ledger[p] EXCEPT !.active = FALSE]}
                \cup {[ledger[p] EXCEPT !.content = c] : c \in Contents} :
          ledger' = [ledger EXCEPT ![p] =
                       [row EXCEPT !.version = @ + 1,
                                   !.queued = @ \cup {"listed"}]]
    BY DEF SourceChange
  <2>2. row \in LedgerRow /\ row.version = ledger[p].version
    BY <2>1, ChangedRow
  <2>3. ledger'[p].version = ledger[p].version + 1
    BY <2>1, <2>2 DEF LedgerRow, TypeInv, TypeOK
  <2>4. \A q \in Projections : q # p => ledger'[q] = ledger[q]
    BY <2>1 DEF TypeInv, TypeOK
  <2>5. /\ proj[p].dver \in Nat /\ ledger[p].version \in Nat
        /\ proj[p].dver <= ledger[p].version
    BY RowTypes, LedgerTypes, ConstantsAssumption
       DEF Settles, VersionInv, ProjRow, LedgerRow
  <2>6. proj[p].dver < ledger'[p].version /\ proj[p].dver <= ledger'[p].version
    BY <2>3, <2>5
  <2> QED BY <1>1, <2>4, <2>6 DEF Settles, VersionInv, Wanted
<1> QED BY <1>3, <1>4, <1>5, <1>6 DEF Settles

(* What ingest reads of a copy ends the stamp, or is as the stamp says.    *)
LEMMA IngestSettles ==
  ASSUME Base, Settles, NEW p \in Projections, IngestCopy(p) PROVE Settles'
<1> USE DEF Base
<1>1. /\ worker.pc = "ingest" /\ worker.pc \in EarlyPC
      /\ worker'.pc = "ingest" /\ worker'.key = worker.key
      /\ UNCHANGED <<ledger, ops, google>>
  BY WorkerTypes DEF IngestCopy, WorkerState, EarlyPC
<1>2. /\ \A q \in Projections :
           q # p => proj'[q] = proj[q] /\ unseen'[q] = unseen[q]
      /\ proj'[p] = Listed(p)
  BY DEF IngestCopy, TypeInv, TypeOK
<1>3. /\ proj'[p].desired = proj[p].desired /\ proj'[p].dver = proj[p].dver
      /\ \/ /\ proj'[p] = proj[p]
            /\ proj[p].gid # NULL /\ proj[p].gid \in unseen[p] =>
                 IF Live(p, proj[p].gid) THEN proj[p].etag # "stale"
                                         ELSE proj[p].desired = ABSENT
         \/ /\ proj'[p].gid = proj[p].gid /\ proj'[p].etag = "match"
            /\ proj'[p].current = proj[p].current /\ proj'[p].aver = NULL
         \/ /\ proj'[p].gid = NULL /\ proj'[p].aver = NULL /\ NoCopy(p)
  <2>1. proj[p] \in ProjRow
    BY RowTypes
  <2>2. CASE proj'[p] = proj[p]
             /\ (proj[p].gid = NULL \/ proj[p].gid \notin unseen[p])
    BY <2>2
  <2>3. CASE /\ proj[p].gid # NULL /\ proj[p].gid \in unseen[p]
             /\ ~Live(p, proj[p].gid)
    <3>1. CASE proj[p].desired = ABSENT
      BY <1>2, <2>3, <3>1 DEF Listed
    <3>2. CASE proj[p].desired # ABSENT
      <4>1. proj'[p] = Forgotten(proj[p])
        BY <1>2, <2>3, <3>2 DEF Listed
      <4> QED BY <2>1, <2>3, <4>1 DEF Forgotten, ProjRow, NoCopy
    <3> QED BY <3>1, <3>2
  <2>4. CASE /\ proj[p].gid # NULL /\ proj[p].gid \in unseen[p]
             /\ Live(p, proj[p].gid)
    <3>1. CASE proj[p].etag = "stale"
      <4>1. proj'[p] = [proj[p] EXCEPT !.aver = NULL, !.etag = "match"]
        BY <1>2, <2>4, <3>1 DEF Listed
      <4> QED BY <2>1, <4>1 DEF ProjRow
    <3>2. CASE proj[p].etag # "stale"
      BY <1>2, <2>4, <3>2 DEF Listed
    <3> QED BY <3>1, <3>2
  <2> QED BY <1>2, <2>2, <2>3, <2>4 DEF Listed
<1>4. proj'[p].dver # NULL
  BY ConstantsAssumption DEF TypeInv, TypeOK, ProjRow
<1>5. Stamped(p)' => Stamped(p) /\ proj'[p] = proj[p]
  BY <1>3, <1>4 DEF Stamped
<1>6. \A q \in Projections : Stamped(q)' => Stamped(q) /\ proj'[q] = proj[q]
  BY <1>2, <1>5 DEF Stamped
<1>7. QueueInv'
  <2>1. \A k \in Keys : ops'[k].status # "in_flight"
    BY <1>1, EarlyWorker DEF Settles, QueueInv
  <2>2. \A q \in Projections : Shown(q)' => Shown(q)
    BY <1>6 DEF Shown
  <2>3. \A k \in Keys : k.proj \in Projections
    BY DEF Keys
  <2>4. ASSUME NEW q \in Projections PROVE proj[q].dver <= proj'[q].dver
    <3>1. proj[q].dver \in Nat /\ proj'[q].dver = proj[q].dver
      BY <1>2, <1>3, RowTypes, ConstantsAssumption DEF ProjRow
    <3> QED BY <3>1
  <2> QED BY <1>1, <2>1, <2>2, <2>3, <2>4, QueueKept DEF Settles, Outstanding
<1>8. VerdictInv' /\ WriteInv'
  BY <1>1 DEF VerdictInv, WriteInv, RecordPC
<1>9. VersionInv'
  <2>1. \A q \in Projections :
          /\ proj'[q].desired = proj[q].desired /\ proj'[q].dver = proj[q].dver
          /\ proj'[q].aver \in {proj[q].aver, NULL}
    BY <1>2, <1>3
  <2> QED BY <1>1, <2>1, VersionKept DEF Settles, Wanted
<1>10. PlaceInv'
  <2>1. ASSUME NEW q \in Projections
        PROVE  /\ \A g \in Generations : Live(q, g) => proj'[q].gid = g
               /\ proj'[q].gid # NULL =>
                    /\ proj'[q].etag # NULL
                    /\ google[q][proj'[q].gid] # NONE
               /\ proj'[q].current \in {"absent", "unknown"} =>
                    \/ proj'[q].gid = NULL
                    \/ NoCopy(q) /\ proj'[q].gid = proj[q].gid
    <3>1. /\ \A g \in Generations : Live(q, g) => proj[q].gid = g
          /\ proj[q].gid # NULL =>
               proj[q].etag # NULL /\ google[q][proj[q].gid] # NONE
          /\ proj[q].current \in {"absent", "unknown"} => NoCopy(q)
      BY <1>1, EarlyWorker DEF Settles, PlaceInv
    <3>2. CASE proj'[q] = proj[q]
      BY <3>1, <3>2
    <3>3. CASE proj'[q] # proj[q]
      <4>1. q = p
        BY <1>2, <3>3
      <4>2. CASE /\ proj'[p].gid = proj[p].gid /\ proj'[p].etag = "match"
                 /\ proj'[p].current = proj[p].current
        BY <3>1, <4>1, <4>2, ConstantsAssumption
      <4>3. CASE proj'[p].gid = NULL /\ NoCopy(p)
        <5>1. \A g \in Generations : ~Live(p, g)
          BY <3>1, <4>1, <4>3, ConstantsAssumption DEF NoCopy
        <5>2. proj'[q].gid = NULL /\ \A g \in Generations : ~Live(q, g)
          BY <4>1, <4>3, <5>1
        <5> QED BY <5>2
      <4> QED BY <1>3, <3>3, <4>1, <4>2, <4>3
    <3> QED BY <3>2, <3>3
  <2> QED BY <1>1, <2>1 DEF PlaceInv, NoCopy, Live
<1>11. TruthInv'
  <2> SUFFICES ASSUME NEW q \in Projections, Stamped(q)'
               PROVE  /\ proj[q].desired # ABSENT =>
                           /\ proj[q].gid # NULL
                           /\ \/ google[q][proj[q].gid] = proj[q].desired
                              \/ /\ proj[q].gid \in unseen'[q]
                                 /\ Live(q, proj[q].gid)
                                      => proj[q].etag = "stale"
                      /\ proj[q].desired = ABSENT => NoCopy(q)
    BY <1>1, <1>6 DEF TruthInv, Shown, NoCopy, Live
  <2>1. Stamped(q) /\ proj'[q] = proj[q]
    BY <1>6
  <2>2. CASE q # p
    BY <1>2, <2>1, <2>2 DEF Settles, TruthInv, Shown
  <2>3. CASE q = p
    <3>1. proj'[p].aver # NULL
      BY <1>4, <2>3 DEF Stamped
    <3>2. proj[p].gid # NULL /\ proj[p].gid \in unseen[p] =>
            IF Live(p, proj[p].gid) THEN proj[p].etag # "stale"
                                    ELSE proj[p].desired = ABSENT
      BY <1>3, <2>1, <2>3, <3>1
    <3> QED BY <2>1, <2>3, <3>2 DEF Settles, TruthInv, Shown
  <2> QED BY <2>2, <2>3
<1> QED BY <1>7, <1>8, <1>9, <1>10, <1>11 DEF Settles

LEMMA IngestFailsSettles ==
  ASSUME Base, Settles, NEW p \in Projections, IngestFails(p) PROVE Settles'
<1> USE DEF Base
<1>1. /\ worker.pc = "ingest" /\ worker.pc \in EarlyPC
      /\ worker'.pc = "ingest"
      /\ UNCHANGED <<ledger, proj, ops, google, unseen>>
  BY WorkerTypes DEF IngestFails, WorkerState, EarlyPC
<1>2. RowsLoosened
  BY <1>1 DEF RowsLoosened
<1>3. QueueInv'
  BY <1>1, <1>2, EarlyWorker, LeaveQueue DEF Settles
<1>4. VerdictInv' /\ VersionInv'
  BY <1>1, VersionKept DEF VerdictInv, Settles, Wanted
<1>5. PlaceInv' /\ WriteInv' /\ TruthInv'
  BY <1>1, <1>2, EarlyWorker, QuietCopies DEF RecordPC
<1> QED BY <1>3, <1>4, <1>5 DEF Settles

-----------------------------------------------------------------------------
(* People, operators and time.                                             *)

(* The worker, but for the ETag it holds, and the outbox, but for its      *)
(* clocks, are as they were.                                               *)
OutsideStep ==
  /\ UNCHANGED ledger
  /\ worker'.pc = worker.pc /\ worker'.key = worker.key
  /\ worker'.gen = worker.gen /\ worker'.todo = worker.todo
  /\ worker'.dirty = worker.dirty
  /\ \A k \in Keys : /\ ops'[k].status = ops[k].status
                     /\ ops'[k].hash = ops[k].hash
                     /\ ops'[k].body = ops[k].body
  /\ \A p \in Projections :
       /\ proj'[p].desired = proj[p].desired /\ proj'[p].dver = proj[p].dver
       /\ proj'[p].applied = proj[p].applied /\ proj'[p].aver = proj[p].aver
       /\ proj'[p].gid = proj[p].gid /\ proj'[p].current = proj[p].current

LEMMA OutsideSettles ==
  ASSUME Base, Settles, OutsideStep
  PROVE  QueueInv' /\ VerdictInv' /\ VersionInv'
<1> USE DEF Base, OutsideStep
<1>1. \A p \in Projections : Shown(p)' => Shown(p)
  BY DEF Shown, Stamped
<1>2. \A k \in Keys : k.proj \in Projections
  BY DEF Keys
<1>3. ASSUME NEW q \in Projections PROVE proj[q].dver <= proj'[q].dver
  <2>1. proj[q].dver \in Nat
    BY RowTypes, ConstantsAssumption DEF ProjRow
  <2> QED BY <2>1
<1>4. \A k \in Keys : ops'[k].status = "in_flight" =>
        worker'.key = k /\ worker'.pc \in HeldPC
  BY DEF Settles, QueueInv
<1>5. QueueInv'
  BY <1>1, <1>2, <1>3, <1>4, QueueKept DEF Settles, Outstanding
<1>6. VerdictInv'
  BY VerdictKept DEF Settles
<1>7. VersionInv'
  BY VersionKept DEF Settles, Wanted
<1> QED BY <1>5, <1>6, <1>7

(* A person's change of a live copy: if it is the recorded one, or the one *)
(* about to be, ingest will list it with an ETag that is not ours.         *)
LEMMA EditSettles ==
  ASSUME Base, Settles, NEW p \in Projections, NEW g \in Generations,
         UserEdit(p, g) \/ UserDelete(p, g)
  PROVE  Settles'
<1> USE DEF Base
<1>1. PICK what \in {TAMPERED, CANCELLED} :
        /\ Live(p, g) /\ GoogleWrites(p, g, what)
        /\ what = CANCELLED \/ UserEdit(p, g)
  BY DEF UserEdit, UserDelete
<1>2. /\ \A q \in Projections, h \in Generations :
           google'[q][h] = IF q = p /\ h = g THEN what ELSE google[q][h]
      /\ \A q \in Projections : unseen[q] \subseteq unseen'[q]
      /\ g \in unseen'[p]
  BY <1>1 DEF GoogleWrites, TypeInv, TypeOK
<1>3. \A q \in Projections, h \in Generations :
        /\ Live(q, h)' => Live(q, h)
        /\ google[q][h] # NONE => google'[q][h] # NONE
        /\ ~(q = p /\ h = g) => google'[q][h] = google[q][h]
  BY <1>1, <1>2 DEF Live
<1>4. /\ OutsideStep
      /\ \A q \in Projections :
           /\ proj'[q].gid \in Generations \cup {NULL}
           /\ \/ proj'[q].etag = proj[q].etag
              \/ q = p /\ proj[p].gid = g /\ proj'[p].etag = "stale"
           /\ UserEdit(p, g) /\ proj[p].gid = g => proj'[p].etag = "stale"
  <2>1. CASE UserDelete(p, g)
    <3>1. UNCHANGED <<ledger, proj, ops, worker>>
      BY <2>1 DEF UserDelete
    <3>2. ~UserEdit(p, g)
      <4>1. UserEdit(p, g) => google'[p][g] = TAMPERED
        BY DEF UserEdit, GoogleWrites, TypeInv, TypeOK
      <4>2. google'[p][g] = CANCELLED
        BY <2>1 DEF UserDelete, GoogleWrites, TypeInv, TypeOK
      <4> QED BY <4>1, <4>2
    <3> QED BY <3>1, <3>2 DEF OutsideStep, TypeInv, TypeOK, ProjRow
  <2>2. CASE UserEdit(p, g)
    <3>1. /\ worker'.pc = worker.pc /\ worker'.key = worker.key
          /\ worker'.gen = worker.gen /\ worker'.todo = worker.todo
          /\ worker'.dirty = worker.dirty
      BY <2>2, WorkerTypes DEF UserEdit, WorkerState
    <3>2. UNCHANGED <<ledger, ops>>
      BY <2>2 DEF UserEdit
    <3>3. proj[p] \in ProjRow
          /\ proj' = [proj EXCEPT ![p].etag = EtagAfterForeignWrite(p, g)]
      BY <2>2, RowTypes DEF UserEdit
    <3>4. proj[p].gid = g => proj[p].etag # NULL
      BY ConstantsAssumption DEF Settles, PlaceInv
    <3>5. \A q \in Projections : q # p => proj'[q] = proj[q]
      BY <3>3 DEF TypeInv, TypeOK
    <3>6. proj'[p] = [proj[p] EXCEPT !.etag = EtagAfterForeignWrite(p, g)]
      BY <3>3 DEF TypeInv, TypeOK
    <3>7. /\ proj'[p].desired = proj[p].desired
          /\ proj'[p].dver = proj[p].dver
          /\ proj'[p].applied = proj[p].applied
          /\ proj'[p].aver = proj[p].aver /\ proj'[p].gid = proj[p].gid
          /\ proj'[p].current = proj[p].current
          /\ proj'[p].etag = EtagAfterForeignWrite(p, g)
      BY <3>3, <3>6 DEF ProjRow
    <3>8. /\ proj[p].gid = g => proj'[p].etag = "stale"
          /\ proj[p].gid # g => proj'[p].etag = proj[p].etag
      BY <3>4, <3>7 DEF EtagAfterForeignWrite
    <3>9. \A q \in Projections : proj'[q].gid \in Generations \cup {NULL}
      BY DEF TypeInv, TypeOK, ProjRow
    <3> QED BY <2>2, <3>1, <3>2, <3>5, <3>7, <3>8, <3>9 DEF OutsideStep
  <2> QED BY <2>1, <2>2
<1>5. QueueInv' /\ VerdictInv' /\ VersionInv'
  BY <1>4, OutsideSettles
<1>6. PlaceInv'
  <2>1. "stale" # NULL
    BY ConstantsAssumption
  <2> QED BY <1>3, <1>4, <2>1, PlaceKept DEF Settles, OutsideStep
<1>7. WriteInv'
  <2>1. ASSUME worker.pc \in RecordPC
        PROVE  OpProj \in Projections /\ worker.key \in Keys
               /\ worker.gen \in Generations
    BY <2>1, HeldOp DEF RecordPC, OpPC, HeldPC, CreatePC
  <2>2. ASSUME worker.pc \in {"gone", "absent"} PROVE OpProj \in Projections
    BY <2>2, HeldOp DEF OpPC, HeldPC, UpdatePC, DeletePC
  <2>3. ASSUME NEW q \in Projections, NoCopy(q) PROVE NoCopy(q)'
    <3>1. proj'[q].gid = proj[q].gid /\ proj[q].gid \in Generations \cup {NULL}
      BY <1>4 DEF OutsideStep
    <3> QED BY <1>3, <2>3, <3>1 DEF NoCopy, Live
  <2>4. OpProj' = OpProj
    BY <1>4 DEF OpProj, OutsideStep
  <2>5. CASE worker.pc \notin RecordPC
    <3>1. worker.pc \in {"gone", "absent"} => NoCopy(OpProj)'
      BY <2>2, <2>3, <2>4 DEF Settles, WriteInv, NoCopy
    <3> QED BY <1>4, <2>5, <3>1 DEF WriteInv, OutsideStep
  <2>6. CASE worker.pc \in RecordPC
    <3>1. \/ /\ google'[OpProj][worker.gen] = google[OpProj][worker.gen]
             /\ worker.gen \in unseen[OpProj] => worker.gen \in unseen'[OpProj]
             /\ worker'.etag = worker.etag
          \/ /\ worker.gen \in unseen'[OpProj]
             /\ google'[OpProj][worker.gen] \notin {NONE, CANCELLED}
                  => worker'.etag = "stale"
      <4>1. CASE OpProj = p /\ worker.gen = g
        <5>1. CASE what = CANCELLED
          BY <1>2, <2>1, <2>6, <4>1, <5>1
        <5>2. CASE UserEdit(p, g)
          <6>1. worker'.etag = "stale"
            BY <2>6, <4>1, <5>2, WorkerTypes DEF UserEdit, RecordPC, WorkerState
          <6> QED BY <1>2, <4>1, <6>1
        <5> QED BY <1>1, <5>1, <5>2
      <4>2. CASE ~(OpProj = p /\ worker.gen = g)
        <5>1. worker'.etag = worker.etag
          BY <4>2 DEF UserEdit, UserDelete
        <5> QED BY <1>2, <1>3, <2>1, <2>6, <4>2, <5>1
      <4> QED BY <4>1, <4>2
    <3>2. worker'.pc \notin {"gone", "absent"}
      BY <1>4, <2>6 DEF OutsideStep, RecordPC
    <3>3. /\ worker'.pc = worker.pc /\ worker'.key = worker.key
          /\ worker'.gen = worker.gen
          /\ ops'[worker.key].body = ops[worker.key].body
      BY <1>4, <2>1, <2>6 DEF OutsideStep
    <3> QED BY <1>3, <2>1, <2>4, <2>6, <3>1, <3>2, <3>3, WriteKept
            DEF Settles, Live
  <2> QED BY <2>5, <2>6
<1>8. TruthInv'
  <2>1. ASSUME NEW q \in Projections, proj[q].gid # NULL
        PROVE  \/ /\ google'[q][proj[q].gid] = google[q][proj[q].gid]
                  /\ proj[q].gid \in unseen[q] => proj[q].gid \in unseen'[q]
                  /\ proj'[q].etag = proj[q].etag
               \/ /\ proj[q].gid \in unseen'[q]
                  /\ Live(q, proj[q].gid)' => proj'[q].etag = "stale"
    <3>1. proj[q].gid \in Generations
      BY <2>1, <1>4 DEF OutsideStep
    <3>2. CASE q = p /\ proj[q].gid = g
      <4>1. what = CANCELLED => ~Live(q, proj[q].gid)'
        BY <1>2, <1>4, <3>1, <3>2 DEF Live, OutsideStep
      <4> QED BY <1>1, <1>2, <1>4, <3>2, <4>1
    <3>3. CASE ~(q = p /\ proj[q].gid = g)
      BY <1>2, <1>3, <1>4, <3>1, <3>3
    <3> QED BY <3>2, <3>3
  <2>2. \A q \in Projections :
          /\ Stamped(q)' => Stamped(q)
          /\ proj'[q].desired = proj[q].desired /\ proj'[q].gid = proj[q].gid
    BY <1>4 DEF OutsideStep, Stamped
  <2> QED BY <1>3, <1>4, <2>1, <2>2, TruthKept DEF Settles
<1> QED BY <1>5, <1>6, <1>7, <1>8 DEF Settles

(* The endpoints that change neither what a projection wants nor what it   *)
(* says of its copy, and the clock.                                        *)
LEMMA CallSettles ==
  ASSUME Base, Settles,
         \/ PauseSync \/ ResumeSync \/ FullResync
         \/ \E k \in Keys : Ripen(k)
         \/ UNCHANGED vars
  PROVE  Settles'
<1> USE DEF Base
<1>1. UNCHANGED <<ledger, proj, google, worker>>
  BY DEF PauseSync, ResumeSync, FullResync, Ripen, vars
<1>2. \A k \in Keys : /\ ops'[k].status = ops[k].status
                      /\ ops'[k].hash = ops[k].hash
                      /\ ops'[k].body = ops[k].body
  <2>1. ASSUME NEW j \in Keys, Ripen(j)
        PROVE  \A k \in Keys : /\ ops'[k].status = ops[k].status
                               /\ ops'[k].hash = ops[k].hash
                               /\ ops'[k].body = ops[k].body
    <3>1. ops' = [ops EXCEPT ![j].ripe = TRUE] /\ ops[j] \in OpRow
      BY <2>1 DEF Ripen, TypeInv, TypeOK
    <3> QED BY <3>1 DEF OpRow, TypeInv, TypeOK
  <2>2. CASE UNCHANGED ops
    BY <2>2
  <2> QED BY <2>1, <2>2 DEF PauseSync, ResumeSync, FullResync, vars
<1>3. OutsideStep
  BY <1>1, <1>2 DEF OutsideStep
<1>4. QueueInv' /\ VerdictInv' /\ VersionInv'
  BY <1>3, OutsideSettles
<1>5. \A p \in Projections, g \in Generations :
        g \in unseen[p] /\ google[p][g] # NONE => g \in unseen'[p]
  <2>1. CASE FullResync
    BY <2>1 DEF FullResync, Relisted
  <2>2. CASE UNCHANGED unseen
    BY <2>2
  <2> QED BY <2>1, <2>2 DEF PauseSync, ResumeSync, Ripen, vars
<1>6. \A p \in Projections : proj[p].gid \in Generations \cup {NULL}
  BY DEF TypeInv, TypeOK, ProjRow
<1>7. PlaceInv'
  BY <1>1, <1>6, PlaceKept DEF Settles, Live
<1>8. WriteInv'
  <2>1. ASSUME worker.pc \in RecordPC
        PROVE  OpProj \in Projections /\ worker.key \in Keys
               /\ worker.gen \in Generations
    BY <2>1, HeldOp DEF RecordPC, OpPC, HeldPC, CreatePC
  <2> QED BY <1>1, <1>2, <1>5, <2>1
          DEF Settles, WriteInv, OpProj, Op, NoCopy, Live
<1>9. TruthInv'
  <2>1. \A p \in Projections : proj[p].gid # NULL =>
          (proj[p].gid \in unseen[p] => proj[p].gid \in unseen'[p])
    BY <1>5, <1>6 DEF Settles, PlaceInv
  <2> QED BY <1>1, <1>6, <2>1, TruthKept DEF Settles, Stamped, Live
<1> QED BY <1>4, <1>7, <1>8, <1>9 DEF Settles

LEMMA RetrySettles ==
  ASSUME Base, Settles, RetryPermanentFailures PROVE Settles'
<1> USE DEF Base
<1>1. UNCHANGED <<ops, google, unseen, worker>>
  BY DEF RetryPermanentFailures
<1>2. \A p \in Projections :
        /\ proj'[p].desired = proj[p].desired /\ proj'[p].dver = proj[p].dver
        /\ proj'[p].applied = proj[p].applied /\ proj'[p].aver = proj[p].aver
        /\ proj'[p].gid = proj[p].gid /\ proj'[p].etag = proj[p].etag
        /\ proj'[p].current = proj[p].current
        /\ proj'[p].gid \in Generations \cup {NULL}
  BY RowTypes DEF RetryPermanentFailures, ProjRow
<1>3. \A p \in Projections :
        Wanted(p)' = Wanted(p) /\ ledger'[p].version = ledger[p].version
  BY LedgerTypes DEF RetryPermanentFailures, Dirty, Wanted, LedgerRow
<1>4. QueueInv'
  <2>1. \A k \in Keys : k.proj \in Projections
    BY DEF Keys
  <2> QED BY <1>1, <1>2, <2>1
          DEF Settles, QueueInv, Outstanding, Shown, Stamped
<1>5. VerdictInv'
  BY <1>1, <1>2, VerdictKept DEF Settles
<1>6. VersionInv'
  BY <1>1, <1>2, <1>3, VersionKept DEF Settles
<1>7. PlaceInv'
  BY <1>1, <1>2, PlaceKept DEF Settles, Live
<1>8. WriteInv'
  <2>1. ASSUME worker.pc \in {"gone", "absent"} PROVE OpProj \in Projections
    BY <2>1, HeldOp DEF OpPC, HeldPC, UpdatePC, DeletePC
  <2> QED BY <1>1, <1>2, <2>1 DEF Settles, WriteInv, OpProj, Op, NoCopy, Live
<1>9. TruthInv'
  BY <1>1, <1>2, TruthKept DEF Settles, Stamped, Live
<1> QED BY <1>4, <1>5, <1>6, <1>7, <1>8, <1>9 DEF Settles

LEMMA NextSettles ==
  ASSUME Base, Settles, AnswersArrive, VersionedOnly, [Next]_vars
  PROVE  Settles'
<1>1. ~CrashAndRestart /\ ~PassDies
  BY NoneLost DEF Base, CrashAndRestart, PassDies
<1>2. /\ ~CleanupAndPause
      /\ \A p \in Projections : ~CleanupCalendar(p)
      /\ \A p \in Projections, c \in Contents : ~Relabel(p, c)
  BY DEF VersionedOnly, CleanupAndPause, CleanupCalendar, Relabel, Admin
<1>9. ~CleanupGoesOn
  BY DEF Base, Uncleaned, CleanupGoesOn, ClearToken, QueueCleaned, PauseAfterCleanup
<1>10. ~Spend("listing")
  BY NoneLost DEF Base
<1>3. ASSUME NEW p \in Projections, DiffRow(p) PROVE Settles'
  BY <1>3, SnapSettles, EnqueueSettles
<1>4. CASE PlanningStep
  BY <1>10,  <1>3, <1>4, PlanRowSettles, PhaseSettles, SelectSettles, StartSettles
     DEF PlanningStep
<1>5. CASE StartPass \/ IngestStep
  BY <1>5, <1>10, StartSettles, IngestSettles, IngestFailsSettles, PhaseSettles
     DEF IngestStep
<1>6. CASE DrainStep
  BY <1>6, DrainSettles
<1>7. CASE Environment
  BY <1>1, <1>2, <1>7, <1>9, SourceSettles, EditSettles, CallSettles, RetrySettles
     DEF Environment, AdminStep
<1>8. CASE Time \/ UNCHANGED vars
  BY <1>8, CallSettles DEF Time
<1> QED BY <1>4, <1>5, <1>6, <1>7, <1>8 DEF Next, PassStep

-----------------------------------------------------------------------------

(* If every answer arrives, every pass ends, no listing of the source      *)
(* fails after it has written rows, and no endpoint rewrites a projection  *)
(* or a rendering without a new version, then a projection that            *)
(* the tables call settled is on Google as the event is, whoever edits and *)
(* deletes copies, whatever is refused, and however often passes run.      *)
THEOREM SettledCopies ==
  AnswersArrive /\ VersionedOnly => (Spec => []SettledIsMirrored)
<1> SUFFICES ASSUME AnswersArrive, VersionedOnly
             PROVE  Spec => []SettledIsMirrored
  OBVIOUS
<1> DEFINE All == TypeInv /\ SafeInv /\ PlanInv /\ Uncleaned /\ Settles
<1>0. Init => Uncleaned
  BY DEF Init, Uncleaned
<1>1. Init => All
  BY <1>0, InitTypeInv, InitSafe, InitSettles DEF Init, InitRow, PlanInv
<1>2. All /\ [Next]_vars => All'
  BY NextTypeInv, NextSafe, NextPlan, NextSettles, UncleanedKept DEF SafeStep, Base
<1>3. All => SettledIsMirrored
  BY SettlesMeansMirrored
<1> QED BY <1>1, <1>2, <1>3, PTL DEF Spec

-----------------------------------------------------------------------------
(* Where answers are lost and the process stops.  Nothing is edited on the *)
(* calendars, the user is never paused, no call is refused for good, no    *)
(* listing of the source fails after it has written rows and no pass dies  *)
(* alone: an insert, an update or a delete that no record speaks *)
(* of is still in the queue, and delivering it again brings the row back   *)
(* to the truth.                                                           *)

NobodyEdits == \A b \in Budgets : b.edits = 0
Retried   == FaultKinds \cap {"dies", "rejected", "listing"} = {}
NeverPaused == AdminKinds \cap {"pause", "cleanup_and_pause"} = {}

Undisturbed == NobodyEdits /\ Retried /\ NeverPaused /\ VersionedOnly

Calm == ~paused /\ budget.edits = 0

Bare(p) == \A g \in Generations : ~Live(p, g)

InPlace(p, g) == proj[p].gid = g /\ proj[p].current = "present"

Creating(p) ==
  \E k \in Keys : k.proj = p /\ k.kind = "create" /\ Outstanding(k)

(* Past the plan phase no desired state is behind its event, and one that  *)
(* is has an older version: a pass that stopped is followed by one that    *)
(* plans again.                                                            *)
FreshInv ==
  \A p \in Projections :
    proj[p].desired # Wanted(p) =>
      /\ proj[p].dver < ledger[p].version
      /\ \/ worker.pc \in {"idle", "ingest"}
         \/ worker.pc = "plan" /\ p \in worker.dirty

(* A queued row writes what it says, and one of the version the planner    *)
(* wants says what the planner wants; a verdict is about the row as it is. *)
FaithfulInv ==
  /\ \A k \in Keys :
       Outstanding(k) =>
         /\ IF k.kind = "delete" THEN ops[k].hash = ABSENT
                                 ELSE ops[k].hash = ops[k].body
         /\ k.ver = proj[k.proj].dver => ops[k].hash = proj[k.proj].desired
  /\ worker.pc = "rows" =>
       \A p \in Projections :
         LET v == worker.todo[p] IN
         v # NULL => /\ v.ver = proj[p].dver /\ v.hash = proj[p].desired
                     /\ v.kind = DecideKind(proj[p])
                     /\ v.kind \in {"create", "update"} => v.body = v.hash

(* A live copy is on record, or the create that made it is still queued.   *)
Located(p) ==
  /\ \A g \in Generations : Live(p, g) => InPlace(p, g) \/ Creating(p)
  /\ Creating(p) => \/ proj[p].gid = NULL \/ proj[p].current = "absent"
                    \/ proj[p].current = "present" /\ Live(p, proj[p].gid)
  /\ proj[p].current = "unknown" => proj[p].gid = NULL

LocatedInv == \A p \in Projections : Located(p)

(* Google knows no id past the generation, and that one only if an episode *)
(* had room for it: giving up leaves no copy behind.                       *)
TriedInv ==
  \A p \in Projections :
    /\ google[p][proj[p].gen] # NONE =>
         proj[p].gen - proj[p].floor < MaxTotalIdGenerations
    /\ \A g \in Generations : g > proj[p].gen => google[p][g] = NONE

(* What the drain knows of the copy it is at.                              *)
HandInv ==
  /\ worker.pc \in RecordPC => /\ worker.key.kind # "delete"
                               /\ google[OpProj][worker.gen] = Op.hash
  /\ worker.pc = "adopt" => Live(OpProj, worker.gen) /\ worker.etag = "match"
  /\ worker.pc \in {"absent", "gone", "failed"} => Bare(OpProj)
  /\ worker.pc = "failed" => \A k \in Keys : k.proj = OpProj => ~Outstanding(k)
  /\ worker.pc = "supersede" => worker.key.kind = "update"
  /\ worker.pc = "done" =>
       \A g \in Generations : Live(OpProj, g) => InPlace(OpProj, g)

(* A stamp of the version the planner wants tells the truth.               *)
Truthful(p) ==
  proj[p].aver = proj[p].dver =>
    /\ proj[p].applied = proj[p].desired
    /\ IF proj[p].desired = ABSENT
         THEN proj[p].current \in {"absent", "errored"}
         ELSE /\ proj[p].current = "present" /\ proj[p].gid # NULL
              /\ google[p][proj[p].gid] = proj[p].desired

StampInv == \A p \in Projections : Truthful(p)

Recovers == /\ FreshInv /\ FaithfulInv /\ LocatedInv
            /\ TriedInv /\ HandInv /\ StampInv

(* Where a step starts, and what is known of where it ends.                *)
Ground == Base /\ OrderInv /\ Calm /\ Undisturbed

-----------------------------------------------------------------------------

LEMMA RecoversMeansMirrored ==
  ASSUME TypeInv, PlanInv, Recovers PROVE SettledIsMirrored
<1> SUFFICES ASSUME NEW p \in Projections, Settled(p) PROVE Mirrored(p)
  BY DEF SettledIsMirrored
<1>1. proj[p].desired = Wanted(p) /\ proj[p].aver = proj[p].dver
  BY DEF Settled, Diverged, PlanInv
<1>2. ~Creating(p)
  BY DEF Settled, Creating
<1>3. CASE Wanted(p) = ABSENT
  <2>1. proj[p].current # "present"
    BY <1>1, <1>3 DEF Recovers, StampInv, Truthful
  <2>2. Bare(p)
    BY <1>2, <2>1 DEF Recovers, LocatedInv, Located, InPlace, Bare
  <2> QED BY <1>3, <2>2 DEF Mirrored, Bare
<1>4. CASE Wanted(p) # ABSENT
  BY <1>1, <1>4 DEF Recovers, StampInv, Truthful, Mirrored
<1> QED BY <1>3, <1>4

LEMMA InitRecovers == Init => Recovers
<1> SUFFICES ASSUME Init PROVE Recovers
  OBVIOUS
<1>1. /\ worker.pc = "idle"
      /\ \A k \in Keys : ops[k].status = "none"
      /\ \A p \in Projections, g \in Generations : google[p][g] = NONE
  BY DEF Init, FreshWorker
<1>2. \A p \in Projections :
        /\ proj[p].gid = NULL /\ proj[p].aver = NULL
        /\ proj[p].desired = Wanted(p)
        /\ proj[p].gen \in Generations /\ proj[p].dver \in Versions
  BY ConstantsAssumption DEF Init, InitRow, LedgerRow
<1>3. FreshInv
  BY <1>2 DEF FreshInv
<1>4. FaithfulInv
  BY <1>1 DEF FaithfulInv, Outstanding
<1>5. LocatedInv
  BY <1>1, <1>2 DEF LocatedInv, Located, Live, Creating, Outstanding
<1>6. TriedInv
  BY <1>1, <1>2 DEF TriedInv
<1>7. HandInv
  BY <1>1 DEF HandInv, RecordPC
<1>8. StampInv
  BY <1>2, ConstantsAssumption DEF StampInv, Truthful
<1> QED BY <1>3, <1>4, <1>5, <1>6, <1>7, <1>8 DEF Recovers

(* Nobody edits and nobody pauses.                                         *)
LEMMA CalmKept ==
  ASSUME TypeInv, Uncleaned, Calm, NeverPaused, [Next]_vars PROVE Calm'
<1>1. budget \in Budget
  BY DEF TypeInv, TypeOK
<1>2. ASSUME NEW f, Spend(f) PROVE budget'.edits = budget.edits
  BY <1>1, <1>2 DEF Spend, Budget
<1>3. ASSUME NEW kind, Admin(kind) PROVE budget'.edits = budget.edits
  BY <1>1, <1>3 DEF Admin, Budget
<1>4. ~Edit /\ ~CleanupAndPause /\ ~PauseSync /\ ~CleanupGoesOn
  <2>1. ~Edit
    BY <1>1 DEF Calm, Edit, Budget
  <2>2. ~CleanupAndPause /\ ~PauseSync
    BY DEF NeverPaused, CleanupAndPause, PauseSync, Admin
  <2>3. ~CleanupGoesOn
    BY DEF Uncleaned, CleanupGoesOn, ClearToken, QueueCleaned, PauseAfterCleanup
  <2> QED BY <2>1, <2>2, <2>3
<1>5. CASE DrainStep
  <2>1. UNCHANGED paused
    BY <1>5
       DEF DrainStep, ReclaimStale, ClaimNext, DrainEnds, CallFails,
           FailProjection, CreateEntry, Insert, Conflict, BumpGeneration, Adopt,
           Landed, Update, Refetch, TargetGone, MarkSuperseded, RequestReplan,
           Delete, RecordSuccess, RecordAbsent, OpDone, GiveUp, MarkRetry,
           MarkRejected
  <2>2. UNCHANGED budget \/ \E f : Spend(f)
    BY <1>5
       DEF DrainStep, ReclaimStale, ClaimNext, DrainEnds, CallFails,
           FailProjection, CreateEntry, Insert, Conflict, BumpGeneration, Adopt,
           Landed, Update, Refetch, TargetGone, MarkSuperseded, RequestReplan,
           Delete, RecordSuccess, RecordAbsent, OpDone, GiveUp
  <2> QED BY <1>2, <2>1, <2>2 DEF Calm
<1>6. CASE StartPass \/ IngestStep \/ PlanningStep \/ Time \/ UNCHANGED vars
  <2>1. CASE IngestDone
    <3>1. UNCHANGED paused /\ (UNCHANGED budget \/ Spend("listing"))
      BY <2>1 DEF IngestDone
    <3> QED BY <1>2, <3>1 DEF Calm
  <2>2. CASE IngestStep /\ ~IngestDone
    BY <1>2, <2>2
       DEF Calm, IngestStep, IngestCopy, IngestFails, RecordAffected
  <2>3. CASE StartPass \/ PlanningStep \/ Time \/ UNCHANGED vars
    BY <1>2, <2>3
       DEF Calm, StartPass, PlanningStep, PlanRow, PlanDone, SelectDiverged,
           DiffRow, DiffDone, Time, Ripen, vars
  <2> QED BY <1>4, <1>6, <2>1, <2>2, <2>3
<1>7. CASE Environment
  <2>1. CASE AdminStep
    <3>1. ~paused'
      BY <1>4, <2>1
         DEF Calm, AdminStep, CleanupCalendar, ResumeSync, FullResync,
             RetryPermanentFailures, Relabel
    <3>2. UNCHANGED budget \/ \E kind : Admin(kind)
      BY <1>4, <2>1
         DEF AdminStep, CleanupCalendar, CleanupAndPause, PauseSync, ResumeSync,
             FullResync, RetryPermanentFailures, Relabel
    <3> QED BY <1>3, <3>1, <3>2 DEF Calm
  <2>2. CASE \E p \in Projections : SourceChange(p)
    BY <2>2 DEF Calm, SourceChange
  <2>3. CASE CrashAndRestart \/ PassDies
    <3>1. UNCHANGED paused /\ \E f : Spend(f)
      BY <2>3 DEF CrashAndRestart, PassDies
    <3> QED BY <1>2, <3>1 DEF Calm
  <2> QED BY <1>4, <1>7, <2>1, <2>2, <2>3
          DEF Environment, UserEdit, UserDelete
<1> QED BY <1>5, <1>6, <1>7 DEF Next, PassStep

-----------------------------------------------------------------------------

(* What most steps leave alone of a row, and of the queue.                 *)
PlanHeld(p) ==
  proj'[p].desired = proj[p].desired /\ proj'[p].dver = proj[p].dver

RowHeld(p) ==
  /\ PlanHeld(p)
  /\ proj'[p].applied = proj[p].applied /\ proj'[p].gid = proj[p].gid
  /\ proj'[p].current = proj[p].current
  /\ proj'[p].aver \in {proj[p].aver, NULL}

QueueHeld ==
  \A k \in Keys :
    Outstanding(k)' => /\ Outstanding(k)
                       /\ ops'[k].hash = ops[k].hash
                       /\ ops'[k].body = ops[k].body

(* No create is closed whose copy no record speaks of.                     *)
CreatesHeld ==
  \A k \in Keys :
    Outstanding(k) /\ ~Outstanding(k)' /\ k.kind = "create" =>
      \A g \in Generations : Live(k.proj, g) => InPlace(k.proj, g)

LEMMA FreshKept ==
  ASSUME FreshInv,
         \A p \in Projections :
           /\ Wanted(p)' = Wanted(p) /\ ledger'[p].version = ledger[p].version
           /\ PlanHeld(p),
         worker.pc \in {"idle", "ingest"} => worker'.pc \in {"idle", "ingest"},
         worker.pc = "plan" =>
           \/ worker'.pc = "idle"
           \/ worker'.pc = "plan" /\ worker'.dirty = worker.dirty
  PROVE  FreshInv'
BY DEF FreshInv, PlanHeld

LEMMA FaithfulKept ==
  ASSUME FaithfulInv, QueueHeld, \A p \in Projections : PlanHeld(p),
         worker'.pc = "rows" =>
           /\ worker.pc = "rows" /\ worker'.todo = worker.todo
           /\ \A p \in Projections : RowHeld(p)
  PROVE  FaithfulInv'
<1>1. ASSUME NEW k \in Keys, Outstanding(k)'
      PROVE  /\ IF k.kind = "delete" THEN ops'[k].hash = ABSENT
                                     ELSE ops'[k].hash = ops'[k].body
             /\ k.ver = proj'[k.proj].dver =>
                  ops'[k].hash = proj'[k.proj].desired
  <2>1. k.proj \in Projections
    BY DEF Keys
  <2> QED BY <1>1, <2>1 DEF FaithfulInv, QueueHeld, PlanHeld
<1>2. ASSUME worker'.pc = "rows", NEW p \in Projections, worker'.todo[p] # NULL
      PROVE  LET v == worker'.todo[p] IN
             /\ v.ver = proj'[p].dver /\ v.hash = proj'[p].desired
             /\ v.kind = DecideKind(proj'[p])
             /\ v.kind \in {"create", "update"} => v.body = v.hash
  <2>1. DecideKind(proj'[p]) = DecideKind(proj[p])
    BY <1>2 DEF DecideKind, RowHeld, PlanHeld
  <2> QED BY <1>2, <2>1 DEF FaithfulInv, PlanHeld
<1> QED BY <1>1, <1>2 DEF FaithfulInv

LEMMA LocatedKept ==
  ASSUME QueueHeld, CreatesHeld, UNCHANGED google,
         NEW p \in Projections, Located(p), RowHeld(p)
  PROVE  Located(p)'
<1>1. Creating(p)' => Creating(p)
  BY DEF Creating, QueueHeld
<1>2. ASSUME NEW g \in Generations, Live(p, g)
      PROVE  InPlace(p, g) \/ Creating(p)'
  <2>1. CASE Creating(p)
    <3>1. PICK k \in Keys : k.proj = p /\ k.kind = "create" /\ Outstanding(k)
      BY <2>1 DEF Creating
    <3>2. CASE Outstanding(k)'
      BY <3>1, <3>2 DEF Creating
    <3>3. CASE ~Outstanding(k)'
      BY <1>2, <3>1, <3>3 DEF CreatesHeld
    <3> QED BY <3>2, <3>3
  <2>2. CASE ~Creating(p)
    BY <1>2, <2>2 DEF Located
  <2> QED BY <2>1, <2>2
<1>3. proj'[p].gid = proj[p].gid /\ proj'[p].current = proj[p].current
  BY DEF RowHeld
<1> QED BY <1>1, <1>2, <1>3 DEF Located, InPlace, Live

LEMMA StampKept ==
  ASSUME TypeInv, UNCHANGED google, NEW p \in Projections, Truthful(p),
         RowHeld(p)
  PROVE  Truthful(p)'
<1>1. proj[p].dver # NULL
  BY RowTypes, ConstantsAssumption DEF ProjRow
<1> QED BY <1>1 DEF Truthful, RowHeld, PlanHeld

LEMMA TriedKept ==
  ASSUME TypeInv, TriedInv, SameIds,
         \A p \in Projections, g \in Generations :
           google'[p][g] # NONE => google[p][g] # NONE
  PROVE  TriedInv'
<1>1. \A p \in Projections : proj[p].gen \in Generations
  BY RowTypes DEF ProjRow
<1> QED BY <1>1 DEF TriedInv, SameIds

(* A step of the drain that changes nothing on Google: what it does to a   *)
(* row, to the generations and to what the drain remembers is shown apart. *)
LEMMA DrainTables ==
  ASSUME Ground, Recovers, UNCHANGED <<ledger, google>>, QueueHeld, CreatesHeld,
         \A p \in Projections :
           /\ PlanHeld(p)
           /\ RowHeld(p) \/ (Located(p)' /\ Truthful(p)'),
         worker.pc \notin {"idle", "ingest", "plan"},
         worker'.pc \notin {"plan", "rows"},
         TriedInv', HandInv'
  PROVE  Recovers'
<1>1. FreshInv'
  BY FreshKept DEF Recovers, Wanted
<1>2. FaithfulInv'
  BY FaithfulKept DEF Recovers
<1>3. ASSUME NEW p \in Projections PROVE Located(p)' /\ Truthful(p)'
  <2>1. Located(p) /\ Truthful(p)
    BY DEF Recovers, LocatedInv, StampInv
  <2> QED BY <2>1, LocatedKept, StampKept DEF Ground, Base
<1> QED BY <1>1, <1>2, <1>3 DEF Recovers, LocatedInv, StampInv

(* Where the drain has nothing to remember of the copy it is at.           *)
PlainPC == PC \ ({"plan", "rows", "adopt", "absent", "gone", "failed",
                  "supersede", "done"} \cup RecordPC)

LEMMA QuietRecovers ==
  ASSUME Ground, Recovers, UNCHANGED <<ledger, google>>, QueueHeld, CreatesHeld,
         \A p \in Projections : RowHeld(p), SameIds,
         worker.pc \notin {"idle", "ingest", "plan"},
         worker'.pc \in PlainPC
  PROVE  Recovers'
<1>1. TriedInv'
  BY TriedKept DEF Recovers, Ground, Base
<1>2. HandInv' /\ worker'.pc \notin {"plan", "rows"}
  BY DEF HandInv, PlainPC
<1> QED BY <1>1, <1>2, DrainTables DEF RowHeld

-----------------------------------------------------------------------------
(* The steps of the drain, once more.                                      *)

(* The row in hand is its projection's only one; where the newest version  *)
(* is on record as shown, it is of that version.                           *)
LEMMA HandRow ==
  ASSUME Ground, Recovers, worker.pc \in HeldPC
  PROVE  /\ worker.key \in Keys /\ OpProj \in Projections
         /\ worker.key.ver \in Versions
         /\ Op \in OpRow /\ proj[OpProj] \in ProjRow
         /\ Outstanding(worker.key)
         /\ \A k \in Keys : Outstanding(k) /\ k.proj = OpProj => k = worker.key
         /\ worker.key.ver = proj[OpProj].dver => Op.hash = proj[OpProj].desired
         /\ proj[OpProj].aver = proj[OpProj].dver
              /\ proj[OpProj].current = "present"
            => worker.key.ver = proj[OpProj].dver
         /\ Creating(OpProj) <=> worker.key.kind = "create"
         /\ worker.key.kind = "delete" => Op.hash = ABSENT
         /\ worker.key.kind # "delete" => Op.hash = Op.body /\ Op.body \in Contents
<1> USE DEF Ground, Base
<1>1. /\ worker.key \in Keys /\ OpProj \in Projections
      /\ worker.key.ver \in Versions /\ Op \in OpRow /\ proj[OpProj] \in ProjRow
      /\ Outstanding(worker.key)
  BY HeldRow DEF OpPC
<1>2. \A k \in Keys : Outstanding(k) /\ k.proj = OpProj => k = worker.key
  BY <1>1 DEF OrderInv, OpProj
<1>3. worker.key.ver = proj[OpProj].dver => Op.hash = proj[OpProj].desired
  BY <1>1 DEF Recovers, FaithfulInv, Op, OpProj
<1>4. ASSUME proj[OpProj].aver = proj[OpProj].dver,
             proj[OpProj].current = "present"
      PROVE  worker.key.ver = proj[OpProj].dver
  <2>1. worker.key.ver <= proj[OpProj].dver /\ NotBehind(OpProj, worker.key.ver)
    BY <1>1 DEF OrderInv, OpProj
  <2>2. proj[OpProj].dver \in Nat /\ worker.key.ver \in Nat
        /\ proj[OpProj].dver # NULL
    BY <1>1, ConstantsAssumption DEF ProjRow
  <2> QED BY <1>4, <2>1, <2>2 DEF NotBehind
<1>5. Creating(OpProj) <=> worker.key.kind = "create"
  BY <1>1, <1>2 DEF Creating, OpProj
<1>6. /\ worker.key.kind = "delete" => Op.hash = ABSENT
      /\ worker.key.kind # "delete" => Op.hash = Op.body /\ Op.body \in Contents
  BY <1>1 DEF Recovers, FaithfulInv, TypeInv, BodyInv, Op
<1> QED BY <1>1, <1>2, <1>3, <1>4, <1>5, <1>6

LEMMA SameHeld ==
  ASSUME UNCHANGED ops PROVE QueueHeld /\ CreatesHeld
BY DEF QueueHeld, CreatesHeld, Outstanding

(* The row goes back to the queue.                                         *)
LEMMA RetryHeld ==
  ASSUME Ground, Recovers, worker.pc \in HeldPC,
         ops' = [ops EXCEPT ![worker.key].status = "pending"]
  PROVE  /\ QueueHeld /\ CreatesHeld
         /\ \A k \in Keys : Outstanding(k)' <=> Outstanding(k)
<1>1. ops \in [Keys -> OpRow]
  BY DEF Ground, Base, TypeInv, TypeOK
<1>2. Outstanding(worker.key) /\ worker.key \in Keys
  BY HandRow
<1>3. ASSUME NEW k \in Keys
      PROVE  /\ Outstanding(k)' <=> Outstanding(k)
             /\ ops'[k].hash = ops[k].hash /\ ops'[k].body = ops[k].body
  BY <1>1, <1>2 DEF Outstanding, OpRow
<1> QED BY <1>3 DEF QueueHeld, CreatesHeld

(* The row is closed, and if it is a create its copy is on record.         *)
LEMMA CloseHeld ==
  ASSUME Ground, Recovers, worker.pc \in HeldPC,
         ops' = [ops EXCEPT ![worker.key] = Close(@)],
         worker.key.kind = "create" =>
           \A g \in Generations : Live(OpProj, g) => InPlace(OpProj, g)
  PROVE  /\ QueueHeld /\ CreatesHeld
         /\ \A k \in Keys : Outstanding(k)' <=> Outstanding(k) /\ k # worker.key
         /\ \A k \in Keys : k.proj = OpProj => ~Outstanding(k)'
<1>1. ops \in [Keys -> OpRow]
  BY DEF Ground, Base, TypeInv, TypeOK
<1>2. worker.key \in Keys
      /\ \A k \in Keys : Outstanding(k) /\ k.proj = OpProj => k = worker.key
  BY HandRow
<1>3. ops'[worker.key].status = "closed"
  BY <1>1, <1>2 DEF Close, OpRow
<1>4. \A k \in Keys : k # worker.key => ops'[k] = ops[k]
  BY <1>1, <1>2
<1>5. \A k \in Keys : Outstanding(k)' <=> Outstanding(k) /\ k # worker.key
  BY <1>3, <1>4 DEF Outstanding
<1> QED BY <1>2, <1>4, <1>5 DEF QueueHeld, CreatesHeld, OpProj

LEMMA NoRejection ==
  ASSUME Ground, NEW f \in {"rejected", "dies", "listing"} PROVE ~Spend(f)
BY DEF Ground, Base, TypeInv, TypeOK, Budget, Undisturbed, Retried, Spend

(* A call of the drain writes the copy it holds an id of, or makes it.     *)
LEMMA WriteRecovers ==
  ASSUME Ground, Recovers, worker.pc \in HeldPC, worker.key.kind # "delete",
         NEW g \in Generations, GoogleWrites(OpProj, g, Op.body),
         \/ Live(OpProj, g)
         \/ /\ worker.key.kind = "create" /\ google[OpProj][g] = NONE
            /\ g = proj[OpProj].gen
            /\ proj[OpProj].gen - proj[OpProj].floor < MaxTotalIdGenerations,
         UNCHANGED ledger, QueueHeld, \A p \in Projections : RowHeld(p), SameIds,
         \A k \in Keys : Outstanding(k)' <=> Outstanding(k),
         worker'.pc \notin {"plan", "rows"}, HandInv'
  PROVE  Recovers'
<1> USE DEF Ground, Base
<1>1. /\ OpProj \in Projections
      /\ Op.body \in Contents /\ Op.hash = Op.body
      /\ worker.key.ver = proj[OpProj].dver => Op.hash = proj[OpProj].desired
      /\ proj[OpProj].aver = proj[OpProj].dver
           /\ proj[OpProj].current = "present"
         => worker.key.ver = proj[OpProj].dver
      /\ Creating(OpProj) <=> worker.key.kind = "create"
  BY HandRow
<1>2. \A q \in Projections, h \in Generations :
        google'[q][h] = IF q = OpProj /\ h = g THEN Op.body ELSE google[q][h]
  BY <1>1 DEF GoogleWrites, TypeInv, TypeOK
<1>3. Op.body \notin {NONE, CANCELLED}
  BY <1>1, ConstantsAssumption
<1>4. FreshInv'
  BY FreshKept DEF Recovers, Wanted, RowHeld, HeldPC, CreatePC, UpdatePC, DeletePC
<1>5. FaithfulInv'
  BY FaithfulKept DEF Recovers, RowHeld
<1>6. ASSUME NEW p \in Projections PROVE Located(p)'
  <2>1. Creating(p)' <=> Creating(p)
    BY DEF Creating
  <2>2. Located(p) /\ RowHeld(p) /\ proj[p].gid \in Generations \cup {NULL}
    BY RowTypes DEF Recovers, LocatedInv, ProjRow
  <2>3. \A h \in Generations : Live(p, h) => Live(p, h)'
    BY <1>2, <1>3 DEF Live
  <2>4. \A h \in Generations :
          Live(p, h)' => InPlace(p, h) \/ Creating(p)
    BY <1>1, <1>2, <2>2 DEF Live, Located
  <2>5. proj'[p].gid = proj[p].gid /\ proj'[p].current = proj[p].current
    BY <2>2 DEF RowHeld
  <2>6. Creating(p) => \/ proj[p].gid = NULL \/ proj[p].current = "absent"
                       \/ proj[p].current = "present" /\ Live(p, proj[p].gid)'
    <3>1. CASE proj[p].gid = NULL
      BY <3>1
    <3>2. CASE proj[p].gid # NULL
      <4>1. PICK h \in Generations : h = proj[p].gid
        BY <2>2, <3>2
      <4> QED BY <2>2, <2>3, <2>5, <4>1 DEF Located, Live
    <3> QED BY <3>1, <3>2
  <2> QED BY <2>1, <2>2, <2>4, <2>5, <2>6 DEF Located, InPlace, Live
<1>7. TriedInv'
  <2>1. \A p \in Projections : proj[p].gen \in Generations
    BY RowTypes DEF ProjRow
  <2>2. ASSUME NEW p \in Projections, NEW h \in Generations, h > proj[p].gen
        PROVE  google'[p][h] = NONE
    <3>1. google[p][h] = NONE
      BY <2>2 DEF Recovers, TriedInv
    <3>2. ~(p = OpProj /\ h = g)
      <4>1. proj[p].gen \in Nat
        BY <2>1, ConstantsAssumption
      <4> QED BY <2>2, <3>1, <4>1 DEF Live
    <3> QED BY <1>2, <3>1, <3>2
  <2>3. ASSUME NEW p \in Projections, google'[p][proj[p].gen] # NONE
        PROVE  proj[p].gen - proj[p].floor < MaxTotalIdGenerations
    BY <1>1, <1>2, <2>1, <2>3 DEF Recovers, TriedInv, Live
  <2> QED BY <2>1, <2>2, <2>3 DEF TriedInv, SameIds
<1>8. ASSUME NEW p \in Projections PROVE Truthful(p)'
  <2>1. /\ Truthful(p) /\ RowHeld(p) /\ proj[p].dver # NULL
        /\ proj[p].gid \in Generations \cup {NULL}
    BY RowTypes, ConstantsAssumption DEF Recovers, StampInv, ProjRow
  <2>2. ASSUME proj[p].aver = proj[p].dver, proj[p].desired # ABSENT
        PROVE  google'[p][proj[p].gid] = proj[p].desired
    <3>1. /\ proj[p].current = "present" /\ proj[p].gid \in Generations
          /\ google[p][proj[p].gid] = proj[p].desired
      BY <2>1, <2>2 DEF Truthful
    <3> QED BY <1>1, <1>2, <2>2, <3>1
  <2> QED BY <2>1, <2>2 DEF Truthful, RowHeld, PlanHeld
<1> QED BY <1>4, <1>5, <1>6, <1>7, <1>8 DEF Recovers, LocatedInv, StampInv

LEMMA PlainDrainRecovers ==
  ASSUME Ground, Recovers,
         \/ ReclaimStale \/ DrainEnds \/ \E k \in Keys : ClaimNext(k)
         \/ (Conflict /\ ~Live(OpProj, worker.gen))
  PROVE  Recovers'
<1> USE DEF Ground, Base
<1>1. UNCHANGED <<ledger, google, proj>>
  BY DEF ReclaimStale, DrainEnds, Conflict, ClaimNext
<1>2. worker.pc \notin {"idle", "ingest", "plan"}
  BY DEF ReclaimStale, DrainEnds, Conflict, ClaimNext
<1>3. worker'.pc \in PlainPC
  <2>1. worker'.pc \in {"drain", "diff", "idle", "burned"} \cup Kinds
    BY WorkerTypes
       DEF ReclaimStale, DrainEnds, Conflict, ClaimNext, Keys, WorkerState
  <2> QED BY <2>1 DEF Kinds, PlainPC, PC, RecordPC
<1>4. \A k \in Keys : /\ Outstanding(k)' <=> Outstanding(k)
                      /\ ops'[k].hash = ops[k].hash
                      /\ ops'[k].body = ops[k].body
  <2>1. ops \in [Keys -> OpRow]
    BY DEF TypeInv, TypeOK
  <2>2. CASE ReclaimStale
    BY <2>1, <2>2 DEF ReclaimStale, Outstanding, OpRow
  <2>3. ASSUME NEW k \in Keys, ClaimNext(k)
        PROVE  \A j \in Keys : /\ Outstanding(j)' <=> Outstanding(j)
                               /\ ops'[j].hash = ops[j].hash
                               /\ ops'[j].body = ops[j].body
    <3>1. \A j \in Keys : j # k => ops'[j] = ops[j]
      BY <2>1, <2>3 DEF ClaimNext
    <3>2. /\ ops'[k].status = "in_flight" /\ ops[k].status = "pending"
          /\ ops'[k].hash = ops[k].hash /\ ops'[k].body = ops[k].body
      <4>1. ops[k] \in OpRow
        BY <2>1
      <4> QED BY <2>1, <2>3, <4>1 DEF ClaimNext, Due, OpRow
    <3> QED BY <3>1, <3>2 DEF Outstanding
  <2>4. CASE UNCHANGED ops
    BY <2>4 DEF Outstanding
  <2> QED BY <2>2, <2>3, <2>4 DEF DrainEnds, Conflict
<1>5. QueueHeld /\ CreatesHeld /\ SameIds /\ \A p \in Projections : RowHeld(p)
  BY <1>1, <1>4 DEF QueueHeld, CreatesHeld, SameIds, RowHeld, PlanHeld
<1> QED BY <1>1, <1>2, <1>3, <1>5, QuietRecovers

(* The GET found our own live copy.                                        *)
LEMMA ConflictRecovers ==
  ASSUME Ground, Recovers, Conflict, Live(OpProj, worker.gen) PROVE Recovers'
<1> USE DEF Ground, Base
<1>1. UNCHANGED <<ledger, google, proj, ops>> /\ worker.pc = "conflict"
  BY DEF Conflict
<1>2. /\ worker'.pc = "adopt" /\ worker'.etag = "match"
      /\ worker'.key = worker.key /\ worker'.gen = worker.gen
  BY WorkerTypes DEF Conflict, WorkerState
<1>3. HandInv'
  BY <1>1, <1>2 DEF HandInv, RecordPC, OpProj, Live
<1>4. SameIds /\ \A p \in Projections : RowHeld(p)
  BY <1>1 DEF SameIds, RowHeld, PlanHeld
<1>5. TriedInv'
  BY <1>1, <1>4, TriedKept DEF Recovers
<1> QED BY <1>1, <1>2, <1>3, <1>4, <1>5, SameHeld, DrainTables DEF RowHeld

(* A handler raised, and nothing was done.                                 *)
LEMMA RetryRecovers ==
  ASSUME Ground, Recovers, worker.pc \in HeldPC, MarkRetry, UNCHANGED google
  PROVE  Recovers'
<1>1. UNCHANGED <<ledger, proj>>
      /\ ops' = [ops EXCEPT ![worker.key].status = "pending"]
  BY DEF MarkRetry
<1>2. worker'.pc = "drain" /\ worker'.pc \in PlainPC
  BY WorkerTypes
     DEF Ground, Base, MarkRetry, NextOp, PlainPC, PC, RecordPC, WorkerState
<1>3. worker.pc \notin {"idle", "ingest", "plan"}
  BY DEF HeldPC, CreatePC, UpdatePC, DeletePC
<1>4. SameIds /\ \A p \in Projections : RowHeld(p)
  BY <1>1 DEF SameIds, RowHeld, PlanHeld
<1> QED BY <1>1, <1>2, <1>3, <1>4, RetryHeld, QuietRecovers

(* A handler gave up for good, with no copy left behind.                   *)
LEMMA GaveUpRecovers ==
  ASSUME Ground, Recovers, worker.pc \in HeldPC, UNCHANGED <<ledger, google>>,
         ops' = [ops EXCEPT ![worker.key] = Close(@)], Goto("failed"),
         \A p \in Projections : RowHeld(p), Bare(OpProj), TriedInv'
  PROVE  Recovers'
<1>1. worker'.pc = "failed" /\ worker'.key = worker.key
  BY WorkerTypes DEF Ground, Base, Goto, WorkerState
<1>2. /\ QueueHeld /\ CreatesHeld
      /\ \A k \in Keys : k.proj = OpProj => ~Outstanding(k)'
  BY CloseHeld DEF Bare
<1>3. HandInv'
  BY <1>1, <1>2 DEF HandInv, RecordPC, OpProj, Bare, Live
<1>4. worker.pc \notin {"idle", "ingest", "plan"}
  BY DEF HeldPC, CreatePC, UpdatePC, DeletePC
<1> QED BY <1>1, <1>2, <1>3, <1>4, DrainTables DEF RowHeld

LEMMA CallFailsRecovers ==
  ASSUME Ground, Recovers, CallFails PROVE Recovers'
<1>1. MarkRetry /\ UNCHANGED google
  BY NoRejection DEF CallFails
<1>2. worker.pc \in HeldPC
  BY DEF CallFails, HeldPC, CreatePC, UpdatePC, DeletePC
<1> QED BY <1>1, <1>2, RetryRecovers

LEMMA EntryRecovers ==
  ASSUME Ground, Recovers, CreateEntry PROVE Recovers'
<1> USE DEF Ground, Base
<1>1. worker.pc = "create" /\ worker.pc \in HeldPC
  BY DEF CreateEntry, HeldPC, CreatePC
<1>2. OpProj \in Projections /\ proj[OpProj] \in ProjRow
  BY <1>1, HandRow
<1>3. CASE proj[OpProj].gen - proj[OpProj].floor >= MaxTotalIdGenerations
  <2>1. GiveUp(proj[OpProj].gen)
    BY <1>3 DEF CreateEntry
  <2>2. proj' = proj
    <3>1. proj' = [proj EXCEPT ![OpProj].gen = proj[OpProj].gen]
      BY <2>1 DEF GiveUp
    <3> QED BY <1>2, <3>1 DEF TypeInv, TypeOK, ProjRow
  <2>3. /\ UNCHANGED <<ledger, google>> /\ Goto("failed")
        /\ ops' = [ops EXCEPT ![worker.key] = Close(@)]
    BY <2>1 DEF GiveUp
  <2>4. SameIds /\ \A p \in Projections : RowHeld(p)
    BY <2>2 DEF SameIds, RowHeld, PlanHeld
  <2>5. google[OpProj][proj[OpProj].gen] = NONE
    <3>1. proj[OpProj].gen - proj[OpProj].floor \in Int
      BY <1>2, RowTypes
    <3> QED BY <1>2, <1>3, <3>1, ConstantsAssumption DEF Recovers, TriedInv
  <2>6. Bare(OpProj)
    BY <1>2, <2>5 DEF SafeInv, CopyInv, AtMostOneCopy, Bare, Live
  <2>7. TriedInv'
    BY <2>3, <2>4, TriedKept DEF Recovers
  <2> QED BY <1>1, <2>3, <2>4, <2>6, <2>7, GaveUpRecovers
<1>4. CASE ~(proj[OpProj].gen - proj[OpProj].floor >= MaxTotalIdGenerations)
  <2>1. UNCHANGED <<ledger, google, proj, ops>>
    BY <1>4 DEF CreateEntry
  <2>2. worker'.pc = "insert" /\ worker'.pc \in PlainPC
    BY <1>4, WorkerTypes DEF CreateEntry, PlainPC, PC, RecordPC, WorkerState
  <2>3. SameIds /\ \A p \in Projections : RowHeld(p)
    BY <2>1 DEF SameIds, RowHeld, PlanHeld
  <2> QED BY <1>1, <2>1, <2>2, <2>3, SameHeld, QuietRecovers
<1> QED BY <1>3, <1>4

LEMMA InsertRecovers ==
  ASSUME Ground, Recovers, Insert PROVE Recovers'
<1> USE DEF Ground, Base
<1>1. /\ worker.pc = "insert" /\ worker.pc \in HeldPC /\ worker.pc \in TryPC
      /\ worker.key.kind = "create"
  BY DEF Insert, HeldPC, CreatePC, TryPC, TypeInv, WorkerInv
<1>2. /\ OpProj \in Projections /\ worker.gen \in Generations
      /\ worker.gen = proj[OpProj].gen
      /\ proj[OpProj].gen - proj[OpProj].floor < MaxTotalIdGenerations
  <2>1. /\ OpProj \in Projections /\ worker.gen \in Generations
        /\ worker.gen = proj[OpProj].gen
        /\ worker.floor <= proj[OpProj].floor
        /\ worker.gen - worker.floor < MaxTotalIdGenerations
    BY <1>1, TryOp DEF SafeInv, CopyInv, EpisodeInv
  <2>2. proj[OpProj].gen \in Nat /\ proj[OpProj].floor \in Nat
        /\ worker.floor \in Nat
    BY <2>1, RowTypes, WorkerTypes
  <2> QED BY <2>1, <2>2, ConstantsAssumption
<1>3. CASE google[OpProj][worker.gen] # NONE
  <2>1. UNCHANGED <<ledger, google, proj, ops>> /\ Goto("conflict")
    BY <1>3 DEF Insert
  <2>2. worker'.pc = "conflict" /\ worker'.pc \in PlainPC
    BY <2>1, WorkerTypes DEF Goto, PlainPC, PC, RecordPC, WorkerState
  <2>3. SameIds /\ \A p \in Projections : RowHeld(p)
    BY <2>1 DEF SameIds, RowHeld, PlanHeld
  <2> QED BY <1>1, <2>1, <2>2, <2>3, SameHeld, QuietRecovers
<1>4. CASE google[OpProj][worker.gen] = NONE
  <2>1. UNCHANGED <<ledger, proj>> /\ GoogleWrites(OpProj, worker.gen, Op.body)
    BY <1>4 DEF Insert, MarkRetry
  <2>2. SameIds /\ \A p \in Projections : RowHeld(p)
    BY <2>1 DEF SameIds, RowHeld, PlanHeld
  <2>3. CASE /\ worker' = [worker EXCEPT !.pc = "landed", !.etag = "match"]
             /\ UNCHANGED ops
    <3>1. /\ worker'.pc = "landed" /\ worker'.key = worker.key
          /\ worker'.gen = worker.gen
      BY <2>3, WorkerTypes DEF WorkerState
    <3>2. google'[OpProj][worker.gen] = Op.hash
      BY <1>1, <1>2, <2>1, HandRow DEF GoogleWrites, TypeInv, TypeOK
    <3>3. HandInv'
      BY <1>1, <2>3, <3>1, <3>2 DEF HandInv, RecordPC, OpProj, Op
    <3> QED BY <1>1, <1>2, <1>4, <2>1, <2>2, <2>3, <3>1, <3>3,
               SameHeld, WriteRecovers DEF Outstanding
  <2>4. CASE MarkRetry
    <3>1. worker'.pc = "drain"
      BY <2>4, WorkerTypes DEF MarkRetry, NextOp, WorkerState
    <3>2. HandInv'
      BY <3>1 DEF HandInv, RecordPC
    <3>3. QueueHeld /\ \A k \in Keys : Outstanding(k)' <=> Outstanding(k)
      BY <1>1, <2>4, RetryHeld DEF MarkRetry
    <3> QED BY <1>1, <1>2, <1>4, <2>1, <2>2, <3>1, <3>2, <3>3, WriteRecovers
  <2> QED BY <1>4, <2>3, <2>4 DEF Insert
<1> QED BY <1>3, <1>4

LEMMA BumpRecovers ==
  ASSUME Ground, Recovers, BumpGeneration PROVE Recovers'
<1> USE DEF Ground, Base
<1>1. /\ worker.pc = "burned" /\ worker.pc \in HeldPC /\ worker.pc \in TryPC
      /\ worker.gen + 1 \in Generations
  BY DEF BumpGeneration, HeldPC, CreatePC, TryPC
<1>2. /\ OpProj \in Projections /\ worker.gen \in Generations
      /\ worker.gen = proj[OpProj].gen /\ proj[OpProj] \in ProjRow
      /\ google[OpProj][worker.gen] = CANCELLED
  BY <1>1, TryOp DEF SafeInv, CopyInv
<1>3. Bare(OpProj)
  BY <1>2 DEF SafeInv, CopyInv, AtMostOneCopy, Bare, Live
<1>4. /\ UNCHANGED <<ledger, google>>
      /\ proj' = [proj EXCEPT ![OpProj].gen = worker.gen + 1]
  BY DEF BumpGeneration, GiveUp
<1>5. \A p \in Projections :
        /\ RowHeld(p) /\ proj'[p].floor = proj[p].floor
        /\ proj'[p].gen = IF p = OpProj THEN worker.gen + 1 ELSE proj[p].gen
  BY <1>2, <1>4, RowTypes DEF TypeInv, TypeOK, ProjRow, RowHeld, PlanHeld
<1>6. TriedInv'
  <2>1. \A p \in Projections : p # OpProj =>
          /\ google[p][proj[p].gen] # NONE =>
               proj[p].gen - proj[p].floor < MaxTotalIdGenerations
          /\ \A g \in Generations : g > proj[p].gen => google[p][g] = NONE
    BY DEF Recovers, TriedInv
  <2>2. worker.gen \in Nat /\ \A g \in Generations : g \in Nat
    BY <1>2, ConstantsAssumption
  <2>3. \A g \in Generations : g > worker.gen => google[OpProj][g] = NONE
    BY <1>2 DEF Recovers, TriedInv
  <2>4. google[OpProj][worker.gen + 1] = NONE
        /\ \A g \in Generations : g > worker.gen + 1 => google[OpProj][g] = NONE
    BY <1>1, <2>2, <2>3
  <2> QED BY <1>4, <1>5, <2>1, <2>4 DEF TriedInv
<1>7. CASE GiveUp(worker.gen + 1)
  BY <1>1, <1>3, <1>4, <1>5, <1>6, <1>7, GaveUpRecovers DEF GiveUp
<1>8. CASE /\ worker' = [worker EXCEPT !.pc = "insert", !.gen = @ + 1,
                                       !.tries = @ + 1]
           /\ UNCHANGED ops
  <2>1. worker'.pc = "insert"
    BY <1>8, WorkerTypes DEF WorkerState
  <2>2. HandInv'
    BY <2>1 DEF HandInv, RecordPC
  <2> QED BY <1>1, <1>4, <1>5, <1>6, <1>8, <2>1, <2>2, SameHeld, DrainTables
          DEF RowHeld
<1>9. CASE /\ ops' = [ops EXCEPT ![worker.key].status = "pending"]
           /\ worker' = NextOp
  <2>1. worker'.pc = "drain"
    BY <1>9, WorkerTypes DEF NextOp, WorkerState
  <2>2. HandInv'
    BY <2>1 DEF HandInv, RecordPC
  <2>3. QueueHeld /\ CreatesHeld
    BY <1>1, <1>9, RetryHeld
  <2> QED BY <1>1, <1>4, <1>5, <1>6, <2>1, <2>2, <2>3, DrainTables DEF RowHeld
<1> QED BY <1>7, <1>8, <1>9 DEF BumpGeneration

(* The ETag is of no account where nobody edits.                           *)
LEMMA EtagHeld ==
  ASSUME TypeInv, NEW p \in Projections,
         \E e : proj' = [proj EXCEPT ![p].etag = e]
  PROVE  SameIds /\ \A q \in Projections : RowHeld(q)
<1>1. PICK e : proj' = [proj EXCEPT ![p].etag = e]
  OBVIOUS
<1> QED BY <1>1, RowTypes
        DEF SameIds, RowHeld, PlanHeld, TypeInv, TypeOK, ProjRow

(* Our own live copy under the id is brought up to date.                   *)
LEMMA AdoptRecovers ==
  ASSUME Ground, Recovers, Adopt PROVE Recovers'
<1> USE DEF Ground, Base
<1>1. /\ worker.pc = "adopt" /\ worker.pc \in HeldPC /\ worker.pc \in TryPC
      /\ worker.key.kind = "create"
  BY DEF Adopt, HeldPC, CreatePC, TryPC, TypeInv, WorkerInv
<1>2. /\ OpProj \in Projections /\ worker.gen \in Generations
      /\ Live(OpProj, worker.gen) /\ worker.etag # "stale"
  BY <1>1, TryOp DEF Recovers, HandInv
<1>3. /\ UNCHANGED <<ledger, proj>> /\ GoogleWrites(OpProj, worker.gen, Op.body)
      /\ (Goto("landed") /\ UNCHANGED ops) \/ MarkRetry
  BY <1>2 DEF Adopt, MarkRetry
<1>4. SameIds /\ \A p \in Projections : RowHeld(p)
  BY <1>3 DEF SameIds, RowHeld, PlanHeld
<1>5. CASE Goto("landed") /\ UNCHANGED ops
  <2>1. /\ worker'.pc = "landed" /\ worker'.key = worker.key
        /\ worker'.gen = worker.gen
    BY <1>5, WorkerTypes DEF Goto, WorkerState
  <2>2. google'[OpProj][worker.gen] = Op.hash
    BY <1>1, <1>2, <1>3, HandRow DEF GoogleWrites, TypeInv, TypeOK
  <2>3. HandInv'
    BY <1>1, <1>5, <2>1, <2>2 DEF HandInv, RecordPC, OpProj, Op
  <2> QED BY <1>1, <1>2, <1>3, <1>4, <1>5, <2>1, <2>3, SameHeld, WriteRecovers
          DEF Outstanding
<1>6. CASE MarkRetry
  <2>1. worker'.pc = "drain"
    BY <1>6, WorkerTypes DEF MarkRetry, NextOp, WorkerState
  <2>2. HandInv'
    BY <2>1 DEF HandInv, RecordPC
  <2>3. QueueHeld /\ \A k \in Keys : Outstanding(k)' <=> Outstanding(k)
    BY <1>1, <1>6, RetryHeld DEF MarkRetry
  <2> QED BY <1>1, <1>2, <1>3, <1>4, <2>1, <2>2, <2>3, WriteRecovers
<1> QED BY <1>3, <1>5, <1>6

LEMMA LandedRecovers ==
  ASSUME Ground, Recovers, Landed PROVE Recovers'
<1> USE DEF Ground, Base
<1>1. worker.pc = "landed" /\ worker.pc \in HeldPC /\ worker.pc \in TryPC
  BY DEF Landed, HeldPC, CreatePC, TryPC
<1>2. OpProj \in Projections /\ worker.gen = proj[OpProj].gen
      /\ proj[OpProj] \in ProjRow /\ worker.gen \in Nat
  BY <1>1, TryOp, WorkerTypes DEF SafeInv, CopyInv
<1>3. /\ UNCHANGED <<ledger, google, ops>>
      /\ worker'.pc = "record" /\ worker'.key = worker.key
      /\ worker'.gen = worker.gen
  BY WorkerTypes DEF Landed, Goto, WorkerState
<1>4. \A p \in Projections :
        /\ RowHeld(p) /\ proj'[p].gen = proj[p].gen
        /\ proj'[p].floor = IF p = OpProj THEN worker.gen ELSE proj[p].floor
  BY <1>2, RowTypes DEF Landed, TypeInv, TypeOK, ProjRow, RowHeld, PlanHeld
<1>5. TriedInv'
  <2>1. worker.gen - worker.gen < MaxTotalIdGenerations
    BY <1>2, ConstantsAssumption
  <2> QED BY <1>2, <1>3, <1>4, <2>1 DEF Recovers, TriedInv
<1>6. HandInv'
  BY <1>1, <1>3 DEF Recovers, HandInv, RecordPC, OpProj, Op
<1> QED BY <1>1, <1>3, <1>4, <1>5, <1>6, SameHeld, DrainTables DEF RowHeld

(* The copy on record is the only one an update or a delete can be about.  *)
LEMMA OnRecord ==
  ASSUME Ground, Recovers, worker.pc \in HeldPC, worker.key.kind # "create"
  PROVE  /\ \A g \in Generations : Live(OpProj, g) => InPlace(OpProj, g)
         /\ proj[OpProj].gid = NULL \/ ~Live(OpProj, proj[OpProj].gid)
              => Bare(OpProj)
<1>1. Located(OpProj) /\ ~Creating(OpProj)
  BY HandRow DEF Recovers, LocatedInv
<1> QED BY <1>1, ConstantsAssumption DEF Located, InPlace, Bare

LEMMA UpdateRecovers ==
  ASSUME Ground, Recovers, Update PROVE Recovers'
<1> USE DEF Ground, Base
<1>1. /\ worker.pc = "update" /\ worker.pc \in HeldPC
      /\ worker.key.kind = "update"
  BY DEF Update, HeldPC, UpdatePC, TypeInv, WorkerInv
<1>2. OpProj \in Projections /\ proj[OpProj] \in ProjRow
  BY <1>1, HandRow
<1>3. CASE proj[OpProj].gid = NULL
  <2>1. MarkRejected /\ UNCHANGED google
    BY <1>3 DEF Update
  <2>2. CASE MarkRetry
    BY <1>1, <2>1, <2>2, RetryRecovers
  <2>3. CASE /\ ops' = [ops EXCEPT ![worker.key] = Close(@)]
             /\ Goto("failed") /\ UNCHANGED <<ledger, proj>>
    <3>1. SameIds /\ \A p \in Projections : RowHeld(p)
      BY <2>3 DEF SameIds, RowHeld, PlanHeld
    <3>2. TriedInv'
      BY <2>1, <3>1, TriedKept DEF Recovers
    <3>3. Bare(OpProj)
      BY <1>1, <1>3, OnRecord
    <3> QED BY <1>1, <2>1, <2>3, <3>1, <3>2, <3>3, GaveUpRecovers
  <2> QED BY <2>1, <2>2, <2>3 DEF MarkRejected
<1>4. CASE /\ proj[OpProj].gid # NULL /\ Live(OpProj, proj[OpProj].gid)
           /\ GoogleWrites(OpProj, proj[OpProj].gid, Op.body)
           /\ UNCHANGED ledger
           /\ \/ /\ worker' = [worker EXCEPT !.pc = "record",
                                             !.gen = proj[OpProj].gid,
                                             !.etag = "match"]
                 /\ UNCHANGED <<proj, ops>>
              \/ /\ ops' = [ops EXCEPT ![worker.key].status = "pending"]
                 /\ proj' = [proj EXCEPT ![OpProj].etag =
                               EtagAfterForeignWrite(OpProj, proj[OpProj].gid)]
                 /\ worker' = NextOp
  <2>1. proj[OpProj].gid \in Generations
    BY <1>2, <1>4 DEF ProjRow
  <2>2. SameIds /\ \A p \in Projections : RowHeld(p)
    <3>1. CASE UNCHANGED proj
      BY <3>1 DEF SameIds, RowHeld, PlanHeld
    <3>2. CASE \E e : proj' = [proj EXCEPT ![OpProj].etag = e]
      BY <1>2, <3>2, EtagHeld
    <3> QED BY <1>4, <3>1, <3>2
  <2>3. CASE /\ worker' = [worker EXCEPT !.pc = "record",
                                         !.gen = proj[OpProj].gid,
                                         !.etag = "match"]
             /\ UNCHANGED ops
    <3>1. /\ worker'.pc = "record" /\ worker'.key = worker.key
          /\ worker'.gen = proj[OpProj].gid
      BY <2>3, WorkerTypes DEF WorkerState
    <3>2. google'[OpProj][proj[OpProj].gid] = Op.hash
      BY <1>1, <1>2, <1>4, <2>1, HandRow DEF GoogleWrites, TypeInv, TypeOK
    <3>3. HandInv'
      BY <1>1, <2>3, <3>1, <3>2 DEF HandInv, RecordPC, OpProj, Op
    <3> QED BY <1>1, <1>4, <2>1, <2>2, <2>3, <3>1, <3>3, SameHeld,
               WriteRecovers DEF Outstanding
  <2>4. CASE /\ ops' = [ops EXCEPT ![worker.key].status = "pending"]
             /\ worker' = NextOp
    <3>1. worker'.pc = "drain"
      BY <2>4, WorkerTypes DEF NextOp, WorkerState
    <3>2. HandInv'
      BY <3>1 DEF HandInv, RecordPC
    <3>3. QueueHeld /\ \A k \in Keys : Outstanding(k)' <=> Outstanding(k)
      BY <1>1, <2>4, RetryHeld
    <3> QED BY <1>1, <1>4, <2>1, <2>2, <3>1, <3>2, <3>3, WriteRecovers
  <2> QED BY <1>4, <2>3, <2>4
<1>5. CASE /\ proj[OpProj].gid # NULL
           /\ Goto(IF Live(OpProj, proj[OpProj].gid) THEN "refetch" ELSE "gone")
           /\ UNCHANGED <<ledger, proj, ops, google>>
  <2>1. /\ worker'.key = worker.key
        /\ worker'.pc = IF Live(OpProj, proj[OpProj].gid)
                          THEN "refetch" ELSE "gone"
    BY <1>5, WorkerTypes DEF Goto, WorkerState
  <2>2. SameIds /\ \A p \in Projections : RowHeld(p)
    BY <1>5 DEF SameIds, RowHeld, PlanHeld
  <2>3. TriedInv'
    BY <1>5, <2>2, TriedKept DEF Recovers
  <2>4. HandInv'
    BY <1>1, <1>5, <2>1, OnRecord DEF HandInv, RecordPC, OpProj, Bare, Live
  <2> QED BY <1>1, <1>5, <2>1, <2>2, <2>3, <2>4, SameHeld, DrainTables
          DEF RowHeld
<1> QED BY <1>3, <1>4, <1>5 DEF Update

(* Steps that only loosen a stamp, or an ETag.                             *)
LEMMA LoosenRecovers ==
  ASSUME Ground, Recovers, Refetch \/ RequestReplan PROVE Recovers'
<1> USE DEF Ground, Base
<1>1. /\ worker.pc \in {"refetch", "replan"} /\ worker.pc \in OpPC
      /\ UNCHANGED <<ledger, google, ops>>
  BY DEF Refetch, RequestReplan, OpPC, HeldPC, UpdatePC
<1>2. OpProj \in Projections
  BY <1>1, HeldRow
<1>3. SameIds /\ \A p \in Projections : RowHeld(p)
  <2>1. CASE UNCHANGED proj
    BY <2>1 DEF SameIds, RowHeld, PlanHeld
  <2>2. CASE \E e : proj' = [proj EXCEPT ![OpProj].etag = e]
    BY <1>2, <2>2, EtagHeld
  <2>3. CASE proj' = [proj EXCEPT ![OpProj].aver = NULL]
    BY <1>2, <2>3, RowTypes
       DEF SameIds, RowHeld, PlanHeld, TypeInv, TypeOK, ProjRow
  <2> QED BY <2>1, <2>2, <2>3 DEF Refetch, RequestReplan
<1>4. TriedInv'
  BY <1>1, <1>3, TriedKept DEF Recovers
<1>5. HandInv' /\ worker'.pc \in {"supersede", "drain"}
  <2>1. CASE Refetch
    <3>1. worker'.pc = "supersede" /\ worker'.key = worker.key
      BY <2>1, WorkerTypes DEF Refetch, Goto, WorkerState
    <3>2. worker.key.kind = "update"
      BY <2>1 DEF Refetch, UpdatePC, TypeInv, WorkerInv
    <3> QED BY <3>1, <3>2 DEF HandInv, RecordPC
  <2>2. CASE RequestReplan
    <3>1. worker'.pc = "drain"
      BY <2>2, WorkerTypes DEF RequestReplan, NextOp, WorkerState
    <3> QED BY <3>1 DEF HandInv, RecordPC
  <2> QED BY <2>1, <2>2
<1> QED BY <1>1, <1>3, <1>4, <1>5, SameHeld, DrainTables DEF RowHeld

LEMMA CloseRecovers ==
  ASSUME Ground, Recovers, MarkSuperseded \/ OpDone PROVE Recovers'
<1> USE DEF Ground, Base
<1>1. /\ worker.pc \in {"supersede", "done"} /\ worker.pc \in HeldPC
      /\ UNCHANGED <<ledger, proj, google>>
      /\ ops' = [ops EXCEPT ![worker.key] = Close(@)]
  BY DEF MarkSuperseded, OpDone, HeldPC
<1>2. worker'.pc \in {"replan", "drain"} /\ worker'.pc \in PlainPC
  BY WorkerTypes
     DEF MarkSuperseded, OpDone, Goto, NextOp, PlainPC, PC, RecordPC, WorkerState
<1>3. worker.key.kind = "create" =>
        \A g \in Generations : Live(OpProj, g) => InPlace(OpProj, g)
  BY <1>1 DEF Recovers, HandInv
<1>4. SameIds /\ \A p \in Projections : RowHeld(p)
  BY <1>1 DEF SameIds, RowHeld, PlanHeld
<1> QED BY <1>1, <1>2, <1>3, <1>4, CloseHeld, QuietRecovers

LEMMA DeleteRecovers ==
  ASSUME Ground, Recovers, Delete PROVE Recovers'
<1> USE DEF Ground, Base
<1>1. /\ worker.pc = "delete" /\ worker.pc \in HeldPC
      /\ worker.key.kind = "delete"
  BY DEF Delete, HeldPC, DeletePC, TypeInv, WorkerInv
<1>2. /\ OpProj \in Projections /\ proj[OpProj] \in ProjRow
      /\ ~Creating(OpProj) /\ Op.hash = ABSENT
      /\ worker.key.ver = proj[OpProj].dver => Op.hash = proj[OpProj].desired
      /\ proj[OpProj].aver = proj[OpProj].dver
           /\ proj[OpProj].current = "present"
         => worker.key.ver = proj[OpProj].dver
  BY <1>1, HandRow
<1>3. UNCHANGED <<ledger, proj>> /\ SameIds /\ \A p \in Projections : RowHeld(p)
  BY DEF Delete, MarkRetry, SameIds, RowHeld, PlanHeld
<1>4. CASE UNCHANGED google /\ Goto("absent") /\ UNCHANGED ops
           /\ ~(proj[OpProj].gid # NULL /\ Live(OpProj, proj[OpProj].gid))
  <2>1. worker'.pc = "absent" /\ worker'.key = worker.key
    BY <1>4, WorkerTypes DEF Goto, WorkerState
  <2>2. HandInv'
    BY <1>1, <1>4, <2>1, OnRecord DEF HandInv, RecordPC, OpProj, Bare, Live
  <2>3. TriedInv'
    BY <1>3, <1>4, TriedKept DEF Recovers
  <2> QED BY <1>1, <1>3, <1>4, <2>1, <2>2, <2>3, SameHeld, DrainTables
          DEF RowHeld
<1>5. ASSUME NEW g \in Generations, g = proj[OpProj].gid, Live(OpProj, g),
             GoogleWrites(OpProj, g, CANCELLED),
             (Goto("absent") /\ UNCHANGED ops) \/ MarkRetry
      PROVE  Recovers'
  <2>1. \A q \in Projections, h \in Generations :
          google'[q][h] = IF q = OpProj /\ h = g THEN CANCELLED ELSE google[q][h]
    BY <1>2, <1>5 DEF GoogleWrites, TypeInv, TypeOK
  <2>2. \A h \in Generations : google'[OpProj][h] \in {NONE, CANCELLED}
    BY <1>1, <1>2, <1>5, <2>1, OnRecord DEF InPlace, Live
  <2>3. QueueHeld /\ \A k \in Keys : Outstanding(k)' <=> Outstanding(k)
    BY <1>1, <1>5, SameHeld, RetryHeld DEF MarkRetry, Outstanding
  <2>4. /\ worker'.pc \in {"absent", "drain"}
        /\ worker'.pc = "absent" => worker'.key = worker.key
    BY <1>5, WorkerTypes DEF Goto, MarkRetry, NextOp, WorkerState
  <2>5. HandInv'
    BY <1>2, <2>2, <2>4 DEF HandInv, RecordPC, OpProj, Bare, Live
  <2>6. FreshInv'
    BY <1>1, <1>3, FreshKept DEF Recovers, Wanted, RowHeld
  <2>7. FaithfulInv'
    BY <1>3, <2>3, <2>4, FaithfulKept DEF Recovers, RowHeld
  <2>8. TriedInv'
    BY <1>3, <1>5, <2>1, TriedKept DEF Recovers, Live
  <2>9. ASSUME NEW p \in Projections PROVE Located(p)' /\ Truthful(p)'
    <3>1. /\ Located(p) /\ Truthful(p) /\ proj'[p] = proj[p]
          /\ proj[p].gid \in Generations \cup {NULL}
      BY <1>3, RowTypes DEF Recovers, LocatedInv, StampInv, ProjRow
    <3>2. Creating(p)' <=> Creating(p)
      BY <2>3 DEF Creating
    <3>3. CASE p = OpProj
      <4>1. Located(p)'
        BY <1>2, <2>2, <3>1, <3>2, <3>3 DEF Located, Live
      <4>2. Truthful(p)'
        BY <1>2, <3>1, <3>3 DEF Truthful
      <4> QED BY <4>1, <4>2
    <3>4. CASE p # OpProj
      <4>1. google'[p] = google[p]
        BY <1>2, <1>5, <3>4 DEF GoogleWrites, TypeInv, TypeOK
      <4> QED BY <3>1, <3>2, <4>1 DEF Located, Truthful, InPlace, Live
    <3> QED BY <3>3, <3>4
  <2> QED BY <2>5, <2>6, <2>7, <2>8, <2>9 DEF Recovers, LocatedInv, StampInv
<1>6. proj[OpProj].gid # NULL => proj[OpProj].gid \in Generations
  BY <1>2 DEF ProjRow
<1> QED BY <1>4, <1>5, <1>6 DEF Delete

(* A handler writes its row of ledger_projections, the plan apart, and     *)
(* goes on; the copy is as it was.                                         *)
LEMMA RowRecovers ==
  ASSUME Ground, Recovers, UNCHANGED <<ledger, google, ops>>,
         worker.pc \in OpPC, SameIds,
         \A p \in Projections :
           /\ PlanHeld(p)
           /\ IF p = OpProj THEN Located(p)' /\ Truthful(p)'
                            ELSE proj'[p] = proj[p],
         worker'.pc \notin {"plan", "rows"}, HandInv'
  PROVE  Recovers'
<1>1. \A p \in Projections : p # OpProj => RowHeld(p)
  BY DEF RowHeld
<1>2. TriedInv'
  BY TriedKept DEF Ground, Base, Recovers
<1>3. worker.pc \notin {"idle", "ingest", "plan"}
  BY DEF OpPC, HeldPC, CreatePC, UpdatePC, DeletePC
<1>4. \A p \in Projections :
        PlanHeld(p) /\ (RowHeld(p) \/ (Located(p)' /\ Truthful(p)'))
  BY <1>1
<1> QED BY <1>2, <1>3, <1>4, SameHeld, DrainTables

LEMMA RecordRecovers ==
  ASSUME Ground, Recovers, RecordSuccess PROVE Recovers'
<1> USE DEF Ground, Base
<1>1. /\ worker.pc = "record" /\ worker.pc \in HeldPC /\ worker.pc \in OpPC
      /\ UNCHANGED <<ledger, google, ops>>
  BY DEF RecordSuccess, OpPC, HeldPC
<1>2. /\ OpProj \in Projections /\ proj[OpProj] \in ProjRow
      /\ worker.key.ver = proj[OpProj].dver => Op.hash = proj[OpProj].desired
      /\ worker.gen \in Generations
  BY <1>1, HandRow, WorkerTypes
<1>3. google[OpProj][worker.gen] = Op.hash /\ Op.hash \in Contents
  BY <1>1, HandRow DEF Recovers, HandInv, RecordPC
<1>4. /\ \A p \in Projections : p # OpProj => proj'[p] = proj[p]
      /\ \A p \in Projections : PlanHeld(p)
      /\ SameIds
      /\ proj'[OpProj].current = "present" /\ proj'[OpProj].gid = worker.gen
      /\ proj'[OpProj].applied = Op.hash /\ proj'[OpProj].aver = worker.key.ver
      /\ proj'[OpProj].dver = proj[OpProj].dver
      /\ proj'[OpProj].desired = proj[OpProj].desired
  BY <1>2, RowTypes
     DEF RecordSuccess, PlanHeld, SameIds, TypeInv, TypeOK, ProjRow
<1>5. worker'.pc = "done" /\ worker'.key = worker.key
  BY WorkerTypes DEF RecordSuccess, Goto, WorkerState
<1>6. Live(OpProj, worker.gen)
  BY <1>3, ConstantsAssumption DEF Live
<1>7. \A g \in Generations : Live(OpProj, g) => g = worker.gen
  BY <1>2, <1>6 DEF SafeInv, CopyInv, AtMostOneCopy
<1>8. \A p \in Projections, g \in Generations : Live(p, g)' <=> Live(p, g)
  BY <1>1 DEF Live
<1>9. ASSUME NEW p \in Projections, p = OpProj
      PROVE  Located(p)' /\ Truthful(p)' /\
             (\A g \in Generations : Live(p, g) => InPlace(p, g))'
  <2>1. (\A g \in Generations : Live(p, g) => InPlace(p, g))'
    BY <1>4, <1>7, <1>8, <1>9 DEF InPlace
  <2>2. Live(p, proj[p].gid)'
    BY <1>2, <1>4, <1>6, <1>8, <1>9 DEF Live
  <2>3. Located(p)'
    BY <1>4, <1>9, <2>1, <2>2 DEF Located
  <2>4. Truthful(p)'
    BY <1>1, <1>2, <1>3, <1>4, <1>9, ConstantsAssumption DEF Truthful
  <2> QED BY <2>1, <2>3, <2>4
<1>10. HandInv'
  BY <1>2, <1>5, <1>9 DEF HandInv, RecordPC, OpProj
<1> QED BY <1>1, <1>2, <1>4, <1>5, <1>9, <1>10, RowRecovers

LEMMA AbsentRecovers ==
  ASSUME Ground, Recovers, RecordAbsent PROVE Recovers'
<1> USE DEF Ground, Base
<1>1. /\ worker.pc = "absent" /\ worker.pc \in HeldPC /\ worker.pc \in OpPC
      /\ worker.key.kind = "delete"
      /\ UNCHANGED <<ledger, google, ops>>
  BY DEF RecordAbsent, OpPC, HeldPC, DeletePC, TypeInv, WorkerInv
<1>2. /\ OpProj \in Projections /\ proj[OpProj] \in ProjRow
      /\ ~Creating(OpProj) /\ Op.hash = ABSENT
      /\ worker.key.ver = proj[OpProj].dver => Op.hash = proj[OpProj].desired
  BY <1>1, HandRow
<1>3. Bare(OpProj)
  BY <1>1 DEF Recovers, HandInv
<1>4. /\ \A p \in Projections : p # OpProj => proj'[p] = proj[p]
      /\ \A p \in Projections : PlanHeld(p)
      /\ SameIds
      /\ proj'[OpProj].current = "absent"
      /\ proj'[OpProj].applied = ABSENT /\ proj'[OpProj].aver = worker.key.ver
      /\ proj'[OpProj].dver = proj[OpProj].dver
      /\ proj'[OpProj].desired = proj[OpProj].desired
  BY <1>2, RowTypes
     DEF RecordAbsent, PlanHeld, SameIds, TypeInv, TypeOK, ProjRow
<1>5. worker'.pc = "done" /\ worker'.key = worker.key
  BY WorkerTypes DEF RecordAbsent, Goto, WorkerState
<1>6. ASSUME NEW p \in Projections, p = OpProj
      PROVE  Located(p)' /\ Truthful(p)' /\ Bare(p)'
  <2>1. Bare(p)' /\ ~Creating(p)'
    BY <1>1, <1>2, <1>3, <1>6 DEF Bare, Live, Creating, Outstanding
  <2>2. Located(p)'
    BY <1>4, <1>6, <2>1 DEF Located, Bare
  <2>3. Truthful(p)'
    BY <1>2, <1>4, <1>6 DEF Truthful
  <2> QED BY <2>1, <2>2, <2>3
<1>7. HandInv'
  BY <1>2, <1>5, <1>6 DEF HandInv, RecordPC, OpProj, Bare
<1> QED BY <1>1, <1>2, <1>4, <1>5, <1>6, <1>7, RowRecovers

(* A copy that is gone is no longer on record, or the projection failed.   *)
LEMMA GoneRecovers ==
  ASSUME Ground, Recovers, TargetGone \/ FailProjection PROVE Recovers'
<1> USE DEF Ground, Base
<1>1. /\ worker.pc \in {"gone", "failed"} /\ worker.pc \in OpPC
      /\ UNCHANGED <<ledger, google, ops>>
  BY DEF TargetGone, FailProjection, OpPC, HeldPC, UpdatePC
<1>2. OpProj \in Projections /\ proj[OpProj] \in ProjRow
  BY <1>1, HeldRow
<1>3. Bare(OpProj)
  BY <1>1 DEF Recovers, HandInv
<1>4. ~Creating(OpProj)
  <2>1. CASE worker.pc = "gone"
    <3>1. worker.pc \in HeldPC /\ worker.key.kind = "update"
      BY <2>1 DEF HeldPC, UpdatePC, TypeInv, WorkerInv
    <3> QED BY <3>1, HandRow
  <2>2. CASE worker.pc = "failed"
    BY <2>2 DEF Recovers, HandInv, Creating
  <2> QED BY <1>1, <2>1, <2>2
<1>5. /\ \A p \in Projections : p # OpProj => proj'[p] = proj[p]
      /\ proj'[OpProj].dver = proj[OpProj].dver
      /\ proj'[OpProj].desired = proj[OpProj].desired
      /\ proj'[OpProj].gen = proj[OpProj].gen
      /\ proj'[OpProj].floor = proj[OpProj].floor
      /\ \/ proj'[OpProj].current = "absent" /\ proj'[OpProj].aver = NULL
         \/ /\ proj'[OpProj].current = "errored"
            /\ proj'[OpProj].aver = proj[OpProj].aver
            /\ proj'[OpProj].applied = proj[OpProj].applied
  <2>1. CASE TargetGone
    BY <1>2, <2>1, RowTypes DEF TargetGone, Forgotten, TypeInv, TypeOK, ProjRow
  <2>2. CASE FailProjection
    BY <1>2, <2>2, RowTypes DEF FailProjection, TypeInv, TypeOK, ProjRow
  <2> QED BY <2>1, <2>2
<1>6. SameIds /\ \A p \in Projections : PlanHeld(p)
  BY <1>5 DEF SameIds, PlanHeld
<1>7. ASSUME NEW p \in Projections, p = OpProj
      PROVE  Located(p)' /\ Truthful(p)'
  <2>1. Bare(p)' /\ ~Creating(p)'
    BY <1>1, <1>3, <1>4, <1>7 DEF Bare, Live, Creating, Outstanding
  <2>2. Located(p)'
    BY <1>5, <1>7, <2>1 DEF Located, Bare
  <2>3. Truthful(p)'
    <3>1. Truthful(p) /\ proj[p].dver # NULL
      BY RowTypes, ConstantsAssumption DEF Recovers, StampInv, ProjRow
    <3>2. proj[p].aver = proj[p].dver => proj[p].desired = ABSENT
      <4> SUFFICES ASSUME proj[p].aver = proj[p].dver, proj[p].desired # ABSENT
                   PROVE  FALSE
        OBVIOUS
      <4>1. /\ proj[p].gid \in Generations
            /\ google[p][proj[p].gid] = proj[p].desired
            /\ proj[p].desired \in Contents
        BY <3>1, RowTypes DEF Truthful, ProjRow
      <4> QED BY <1>3, <1>7, <4>1, ConstantsAssumption DEF Bare, Live
    <3> QED BY <1>5, <1>7, <3>1, <3>2 DEF Truthful
  <2> QED BY <2>2, <2>3
<1>8. /\ worker'.pc \in {"supersede", "drain"}
      /\ worker'.pc = "supersede" => worker'.key.kind = "update"
  <2>1. CASE TargetGone
    <3>1. worker.key.kind = "update"
      BY <2>1 DEF TargetGone, UpdatePC, TypeInv, WorkerInv
    <3> QED BY <2>1, <3>1, WorkerTypes DEF TargetGone, Goto, WorkerState
  <2>2. CASE FailProjection
    BY <2>2, WorkerTypes DEF FailProjection, NextOp, WorkerState
  <2> QED BY <2>1, <2>2
<1>9. HandInv'
  BY <1>8 DEF HandInv, RecordPC
<1> QED BY <1>1, <1>2, <1>5, <1>6, <1>7, <1>8, <1>9, RowRecovers

LEMMA DrainRecovers ==
  ASSUME Ground, Recovers, DrainStep PROVE Recovers'
BY PlainDrainRecovers, ConflictRecovers, CallFailsRecovers, EntryRecovers,
   InsertRecovers, BumpRecovers, AdoptRecovers, LandedRecovers, UpdateRecovers,
   LoosenRecovers, CloseRecovers, DeleteRecovers, RecordRecovers,
   AbsentRecovers, GoneRecovers DEF DrainStep

-----------------------------------------------------------------------------
(* The steps outside the drain.                                            *)

LEMMA EarlyTables ==
  ASSUME Ground, Recovers, UNCHANGED google, QueueHeld, CreatesHeld, SameIds,
         worker'.pc \in EarlyPC \cup {"reclaim"}, FreshInv', FaithfulInv',
         \A p \in Projections : RowHeld(p) \/ (Located(p)' /\ Truthful(p)')
  PROVE  Recovers'
<1>1. ASSUME NEW p \in Projections PROVE Located(p)' /\ Truthful(p)'
  <2>1. Located(p) /\ Truthful(p)
    BY DEF Recovers, LocatedInv, StampInv
  <2> QED BY <2>1, LocatedKept, StampKept DEF Ground, Base
<1>2. TriedInv'
  BY TriedKept DEF Recovers, Ground, Base
<1>3. HandInv'
  BY DEF HandInv, RecordPC, EarlyPC
<1> QED BY <1>1, <1>2, <1>3 DEF Recovers, LocatedInv, StampInv

LEMMA PhaseRecovers ==
  ASSUME Ground, Recovers,
         \/ StartPass \/ RecordAffected \/ IngestDone \/ PlanDone \/ DiffDone
         \/ \E p \in Projections : IngestFails(p)
  PROVE  Recovers'
<1> USE DEF Ground, Base
<1>1. UNCHANGED <<proj, ops, google>>
  BY DEF StartPass, RecordAffected, IngestDone, PlanDone, DiffDone, IngestFails
<1>2. SameIds /\ \A p \in Projections : RowHeld(p)
  BY <1>1 DEF SameIds, RowHeld, PlanHeld
<1>3. \A p \in Projections :
        Wanted(p)' = Wanted(p) /\ ledger'[p].version = ledger[p].version
  <2>1. CASE UNCHANGED ledger
    BY <2>1 DEF Wanted
  <2>2. CASE IngestDone
    BY <2>2, LedgerTypes DEF IngestDone, ReadAffected, Wanted, LedgerRow
  <2>3. CASE PlanDone
    BY <2>3, LedgerTypes DEF PlanDone, Wanted, LedgerRow
  <2>4. CASE RecordAffected
    BY <2>4, QueueMoves DEF QueueMoved, Wanted
  <2> QED BY <2>1, <2>2, <2>3, <2>4 DEF StartPass, DiffDone, IngestFails
<1>4. /\ worker.pc \notin {"rows"} => ~DiffDone
      /\ worker'.pc \in {"ingest", "plan", "diff", "reclaim"}
  BY WorkerTypes
     DEF Calm, StartPass, RecordAffected, IngestDone, ReadAffected, PlanDone,
         DiffDone, IngestFails, Goto, WorkerState
<1>5. FreshInv'
  <2>1. CASE StartPass \/ RecordAffected \/ \E p \in Projections : IngestFails(p)
    <3>1. worker'.pc = "ingest" /\ worker.pc \in {"idle", "ingest"}
      BY <2>1, WorkerTypes
         DEF Calm, StartPass, RecordAffected, IngestFails, WorkerState
    <3> QED BY <1>2, <1>3, <3>1, FreshKept DEF Recovers, RowHeld
  <2>2. CASE IngestDone
    <3>1. /\ worker'.pc = "plan"
          /\ worker'.dirty = {p \in Projections : Queued(p)}
          /\ worker.pc = "ingest"
      BY <2>2, WorkerTypes DEF IngestDone, ReadAffected, WorkerState
    <3>3. \A p \in Projections : "listed" \notin ledger[p].queued
      BY <2>2, NoRejection DEF IngestDone
    <3>2. ASSUME NEW p \in Projections, proj[p].desired # Wanted(p)
          PROVE  p \in worker'.dirty /\ proj[p].dver < ledger[p].version
      BY <3>1, <3>2, <3>3 DEF PlanInv, Recovers, FreshInv, Uncleaned, Queued
    <3> QED BY <1>1, <1>3, <3>1, <3>2 DEF FreshInv
  <2>3. CASE PlanDone \/ DiffDone
    <3>1. \A p \in Projections : proj[p].desired = Wanted(p)
      BY <2>3 DEF PlanDone, DiffDone, Recovers, FreshInv
    <3> QED BY <1>1, <1>3, <3>1 DEF FreshInv
  <2> QED BY <2>1, <2>2, <2>3
<1>6. FaithfulInv'
  BY <1>2, <1>1, <1>4, SameHeld, FaithfulKept DEF Recovers, RowHeld
<1> QED BY <1>1, <1>2, <1>4, <1>5, <1>6, SameHeld, EarlyTables DEF EarlyPC

(* The new version is later than every plan.                               *)
LEMMA SourceRecovers ==
  ASSUME Ground, Recovers, NEW p \in Projections, SourceChange(p)
  PROVE  Recovers'
<1> USE DEF Ground, Base
<1>1. UNCHANGED <<proj, ops, google, worker>> /\ worker.pc = "ingest"
  BY DEF SourceChange
<1>2. SameIds /\ \A q \in Projections : RowHeld(q)
  BY <1>1 DEF SameIds, RowHeld, PlanHeld
<1>3. PICK row \in LedgerRow :
        /\ row.version = ledger[p].version
        /\ ledger' = [ledger EXCEPT ![p] =
                        [row EXCEPT !.version = @ + 1,
                                    !.queued = @ \cup {"listed"}]]
  <2>1. PICK row \in {[ledger[p] EXCEPT !.active = ~@],
                      [ledger[p] EXCEPT !.active = FALSE]}
                \cup {[ledger[p] EXCEPT !.content = c] : c \in Contents} :
          ledger' = [ledger EXCEPT ![p] =
                       [row EXCEPT !.version = @ + 1,
                                   !.queued = @ \cup {"listed"}]]
    BY DEF SourceChange
  <2>2. row \in LedgerRow /\ row.version = ledger[p].version
    BY <2>1, ChangedRow
  <2> QED BY <2>1, <2>2
<1>4. /\ ledger'[p].version = ledger[p].version + 1
      /\ \A q \in Projections : q # p => ledger'[q] = ledger[q]
  BY <1>3 DEF LedgerRow, TypeInv, TypeOK
<1>5. FreshInv'
  <2>1. proj[p].dver < ledger'[p].version
    BY <1>4, OrderTypes DEF OrderInv
  <2>2. \A q \in Projections : q # p => Wanted(q)' = Wanted(q)
    BY <1>4 DEF Wanted
  <2> QED BY <1>1, <1>4, <2>1, <2>2 DEF Recovers, FreshInv
<1>6. FaithfulInv'
  BY <1>1, <1>2, SameHeld, FaithfulKept DEF Recovers, RowHeld
<1> QED BY <1>1, <1>2, <1>5, <1>6, SameHeld, EarlyTables DEF EarlyPC

(* A tombstone of a wanted copy is forgotten: no copy is live, or a create *)
(* that made one is queued.                                                *)
LEMMA ListingRecovers ==
  ASSUME Ground, Recovers, NEW p \in Projections, IngestCopy(p)
  PROVE  Recovers'
<1> USE DEF Ground, Base
<1>1. /\ UNCHANGED <<ledger, ops, google>> /\ worker.pc = "ingest"
      /\ proj' = [proj EXCEPT ![p] = Listed(p)]
      /\ worker'.pc = "ingest"
  BY WorkerTypes DEF IngestCopy, WorkerState
<1>2. \A q \in Projections : q # p => proj'[q] = proj[q]
  BY <1>1 DEF TypeInv, TypeOK
<1>3. \/ /\ proj'[p] \in {proj[p], [proj[p] EXCEPT !.aver = NULL,
                                                   !.etag = "match"]}
      \/ /\ proj'[p] = Forgotten(proj[p])
         /\ proj[p].gid # NULL /\ ~Live(p, proj[p].gid)
  BY <1>1 DEF Listed, TypeInv, TypeOK
<1>4. SameIds /\ \A q \in Projections : PlanHeld(q)
  <2>1. /\ proj'[p].desired = proj[p].desired /\ proj'[p].dver = proj[p].dver
        /\ proj'[p].gen = proj[p].gen /\ proj'[p].floor = proj[p].floor
    <3>1. CASE proj'[p] \in {proj[p], [proj[p] EXCEPT !.aver = NULL,
                                                     !.etag = "match"]}
      BY <3>1, RowTypes DEF ProjRow
    <3>2. CASE proj'[p] = Forgotten(proj[p])
      BY <3>2, RowTypes DEF Forgotten, ProjRow
    <3> QED BY <1>3, <3>1, <3>2
  <2> QED BY <1>2, <2>1 DEF SameIds, PlanHeld
<1>5. ASSUME NEW q \in Projections
      PROVE  RowHeld(q) \/ (Located(q)' /\ Truthful(q)')
  <2>1. CASE q # p
    BY <1>2, <2>1 DEF RowHeld, PlanHeld
  <2>2. CASE /\ q = p
             /\ proj'[p] \in {proj[p], [proj[p] EXCEPT !.aver = NULL,
                                                       !.etag = "match"]}
    BY <2>2, RowTypes DEF RowHeld, PlanHeld, ProjRow
  <2>3. CASE /\ q = p /\ proj'[p] = Forgotten(proj[p])
             /\ proj[p].gid # NULL /\ ~Live(p, proj[p].gid)
    <3>1. /\ proj'[p].current = "absent" /\ proj'[p].aver = NULL
          /\ proj'[p].gid = NULL
      BY <2>3, RowTypes DEF Forgotten, ProjRow
    <3>2. Located(p) /\ proj'[p].dver # NULL
      BY RowTypes, ConstantsAssumption DEF Recovers, LocatedInv, TypeInv, TypeOK, ProjRow
    <3>3. Creating(p)' <=> Creating(p)
      BY <1>1 DEF Creating, Outstanding
    <3>4. \A g \in Generations : Live(p, g)' => Creating(p)
      BY <1>1, <2>3, <3>2 DEF Located, InPlace, Live
    <3>5. Located(p)'
      BY <3>1, <3>3, <3>4 DEF Located
    <3>6. Truthful(p)'
      BY <3>1, <3>2 DEF Truthful
    <3> QED BY <2>3, <3>5, <3>6
  <2> QED BY <1>3, <2>1, <2>2, <2>3
<1>6. FreshInv'
  BY <1>1, <1>4, FreshKept DEF Recovers, Wanted
<1>7. FaithfulInv'
  BY <1>1, <1>4, SameHeld, FaithfulKept DEF Recovers
<1> QED BY <1>1, <1>4, <1>5, <1>6, <1>7, SameHeld, EarlyTables DEF EarlyPC

(* A plan that changes is of a version that nothing queued or stamped has. *)
LEMMA PlanRecovers ==
  ASSUME Ground, Recovers, NEW p \in Projections, PlanRow(p)
  PROVE  Recovers'
<1> USE DEF Ground, Base
<1>1. /\ UNCHANGED <<ledger, ops, google>> /\ worker.pc = "plan"
      /\ proj' = [proj EXCEPT ![p] = Planned(p)]
      /\ worker'.pc = "plan" /\ worker'.dirty = worker.dirty \ {p}
  BY WorkerTypes DEF PlanRow, WorkerState
<1>2. \A q \in Projections : q # p => proj'[q] = proj[q]
  BY <1>1 DEF TypeInv, TypeOK
<1>3. /\ proj'[p].desired = Wanted(p)
      /\ proj'[p].gid = proj[p].gid /\ proj'[p].current = proj[p].current
      /\ proj'[p].aver = proj[p].aver /\ proj'[p].applied = proj[p].applied
      /\ proj'[p].gen = proj[p].gen /\ proj'[p].floor = proj[p].floor
      /\ IF proj[p].desired = Wanted(p)
           THEN proj'[p].dver = proj[p].dver
           ELSE /\ proj'[p].dver = ledger[p].version
                /\ proj[p].dver < ledger[p].version
  BY <1>1, RowTypes DEF Planned, TypeInv, TypeOK, ProjRow, Recovers, FreshInv
<1>4. SameIds
  BY <1>2, <1>3 DEF SameIds
<1>5. \A q \in Projections : Wanted(q)' = Wanted(q)
  BY <1>1 DEF Wanted
<1>6. FreshInv'
  BY <1>1, <1>2, <1>3, <1>5 DEF Recovers, FreshInv
<1>7. ASSUME NEW v, v <= proj[p].dver, v \in Nat, v = proj'[p].dver
      PROVE  RowHeld(p) /\ PlanHeld(p)
  <2>1. proj[p].dver \in Nat /\ ledger[p].version \in Nat
    BY OrderTypes
  <2> QED BY <1>3, <1>7, <2>1 DEF RowHeld, PlanHeld
<1>8. FaithfulInv'
  <2>1. ASSUME NEW k \in Keys, Outstanding(k), k.ver = proj'[k.proj].dver
        PROVE  ops[k].hash = proj'[k.proj].desired
    <3>1. k.proj \in Projections /\ k.ver \in Nat /\ k.ver <= proj[k.proj].dver
      BY <2>1, ConstantsAssumption DEF Keys, OrderInv
    <3>2. proj'[k.proj].desired = proj[k.proj].desired
          /\ proj'[k.proj].dver = proj[k.proj].dver
      BY <1>2, <1>7, <2>1, <3>1 DEF PlanHeld
    <3> QED BY <2>1, <3>2 DEF Recovers, FaithfulInv
  <2> QED BY <1>1, <2>1 DEF Recovers, FaithfulInv, Outstanding
<1>9. ASSUME NEW q \in Projections
      PROVE  RowHeld(q) \/ (Located(q)' /\ Truthful(q)')
  <2>1. CASE q # p
    BY <1>2, <2>1 DEF RowHeld, PlanHeld
  <2>2. CASE q = p /\ proj'[p].aver = proj'[p].dver
    <3>1. /\ proj[p].aver = proj'[p].dver /\ proj[p].aver # NULL
          /\ proj[p].aver <= proj[p].dver /\ proj[p].aver \in Nat
      <4>1. proj'[p].dver # NULL
        BY ConstantsAssumption DEF TypeInv, TypeOK, ProjRow
      <4> QED BY <1>3, <2>2, <4>1, OrderTypes DEF OrderInv
    <3> QED BY <1>7, <2>2, <3>1
  <2>3. CASE q = p /\ proj'[p].aver # proj'[p].dver
    <3>1. Located(p)
      BY DEF Recovers, LocatedInv
    <3>2. Located(p)'
      BY <1>1, <1>3, <3>1 DEF Located, InPlace, Live, Creating, Outstanding
    <3> QED BY <2>3, <3>2 DEF Truthful
  <2> QED BY <2>1, <2>2, <2>3
<1> QED BY <1>1, <1>4, <1>6, <1>8, <1>9, SameHeld, EarlyTables DEF EarlyPC

(* The diff renders from events that no plan is behind.                    *)
LEMMA SelectRecovers ==
  ASSUME Ground, Recovers, SelectDiverged PROVE Recovers'
<1> USE DEF Ground, Base
<1>1. /\ worker.pc = "diff" /\ worker'.pc = "rows"
      /\ UNCHANGED <<ledger, proj, ops, google>>
  BY WorkerTypes DEF SelectDiverged, WorkerState
<1>2. SameIds /\ \A p \in Projections : RowHeld(p)
  BY <1>1 DEF SameIds, RowHeld, PlanHeld
<1>3. FreshInv'
  BY <1>1, <1>2, FreshKept DEF Recovers, Wanted, RowHeld
<1>4. FaithfulInv'
  <2>1. ASSUME NEW p \in Projections, worker'.todo[p] # NULL
        PROVE  LET v == worker'.todo[p] IN
               /\ v.ver = proj[p].dver /\ v.hash = proj[p].desired
               /\ v.kind = DecideKind(proj[p])
               /\ v.kind \in {"create", "update"} => v.body = v.hash
    <3>1. worker'.todo[p] = Decide(p)
      BY <2>1, WorkerTypes DEF SelectDiverged, WorkerState
    <3>2. proj[p].desired = Wanted(p)
      BY <1>1 DEF Recovers, FreshInv
    <3>3. proj[p].desired # ABSENT => ledger[p].content = proj[p].desired
      BY <3>2 DEF Wanted
    <3>4. DecideKind(proj[p]) \in {"create", "update"}
            => proj[p].desired # ABSENT
      BY DEF DecideKind
    <3> QED BY <3>1, <3>3, <3>4 DEF Decide
  <2> QED BY <1>1, <2>1 DEF Recovers, FaithfulInv, Outstanding
<1> QED BY <1>1, <1>2, <1>3, <1>4, SameHeld, EarlyTables DEF EarlyPC

(* A verdict to do nothing: if a copy is live its create is still queued.  *)
LEMMA SnapRecovers ==
  ASSUME Ground, Recovers, NEW p \in Projections, DiffRow(p),
         worker.todo[p].kind = "converged"
  PROVE  Recovers'
<1> USE DEF Ground, Base
<1> DEFINE v == worker.todo[p]
<1>1. /\ worker.pc = "rows" /\ v # NULL
      /\ Snap(p, v) /\ UNCHANGED <<ledger, ops, google>>
      /\ worker' = [worker EXCEPT !.todo[p] = NULL]
  BY DEF DiffRow
<1>2. /\ worker'.pc = "rows" /\ worker'.todo[p] = NULL
      /\ \A q \in Projections : q # p => worker'.todo[q] = worker.todo[q]
  BY <1>1, WorkerTypes DEF WorkerState
<1>3. /\ v.ver = proj[p].dver /\ DecideKind(proj[p]) = "converged"
  BY <1>1 DEF Recovers, FaithfulInv
<1>4. proj[p].desired = ABSENT /\ (proj[p].gid = NULL \/ proj[p].current = "absent")
  BY <1>3 DEF DecideKind
<1>5. \A q \in Projections : q # p => proj'[q] = proj[q]
  BY <1>1 DEF Snap, TypeInv, TypeOK
<1>6. /\ proj'[p].desired = proj[p].desired /\ proj'[p].dver = proj[p].dver
      /\ proj'[p].applied = proj[p].desired /\ proj'[p].current = "absent"
      /\ proj'[p].gid = proj[p].gid
      /\ proj'[p].gen = proj[p].gen /\ proj'[p].floor = proj[p].floor
  <2>1. proj[p] \in ProjRow
    BY RowTypes
  <2>2. proj'[p] = [proj[p] EXCEPT !.aver = v.ver, !.applied = proj[p].desired,
                                   !.current = "absent"]
    BY <1>1 DEF Snap, TypeInv, TypeOK
  <2> QED BY <2>1, <2>2 DEF ProjRow
<1> HIDE DEF v
<1>7. SameIds /\ \A q \in Projections : PlanHeld(q)
  BY <1>5, <1>6 DEF SameIds, PlanHeld
<1>8. FreshInv'
  BY <1>1, <1>2, <1>7, FreshKept DEF Recovers, Wanted
<1>9. FaithfulInv'
  <2>1. ASSUME NEW k \in Keys, Outstanding(k)'
        PROVE  /\ IF k.kind = "delete" THEN ops'[k].hash = ABSENT
                                       ELSE ops'[k].hash = ops'[k].body
               /\ k.ver = proj'[k.proj].dver =>
                    ops'[k].hash = proj'[k.proj].desired
    <3>1. k.proj \in Projections
      BY DEF Keys
    <3> QED BY <1>1, <1>7, <2>1, <3>1
            DEF Recovers, FaithfulInv, Outstanding, PlanHeld
  <2>2. ASSUME NEW q \in Projections, worker'.todo[q] # NULL
        PROVE  q # p /\ worker'.todo[q] = worker.todo[q] /\ proj'[q] = proj[q]
    BY <1>2, <1>5, <2>2
  <2> QED BY <1>1, <2>1, <2>2 DEF Recovers, FaithfulInv
<1>10. ASSUME NEW q \in Projections
       PROVE  RowHeld(q) \/ (Located(q)' /\ Truthful(q)')
  <2>1. CASE q # p
    BY <1>5, <2>1 DEF RowHeld, PlanHeld
  <2>2. CASE q = p
    <3>1. Located(p) /\ NULL \notin Generations
      BY ConstantsAssumption DEF Recovers, LocatedInv
    <3>2. Located(p)'
      BY <1>1, <1>4, <1>6, <3>1
         DEF Located, InPlace, Live, Creating, Outstanding
    <3>3. Truthful(p)'
      BY <1>4, <1>6 DEF Truthful
    <3> QED BY <2>2, <3>2, <3>3
  <2> QED BY <2>1, <2>2
<1> QED BY <1>1, <1>2, <1>7, <1>8, <1>9, <1>10, SameHeld, EarlyTables DEF EarlyPC

(* A verdict to write: a create that is superseded has its copy on record, *)
(* or is replaced by one.                                                  *)
LEMMA EnqueueRecovers ==
  ASSUME Ground, Recovers, NEW p \in Projections, DiffRow(p),
         worker.todo[p].kind # "converged"
  PROVE  Recovers'
<1> USE DEF Ground, Base
<1>1. /\ worker.pc = "rows" /\ worker.todo[p] # NULL
      /\ Enqueue(p, worker.todo[p])
      /\ UNCHANGED <<ledger, proj, google>>
      /\ worker' = [worker EXCEPT !.todo[p] = NULL]
  BY DEF DiffRow
<1>2. /\ worker'.pc = "rows" /\ worker'.todo[p] = NULL
      /\ \A q \in Projections : q # p => worker'.todo[q] = worker.todo[q]
  BY <1>1, WorkerTypes DEF WorkerState
<1>3. PICK v \in Verdict : v = worker.todo[p]
  BY <1>1, WorkerTypes DEF WorkerState
<1>4. /\ v.ver = proj[p].dver /\ v.hash = proj[p].desired
      /\ v.kind = DecideKind(proj[p])
      /\ v.kind \in {"create", "update"} => v.body = v.hash
      /\ v.kind \in Kinds /\ v.ver \in Versions
  BY <1>1, <1>3 DEF Recovers, FaithfulInv, Verdict
<1>5. SameIds /\ \A q \in Projections : RowHeld(q)
  BY <1>1 DEF SameIds, RowHeld, PlanHeld
<1>6. FreshInv'
  BY <1>1, <1>2, <1>5, FreshKept DEF Recovers, Wanted, RowHeld
<1>7. ASSUME NEW q \in Projections, worker'.todo[q] # NULL
      PROVE  worker'.todo[q] = worker.todo[q]
  BY <1>2, <1>7
<1>8. PICK k \in Keys : k = [proj |-> p, ver |-> v.ver, kind |-> v.kind]
  BY <1>4 DEF Keys
<1>9. CASE Outstanding(k)
  <2>1. UNCHANGED ops
    BY <1>1, <1>3, <1>8, <1>9 DEF Enqueue
  <2>2. FaithfulInv'
    BY <1>1, <1>7, <2>1 DEF Recovers, FaithfulInv, Outstanding
  <2> QED BY <1>1, <1>2, <1>5, <1>6, <2>1, <2>2, SameHeld, EarlyTables
          DEF EarlyPC
<1>10. CASE ~Outstanding(k)
  <2>1. PICK id \in Nat :
          ops' = [j \in Keys |->
                    IF j = k
                      THEN [status |-> "pending", hash |-> v.hash,
                            body |-> v.body, attempts |-> 0, ripe |-> TRUE,
                            id |-> id]
                      ELSE IF j.proj = p /\ ops[j].status = "pending"
                             THEN Close(ops[j]) ELSE ops[j]]
    <3>1. (IF ops[k].id = 0 THEN lastId + 1 ELSE ops[k].id) \in Nat
      BY DEF TypeInv, TypeOK, OpRow
    <3> QED BY <1>1, <1>3, <1>8, <1>10, <3>1 DEF Enqueue, Superseded
  <2>2. \A j \in Keys : ops[j].status # "in_flight"
    BY <1>1 DEF OrderInv, HeldPC, CreatePC, UpdatePC, DeletePC
  <2>3. /\ Outstanding(k)' /\ k.proj = p /\ k.kind = v.kind /\ k.ver = v.ver
        /\ ops'[k].hash = v.hash /\ ops'[k].body = v.body
    BY <1>8, <2>1 DEF Outstanding
  <2>4. ASSUME NEW j \in Keys, j.proj # p PROVE ops'[j] = ops[j]
    BY <2>1, <2>3, <2>4
  <2>5. ASSUME NEW j \in Keys, j.proj = p, j # k PROVE ~Outstanding(j)'
    <3>1. Close(ops[j]).status = "closed"
      BY DEF Close, TypeInv, TypeOK, OpRow
    <3> QED BY <2>1, <2>2, <2>5, <3>1 DEF Outstanding
  <2>6. FaithfulInv'
    <3>1. ASSUME NEW j \in Keys, Outstanding(j)'
          PROVE  /\ IF j.kind = "delete" THEN ops'[j].hash = ABSENT
                                         ELSE ops'[j].hash = ops'[j].body
                 /\ j.ver = proj[j.proj].dver =>
                      ops'[j].hash = proj[j.proj].desired
      <4>1. CASE j = k
        <5>1. v.kind = "delete" => v.hash = ABSENT
          BY <1>4 DEF DecideKind
        <5> QED BY <1>4, <2>3, <4>1, <5>1 DEF Kinds
      <4>2. CASE j # k
        BY <2>4, <2>5, <3>1, <4>2 DEF Recovers, FaithfulInv, Outstanding
      <4> QED BY <4>1, <4>2
    <3> QED BY <1>1, <1>7, <3>1 DEF Recovers, FaithfulInv
  <2>7. ASSUME NEW q \in Projections PROVE Located(q)'
    <3>1. Located(q)
      BY DEF Recovers, LocatedInv
    <3>2. CASE q # p
      <4>1. Creating(q)' <=> Creating(q)
        BY <2>4, <3>2 DEF Creating, Outstanding
      <4> QED BY <1>1, <3>1, <4>1 DEF Located, InPlace, Live
    <3>3. CASE q = p /\ v.kind = "create"
      <4>1. Creating(p)'
        BY <2>3, <3>3 DEF Creating
      <4>2. proj[p].gid = NULL \/ proj[p].current = "absent"
        BY <1>4, <3>1, <3>3 DEF DecideKind, Located
      <4> QED BY <1>1, <3>1, <3>3, <4>1, <4>2 DEF Located, InPlace, Live
    <3>4. CASE q = p /\ v.kind # "create"
      <4>1. ~Creating(p)'
        BY <2>3, <2>5, <3>4 DEF Creating
      <4>2. proj[p].gid # NULL /\ proj[p].current # "absent"
        BY <1>4, <3>4 DEF DecideKind, Kinds
      <4>3. \A g \in Generations : Live(p, g) => InPlace(p, g)
        <5>1. proj[p].gid \in Generations
          BY <4>2, RowTypes DEF ProjRow
        <5> QED BY <3>1, <3>4, <4>2, <5>1
                DEF Located, InPlace, SafeInv, CopyInv, AtMostOneCopy
      <4> QED BY <1>1, <3>1, <3>4, <4>1, <4>3 DEF Located, InPlace, Live
    <3> QED BY <3>2, <3>3, <3>4
  <2>8. StampInv'
    BY <1>1, <1>5, StampKept DEF Recovers, StampInv
  <2>9. TriedInv'
    BY <1>1, <1>5, TriedKept DEF Recovers
  <2>10. HandInv'
    BY <1>1, <1>2 DEF HandInv, RecordPC
  <2> QED BY <1>6, <2>6, <2>7, <2>8, <2>9, <2>10 DEF Recovers, LocatedInv
<1> QED BY <1>9, <1>10

-----------------------------------------------------------------------------
(* Calls, the clock and the restart.                                       *)

LEMMA QuietCallRecovers ==
  ASSUME Ground, Recovers,
         FullResync \/ (\E k \in Keys : Ripen(k)) \/ UNCHANGED vars
  PROVE  Recovers'
<1> USE DEF Ground, Base
<1>1. UNCHANGED <<ledger, proj, google, worker>>
  BY DEF FullResync, Ripen, vars
<1>2. \A k \in Keys : /\ Outstanding(k)' <=> Outstanding(k)
                      /\ ops'[k].hash = ops[k].hash
                      /\ ops'[k].body = ops[k].body
  <2>1. ASSUME NEW j \in Keys, Ripen(j)
        PROVE  \A k \in Keys : /\ ops'[k].status = ops[k].status
                               /\ ops'[k].hash = ops[k].hash
                               /\ ops'[k].body = ops[k].body
    <3>1. ops' = [ops EXCEPT ![j].ripe = TRUE] /\ ops[j] \in OpRow
      BY <2>1 DEF Ripen, TypeInv, TypeOK
    <3> QED BY <3>1 DEF OpRow, TypeInv, TypeOK
  <2>2. CASE UNCHANGED ops
    BY <2>2 DEF Outstanding
  <2> QED BY <2>1, <2>2 DEF FullResync, vars, Outstanding
<1>3. /\ QueueHeld /\ CreatesHeld /\ SameIds
      /\ \A p \in Projections : RowHeld(p)
  BY <1>1, <1>2 DEF QueueHeld, CreatesHeld, SameIds, RowHeld, PlanHeld
<1>4. FreshInv'
  BY <1>1, <1>3, FreshKept DEF Recovers, Wanted, RowHeld
<1>5. FaithfulInv'
  BY <1>1, <1>3, FaithfulKept DEF Recovers, RowHeld
<1>6. LocatedInv' /\ StampInv'
  BY <1>1, <1>3, LocatedKept, StampKept DEF Recovers, LocatedInv, StampInv
<1>7. TriedInv'
  BY <1>1, <1>3, TriedKept DEF Recovers
<1>8. HandInv'
  <2>1. worker.pc \in RecordPC => worker.key \in Keys
    BY HeldRow DEF RecordPC, OpPC, HeldPC, CreatePC
  <2> QED BY <1>1, <1>2, <2>1
          DEF Recovers, HandInv, OpProj, Op, Bare, Live, InPlace
<1> QED BY <1>4, <1>5, <1>6, <1>7, <1>8 DEF Recovers

(* A new episode starts at the generation of the row.                      *)
LEMMA RetryFailedRecovers ==
  ASSUME Ground, Recovers, RetryPermanentFailures PROVE Recovers'
<1> USE DEF Ground, Base
<1>1. UNCHANGED <<ops, google, worker>>
  BY DEF RetryPermanentFailures
<1>2. \A p \in Projections :
        /\ RowHeld(p) /\ proj'[p].aver = proj[p].aver
        /\ proj'[p].gen = proj[p].gen
        /\ proj'[p].floor \in {proj[p].floor, proj[p].gen}
  BY RowTypes DEF RetryPermanentFailures, ProjRow, RowHeld, PlanHeld
<1>3. \A p \in Projections :
        Wanted(p)' = Wanted(p) /\ ledger'[p].version = ledger[p].version
  BY LedgerTypes DEF RetryPermanentFailures, Dirty, Wanted, LedgerRow
<1>4. FreshInv'
  BY <1>1, <1>2, <1>3, FreshKept DEF Recovers, RowHeld
<1>5. FaithfulInv'
  BY <1>1, <1>2, SameHeld, FaithfulKept DEF Recovers, RowHeld
<1>6. LocatedInv' /\ StampInv'
  BY <1>1, <1>2, SameHeld, LocatedKept, StampKept
     DEF Recovers, LocatedInv, StampInv
<1>7. TriedInv'
  <2>1. ASSUME NEW p \in Projections, google[p][proj[p].gen] # NONE
        PROVE  proj'[p].gen - proj'[p].floor < MaxTotalIdGenerations
    <3>1. /\ proj[p].gen - proj[p].floor < MaxTotalIdGenerations
          /\ proj[p].gen - proj[p].gen = 0 /\ 0 < MaxTotalIdGenerations
      BY <2>1, RowTypes, ConstantsAssumption DEF Recovers, TriedInv, ProjRow
    <3> QED BY <1>2, <3>1
  <2> QED BY <1>1, <1>2, <2>1 DEF Recovers, TriedInv
<1>8. HandInv'
  <2>1. worker.pc = "done" => OpProj \in Projections
    BY HandRow DEF HeldPC
  <2> QED BY <1>1, <1>2, <2>1
          DEF Recovers, HandInv, OpProj, Op, Bare, Live, InPlace, Outstanding,
              RowHeld
<1> QED BY <1>4, <1>5, <1>6, <1>7, <1>8 DEF Recovers

(* The queue outlives the process: what was in flight waits again.         *)
LEMMA CrashRecovers ==
  ASSUME Ground, Recovers, CrashAndRestart PROVE Recovers'
<1> USE DEF Ground, Base
<1>1. UNCHANGED <<proj, google>> /\ worker'.pc = "idle"
  BY DEF CrashAndRestart, FreshWorker
<1>6. \A p \in Projections :
        Wanted(p)' = Wanted(p) /\ ledger'[p].version = ledger[p].version
  BY LedgerTypes DEF CrashAndRestart, Wanted, LedgerRow
<1>2. \A k \in Keys : /\ Outstanding(k)' <=> Outstanding(k)
                      /\ ops'[k].hash = ops[k].hash
                      /\ ops'[k].body = ops[k].body
  <2>1. ASSUME NEW k \in Keys, ops[k].status = "in_flight"
        PROVE  /\ ops'[k].status = "pending" /\ ops'[k].hash = ops[k].hash
               /\ ops'[k].body = ops[k].body
    <3>1. ops'[k] = [ops[k] EXCEPT !.status = "pending", !.ripe = TRUE]
          /\ ops[k] \in OpRow
      BY <2>1 DEF CrashAndRestart, TypeInv, TypeOK
    <3> QED BY <3>1 DEF OpRow
  <2>2. \A k \in Keys : ops[k].status # "in_flight" => ops'[k] = ops[k]
    BY DEF CrashAndRestart
  <2> QED BY <2>1, <2>2 DEF Outstanding
<1>3. /\ QueueHeld /\ CreatesHeld /\ SameIds
      /\ \A p \in Projections : RowHeld(p)
  BY <1>1, <1>2 DEF QueueHeld, CreatesHeld, SameIds, RowHeld, PlanHeld
<1>4. FreshInv'
  BY <1>1, <1>3, <1>6 DEF Recovers, FreshInv
<1>5. FaithfulInv'
  BY <1>1, <1>3, FaithfulKept DEF Recovers, RowHeld
<1> QED BY <1>1, <1>3, <1>4, <1>5, EarlyTables DEF EarlyPC

LEMMA NextRecovers ==
  ASSUME Ground, Recovers, [Next]_vars PROVE Recovers'
<1> USE DEF Ground
<1>1. ~PassDies /\ \A p \in Projections, g \in Generations :
                     ~UserEdit(p, g) /\ ~UserDelete(p, g)
  BY NoRejection DEF PassDies, UserEdit, UserDelete, Edit, Calm
<1>2. /\ ~CleanupAndPause /\ ~PauseSync /\ ~ResumeSync
      /\ \A p \in Projections : ~CleanupCalendar(p)
      /\ \A p \in Projections, c \in Contents : ~Relabel(p, c)
  BY DEF Undisturbed, VersionedOnly, NeverPaused, CleanupAndPause,
         CleanupCalendar, PauseSync, ResumeSync, Relabel, Admin, Calm
<1>9. ~CleanupGoesOn
  BY DEF Base, Uncleaned, CleanupGoesOn, ClearToken, QueueCleaned, PauseAfterCleanup
<1>3. ASSUME NEW p \in Projections, DiffRow(p) PROVE Recovers'
  BY <1>3, SnapRecovers, EnqueueRecovers
<1>4. CASE PlanningStep
  BY <1>3, <1>4, PlanRecovers, PhaseRecovers, SelectRecovers DEF PlanningStep
<1>5. CASE StartPass \/ IngestStep
  BY <1>5, PhaseRecovers, ListingRecovers DEF IngestStep
<1>6. CASE DrainStep
  BY <1>6, DrainRecovers
<1>7. CASE Environment
  BY <1>1, <1>2, <1>7, <1>9, SourceRecovers, QuietCallRecovers, RetryFailedRecovers,
     CrashRecovers DEF Environment, AdminStep
<1>8. CASE Time \/ UNCHANGED vars
  BY <1>8, QuietCallRecovers DEF Time
<1> QED BY <1>4, <1>5, <1>6, <1>7, <1>8 DEF Next, PassStep

-----------------------------------------------------------------------------

(* Where nobody edits copies and nobody pauses, no call is refused for     *)
(* good and no pass dies without its process, a projection that the tables *)
(* call settled is on Google as the event is, however many answers are     *)
(* lost, however often the process stops between two statements, and       *)
(* whatever calls are repeated: what a lost answer leaves on the calendar  *)
(* is still in the queue of the projection, and the next delivery finds it.*)
THEOREM LostAnswersSettle == Undisturbed => (Spec => []SettledIsMirrored)
<1> SUFFICES ASSUME Undisturbed PROVE Spec => []SettledIsMirrored
  OBVIOUS
<1> DEFINE All == /\ TypeInv /\ SafeInv /\ PlanInv /\ OrderInv /\ Uncleaned
                  /\ Calm /\ Recovers
<1>1. Init => All
  <2> SUFFICES ASSUME Init PROVE All
    OBVIOUS
  <2>1. Calm
    BY DEF Init, Undisturbed, NobodyEdits, Calm
  <2>2. PlanInv
    BY DEF Init, InitRow, PlanInv
  <2>3. Uncleaned
    BY DEF Init, Uncleaned
  <2> QED BY <2>1, <2>2, <2>3, InitTypeInv, InitSafe, InitOrder, InitRecovers
<1>2. All /\ [Next]_vars => All'
  <2> SUFFICES ASSUME All, [Next]_vars PROVE All'
    OBVIOUS
  <2>1. PassesEnd
    BY DEF TypeInv, TypeOK, Budget, Undisturbed, Retried, PassesEnd
  <2>2. TypeInv' /\ SafeInv' /\ PlanInv'
    BY NextTypeInv, NextSafe, NextPlan DEF SafeStep
  <2>3. OrderInv'
    BY <2>1, <2>2, NextOrder
  <2>4. Calm'
    BY CalmKept DEF Undisturbed
  <2>5. Recovers'
    BY <2>2, NextRecovers DEF Ground, Base
  <2>6. Uncleaned'
    BY UncleanedKept DEF Undisturbed
  <2> QED BY <2>2, <2>3, <2>4, <2>5, <2>6
<1>3. All => SettledIsMirrored
  BY RecoversMeansMirrored
<1> QED BY <1>1, <1>2, <1>3, PTL DEF Spec

=============================================================================
