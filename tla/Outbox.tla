------------------------------- MODULE Outbox -------------------------------
(***************************************************************************)
(* app/ledger/outbox.py: the queue of calendar writes and the drain that   *)
(* delivers them.  The connection is in autocommit and one coroutine       *)
(* drains a user, so each SQL statement and each Google call is one step,  *)
(* and the process may stop between any two.                               *)
(***************************************************************************)
EXTENDS Ledger

Spend(f) ==
  /\ f \in budget.kinds
  /\ budget.faults > 0
  /\ budget' = [budget EXCEPT !.faults = @ - 1]

(* The claimed row.                                                        *)
Op     == ops[worker.key]
OpProj == worker.key.proj

Goto(pc) == worker' = [worker EXCEPT !.pc = pc]

Close(r) == [r EXCEPT !.status = "closed", !.hash = NULL, !.body = NULL,
                      !.attempts = 0, !.ripe = FALSE]

-----------------------------------------------------------------------------
(* Mutant of Superseded: a row that still waits keeps waiting.             *)
SupersededNever(p, k) == {}

(* The rows that one for key k takes the place of; not those in flight.    *)
Superseded(p, k) == {j \in Keys \ {k} : j.proj = p /\ ops[j].status = "pending"}

(* enqueue: the idempotency key is (projection, version, operation).  The  *)
(* same key still outstanding is a no-op; otherwise every other pending    *)
(* row of the projection is superseded and this one inserted, or           *)
(* resurrected with its old id.  In-flight rows are left alone.            *)
Enqueue(p, v) ==
  LET k == [proj |-> p, ver |-> v.ver, kind |-> v.kind]
      row == [status |-> "pending", hash |-> v.hash, body |-> v.body,
              attempts |-> 0, ripe |-> TRUE,
              id |-> IF ops[k].id = 0 THEN lastId + 1 ELSE ops[k].id]
  IN IF Outstanding(k)
       THEN UNCHANGED <<ops, lastId>>
       ELSE /\ ops' = [j \in Keys |->
                         IF j = k THEN row
                         ELSE IF j \in Superseded(p, k) THEN Close(ops[j])
                         ELSE ops[j]]
            /\ lastId' = IF ops[k].id = 0 THEN lastId + 1 ELSE lastId

-----------------------------------------------------------------------------
(* Mutant of ReclaimStale: an op a dead drain left in flight stays there.  *)
NeverReclaim ==
  /\ worker.pc = "reclaim"
  /\ worker' = [worker EXCEPT !.pc = "drain", !.worked = FALSE]
  /\ UNCHANGED <<ledger, proj, ops, lastId, paused, google, unseen, budget>>

(* drain_user: first free what a dead drain left in flight long ago.       *)
ReclaimStale ==
  /\ worker.pc = "reclaim"
  /\ ops' = [k \in Keys |-> IF ops[k].status = "in_flight" /\ ops[k].ripe
                              THEN [ops[k] EXCEPT !.status = "pending"]
                              ELSE ops[k]]
  /\ worker' = [worker EXCEPT !.pc = "drain", !.worked = FALSE]
  /\ UNCHANGED <<ledger, proj, lastId, paused, google, unseen, budget>>

Due(k) == ops[k].status = "pending" /\ ops[k].ripe

(* _claim_next: the oldest due row, moved to in_flight by a conditional    *)
(* update that also counts the attempt.                                    *)
ClaimNext(k) ==
  /\ worker.pc = "drain"
  /\ Due(k)
  /\ \A j \in Keys : Due(j) => ops[k].id <= ops[j].id
  /\ ops' = [ops EXCEPT ![k].status = "in_flight", ![k].ripe = FALSE,
                        ![k].attempts = IF @ > PoisonPillThreshold
                                          THEN @ ELSE @ + 1]
  /\ worker' = [worker EXCEPT !.pc = k.kind, !.key = k, !.worked = TRUE]
  /\ UNCHANGED <<ledger, proj, lastId, paused, google, unseen, budget>>

(* Nothing due: the fixed-point loop runs the diff again if this drain     *)
(* processed anything and passes are left.                                 *)
DrainEnds ==
  /\ worker.pc = "drain"
  /\ \A k \in Keys : ~Due(k)
  /\ worker' = IF worker.worked /\ worker.pass < MaxPasses
                 THEN [worker EXCEPT !.pc = "diff", !.pass = @ + 1]
                 ELSE [worker EXCEPT !.pc = "idle", !.pass = 1]
  /\ UNCHANGED <<ledger, proj, ops, lastId, paused, google, unseen, budget>>

NextOp == [worker EXCEPT !.pc = "drain", !.key = NULL, !.gen = 0,
                         !.floor = 0, !.tries = 0, !.etag = "match"]

-----------------------------------------------------------------------------
(* How a handler that raised is classified.  A transient failure (rate     *)
(* limit, 5xx, transport) goes back with a backoff, without limit.         *)
MarkRetry ==
  /\ ops' = [ops EXCEPT ![worker.key].status = "pending"]
  /\ worker' = NextOp
  /\ UNCHANGED <<ledger, proj, lastId, paused>>

(* A deterministic failure (400, 401, 403, 404, local ValueError) goes     *)
(* back too, until the attempts before this claim reach the threshold;     *)
(* then the row is closed and, in a second statement, the projection       *)
(* marked (FailProjection).                                                *)
MarkRejected ==
  IF Op.attempts > PoisonPillThreshold
    THEN /\ ops' = [ops EXCEPT ![worker.key] = Close(@)]
         /\ Goto("failed")
         /\ UNCHANGED <<ledger, proj, lastId, paused>>
    ELSE MarkRetry

(* The call in progress raises and had no effect on Google.                *)
CallFails ==
  /\ worker.pc \in {"insert", "conflict", "adopt", "update", "delete"}
  /\ worker.pc = "update" => proj[OpProj].gid # NULL
  /\ \/ Spend("transient") /\ MarkRetry
     \/ Spend("rejected") /\ MarkRejected
  /\ UNCHANGED <<google, unseen>>

FailProjection ==
  /\ worker.pc = "failed"
  /\ proj' = [proj EXCEPT ![OpProj].current = "errored",
                          ![OpProj].failed = TRUE]
  /\ worker' = NextOp
  /\ UNCHANGED <<ledger, ops, lastId, paused, google, unseen, budget>>

-----------------------------------------------------------------------------
(* _give_up_burned_ids: persist the generation, then fail permanently.     *)
GiveUp(g) ==
  /\ proj' = [proj EXCEPT ![OpProj].gen = g]
  /\ ops' = [ops EXCEPT ![worker.key] = Close(@)]
  /\ Goto("failed")
  /\ UNCHANGED <<ledger, lastId, paused, google, unseen, budget>>

(* Mutant of CreateEntry: an op that comes back starts burning again.      *)
CreateEntryUnchecked ==
  /\ worker.pc = "create"
  /\ worker' = [worker EXCEPT !.pc = "insert", !.gen = proj[OpProj].gen,
                              !.floor = proj[OpProj].floor, !.tries = 0]
  /\ UNCHANGED <<ledger, proj, ops, lastId, paused, google, unseen, budget>>

(* _do_create, entry: the ceiling is per episode, generation minus floor.  *)
CreateEntry ==
  /\ worker.pc = "create"
  /\ LET row == proj[OpProj] IN
     IF row.gen - row.floor >= MaxTotalIdGenerations
       THEN GiveUp(row.gen)
       ELSE /\ worker' = [worker EXCEPT !.pc = "insert", !.gen = row.gen,
                                        !.floor = row.floor, !.tries = 0]
            /\ UNCHANGED <<ledger, proj, ops, lastId, paused, google, unseen,
                           budget>>

(* events.insert with the deterministic id of this generation.  An id      *)
(* Google has ever seen answers 409.  The answer to a successful call may  *)
(* be lost, which the drain cannot tell from a call that failed.           *)
Insert ==
  /\ worker.pc = "insert"
  /\ IF google[OpProj][worker.gen] = NONE
       THEN /\ GoogleWrites(OpProj, worker.gen, Op.body)
            /\ \/ /\ worker' = [worker EXCEPT !.pc = "landed",
                                              !.etag = "match"]
                  /\ UNCHANGED <<ledger, proj, ops, lastId, paused, budget>>
               \/ Spend("lost") /\ MarkRetry
       ELSE /\ Goto("conflict")
            /\ UNCHANGED <<ledger, proj, ops, lastId, paused, google, unseen,
                           budget>>

(* Mutant of Conflict: every 409 counts as a burned id, the live copy that *)
(* an unrecorded insert left behind included.                              *)
ConflictIsBurned ==
  /\ worker.pc = "conflict"
  /\ Goto("burned")
  /\ UNCHANGED <<ledger, proj, ops, lastId, paused, google, unseen, budget>>

(* The GET after the 409: a tombstone (or 404/410) means burned, a live    *)
(* event is ours by construction.                                          *)
Conflict ==
  /\ worker.pc = "conflict"
  /\ worker' = IF Live(OpProj, worker.gen)
                 THEN [worker EXCEPT !.pc = "adopt", !.etag = "match"]
                 ELSE [worker EXCEPT !.pc = "burned"]
  /\ UNCHANGED <<ledger, proj, ops, lastId, paused, google, unseen, budget>>

(* Burned: persist the next generation before trying it; give up at the    *)
(* ceiling of the episode; raise (a retry) at the ceiling of the loop.     *)
BumpGeneration ==
  /\ worker.pc = "burned"
  /\ worker.gen + 1 \in Generations
  /\ IF worker.gen + 1 - worker.floor >= MaxTotalIdGenerations
       THEN GiveUp(worker.gen + 1)
       ELSE /\ proj' = [proj EXCEPT ![OpProj].gen = worker.gen + 1]
            /\ IF worker.tries + 1 < MaxIdGenerations
                 THEN /\ worker' = [worker EXCEPT !.pc = "insert",
                                                  !.gen = @ + 1,
                                                  !.tries = @ + 1]
                      /\ UNCHANGED ops
                 ELSE /\ ops' = [ops EXCEPT ![worker.key].status = "pending"]
                      /\ worker' = NextOp
            /\ UNCHANGED <<ledger, lastId, paused, google, unseen, budget>>

(* Update the live event found under our id, gated on the ETag just read:  *)
(* 412 supersedes the op, a deletion in between raises 404 or 410.         *)
Adopt ==
  /\ worker.pc = "adopt"
  /\ \/ /\ Live(OpProj, worker.gen) /\ worker.etag = "match"
        /\ GoogleWrites(OpProj, worker.gen, Op.body)
        /\ \/ /\ Goto("landed")
              /\ UNCHANGED <<ledger, proj, ops, lastId, paused, budget>>
           \/ Spend("lost") /\ MarkRetry
     \/ /\ Live(OpProj, worker.gen) /\ worker.etag = "stale"
        /\ Goto("supersede")
        /\ UNCHANGED <<ledger, proj, ops, lastId, paused, google, unseen,
                       budget>>
     \/ /\ ~Live(OpProj, worker.gen)
        /\ MarkRetry \/ MarkRejected
        /\ UNCHANGED <<google, unseen, budget>>

(* A converged create ends the ceiling episode.                            *)
Landed ==
  /\ worker.pc = "landed"
  /\ proj' = [proj EXCEPT ![OpProj].gen = worker.gen,
                          ![OpProj].floor = worker.gen]
  /\ Goto("record")
  /\ UNCHANGED <<ledger, ops, lastId, paused, google, unseen, budget>>

-----------------------------------------------------------------------------
(* _do_update: events.update with If-Match (none when no ETag is stored).  *)
(* 412 refreshes the ETag, then supersedes; 404/410 resets the projection, *)
(* then supersedes; a projection without an id is a ValueError.            *)
Update ==
  /\ worker.pc = "update"
  /\ LET row == proj[OpProj] IN
     \/ /\ row.gid = NULL
        /\ MarkRejected
        /\ UNCHANGED <<google, unseen, budget>>
     \/ /\ row.gid # NULL /\ Live(OpProj, row.gid) /\ row.etag # "stale"
        /\ GoogleWrites(OpProj, row.gid, Op.body)
        /\ \/ /\ worker' = [worker EXCEPT !.pc = "record", !.gen = row.gid,
                                          !.etag = "match"]
              /\ UNCHANGED <<ledger, proj, ops, lastId, paused, budget>>
           \/ /\ Spend("lost")
              /\ ops' = [ops EXCEPT ![worker.key].status = "pending"]
              /\ proj' = [proj EXCEPT ![OpProj].etag =
                                        EtagAfterForeignWrite(OpProj, row.gid)]
              /\ worker' = NextOp
              /\ UNCHANGED <<ledger, lastId, paused>>
     \/ /\ row.gid # NULL
        /\ Goto(IF Live(OpProj, row.gid) THEN "refetch" ELSE "gone")
        /\ Live(OpProj, row.gid) => row.etag = "stale"
        /\ UNCHANGED <<ledger, proj, ops, lastId, paused, google, unseen,
                       budget>>

(* The GET that refreshes the ETag is best effort.                         *)
Refetch ==
  /\ worker.pc = "refetch"
  /\ \/ /\ proj' = [proj EXCEPT ![OpProj].etag = "match"]
        /\ UNCHANGED budget
     \/ /\ Spend("transient")
        /\ UNCHANGED proj
  /\ Goto("supersede")
  /\ UNCHANGED <<ledger, ops, lastId, paused, google, unseen>>

Forgotten(row) == [row EXCEPT !.current = "absent", !.gid = NULL,
                              !.etag = NULL, !.aver = NULL, !.applied = NULL]

TargetGone ==
  /\ worker.pc = "gone"
  /\ proj' = [proj EXCEPT ![OpProj] = Forgotten(@)]
  /\ Goto("supersede")
  /\ UNCHANGED <<ledger, ops, lastId, paused, google, unseen, budget>>

MarkSuperseded ==
  /\ worker.pc = "supersede"
  /\ ops' = [ops EXCEPT ![worker.key] = Close(@)]
  /\ Goto("replan")
  /\ UNCHANGED <<ledger, proj, lastId, paused, google, unseen, budget>>

RequestReplan ==
  /\ worker.pc = "replan"
  /\ proj' = [proj EXCEPT ![OpProj].aver = NULL]
  /\ worker' = NextOp
  /\ UNCHANGED <<ledger, ops, lastId, paused, google, unseen, budget>>

-----------------------------------------------------------------------------
(* _do_delete: unconditional; 404 and 410 mean it is already gone.         *)
Delete ==
  /\ worker.pc = "delete"
  /\ LET g == proj[OpProj].gid IN
     IF g # NULL /\ Live(OpProj, g)
       THEN /\ GoogleWrites(OpProj, g, CANCELLED)
            /\ \/ /\ Goto("absent")
                  /\ UNCHANGED <<ledger, proj, ops, lastId, paused, budget>>
               \/ Spend("lost") /\ MarkRetry
       ELSE /\ Goto("absent")
            /\ UNCHANGED <<ledger, proj, ops, lastId, paused, google, unseen,
                           budget>>

-----------------------------------------------------------------------------
(* Mutant of RecordSuccess: stamps what the projection wants now.          *)
RecordDesired ==
  /\ worker.pc = "record"
  /\ proj' = [proj EXCEPT ![OpProj] =
                [@ EXCEPT !.current = "present", !.gid = worker.gen,
                          !.etag = worker.etag, !.applied = proj[OpProj].desired,
                          !.aver = proj[OpProj].dver, !.failed = FALSE]]
  /\ Goto("done")
  /\ UNCHANGED <<ledger, ops, lastId, paused, google, unseen, budget>>

(* _record_success and _record_absent stamp what the op delivered, not     *)
(* what the projection wants now; the row is closed in a second statement. *)
RecordSuccess ==
  /\ worker.pc = "record"
  /\ proj' = [proj EXCEPT ![OpProj] =
                [@ EXCEPT !.current = "present", !.gid = worker.gen,
                          !.etag = worker.etag, !.applied = Op.hash,
                          !.aver = worker.key.ver, !.failed = FALSE]]
  /\ Goto("done")
  /\ UNCHANGED <<ledger, ops, lastId, paused, google, unseen, budget>>

RecordAbsent ==
  /\ worker.pc = "absent"
  /\ proj' = [proj EXCEPT ![OpProj] =
                [@ EXCEPT !.current = "absent", !.applied = ABSENT,
                          !.aver = worker.key.ver, !.failed = FALSE]]
  /\ Goto("done")
  /\ UNCHANGED <<ledger, ops, lastId, paused, google, unseen, budget>>

OpDone ==
  /\ worker.pc = "done"
  /\ ops' = [ops EXCEPT ![worker.key] = Close(@)]
  /\ worker' = NextOp
  /\ UNCHANGED <<ledger, proj, lastId, paused, google, unseen, budget>>

-----------------------------------------------------------------------------

DrainStep ==
  \/ ReclaimStale \/ (\E k \in Keys : ClaimNext(k)) \/ DrainEnds
  \/ CallFails \/ FailProjection
  \/ CreateEntry \/ Insert \/ Conflict \/ BumpGeneration \/ Adopt \/ Landed
  \/ Update \/ Refetch \/ TargetGone \/ MarkSuperseded \/ RequestReplan
  \/ Delete \/ RecordSuccess \/ RecordAbsent \/ OpDone

(* Time passes: a backoff ends, or a row left in flight by a dead drain    *)
(* grows old.  now is read once per drain, so a drain sees nothing of it.  *)
Ripen(k) ==
  /\ worker.pc \in {"idle", "ingest", "plan", "diff", "rows"}
  /\ Outstanding(k)
  /\ ~ops[k].ripe
  /\ ops' = [ops EXCEPT ![k].ripe = TRUE]
  /\ UNCHANGED <<ledger, proj, lastId, paused, google, unseen, worker, budget>>

=============================================================================
