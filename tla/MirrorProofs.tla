---------------------------- MODULE MirrorProofs ----------------------------
(***************************************************************************)
(* Theorems about the mirroring core, for any number of copies, versions   *)
(* and ids, any ceilings, and an environment with any budget.              *)
(***************************************************************************)
EXTENDS Mirror, TLAPS

USE DEF ABSENT, NONE, CANCELLED, TAMPERED

-----------------------------------------------------------------------------
(* Type correctness.  TypeOK is not inductive: that Google only ever holds *)
(* contents needs every row about to be written to have a body, and that a *)
(* stamp is a version needs the handler to hold a row.                     *)

(* Where the drain is inside one operation, and in which kind of operation.*)
CreatePC == {"create", "insert", "conflict", "burned", "adopt", "landed"}
UpdatePC == {"update", "refetch", "gone"}
DeletePC == {"delete", "absent"}
HeldPC   == CreatePC \cup UpdatePC \cup DeletePC
              \cup {"record", "done", "supersede"}
OpPC     == HeldPC \cup {"replan", "failed"}

(* A handler works on a row of its own kind, which is in flight until the  *)
(* handler closes it.                                                      *)
WorkerInv ==
  /\ worker.pc \in OpPC => worker.key \in Keys
  /\ worker.pc \in HeldPC => Op.status = "in_flight"
  /\ worker.pc \in CreatePC => worker.key.kind = "create"
  /\ worker.pc \in UpdatePC => worker.key.kind = "update"
  /\ worker.pc \in DeletePC => worker.key.kind = "delete"

(* A row that is to write a copy has something to write.                   *)
BodyInv ==
  \A k \in Keys :
    Outstanding(k) /\ k.kind # "delete" => ops[k].body \in Contents

(* So does every verdict of the diff that becomes one.                     *)
TodoInv ==
  \A p \in Projections :
    worker.todo[p] # NULL /\ worker.todo[p].kind \in {"create", "update"}
      => worker.todo[p].body \in Contents

TypeInv == TypeOK /\ WorkerInv /\ BodyInv /\ TodoInv

(* What holds of the row a handler works on.                               *)
LEMMA HeldRow ==
  ASSUME TypeInv, worker.pc \in OpPC
  PROVE  /\ worker.key \in Keys /\ OpProj \in Projections
         /\ worker.key.ver \in Versions /\ worker.key.kind \in Kinds
         /\ Op \in OpRow
         /\ proj[OpProj] \in ProjRow
         /\ worker.pc \in HeldPC => Outstanding(worker.key)
         /\ worker.pc \in CreatePC \cup UpdatePC => Op.body \in Contents
<1>1. worker.key \in Keys
  BY DEF TypeInv, WorkerInv
<1>2. /\ OpProj \in Projections /\ worker.key.ver \in Versions
      /\ worker.key.kind \in Kinds
  BY <1>1 DEF Keys, OpProj
<1>3. Op \in OpRow /\ proj[OpProj] \in ProjRow
  BY <1>1, <1>2 DEF TypeInv, TypeOK, Op
<1>4. worker.pc \in HeldPC => Outstanding(worker.key)
  BY DEF TypeInv, WorkerInv, Outstanding, Op
<1>5. worker.pc \in CreatePC \cup UpdatePC => Op.body \in Contents
  BY <1>1, <1>4 DEF TypeInv, WorkerInv, BodyInv, HeldPC, Op
<1> QED BY <1>1, <1>2, <1>3, <1>4, <1>5

LEMMA CloseType ==
  ASSUME NEW r \in OpRow PROVE Close(r) \in OpRow
<1>1. 0 \in 0 .. PoisonPillThreshold + 1
  BY ConstantsAssumption
<1> QED BY <1>1 DEF OpRow, Close

LEMMA ForgottenType ==
  ASSUME NEW r \in ProjRow PROVE Forgotten(r) \in ProjRow
BY DEF ProjRow, Forgotten

LEMMA NextOpType ==
  ASSUME worker \in WorkerState PROVE NextOp \in WorkerState
<1>1. 0 \in 0 .. MaxIdGenerations /\ 0 \in Generations
  BY ConstantsAssumption
<1> QED BY <1>1 DEF WorkerState, PC, NextOp

LEMMA GotoType ==
  ASSUME worker \in WorkerState, NEW pc \in PC
  PROVE  [worker EXCEPT !.pc = pc] \in WorkerState
BY DEF WorkerState

LEMMA SpendType ==
  ASSUME TypeOK, NEW f, Spend(f) PROVE budget' \in Budget
BY DEF TypeOK, Budget, Spend

LEMMA GoogleWritesType ==
  ASSUME TypeOK, NEW p \in Projections, NEW g \in Generations,
         NEW what \in Contents \cup {TAMPERED, CANCELLED},
         GoogleWrites(p, g, what)
  PROVE  /\ google' \in [Projections -> [Generations ->
                           Contents \cup {TAMPERED, NONE, CANCELLED}]]
         /\ unseen' \in [Projections -> SUBSET Generations]
BY DEF TypeOK, GoogleWrites

(* Going to another step of the same operation.                            *)
LEMMA GotoInv ==
  ASSUME TypeInv, NEW pc \in PC, Goto(pc), UNCHANGED ops,
         \/ pc \notin OpPC
         \/ /\ worker.pc \in OpPC
            /\ pc \in HeldPC => worker.pc \in HeldPC
            /\ pc \in CreatePC => worker.pc \in CreatePC
            /\ pc \in UpdatePC => worker.pc \in UpdatePC
            /\ pc \in DeletePC => worker.pc \in DeletePC
  PROVE  worker' \in WorkerState /\ WorkerInv' /\ BodyInv' /\ TodoInv'
<1>1. worker' \in WorkerState
  BY GotoType DEF TypeInv, TypeOK, Goto
<1>2. WorkerInv'
  BY DEF TypeInv, TypeOK, Goto, WorkerState, WorkerInv, Op, OpPC, HeldPC, CreatePC, UpdatePC, DeletePC
<1>3. BodyInv'
  BY DEF TypeInv, BodyInv, Outstanding
<1>4. TodoInv'
  BY DEF TypeInv, TypeOK, Goto, WorkerState, TodoInv
<1> QED BY <1>1, <1>2, <1>3, <1>4

LEMMA NextOpInv ==
  ASSUME TypeInv, worker' = NextOp, UNCHANGED ops
  PROVE  worker' \in WorkerState /\ WorkerInv' /\ BodyInv' /\ TodoInv'
<1>1. worker' \in WorkerState
  BY NextOpType DEF TypeInv, TypeOK
<1>2. WorkerInv'
  BY DEF TypeInv, TypeOK, NextOp, WorkerState, WorkerInv, OpPC, HeldPC, CreatePC, UpdatePC, DeletePC
<1>3. BodyInv'
  BY DEF TypeInv, BodyInv, Outstanding
<1>4. TodoInv'
  BY DEF TypeInv, TypeOK, NextOp, WorkerState, TodoInv
<1> QED BY <1>1, <1>2, <1>3, <1>4

(* The claimed row goes back to pending.                                   *)
LEMMA BackoffInv ==
  ASSUME TypeInv, worker.pc \in HeldPC,
         ops' = [ops EXCEPT ![worker.key].status = "pending"],
         worker' = NextOp
  PROVE  /\ ops' \in [Keys -> OpRow] /\ worker' \in WorkerState
         /\ WorkerInv' /\ BodyInv' /\ TodoInv'
<1>1. worker.key \in Keys /\ Outstanding(worker.key)
  BY HeldRow DEF OpPC
<1>2. ops' \in [Keys -> OpRow]
  BY <1>1 DEF TypeInv, TypeOK, OpRow
<1>3. worker' \in WorkerState
  BY NextOpType DEF TypeInv, TypeOK
<1>4. WorkerInv'
  BY DEF TypeInv, TypeOK, NextOp, WorkerState, WorkerInv, OpPC, HeldPC, CreatePC, UpdatePC, DeletePC
<1>5. BodyInv'
  BY <1>1 DEF TypeInv, TypeOK, BodyInv, Outstanding, OpRow
<1>6. TodoInv'
  BY DEF TypeInv, TypeOK, NextOp, WorkerState, TodoInv
<1> QED BY <1>2, <1>3, <1>4, <1>5, <1>6

(* The claimed row is closed, and the handler goes on to its last step.    *)
LEMMA CloseInv ==
  ASSUME TypeInv, worker.pc \in HeldPC,
         ops' = [ops EXCEPT ![worker.key] = Close(@)],
         Goto("failed") \/ Goto("replan") \/ worker' = NextOp
  PROVE  /\ ops' \in [Keys -> OpRow] /\ worker' \in WorkerState
         /\ WorkerInv' /\ BodyInv' /\ TodoInv'
<1>1. worker.key \in Keys
  BY HeldRow DEF OpPC
<1>2. Close(Op) \in OpRow
  BY <1>1, CloseType DEF TypeInv, TypeOK, Op
<1>3. ops' \in [Keys -> OpRow]
  BY <1>1, <1>2 DEF TypeInv, TypeOK, Op
<1>4. worker' \in WorkerState
  BY GotoType, NextOpType DEF TypeInv, TypeOK, Goto, PC
<1>5. WorkerInv'
  BY <1>1 DEF TypeInv, TypeOK, Goto, NextOp, WorkerState, WorkerInv, OpPC, HeldPC, CreatePC, UpdatePC, DeletePC
<1>6. BodyInv'
  BY <1>1 DEF TypeInv, TypeOK, BodyInv, Outstanding, OpRow, Close
<1>7. TodoInv'
  BY DEF TypeInv, TypeOK, Goto, NextOp, WorkerState, TodoInv
<1> QED BY <1>3, <1>4, <1>5, <1>6, <1>7

LEMMA MarkRetryInv ==
  ASSUME TypeInv, worker.pc \in HeldPC, MarkRetry
  PROVE  /\ ops' \in [Keys -> OpRow] /\ worker' \in WorkerState
         /\ WorkerInv' /\ BodyInv' /\ TodoInv'
         /\ UNCHANGED <<ledger, proj, lastId, paused>>
BY BackoffInv DEF MarkRetry

LEMMA MarkRejectedInv ==
  ASSUME TypeInv, worker.pc \in HeldPC, MarkRejected
  PROVE  /\ ops' \in [Keys -> OpRow] /\ worker' \in WorkerState
         /\ WorkerInv' /\ BodyInv' /\ TodoInv'
         /\ UNCHANGED <<ledger, proj, lastId, paused>>
BY CloseInv, MarkRetryInv DEF MarkRejected

LEMMA GiveUpInv ==
  ASSUME TypeInv, worker.pc \in HeldPC, NEW g \in Generations, GiveUp(g)
  PROVE  TypeInv'
<1>1. proj' \in [Projections -> ProjRow]
  BY HeldRow DEF TypeInv, TypeOK, ProjRow, GiveUp, OpPC
<1>2. /\ ops' \in [Keys -> OpRow] /\ worker' \in WorkerState
      /\ WorkerInv' /\ BodyInv' /\ TodoInv'
  BY CloseInv DEF GiveUp
<1>3. TypeOK'
  BY <1>1, <1>2 DEF TypeInv, TypeOK, LedgerRow, GiveUp
<1> QED BY <1>2, <1>3 DEF TypeInv

-----------------------------------------------------------------------------

LEMMA DrainTypeInv ==
  ASSUME TypeInv, DrainStep PROVE TypeInv'
<1> USE DEF TypeInv
<1>1. CASE ReclaimStale
  <2>1. ops' \in [Keys -> OpRow]
    <3>1. ASSUME NEW k \in Keys
          PROVE  [ops[k] EXCEPT !.status = "pending"] \in OpRow
      BY DEF TypeOK, OpRow
    <3> QED BY <1>1, <3>1 DEF TypeOK, ReclaimStale
  <2>2. worker' \in WorkerState
    BY <1>1 DEF TypeOK, ReclaimStale, WorkerState, PC
  <2>3. TypeOK'
    BY <1>1, <2>1, <2>2 DEF TypeOK, ReclaimStale, LedgerRow
  <2>4. WorkerInv'
    BY <1>1 DEF TypeOK, ReclaimStale, WorkerInv, WorkerState,
                OpPC, HeldPC, CreatePC, UpdatePC, DeletePC
  <2>5. BodyInv'
    BY <1>1 DEF TypeOK, ReclaimStale, BodyInv, Outstanding, OpRow
  <2>6. TodoInv'
    BY <1>1 DEF TypeOK, ReclaimStale, TodoInv, WorkerState
  <2> QED BY <2>3, <2>4, <2>5, <2>6
<1>2. ASSUME NEW k \in Keys, ClaimNext(k) PROVE TypeInv'
  <2>1. ops' \in [Keys -> OpRow]
    <3>1. ops[k] \in OpRow
      BY DEF TypeOK
    <3>2. (IF ops[k].attempts > PoisonPillThreshold
             THEN ops[k].attempts ELSE ops[k].attempts + 1)
            \in 0 .. PoisonPillThreshold + 1
      BY <3>1, ConstantsAssumption DEF OpRow
    <3> QED BY <1>2, <3>1, <3>2 DEF TypeOK, ClaimNext, OpRow
  <2>2. k.kind \in PC
    BY DEF Keys, Kinds, PC
  <2>3. worker' \in WorkerState
    BY <1>2, <2>2 DEF TypeOK, ClaimNext, WorkerState
  <2>4. TypeOK'
    BY <1>2, <2>1, <2>3 DEF TypeOK, ClaimNext, LedgerRow
  <2>5. WorkerInv'
    <3>1. k.kind \in {"create", "update", "delete"}
      BY DEF Keys, Kinds
    <3>2. worker'.pc = k.kind /\ worker'.key = k
      BY <1>2 DEF TypeOK, ClaimNext, WorkerState
    <3>3. ops'[k].status = "in_flight"
      BY <1>2 DEF TypeOK, ClaimNext, OpRow
    <3> QED BY <3>1, <3>2, <3>3 DEF WorkerInv, Op, OpPC, HeldPC,
                                     CreatePC, UpdatePC, DeletePC
  <2>6. BodyInv'
    BY <1>2 DEF TypeOK, ClaimNext, Due, BodyInv, Outstanding, OpRow
  <2>7. TodoInv'
    BY <1>2 DEF TypeOK, ClaimNext, TodoInv, WorkerState
  <2> QED BY <2>4, <2>5, <2>6, <2>7
<1>3. CASE DrainEnds
  <2>1. worker' \in WorkerState
    <3>1. /\ 1 \in 1 .. MaxPasses
          /\ worker.pass < MaxPasses => worker.pass + 1 \in 1 .. MaxPasses
      BY ConstantsAssumption DEF TypeOK, WorkerState
    <3> QED BY <1>3, <3>1 DEF TypeOK, DrainEnds, WorkerState, PC
  <2>2. TypeOK'
    BY <1>3, <2>1 DEF TypeOK, DrainEnds, LedgerRow
  <2>3. WorkerInv'
    BY <1>3 DEF TypeOK, DrainEnds, WorkerState, WorkerInv,
                OpPC, HeldPC, CreatePC, UpdatePC, DeletePC
  <2>4. BodyInv'
    BY <1>3 DEF DrainEnds, BodyInv, Outstanding
  <2>5. TodoInv'
    BY <1>3 DEF TypeOK, DrainEnds, TodoInv, WorkerState
  <2> QED BY <2>2, <2>3, <2>4, <2>5
<1>4. CASE CallFails
  <2>1. worker.pc \in HeldPC
    BY <1>4 DEF CallFails, HeldPC, CreatePC, UpdatePC, DeletePC
  <2>2. /\ ops' \in [Keys -> OpRow] /\ worker' \in WorkerState
        /\ WorkerInv' /\ BodyInv' /\ TodoInv'
        /\ UNCHANGED <<ledger, proj, lastId, paused>>
    BY <1>4, <2>1, MarkRetryInv, MarkRejectedInv DEF CallFails
  <2>3. budget' \in Budget
    BY <1>4, SpendType DEF CallFails
  <2> QED BY <1>4, <2>2, <2>3 DEF TypeOK, CallFails, LedgerRow
<1>5. CASE FailProjection
  <2>1. OpProj \in Projections /\ proj[OpProj] \in ProjRow
    BY <1>5, HeldRow DEF FailProjection, OpPC
  <2>2. proj' \in [Projections -> ProjRow]
    BY <1>5, <2>1 DEF TypeOK, FailProjection, ProjRow
  <2>3. worker' \in WorkerState /\ WorkerInv' /\ BodyInv' /\ TodoInv'
    BY <1>5, NextOpInv DEF FailProjection
  <2> QED BY <1>5, <2>2, <2>3 DEF TypeOK, FailProjection, LedgerRow
<1>6. CASE CreateEntry
  <2>1. worker.pc \in HeldPC /\ worker.pc \in OpPC
    BY <1>6 DEF CreateEntry, HeldPC, OpPC, CreatePC
  <2>2. proj[OpProj].gen \in Generations /\ proj[OpProj].floor \in Generations
    BY <2>1, HeldRow DEF ProjRow
  <2>3. CASE proj[OpProj].gen - proj[OpProj].floor >= MaxTotalIdGenerations
    BY <1>6, <2>1, <2>2, <2>3, GiveUpInv DEF CreateEntry
  <2>4. CASE ~(proj[OpProj].gen - proj[OpProj].floor >= MaxTotalIdGenerations)
    <3>1. /\ worker' = [worker EXCEPT !.pc = "insert",
                                      !.gen = proj[OpProj].gen,
                                      !.floor = proj[OpProj].floor,
                                      !.tries = 0]
          /\ UNCHANGED <<ledger, proj, ops, lastId, paused, google, unseen,
                         budget>>
      BY <1>6, <2>4 DEF CreateEntry
    <3>2. worker' \in WorkerState
      <4>1. 0 \in 0 .. MaxIdGenerations
        BY ConstantsAssumption
      <4> QED BY <2>2, <3>1, <4>1 DEF TypeOK, WorkerState, PC
    <3>3. TypeOK'
      BY <3>1, <3>2 DEF TypeOK, LedgerRow
    <3>4. WorkerInv'
      BY <1>6, <3>1 DEF CreateEntry, TypeOK, WorkerState, WorkerInv, Op,
                        OpPC, HeldPC, CreatePC, UpdatePC, DeletePC
    <3>5. BodyInv'
      BY <3>1 DEF BodyInv, Outstanding
    <3>6. TodoInv'
      BY <3>1 DEF TypeOK, TodoInv, WorkerState
    <3> QED BY <3>3, <3>4, <3>5, <3>6
  <2> QED BY <2>3, <2>4
<1>7. CASE Insert
  <2>1. worker.pc \in HeldPC /\ worker.pc \in OpPC
    BY <1>7 DEF Insert, HeldPC, OpPC, CreatePC
  <2>2. /\ OpProj \in Projections /\ worker.gen \in Generations
        /\ Op.body \in Contents
    BY <1>7, <2>1, HeldRow DEF Insert, CreatePC, TypeOK, WorkerState
  <2>3. CASE GoogleWrites(OpProj, worker.gen, Op.body)
             /\ worker' = [worker EXCEPT !.pc = "landed", !.etag = "match"]
             /\ UNCHANGED <<ledger, proj, ops, lastId, paused, budget>>
    <3>1. worker' \in WorkerState
      BY <2>3 DEF TypeOK, WorkerState, PC
    <3>2. TypeOK'
      BY <2>2, <2>3, <3>1, GoogleWritesType DEF TypeOK, LedgerRow
    <3>3. WorkerInv'
      BY <1>7, <2>3 DEF Insert, TypeOK, WorkerState, WorkerInv, Op,
                        OpPC, HeldPC, CreatePC, UpdatePC, DeletePC
    <3>4. BodyInv'
      BY <2>3 DEF BodyInv, Outstanding
    <3>5. TodoInv'
      BY <2>3 DEF TypeOK, TodoInv, WorkerState
    <3> QED BY <3>2, <3>3, <3>4, <3>5
  <2>4. CASE GoogleWrites(OpProj, worker.gen, Op.body)
             /\ Spend("lost") /\ MarkRetry
    BY <2>1, <2>2, <2>4, MarkRetryInv, SpendType, GoogleWritesType
       DEF TypeOK, LedgerRow
  <2>5. CASE Goto("conflict")
             /\ UNCHANGED <<ledger, proj, ops, lastId, paused, google, unseen,
                            budget>>
    BY <1>7, <2>1, <2>5, GotoInv
       DEF Insert, TypeOK, LedgerRow, PC, OpPC, HeldPC, CreatePC, UpdatePC, DeletePC
  <2> QED BY <1>7, <2>3, <2>4, <2>5 DEF Insert
<1>8. CASE Conflict
  <2>1. worker.pc \in HeldPC
    BY <1>8 DEF Conflict, HeldPC, CreatePC
  <2>2. CASE worker' = [worker EXCEPT !.pc = "adopt", !.etag = "match"]
    <3>1. worker' \in WorkerState
      BY <2>2 DEF TypeOK, WorkerState, PC
    <3>2. TypeOK'
      BY <1>8, <3>1 DEF Conflict, TypeOK, LedgerRow
    <3>3. WorkerInv'
      BY <1>8, <2>2 DEF Conflict, TypeOK, WorkerState, WorkerInv, Op,
                        OpPC, HeldPC, CreatePC, UpdatePC, DeletePC
    <3>4. BodyInv'
      BY <1>8 DEF Conflict, BodyInv, Outstanding
    <3>5. TodoInv'
      BY <2>2 DEF TypeOK, TodoInv, WorkerState
    <3> QED BY <3>2, <3>3, <3>4, <3>5
  <2>3. CASE Goto("burned")
    BY <1>8, <2>1, <2>3, GotoInv
       DEF Conflict, TypeOK, LedgerRow, PC, OpPC, HeldPC,
           CreatePC, UpdatePC, DeletePC
  <2> QED BY <1>8, <2>2, <2>3 DEF Conflict, Goto
<1>9. CASE BumpGeneration
  <2>1. worker.pc \in HeldPC /\ worker.pc \in OpPC /\ worker.pc = "burned"
    BY <1>9 DEF BumpGeneration, HeldPC, OpPC, CreatePC
  <2>2. OpProj \in Projections /\ proj[OpProj] \in ProjRow
    BY <2>1, HeldRow
  <2>3. worker.gen + 1 \in Generations
    BY <1>9 DEF BumpGeneration
  <2>4. CASE GiveUp(worker.gen + 1)
    BY <2>1, <2>3, <2>4, GiveUpInv
  <2>5. CASE /\ proj' = [proj EXCEPT ![OpProj].gen = worker.gen + 1]
             /\ UNCHANGED <<ledger, lastId, paused, google, unseen, budget>>
             /\ worker.tries + 1 < MaxIdGenerations
             /\ worker' = [worker EXCEPT !.pc = "insert", !.gen = @ + 1,
                                         !.tries = @ + 1]
             /\ UNCHANGED ops
    <3>1. proj' \in [Projections -> ProjRow]
      BY <2>2, <2>3, <2>5 DEF TypeOK, ProjRow
    <3>2. worker' \in WorkerState
      <4>1. worker.tries + 1 \in 0 .. MaxIdGenerations
        BY <2>5, ConstantsAssumption DEF TypeOK, WorkerState
      <4> QED BY <2>3, <2>5, <4>1 DEF TypeOK, WorkerState, PC
    <3>3. TypeOK'
      BY <2>5, <3>1, <3>2 DEF TypeOK, LedgerRow
    <3>4. WorkerInv'
      BY <2>1, <2>5 DEF TypeOK, WorkerState, WorkerInv, Op,
                        OpPC, HeldPC, CreatePC, UpdatePC, DeletePC
    <3>5. BodyInv'
      BY <2>5 DEF BodyInv, Outstanding
    <3>6. TodoInv'
      BY <2>5 DEF TypeOK, TodoInv, WorkerState
    <3> QED BY <3>3, <3>4, <3>5, <3>6
  <2>6. CASE /\ proj' = [proj EXCEPT ![OpProj].gen = worker.gen + 1]
             /\ UNCHANGED <<ledger, lastId, paused, google, unseen, budget>>
             /\ ops' = [ops EXCEPT ![worker.key].status = "pending"]
             /\ worker' = NextOp
    <3>1. proj' \in [Projections -> ProjRow]
      BY <2>2, <2>3, <2>6 DEF TypeOK, ProjRow
    <3> QED BY <2>1, <2>6, <3>1, BackoffInv DEF TypeOK, LedgerRow
  <2> QED BY <1>9, <2>4, <2>5, <2>6 DEF BumpGeneration
<1>10. CASE Adopt
  <2>1. worker.pc \in HeldPC /\ worker.pc \in OpPC /\ worker.pc \in CreatePC
    BY <1>10 DEF Adopt, HeldPC, OpPC, CreatePC
  <2>2. /\ OpProj \in Projections /\ worker.gen \in Generations
        /\ Op.body \in Contents
    BY <2>1, HeldRow DEF TypeOK, WorkerState
  <2>3. CASE GoogleWrites(OpProj, worker.gen, Op.body) /\ Goto("landed")
             /\ UNCHANGED <<ledger, proj, ops, lastId, paused, budget>>
    BY <2>1, <2>2, <2>3, GotoInv, GoogleWritesType
       DEF TypeOK, LedgerRow, PC, OpPC, HeldPC, CreatePC, UpdatePC, DeletePC
  <2>4. CASE GoogleWrites(OpProj, worker.gen, Op.body)
             /\ Spend("lost") /\ MarkRetry
    BY <2>1, <2>2, <2>4, MarkRetryInv, SpendType, GoogleWritesType
       DEF TypeOK, LedgerRow
  <2>5. CASE Goto("supersede")
             /\ UNCHANGED <<ledger, proj, ops, lastId, paused, google, unseen,
                            budget>>
    BY <2>1, <2>5, GotoInv
       DEF TypeOK, LedgerRow, PC, OpPC, HeldPC, CreatePC, UpdatePC, DeletePC
  <2>6. CASE (MarkRetry \/ MarkRejected)
             /\ UNCHANGED <<google, unseen, budget>>
    BY <2>1, <2>6, MarkRetryInv, MarkRejectedInv DEF TypeOK, LedgerRow
  <2> QED BY <1>10, <2>3, <2>4, <2>5, <2>6 DEF Adopt
<1>11. CASE Landed
  <2>1. worker.pc \in HeldPC /\ worker.pc \in OpPC
    BY <1>11 DEF Landed, HeldPC, OpPC, CreatePC
  <2>2. proj' \in [Projections -> ProjRow]
    BY <1>11, <2>1, HeldRow DEF Landed, TypeOK, ProjRow, WorkerState
  <2> QED BY <1>11, <2>1, <2>2, GotoInv
          DEF Landed, TypeOK, LedgerRow, PC, OpPC, HeldPC,
              CreatePC, UpdatePC, DeletePC
<1>12. CASE Update
  <2>1. worker.pc \in HeldPC /\ worker.pc \in OpPC /\ worker.pc \in UpdatePC
    BY <1>12 DEF Update, HeldPC, OpPC, UpdatePC
  <2>2. /\ OpProj \in Projections /\ proj[OpProj] \in ProjRow
        /\ Op.body \in Contents
    BY <2>1, HeldRow
  <2> DEFINE gid == proj[OpProj].gid
  <2>3. gid # NULL => gid \in Generations
    BY <2>2 DEF ProjRow
  <2>4. CASE MarkRejected /\ UNCHANGED <<google, unseen, budget>>
    BY <2>1, <2>4, MarkRejectedInv DEF TypeOK, LedgerRow
  <2>5. CASE /\ gid # NULL
             /\ GoogleWrites(OpProj, gid, Op.body)
             /\ worker' = [worker EXCEPT !.pc = "record", !.gen = gid,
                                         !.etag = "match"]
             /\ UNCHANGED <<ledger, proj, ops, lastId, paused, budget>>
    <3>1. worker' \in WorkerState
      BY <2>3, <2>5 DEF TypeOK, WorkerState, PC
    <3>2. TypeOK'
      BY <2>2, <2>3, <2>5, <3>1, GoogleWritesType DEF TypeOK, LedgerRow
    <3>3. WorkerInv'
      BY <1>12, <2>5 DEF Update, TypeOK, WorkerState, WorkerInv, Op,
                         OpPC, HeldPC, CreatePC, UpdatePC, DeletePC
    <3>4. BodyInv'
      BY <2>5 DEF BodyInv, Outstanding
    <3>5. TodoInv'
      BY <2>5 DEF TypeOK, TodoInv, WorkerState
    <3> QED BY <3>2, <3>3, <3>4, <3>5
  <2>6. CASE /\ gid # NULL
             /\ GoogleWrites(OpProj, gid, Op.body)
             /\ Spend("lost")
             /\ ops' = [ops EXCEPT ![worker.key].status = "pending"]
             /\ proj' = [proj EXCEPT ![OpProj].etag =
                                       EtagAfterForeignWrite(OpProj, gid)]
             /\ worker' = NextOp
             /\ UNCHANGED <<ledger, lastId, paused>>
    <3>1. proj' \in [Projections -> ProjRow]
      BY <2>2, <2>6 DEF TypeOK, ProjRow, EtagAfterForeignWrite
    <3>2. google' \in [Projections -> [Generations ->
                         Contents \cup {TAMPERED, NONE, CANCELLED}]]
          /\ unseen' \in [Projections -> SUBSET Generations]
      BY <2>2, <2>3, <2>6, GoogleWritesType
    <3>3. budget' \in Budget
      BY <2>6, SpendType
    <3>4. /\ ops' \in [Keys -> OpRow] /\ worker' \in WorkerState
          /\ WorkerInv' /\ BodyInv' /\ TodoInv'
      BY <2>1, <2>6, BackoffInv
    <3> QED BY <2>6, <3>1, <3>2, <3>3, <3>4 DEF TypeOK, LedgerRow
  <2>7. CASE (Goto("refetch") \/ Goto("gone"))
             /\ UNCHANGED <<ledger, proj, ops, lastId, paused, google, unseen,
                            budget>>
    BY <1>12, <2>1, <2>7, GotoInv
       DEF Update, TypeOK, LedgerRow, PC, OpPC, HeldPC,
           CreatePC, UpdatePC, DeletePC
  <2> QED BY <1>12, <2>4, <2>5, <2>6, <2>7 DEF Update
<1>13. CASE Refetch
  <2>1. worker.pc \in HeldPC /\ worker.pc \in OpPC
    BY <1>13 DEF Refetch, HeldPC, OpPC, UpdatePC
  <2>2. proj' \in [Projections -> ProjRow]
    BY <1>13, <2>1, HeldRow DEF Refetch, TypeOK, ProjRow
  <2>3. budget' \in Budget
    BY <1>13, SpendType DEF Refetch, TypeOK
  <2> QED BY <1>13, <2>1, <2>2, <2>3, GotoInv
          DEF Refetch, TypeOK, LedgerRow, PC, OpPC, HeldPC,
              CreatePC, UpdatePC, DeletePC
<1>14. CASE TargetGone
  <2>1. worker.pc \in HeldPC /\ worker.pc \in OpPC
    BY <1>14 DEF TargetGone, HeldPC, OpPC, UpdatePC
  <2>2. proj' \in [Projections -> ProjRow]
    BY <1>14, <2>1, HeldRow, ForgottenType DEF TargetGone, TypeOK
  <2> QED BY <1>14, <2>1, <2>2, GotoInv
          DEF TargetGone, TypeOK, LedgerRow, PC, OpPC, HeldPC,
              CreatePC, UpdatePC, DeletePC
<1>15. CASE MarkSuperseded
  <2>1. worker.pc \in HeldPC
    BY <1>15 DEF MarkSuperseded, HeldPC
  <2> QED BY <1>15, <2>1, CloseInv DEF MarkSuperseded, TypeOK, LedgerRow
<1>16. CASE RequestReplan
  <2>1. worker.pc \in OpPC
    BY <1>16 DEF RequestReplan, OpPC
  <2>2. proj' \in [Projections -> ProjRow]
    BY <1>16, <2>1, HeldRow DEF RequestReplan, TypeOK, ProjRow
  <2> QED BY <1>16, <2>2, NextOpInv DEF RequestReplan, TypeOK, LedgerRow
<1>17. CASE Delete
  <2>1. worker.pc \in HeldPC /\ worker.pc \in OpPC
    BY <1>17 DEF Delete, HeldPC, OpPC, DeletePC
  <2>2. OpProj \in Projections /\ proj[OpProj] \in ProjRow
    BY <2>1, HeldRow
  <2> DEFINE gid == proj[OpProj].gid
  <2>3. gid # NULL => gid \in Generations
    BY <2>2 DEF ProjRow
  <2>4. CASE /\ gid # NULL /\ GoogleWrites(OpProj, gid, CANCELLED)
             /\ Goto("absent")
             /\ UNCHANGED <<ledger, proj, ops, lastId, paused, budget>>
    BY <1>17, <2>1, <2>2, <2>3, <2>4, GotoInv, GoogleWritesType
       DEF Delete, TypeOK, LedgerRow, PC, OpPC, HeldPC,
           CreatePC, UpdatePC, DeletePC
  <2>5. CASE /\ gid # NULL /\ GoogleWrites(OpProj, gid, CANCELLED)
             /\ Spend("lost") /\ MarkRetry
    BY <2>1, <2>2, <2>3, <2>5, MarkRetryInv, SpendType, GoogleWritesType
       DEF TypeOK, LedgerRow
  <2>6. CASE Goto("absent")
             /\ UNCHANGED <<ledger, proj, ops, lastId, paused, google, unseen,
                            budget>>
    BY <1>17, <2>1, <2>6, GotoInv
       DEF Delete, TypeOK, LedgerRow, PC, OpPC, HeldPC,
           CreatePC, UpdatePC, DeletePC
  <2> QED BY <1>17, <2>4, <2>5, <2>6 DEF Delete
<1>18. CASE RecordSuccess
  <2>1. worker.pc \in HeldPC /\ worker.pc \in OpPC
    BY <1>18 DEF RecordSuccess, HeldPC, OpPC
  <2>2. /\ OpProj \in Projections /\ proj[OpProj] \in ProjRow /\ Op \in OpRow
        /\ worker.key.ver \in Versions
    BY <2>1, HeldRow
  <2>3. [proj[OpProj] EXCEPT !.current = "present", !.gid = worker.gen,
           !.etag = worker.etag, !.applied = Op.hash,
           !.aver = worker.key.ver, !.failed = FALSE] \in ProjRow
    <3>1. /\ worker.gen \in Generations /\ worker.etag \in {"match", "stale"}
          /\ Op.hash \in Contents \cup {ABSENT, NULL}
      BY <2>2 DEF TypeOK, WorkerState, OpRow
    <3> QED BY <2>2, <3>1 DEF ProjRow
  <2>4. proj' \in [Projections -> ProjRow]
    BY <1>18, <2>2, <2>3 DEF RecordSuccess, TypeOK
  <2> QED BY <1>18, <2>1, <2>4, GotoInv
          DEF RecordSuccess, TypeOK, LedgerRow, PC, OpPC, HeldPC,
              CreatePC, UpdatePC, DeletePC
<1>19. CASE RecordAbsent
  <2>1. worker.pc \in HeldPC /\ worker.pc \in OpPC
    BY <1>19 DEF RecordAbsent, HeldPC, OpPC, DeletePC
  <2>2. /\ OpProj \in Projections /\ proj[OpProj] \in ProjRow
        /\ worker.key.ver \in Versions
    BY <2>1, HeldRow
  <2>3. [proj[OpProj] EXCEPT !.current = "absent", !.applied = ABSENT,
           !.aver = worker.key.ver, !.failed = FALSE] \in ProjRow
    BY <2>2 DEF ProjRow
  <2>4. proj' \in [Projections -> ProjRow]
    BY <1>19, <2>2, <2>3 DEF RecordAbsent, TypeOK
  <2> QED BY <1>19, <2>1, <2>4, GotoInv
          DEF RecordAbsent, TypeOK, LedgerRow, PC, OpPC, HeldPC,
              CreatePC, UpdatePC, DeletePC
<1>20. CASE OpDone
  <2>1. worker.pc \in HeldPC
    BY <1>20 DEF OpDone, HeldPC
  <2> QED BY <1>20, <2>1, CloseInv DEF OpDone, TypeOK, LedgerRow
<1> QED BY <1>1, <1>2, <1>3, <1>4, <1>5, <1>6, <1>7, <1>8, <1>9, <1>10,
           <1>11, <1>12, <1>13, <1>14, <1>15, <1>16, <1>17, <1>18, <1>19,
           <1>20 DEF DrainStep

LEMMA EnqueueType ==
  ASSUME TypeInv, NEW p \in Projections, NEW v \in Verdict,
         v.kind # "converged",
         v.kind \in {"create", "update"} => v.body \in Contents,
         Enqueue(p, v)
  PROVE  ops' \in [Keys -> OpRow] /\ lastId' \in Nat /\ BodyInv'
<1> USE DEF TypeInv
<1> DEFINE k   == [proj |-> p, ver |-> v.ver, kind |-> v.kind]
           row == [status |-> "pending", hash |-> v.hash, body |-> v.body,
                   attempts |-> 0, ripe |-> TRUE,
                   id |-> IF ops[k].id = 0 THEN lastId + 1 ELSE ops[k].id]
<1>1. k \in Keys
  BY DEF Keys, Verdict
<1>2. CASE Outstanding(k)
  BY <1>2 DEF Enqueue, TypeOK, BodyInv, Outstanding
<1>3. CASE ~Outstanding(k)
  <2>1. /\ ops' = [j \in Keys |->
                     IF j = k THEN row
                     ELSE IF j.proj = p /\ ops[j].status = "pending"
                            THEN Close(ops[j]) ELSE ops[j]]
        /\ lastId' = IF ops[k].id = 0 THEN lastId + 1 ELSE lastId
    BY <1>3 DEF Enqueue, Superseded
  <2>2. row \in OpRow
    <3>1. 0 \in 0 .. PoisonPillThreshold + 1
      BY ConstantsAssumption
    <3>2. ops[k].id \in Nat /\ lastId + 1 \in Nat
      BY <1>1 DEF TypeOK, OpRow
    <3> QED BY <3>1, <3>2 DEF OpRow, Verdict
  <2>3. \A j \in Keys : Close(ops[j]) \in OpRow
    BY CloseType DEF TypeOK
  <2>4. ops' \in [Keys -> OpRow]
    BY <2>1, <2>2, <2>3 DEF TypeOK
  <2>5. lastId' \in Nat
    BY <2>1 DEF TypeOK
  <2>6. ASSUME NEW j \in Keys, Outstanding(j)', j.kind # "delete"
        PROVE  ops'[j].body \in Contents
    <3>1. CASE j = k
      <4>1. v.kind \in {"create", "update"}
        BY <2>6, <3>1 DEF Verdict, Kinds
      <4> QED BY <1>1, <2>1, <3>1, <4>1
    <3>2. CASE j # k /\ j.proj = p /\ ops[j].status = "pending"
      <4>1. ops'[j].status = "closed"
        BY <2>1, <3>2 DEF Close, TypeOK, OpRow
      <4> QED BY <2>6, <4>1 DEF Outstanding
    <3>3. CASE j # k /\ ~(j.proj = p /\ ops[j].status = "pending")
      BY <2>1, <2>6, <3>3 DEF Outstanding, BodyInv
    <3> QED BY <3>1, <3>2, <3>3
  <2>7. BodyInv'
    BY <2>6 DEF BodyInv
  <2> QED BY <2>4, <2>5, <2>7
<1> QED BY <1>2, <1>3

-----------------------------------------------------------------------------

(* A verdict of the diff that writes a copy has a body to write.           *)
LEMMA DecideType ==
  ASSUME TypeOK, NEW p \in Projections
  PROVE  /\ Decide(p) \in Verdict
         /\ Decide(p).kind \in {"create", "update"}
              => Decide(p).body \in Contents
<1>1. proj[p] \in ProjRow /\ ledger[p] \in LedgerRow
  BY DEF TypeOK
<1>2. /\ DecideKind(proj[p]) \in Kinds \cup {"converged"}
      /\ DecideKind(proj[p]) \in {"create", "update"}
           => proj[p].desired # ABSENT
  BY DEF DecideKind, Kinds
<1> QED BY <1>1, <1>2 DEF Decide, Verdict, ProjRow, LedgerRow

LEMMA WantedType ==
  ASSUME TypeOK, NEW p \in Projections
  PROVE  Wanted(p) \in Contents \cup {ABSENT}
BY DEF TypeOK, LedgerRow, Wanted

(* Outside an operation nothing is asked of the row held.                  *)
LEMMA NoOperation ==
  ASSUME worker'.pc \notin OpPC PROVE WorkerInv'
BY DEF WorkerInv, OpPC, HeldPC, CreatePC, UpdatePC, DeletePC

LEMMA PlanningTypeInv ==
  ASSUME TypeInv, PlanningStep PROVE TypeInv'
<1> USE DEF TypeInv
<1>1. ASSUME NEW p \in Projections, PlanRow(p) PROVE TypeInv'
  <2>1. Planned(p) \in ProjRow
    <3>1. proj[p] \in ProjRow /\ ledger[p].version \in Versions
      BY DEF TypeOK, LedgerRow
    <3> QED BY <3>1, WantedType DEF Planned, ProjRow
  <2>2. worker' \in WorkerState
    BY <1>1 DEF TypeOK, PlanRow, WorkerState
  <2>3. TypeOK'
    BY <1>1, <2>1, <2>2 DEF TypeOK, PlanRow, LedgerRow
  <2>4. WorkerInv'
    BY <1>1, NoOperation DEF TypeOK, PlanRow, WorkerState, OpPC, HeldPC,
                             CreatePC, UpdatePC, DeletePC
  <2>5. BodyInv'
    BY <1>1 DEF PlanRow, BodyInv, Outstanding
  <2>6. TodoInv'
    BY <1>1 DEF TypeOK, PlanRow, TodoInv, WorkerState
  <2> QED BY <2>3, <2>4, <2>5, <2>6
<1>2. CASE PlanDone
  <2>1. ledger' \in [Projections -> LedgerRow]
    BY <1>2 DEF TypeOK, PlanDone, LedgerRow
  <2> QED BY <1>2, <2>1, GotoInv
          DEF TypeOK, PlanDone, PC, OpPC, HeldPC, CreatePC, UpdatePC, DeletePC
<1>3. CASE SelectDiverged
  <2>1. worker'.todo \in [Projections -> Verdict \cup {NULL}]
    BY <1>3, DecideType DEF TypeOK, SelectDiverged, WorkerState
  <2>2. worker' \in WorkerState
    BY <1>3, <2>1 DEF TypeOK, SelectDiverged, WorkerState, PC
  <2>3. TypeOK'
    BY <1>3, <2>2 DEF TypeOK, SelectDiverged, LedgerRow
  <2>4. WorkerInv'
    BY <1>3, NoOperation DEF TypeOK, SelectDiverged, WorkerState, OpPC, HeldPC,
                             CreatePC, UpdatePC, DeletePC
  <2>5. BodyInv'
    BY <1>3 DEF SelectDiverged, BodyInv, Outstanding
  <2>6. TodoInv'
    BY <1>3, DecideType DEF TypeOK, SelectDiverged, TodoInv, WorkerState
  <2> QED BY <2>3, <2>4, <2>5, <2>6
<1>4. ASSUME NEW p \in Projections, DiffRow(p) PROVE TypeInv'
  <2> DEFINE v == worker.todo[p]
  <2>1. v \in Verdict /\ v # NULL
    BY <1>4 DEF TypeOK, DiffRow, WorkerState
  <2>2. worker' \in WorkerState
    BY <1>4 DEF TypeOK, DiffRow, WorkerState
  <2>3. WorkerInv'
    BY <1>4, NoOperation DEF TypeOK, DiffRow, WorkerState, OpPC, HeldPC,
                             CreatePC, UpdatePC, DeletePC
  <2>4. TodoInv'
    BY <1>4 DEF TypeOK, DiffRow, TodoInv, WorkerState
  <2>5. CASE Snap(p, v) /\ UNCHANGED <<ops, lastId>>
    <3>1. proj' \in [Projections -> ProjRow]
      <4>1. proj[p] \in ProjRow /\ v.ver \in Versions
        BY <2>1 DEF TypeOK, Verdict
      <4>2. [proj[p] EXCEPT !.aver = v.ver, !.applied = proj[p].desired,
                            !.current = "absent"] \in ProjRow
        BY <4>1 DEF ProjRow
      <4> QED BY <2>5, <4>2 DEF TypeOK, Snap
    <3>2. TypeOK'
      BY <1>4, <2>2, <2>5, <3>1 DEF TypeOK, DiffRow, LedgerRow
    <3>3. BodyInv'
      BY <2>5 DEF BodyInv, Outstanding
    <3> QED BY <2>3, <2>4, <3>2, <3>3
  <2>6. CASE v.kind # "converged" /\ Enqueue(p, v) /\ UNCHANGED proj
    <3>1. ops' \in [Keys -> OpRow] /\ lastId' \in Nat /\ BodyInv'
      BY <2>1, <2>6, EnqueueType DEF TodoInv
    <3>2. TypeOK'
      BY <1>4, <2>2, <2>6, <3>1 DEF TypeOK, DiffRow, LedgerRow
    <3> QED BY <2>3, <2>4, <3>1, <3>2
  <2> QED BY <1>4, <2>5, <2>6 DEF DiffRow
<1>5. CASE DiffDone
  BY <1>5, GotoInv
     DEF TypeOK, DiffDone, LedgerRow, PC, OpPC, HeldPC,
         CreatePC, UpdatePC, DeletePC
<1> QED BY <1>1, <1>2, <1>3, <1>4, <1>5 DEF PlanningStep

-----------------------------------------------------------------------------

LEMMA FreshWorkerType == FreshWorker \in WorkerState
<1>1. 0 \in 0 .. MaxIdGenerations /\ 0 \in Generations /\ 1 \in 1 .. MaxPasses
  BY ConstantsAssumption
<1> QED BY <1>1 DEF FreshWorker, WorkerState, PC

(* The pass is gone: the next one starts with nothing in hand.             *)
LEMMA FreshWorkerInv ==
  ASSUME worker' = FreshWorker
  PROVE  worker' \in WorkerState /\ WorkerInv' /\ TodoInv'
BY FreshWorkerType, NoOperation
   DEF FreshWorker, TodoInv, OpPC, HeldPC, CreatePC, UpdatePC, DeletePC

LEMMA InitTypeInv == Init => TypeInv
<1> SUFFICES ASSUME Init PROVE TypeInv
  OBVIOUS
<1>1. ledger \in [Projections -> LedgerRow]
  BY DEF Init
<1>2. proj \in [Projections -> ProjRow]
  <2>1. ASSUME NEW p \in Projections PROVE InitRow(p) \in ProjRow
    <3>1. ledger[p] \in LedgerRow /\ 0 \in Generations
      BY <1>1, ConstantsAssumption
    <3> QED BY <3>1 DEF InitRow, ProjRow, LedgerRow, Wanted
  <2> QED BY <2>1 DEF Init
<1>3. ops \in [Keys -> OpRow]
  <2>1. 0 \in 0 .. PoisonPillThreshold + 1
    BY ConstantsAssumption
  <2> QED BY <2>1 DEF Init, OpRow
<1>4. worker \in WorkerState
  BY FreshWorkerType DEF Init
<1>5. budget \in Budget
  BY BudgetAssumption DEF Init, Budget
<1>6. TypeOK
  BY <1>1, <1>2, <1>3, <1>4, <1>5 DEF Init, TypeOK
<1>7. WorkerInv
  BY DEF Init, FreshWorker, WorkerInv, OpPC, HeldPC, CreatePC, UpdatePC, DeletePC
<1>8. BodyInv
  BY DEF Init, BodyInv, Outstanding
<1>9. TodoInv
  BY DEF Init, FreshWorker, TodoInv
<1> QED BY <1>6, <1>7, <1>8, <1>9 DEF TypeInv

(* A step that touches neither the queue nor the worker keeps the rest.    *)
LEMMA OutsideInv ==
  ASSUME TypeInv, TypeOK', UNCHANGED <<ops, worker>> PROVE TypeInv'
BY DEF TypeInv, WorkerInv, BodyInv, TodoInv, Outstanding, Op

LEMMA DirtyType ==
  ASSUME NEW row \in LedgerRow PROVE Dirty(row) \in LedgerRow
BY DEF LedgerRow, Dirty

LEMMA DirtyFields ==
  ASSUME NEW row \in LedgerRow
  PROVE  /\ Dirty(row).version = row.version
         /\ Dirty(row).content = row.content
         /\ Dirty(row).active = row.active
         /\ "new" \in Dirty(row).queued
         /\ "read" \in row.queued => "read" \in Dirty(row).queued
         /\ row.owed = "nothing" => Dirty(row).owed = "nothing"
BY DEF LedgerRow, Dirty

LEMMA EditType ==
  ASSUME TypeOK, Edit PROVE budget' \in Budget
BY DEF TypeOK, Budget, Edit

LEMMA AdminType ==
  ASSUME TypeOK, NEW kind, Admin(kind) PROVE budget' \in Budget
BY DEF TypeOK, Budget, Admin

LEMMA CleanedType ==
  ASSUME TypeOK, NEW p \in Projections PROVE Cleaned(p) \in ProjRow
<1>1. proj[p] \in ProjRow /\ ledger[p].version \in Versions
  BY DEF TypeOK, LedgerRow
<1> QED BY <1>1 DEF Cleaned, ProjRow

LEMMA RelistedType ==
  ASSUME NEW p PROVE Relisted(p) \in SUBSET Generations
BY DEF Relisted

(* What recording a listing, or going on with a cleanup, does to an event: *)
(* it moves on in the queue, and is what it was.                           *)
QueueMoved(p) ==
  /\ ledger'[p] \in LedgerRow
  /\ ledger'[p].version = ledger[p].version
  /\ ledger'[p].content = ledger[p].content
  /\ ledger'[p].active = ledger[p].active
  /\ \A mark \in {"read", "new"} :
       mark \in ledger[p].queued => mark \in ledger'[p].queued
  /\ "listed" \in ledger[p].queued
       => "listed" \in ledger'[p].queued \/ "new" \in ledger'[p].queued
  /\ ledger[p].owed # "nothing"
       => "new" \in ledger'[p].queued \/ ledger'[p].owed # "nothing"
  /\ ledger[p].owed = "nothing" => ledger'[p].owed = "nothing"

LEMMA QueueMoves ==
  ASSUME TypeInv, CleanupGoesOn \/ RecordAffected
  PROVE  /\ ledger' \in [Projections -> LedgerRow]
         /\ \A p \in Projections : QueueMoved(p)
         /\ UNCHANGED <<proj, ops, lastId, google, worker, budget>>
<1>1. UNCHANGED <<proj, ops, lastId, google, worker, budget>>
  BY DEF CleanupGoesOn, ClearToken, QueueCleaned, PauseAfterCleanup, RecordAffected
<1>2. \A p \in Projections : ledger[p] \in LedgerRow
  BY DEF TypeInv, TypeOK
<1>3. ASSUME NEW p \in Projections, ledger'[p] = ledger[p] PROVE QueueMoved(p)
  BY <1>2, <1>3 DEF QueueMoved
<1>4. ASSUME NEW p \in Projections, NEW o \in {"queue", "nothing"},
             ledger[p].owed # "nothing",
             \/ o = "queue" /\ ledger'[p] = [ledger[p] EXCEPT !.owed = o]
             \/ ledger'[p] = Dirty([ledger[p] EXCEPT !.owed = o])
      PROVE  QueueMoved(p)
  <2> DEFINE row == [ledger[p] EXCEPT !.owed = o]
  <2>1. /\ row \in LedgerRow /\ row.version = ledger[p].version
        /\ row.content = ledger[p].content /\ row.active = ledger[p].active
        /\ row.queued = ledger[p].queued /\ row.owed = o
    BY <1>2 DEF LedgerRow
  <2>2. CASE o = "queue" /\ ledger'[p] = row
    BY <1>4, <2>1, <2>2 DEF QueueMoved
  <2>3. CASE ledger'[p] = Dirty(row)
    <3> HIDE DEF row
    <3>1. Dirty(row) \in LedgerRow
      BY <2>1, DirtyType
    <3> QED BY <1>4, <2>1, <2>3, <3>1, DirtyFields DEF QueueMoved
  <2> QED BY <1>4, <2>2, <2>3
<1>5. ASSUME NEW p \in Projections, ledger'[p] = Dirty(ledger[p]) PROVE QueueMoved(p)
  BY <1>2, <1>5, DirtyType, DirtyFields DEF QueueMoved
<1>6. ASSUME NEW p \in Projections, ClearToken(p) \/ QueueCleaned(p)
      PROVE  DOMAIN ledger' = Projections /\ \A q \in Projections : QueueMoved(q)
  <2>1. \A q \in Projections : q # p => ledger'[q] = ledger[q]
    BY <1>6 DEF ClearToken, QueueCleaned, TypeInv, TypeOK
  <2>2. ledger[p].owed # "nothing" /\ DOMAIN ledger' = Projections
    BY <1>6 DEF ClearToken, QueueCleaned, TypeInv, TypeOK
  <2>3. \/ ledger'[p] = [ledger[p] EXCEPT !.owed = "queue"]
        \/ ledger'[p] = Dirty([ledger[p] EXCEPT !.owed = "nothing"])
    BY <1>6 DEF ClearToken, QueueCleaned, TypeInv, TypeOK
  <2> QED BY <1>3, <1>4, <2>1, <2>2, <2>3
<1>7. ASSUME PauseAfterCleanup
      PROVE  DOMAIN ledger' = Projections /\ \A p \in Projections : QueueMoved(p)
  <2>1. DOMAIN ledger' = Projections
    BY <1>7 DEF PauseAfterCleanup
  <2>2. \A p \in Projections :
          \/ ledger'[p] = ledger[p]
          \/ ledger[p].owed = "pause" /\ ledger'[p] = [ledger[p] EXCEPT !.owed = "queue"]
    BY <1>2, <1>7 DEF PauseAfterCleanup, LedgerRow
  <2> QED BY <1>3, <1>4, <2>1, <2>2
<1>8. ASSUME RecordAffected
      PROVE  DOMAIN ledger' = Projections /\ \A p \in Projections : QueueMoved(p)
  <2>1. DOMAIN ledger' = Projections
        /\ \A p \in Projections : ledger'[p] \in {ledger[p], Dirty(ledger[p])}
    BY <1>8 DEF RecordAffected
  <2> QED BY <1>3, <1>5, <2>1
<1>9. DOMAIN ledger' = Projections /\ \A p \in Projections : QueueMoved(p)
  BY <1>6, <1>7, <1>8 DEF CleanupGoesOn
<1>10. ledger' = [p \in Projections |-> ledger'[p]]
  BY <1>6, <1>7, <1>8
     DEF CleanupGoesOn, ClearToken, QueueCleaned, PauseAfterCleanup, RecordAffected,
         TypeInv, TypeOK
<1>11. \A p \in Projections : ledger'[p] \in LedgerRow
  BY <1>9 DEF QueueMoved
<1> QED BY <1>1, <1>9, <1>10, <1>11

LEMMA AdminTypeInv ==
  ASSUME TypeInv, AdminStep PROVE TypeInv'
<1> USE DEF TypeInv
<1> SUFFICES TypeOK'
  BY OutsideInv, QueueMoves
     DEF AdminStep, CleanupCalendar, CleanupAndPause, PauseSync, ResumeSync,
         FullResync, RetryPermanentFailures, Relabel
<1>1. ASSUME NEW p \in Projections, CleanupCalendar(p) PROVE TypeOK'
  <2>1. [ledger[p] EXCEPT !.owed = "token"] \in LedgerRow
    BY DEF TypeOK, LedgerRow
  <2> QED BY <1>1, <2>1, AdminType, CleanedType DEF TypeOK, CleanupCalendar
<1>2. CASE CleanupAndPause
  <2>1. \A p \in Projections : [ledger[p] EXCEPT !.owed = "pause"] \in LedgerRow
    BY DEF TypeOK, LedgerRow
  <2> QED BY <1>2, <2>1, AdminType, CleanedType DEF TypeOK, CleanupAndPause
<1>7. CASE CleanupGoesOn
  <2>1. ASSUME NEW p \in Projections, ClearToken(p)
        PROVE  unseen' \in [Projections -> SUBSET Generations] /\ paused' \in BOOLEAN
    BY <2>1, RelistedType DEF ClearToken, TypeOK
  <2>2. ASSUME NEW p \in Projections, QueueCleaned(p)
        PROVE  unseen' \in [Projections -> SUBSET Generations] /\ paused' \in BOOLEAN
    BY <2>2 DEF QueueCleaned, TypeOK
  <2>3. ASSUME PauseAfterCleanup
        PROVE  unseen' \in [Projections -> SUBSET Generations] /\ paused' \in BOOLEAN
    BY <2>3 DEF PauseAfterCleanup, TypeOK
  <2>4. unseen' \in [Projections -> SUBSET Generations] /\ paused' \in BOOLEAN
    BY <1>7, <2>1, <2>2, <2>3 DEF CleanupGoesOn
  <2> QED BY <1>7, <2>4, QueueMoves DEF TypeOK
<1>3. CASE PauseSync \/ ResumeSync
  BY <1>3, AdminType DEF TypeOK, PauseSync, ResumeSync
<1>4. CASE FullResync
  BY <1>4, AdminType, RelistedType DEF TypeOK, FullResync
<1>5. CASE RetryPermanentFailures
  <2>1. proj' \in [Projections -> ProjRow]
    <3>1. ASSUME NEW p \in Projections
          PROVE  [proj[p] EXCEPT !.failed = FALSE, !.floor = proj[p].gen]
                   \in ProjRow
      <4>1. proj[p] \in ProjRow
        BY DEF TypeOK
      <4> QED BY <4>1 DEF ProjRow
    <3> QED BY <1>5, <3>1 DEF TypeOK, RetryPermanentFailures
  <2> QED BY <1>5, <2>1, AdminType, DirtyType DEF TypeOK, RetryPermanentFailures
<1>6. ASSUME NEW p \in Projections, NEW c \in Contents, Relabel(p, c)
      PROVE  TypeOK'
  <2>1. [ledger[p] EXCEPT !.content = c] \in LedgerRow
    BY DEF TypeOK, LedgerRow
  <2> QED BY <1>6, <2>1, AdminType, DirtyType DEF TypeOK, Relabel
<1> QED BY <1>1, <1>2, <1>3, <1>4, <1>5, <1>6, <1>7 DEF AdminStep

LEMMA ListedType ==
  ASSUME TypeOK, NEW p \in Projections PROVE Listed(p) \in ProjRow
<1>1. proj[p] \in ProjRow
  BY DEF TypeOK
<1>2. [proj[p] EXCEPT !.aver = NULL, !.etag = "match"] \in ProjRow
  BY <1>1 DEF ProjRow
<1> QED BY <1>1, <1>2, ForgottenType DEF Listed

LEMMA ReadAffectedType ==
  ASSUME TypeOK, ReadAffected
  PROVE  ledger' \in [Projections -> LedgerRow] /\ worker' \in WorkerState
<1>1. ledger' \in [Projections -> LedgerRow]
  <2>1. \A p \in Projections :
          [ledger[p] EXCEPT !.queued = (@ \ {"new"}) \cup {"read"}] \in LedgerRow
    BY DEF TypeOK, LedgerRow
  <2> QED BY <2>1 DEF TypeOK, ReadAffected
<1>2. worker' \in WorkerState
  BY DEF TypeOK, ReadAffected, WorkerState, PC
<1> QED BY <1>1, <1>2

LEMMA NextTypeInv ==
  ASSUME TypeInv, [Next]_vars PROVE TypeInv'
<1> USE DEF TypeInv
<1>1. CASE StartPass
  <2>1. worker' \in WorkerState
    BY <1>1 DEF TypeOK, StartPass, WorkerState, PC
  <2>2. TypeOK'
    BY <1>1, <2>1 DEF TypeOK, StartPass, LedgerRow
  <2>3. WorkerInv'
    BY <1>1, NoOperation DEF TypeOK, StartPass, WorkerState, OpPC, HeldPC,
                             CreatePC, UpdatePC, DeletePC
  <2>4. BodyInv' /\ TodoInv'
    BY <1>1 DEF TypeOK, StartPass, WorkerState, BodyInv, Outstanding, TodoInv
  <2> QED BY <2>2, <2>3, <2>4
<1>2. ASSUME NEW p \in Projections, SourceChange(p) PROVE TypeInv'
  <2>1. ledger' \in [Projections -> LedgerRow]
    <3>1. PICK row \in {[ledger[p] EXCEPT !.active = ~@],
                        [ledger[p] EXCEPT !.active = FALSE]}
                  \cup {[ledger[p] EXCEPT !.content = c] : c \in Contents} :
            ledger' = [ledger EXCEPT ![p] =
                         [row EXCEPT !.version = @ + 1,
                                     !.queued = @ \cup {"listed"}]]
      BY <1>2 DEF SourceChange
    <3>2. ledger[p] \in LedgerRow
      BY DEF TypeOK
    <3>3. row \in LedgerRow /\ row.version = ledger[p].version
      BY <3>1, <3>2 DEF LedgerRow
    <3>4. [row EXCEPT !.version = @ + 1, !.queued = @ \cup {"listed"}] \in LedgerRow
      BY <1>2, <3>3 DEF SourceChange, LedgerRow
    <3> QED BY <3>1, <3>4 DEF TypeOK
  <2> QED BY <1>2, <2>1, OutsideInv DEF TypeOK, SourceChange
<1>3. ASSUME NEW p \in Projections, IngestCopy(p) PROVE TypeInv'
  <2>1. worker' \in WorkerState
    BY <1>3 DEF TypeOK, IngestCopy, WorkerState
  <2>2. TypeOK'
    BY <1>3, <2>1, ListedType DEF TypeOK, IngestCopy
  <2>3. WorkerInv'
    BY <1>3, NoOperation DEF TypeOK, IngestCopy, WorkerState, OpPC, HeldPC,
                             CreatePC, UpdatePC, DeletePC
  <2>4. BodyInv' /\ TodoInv'
    BY <1>3 DEF TypeOK, IngestCopy, WorkerState, BodyInv, Outstanding, TodoInv
  <2> QED BY <2>2, <2>3, <2>4
<1>4. ASSUME NEW p \in Projections, IngestFails(p) PROVE TypeInv'
  <2>1. worker' \in WorkerState
    BY <1>4 DEF TypeOK, IngestFails, WorkerState
  <2>2. TypeOK'
    BY <1>4, <2>1, SpendType DEF TypeOK, IngestFails
  <2>3. WorkerInv'
    BY <1>4, NoOperation DEF TypeOK, IngestFails, WorkerState, OpPC, HeldPC,
                             CreatePC, UpdatePC, DeletePC
  <2>4. BodyInv' /\ TodoInv'
    BY <1>4 DEF TypeOK, IngestFails, WorkerState, BodyInv, Outstanding, TodoInv
  <2> QED BY <2>2, <2>3, <2>4
<1>5. CASE IngestDone
  <2>1. TypeOK'
    BY <1>5, ReadAffectedType, SpendType DEF TypeOK, IngestDone
  <2>2. WorkerInv'
    BY <1>5, NoOperation DEF TypeOK, IngestDone, ReadAffected, WorkerState,
                             OpPC, HeldPC, CreatePC, UpdatePC, DeletePC
  <2>3. BodyInv' /\ TodoInv'
    BY <1>5 DEF TypeOK, IngestDone, ReadAffected, WorkerState,
                BodyInv, Outstanding, TodoInv
  <2> QED BY <2>1, <2>2, <2>3
<1>6. CASE PlanningStep
  BY <1>6, PlanningTypeInv
<1>7. CASE DrainStep
  BY <1>7, DrainTypeInv
<1>8. ASSUME NEW p \in Projections, NEW g \in Generations, UserEdit(p, g)
      PROVE  TypeInv'
  <2>1. /\ google' \in [Projections -> [Generations ->
                          Contents \cup {TAMPERED, NONE, CANCELLED}]]
        /\ unseen' \in [Projections -> SUBSET Generations]
    BY <1>8, GoogleWritesType DEF UserEdit
  <2>2. proj' \in [Projections -> ProjRow]
    <3>1. proj[p] \in ProjRow
      BY DEF TypeOK
    <3> QED BY <1>8, <3>1 DEF TypeOK, UserEdit, EtagAfterForeignWrite, ProjRow
  <2>3. worker' = worker \/ worker' = [worker EXCEPT !.etag = "stale"]
    BY <1>8 DEF UserEdit
  <2>4. worker' \in WorkerState
    BY <2>3 DEF TypeOK, WorkerState
  <2>5. TypeOK'
    BY <1>8, <2>1, <2>2, <2>4, EditType DEF TypeOK, UserEdit
  <2>6. worker'.pc = worker.pc /\ worker'.key = worker.key
        /\ worker'.todo = worker.todo
    BY <2>3 DEF TypeOK, WorkerState
  <2>7. WorkerInv' /\ BodyInv' /\ TodoInv'
    BY <1>8, <2>6 DEF UserEdit, WorkerInv, Op, BodyInv, Outstanding, TodoInv
  <2> QED BY <2>5, <2>7
<1>9. ASSUME NEW p \in Projections, NEW g \in Generations, UserDelete(p, g)
      PROVE  TypeInv'
  <2>1. TypeOK'
    BY <1>9, GoogleWritesType, EditType DEF TypeOK, UserDelete
  <2> QED BY <1>9, <2>1, OutsideInv DEF UserDelete
<1>10. CASE AdminStep
  BY <1>10, AdminTypeInv
<1>11. CASE CrashAndRestart
  <2>1. ops' \in [Keys -> OpRow]
    BY <1>11 DEF TypeOK, CrashAndRestart, OpRow
  <2>2. BodyInv'
    BY <1>11 DEF TypeOK, CrashAndRestart, BodyInv, Outstanding, OpRow
  <2>3. worker' \in WorkerState /\ WorkerInv' /\ TodoInv'
    BY <1>11, FreshWorkerInv DEF CrashAndRestart
  <2>4. ledger' \in [Projections -> LedgerRow]
    <3>1. \A p \in Projections :
            [ledger[p] EXCEPT !.owed = IF Cleaning(p) THEN "lost" ELSE @] \in LedgerRow
      BY DEF TypeOK, LedgerRow
    <3> QED BY <1>11, <3>1 DEF CrashAndRestart
  <2> QED BY <1>11, <2>1, <2>2, <2>3, <2>4, SpendType DEF TypeOK, CrashAndRestart
<1>12. CASE PassDies
  <2>1. worker' \in WorkerState /\ WorkerInv' /\ TodoInv'
    BY <1>12, FreshWorkerInv DEF PassDies
  <2>2. BodyInv'
    BY <1>12 DEF PassDies, BodyInv, Outstanding
  <2> QED BY <1>12, <2>1, <2>2, SpendType DEF TypeOK, PassDies
<1>13. ASSUME NEW k \in Keys, Ripen(k) PROVE TypeInv'
  <2>1. ops' \in [Keys -> OpRow]
    BY <1>13 DEF TypeOK, Ripen, OpRow
  <2>2. WorkerInv'
    BY <1>13, NoOperation DEF Ripen, OpPC, HeldPC,
                              CreatePC, UpdatePC, DeletePC
  <2>3. BodyInv'
    BY <1>13 DEF TypeOK, Ripen, BodyInv, Outstanding, OpRow
  <2>4. TodoInv'
    BY <1>13 DEF Ripen, TodoInv
  <2> QED BY <1>13, <2>1, <2>2, <2>3, <2>4 DEF TypeOK, Ripen
<1>14. CASE UNCHANGED vars
  BY <1>14 DEF vars, TypeOK, WorkerInv, BodyInv, TodoInv, Outstanding, Op
<1>15. CASE RecordAffected
  <2>1. TypeOK'
    BY <1>15, QueueMoves DEF TypeOK, RecordAffected
  <2> QED BY <1>15, <2>1, OutsideInv DEF RecordAffected
<1> QED BY <1>1, <1>2, <1>3, <1>4, <1>5, <1>6, <1>7, <1>8, <1>9, <1>10,
           <1>11, <1>12, <1>13, <1>14, <1>15
        DEF Next, PassStep, IngestStep, Environment, Time

(* Every variable keeps its type, whatever the order of passes, edits,     *)
(* endpoints and failures: no step of the drain works without a claimed    *)
(* row, none writes a copy without a body.                                 *)
THEOREM TypeCorrect == Spec => []TypeOK
<1>1. TypeInv /\ [Next]_vars => TypeInv'
  BY NextTypeInv
<1>2. TypeInv => TypeOK
  BY DEF TypeInv
<1> QED BY InitTypeInv, <1>1, <1>2, PTL DEF Spec

=============================================================================
