---------------------------- MODULE MirrorSafety ----------------------------
(***************************************************************************)
(* Safety of the mirroring core, proved on top of its type correctness:    *)
(* one live copy at most, ids burned only when Google has burned them, the *)
(* ceiling of an episode, no change forgotten by the planner, and no newer *)
(* version overwritten by an older one.                                    *)
(***************************************************************************)
EXTENDS MirrorProofs

USE DEF ABSENT, NONE, CANCELLED, TAMPERED

(* _do_create holds a generation.                                          *)
TryPC == {"insert", "conflict", "burned", "adopt", "landed"}

(* The generation a create holds is the projection's; a conflict is about  *)
(* an id Google knows, a burned one about a tombstone.                     *)
CopyInv ==
  /\ AtMostOneCopy
  /\ worker.pc \in TryPC => worker.gen = proj[OpProj].gen
  /\ worker.pc = "conflict" => google[OpProj][worker.gen] # NONE
  /\ worker.pc = "burned" => google[OpProj][worker.gen] = CANCELLED

(* The floor a create holds may be that of an earlier episode, never of a  *)
(* later one.                                                              *)
EpisodeInv ==
  /\ \A p \in Projections : proj[p].floor <= proj[p].gen
  /\ EpisodeBounded
  /\ worker.pc \in TryPC =>
       /\ worker.floor <= proj[OpProj].floor
       /\ worker.gen - worker.floor < MaxTotalIdGenerations

SafeInv == CopyInv /\ EpisodeInv

-----------------------------------------------------------------------------

(* What most steps leave alone: the generations and floors of the rows,    *)
(* and what a create holds.                                                *)
SameIds ==
  \A p \in Projections :
    proj'[p].gen = proj[p].gen /\ proj'[p].floor = proj[p].floor

SameTry ==
  \/ worker'.pc \notin TryPC
  \/ /\ worker'.pc = worker.pc /\ worker'.key = worker.key
     /\ worker'.gen = worker.gen /\ worker'.floor = worker.floor

(* Ids are left behind burned.                                             *)
BurnStep ==
  \A p \in Projections, g \in Generations :
    proj[p].gen <= g /\ g < proj'[p].gen => google[p][g] = CANCELLED

SafeStep == SafeInv' /\ BurnStep

LEMMA TryOp ==
  ASSUME TypeInv, worker.pc \in TryPC
  PROVE  OpProj \in Projections /\ worker.gen \in Generations
         /\ proj[OpProj] \in ProjRow /\ worker.pc \in HeldPC
         /\ worker.pc \in OpPC
<1>1. worker.pc \in HeldPC /\ worker.pc \in OpPC
  BY DEF TryPC, OpPC, HeldPC, CreatePC
<1> QED BY <1>1, HeldRow DEF TypeInv, TypeOK, WorkerState

LEMMA RowTypes ==
  ASSUME TypeInv, NEW p \in Projections
  PROVE  /\ proj[p] \in ProjRow
         /\ proj[p].gen \in Nat /\ proj[p].floor \in Nat
<1>1. proj[p] \in ProjRow
  BY DEF TypeInv, TypeOK
<1>2. proj[p].gen \in Generations /\ proj[p].floor \in Generations
  BY <1>1 DEF ProjRow
<1> QED BY <1>1, <1>2, ConstantsAssumption

LEMMA SameBurn ==
  ASSUME TypeInv, \A p \in Projections : proj'[p].gen = proj[p].gen
  PROVE  BurnStep
<1> SUFFICES ASSUME NEW p \in Projections, NEW g \in Generations,
                    proj[p].gen <= g, g < proj'[p].gen
             PROVE  FALSE
  BY DEF BurnStep
<1>1. proj'[p].gen = proj[p].gen /\ proj[p].gen \in Nat /\ g \in Nat
  BY RowTypes, ConstantsAssumption
<1> QED BY <1>1

LEMMA WorkerTypes ==
  ASSUME TypeInv
  PROVE  /\ worker \in WorkerState /\ worker.gen \in Generations
         /\ worker.gen \in Nat /\ worker.floor \in Nat
BY ConstantsAssumption DEF TypeInv, TypeOK, WorkerState

LEMMA EpisodeSame ==
  ASSUME TypeInv, EpisodeInv, SameIds, SameTry PROVE EpisodeInv'
<1>1. \A p \in Projections : proj'[p].floor <= proj'[p].gen
  BY DEF EpisodeInv, SameIds
<1>2. EpisodeBounded'
  BY DEF EpisodeInv, EpisodeBounded, SameIds
<1>3. ASSUME worker'.pc \in TryPC
      PROVE  /\ worker'.floor <= proj'[OpProj'].floor
             /\ worker'.gen - worker'.floor < MaxTotalIdGenerations
  <2>1. worker.pc \in TryPC /\ OpProj' = OpProj
        /\ worker'.gen = worker.gen /\ worker'.floor = worker.floor
    BY <1>3 DEF SameTry, OpProj
  <2> QED BY <2>1, TryOp DEF EpisodeInv, SameIds
<1> QED BY <1>1, <1>2, <1>3 DEF EpisodeInv

(* A step that does not write to Google either.                            *)
LEMMA QuietStep ==
  ASSUME TypeInv, SafeInv, UNCHANGED google, SameIds, SameTry
  PROVE  SafeStep
<1>1. AtMostOneCopy'
  BY DEF SafeInv, CopyInv, AtMostOneCopy, Live, SameIds
<1>2. ASSUME worker'.pc \in TryPC
      PROVE  /\ worker'.gen = proj'[OpProj'].gen
             /\ worker'.pc = "conflict" => google'[OpProj'][worker'.gen] # NONE
             /\ worker'.pc = "burned" => google'[OpProj'][worker'.gen] = CANCELLED
  <2>1. worker.pc \in TryPC /\ worker'.pc = worker.pc /\ OpProj' = OpProj
        /\ worker'.gen = worker.gen
    BY <1>2 DEF SameTry, OpProj
  <2> QED BY <2>1, TryOp DEF SafeInv, CopyInv, SameIds
<1>3. CopyInv'
  BY <1>1, <1>2 DEF CopyInv, TryPC
<1> QED BY <1>3, EpisodeSame, SameBurn DEF SafeInv, SafeStep, SameIds

(* A step that changes or deletes a live copy.                             *)
LEMMA LiveStep ==
  ASSUME TypeInv, SafeInv, NEW p \in Projections, NEW g \in Generations,
         Live(p, g),
         NEW what \in Contents \cup {TAMPERED, CANCELLED},
         GoogleWrites(p, g, what), SameIds, SameTry
  PROVE  SafeStep
<1>1. /\ what # NONE
      /\ \A q \in Projections, h \in Generations :
           google'[q][h] = IF q = p /\ h = g THEN what ELSE google[q][h]
  BY ConstantsAssumption DEF TypeInv, TypeOK, GoogleWrites
<1>2. AtMostOneCopy'
  BY <1>1 DEF SafeInv, CopyInv, AtMostOneCopy, Live, SameIds
<1>3. ASSUME worker'.pc \in TryPC
      PROVE  /\ worker'.gen = proj'[OpProj'].gen
             /\ worker'.pc = "conflict" => google'[OpProj'][worker'.gen] # NONE
             /\ worker'.pc = "burned" => google'[OpProj'][worker'.gen] = CANCELLED
  <2>1. worker.pc \in TryPC /\ worker'.pc = worker.pc /\ OpProj' = OpProj
        /\ worker'.gen = worker.gen
    BY <1>3 DEF SameTry, OpProj
  <2>2. OpProj \in Projections /\ worker.gen \in Generations
    BY <2>1, TryOp
  <2>3. worker.gen = proj'[OpProj].gen
    BY <2>1, <2>2 DEF SafeInv, CopyInv, SameIds
  <2>4. worker.pc = "conflict" => google'[OpProj][worker.gen] # NONE
    BY <1>1, <2>2 DEF SafeInv, CopyInv
  <2>5. worker.pc = "burned" => google'[OpProj][worker.gen] = CANCELLED
    BY <1>1, <2>2 DEF SafeInv, CopyInv, Live
  <2> QED BY <2>1, <2>3, <2>4, <2>5
<1>4. CopyInv'
  BY <1>2, <1>3 DEF CopyInv, TryPC
<1> QED BY <1>4, EpisodeSame, SameBurn DEF SafeInv, SafeStep, SameIds

LEMMA RetrySame ==
  ASSUME TypeInv, MarkRetry \/ MarkRejected
  PROVE  SameIds /\ SameTry /\ UNCHANGED proj
BY WorkerTypes DEF MarkRetry, MarkRejected, NextOp, Goto, SameIds, SameTry,
                   TryPC, WorkerState

LEMMA GotoSame ==
  ASSUME TypeInv, NEW pc, Goto(pc), pc \notin TryPC PROVE SameTry
BY WorkerTypes DEF Goto, SameTry, WorkerState

LEMMA NextOpSame ==
  ASSUME TypeInv, worker' = NextOp PROVE SameTry
BY WorkerTypes DEF NextOp, SameTry, TryPC, WorkerState

(* The last generation an episode may reach is persisted on giving up.     *)
LEMMA GiveUpSafe ==
  ASSUME TypeInv, SafeInv, worker.pc \in OpPC, NEW g \in Generations,
         GiveUp(g), g >= proj[OpProj].gen,
         g - proj[OpProj].floor <= MaxTotalIdGenerations,
         g = proj[OpProj].gen
           \/ /\ g = proj[OpProj].gen + 1
              /\ google[OpProj][proj[OpProj].gen] = CANCELLED
  PROVE  SafeStep
<1>1. OpProj \in Projections /\ proj[OpProj] \in ProjRow
  BY HeldRow
<1>2. \A p \in Projections :
        /\ proj'[p].floor = proj[p].floor
        /\ proj'[p].gen = IF p = OpProj THEN g ELSE proj[p].gen
  BY <1>1, RowTypes DEF GiveUp, TypeInv, TypeOK, ProjRow
<1>3. worker'.pc \notin TryPC
  BY WorkerTypes DEF GiveUp, Goto, WorkerState, TryPC
<1>4. UNCHANGED google
  BY DEF GiveUp
<1>5. AtMostOneCopy'
  BY <1>2, <1>4 DEF SafeInv, CopyInv, AtMostOneCopy, Live
<1>6. CopyInv'
  BY <1>3, <1>5 DEF CopyInv, TryPC
<1>7. \A p \in Projections : proj'[p].floor <= proj'[p].gen
  BY <1>1, <1>2, RowTypes, ConstantsAssumption DEF SafeInv, EpisodeInv
<1>8. EpisodeBounded'
  BY <1>2 DEF SafeInv, EpisodeInv, EpisodeBounded
<1>9. BurnStep
  BY <1>1, <1>2, RowTypes, ConstantsAssumption DEF BurnStep
<1> QED BY <1>3, <1>6, <1>7, <1>8, <1>9 DEF SafeInv, SafeStep, EpisodeInv

LEMMA DrainSafe ==
  ASSUME TypeInv, SafeInv, DrainStep PROVE SafeStep
<1>1. CASE ReclaimStale
  BY <1>1, QuietStep, WorkerTypes
     DEF ReclaimStale, SameIds, SameTry, TryPC, WorkerState
<1>2. ASSUME NEW k \in Keys, ClaimNext(k) PROVE SafeStep
  BY <1>2, QuietStep, WorkerTypes
     DEF ClaimNext, Keys, Kinds, SameIds, SameTry, TryPC, WorkerState
<1>3. CASE DrainEnds
  BY <1>3, QuietStep, WorkerTypes
     DEF DrainEnds, SameIds, SameTry, TryPC, WorkerState
<1>4. CASE CallFails
  BY <1>4, QuietStep, RetrySame DEF CallFails
<1>5. CASE FailProjection
  <2>1. OpProj \in Projections
    BY <1>5, HeldRow DEF FailProjection, OpPC
  <2>2. SameIds
    BY <1>5, <2>1, RowTypes DEF FailProjection, SameIds, TypeInv, TypeOK, ProjRow
  <2> QED BY <1>5, <2>2, QuietStep, NextOpSame DEF FailProjection
<1>6. CASE CreateEntry
  <2>1. worker.pc \in OpPC
    BY <1>6 DEF CreateEntry, OpPC, HeldPC, CreatePC
  <2>2. OpProj \in Projections /\ proj[OpProj] \in ProjRow
    BY <2>1, HeldRow
  <2>3. CASE GiveUp(proj[OpProj].gen)
    <3>1. proj[OpProj].gen \in Generations
      BY <2>2 DEF ProjRow
    <3>2. proj[OpProj].gen - proj[OpProj].floor <= MaxTotalIdGenerations
      BY <2>2 DEF SafeInv, EpisodeInv, EpisodeBounded
    <3> QED BY <2>1, <2>2, <2>3, <3>1, <3>2, RowTypes, GiveUpSafe
  <2>4. CASE ~(proj[OpProj].gen - proj[OpProj].floor >= MaxTotalIdGenerations)
    <3>1. /\ worker'.pc = "insert" /\ worker'.key = worker.key
          /\ worker'.gen = proj[OpProj].gen
          /\ worker'.floor = proj[OpProj].floor
          /\ UNCHANGED <<proj, google>>
      BY <1>6, <2>4, WorkerTypes DEF CreateEntry, WorkerState
    <3>2. OpProj' = OpProj
      BY <3>1 DEF OpProj
    <3>3. CopyInv'
      BY <3>1, <3>2 DEF SafeInv, CopyInv, AtMostOneCopy, Live
    <3>4. EpisodeInv'
      BY <2>2, <2>4, <3>1, <3>2, RowTypes, ConstantsAssumption
         DEF SafeInv, EpisodeInv, EpisodeBounded
    <3> QED BY <3>1, <3>3, <3>4, SameBurn DEF SafeInv, SafeStep
  <2> QED BY <1>6, <2>3, <2>4 DEF CreateEntry
<1>7. CASE Insert
  <2>1. worker.pc \in TryPC /\ worker.pc \in CreatePC
    BY <1>7 DEF Insert, TryPC, CreatePC
  <2>2. /\ OpProj \in Projections /\ worker.gen \in Generations
        /\ worker.gen = proj[OpProj].gen /\ worker.pc \in HeldPC
    BY <2>1, TryOp DEF SafeInv, CopyInv
  <2>3. CASE google[OpProj][worker.gen] = NONE
    <3>1. \A q \in Projections, h \in Generations :
            google'[q][h] = IF q = OpProj /\ h = worker.gen
                              THEN Op.body ELSE google[q][h]
      BY <1>7, <2>2, <2>3 DEF Insert, TypeInv, TypeOK, GoogleWrites
    <3>2. UNCHANGED proj
      BY <1>7, <2>3 DEF Insert, MarkRetry
    <3>3. AtMostOneCopy'
      BY <2>2, <3>1, <3>2 DEF SafeInv, CopyInv, AtMostOneCopy, Live
    <3>4. CASE worker' = [worker EXCEPT !.pc = "landed", !.etag = "match"]
      <4>1. /\ worker'.pc = "landed" /\ OpProj' = OpProj
            /\ worker'.gen = worker.gen /\ worker'.floor = worker.floor
        BY <3>4, WorkerTypes DEF WorkerState, OpProj
      <4>2. CopyInv'
        BY <2>2, <3>2, <3>3, <4>1 DEF CopyInv
      <4>3. EpisodeInv'
        BY <2>1, <3>2, <4>1 DEF SafeInv, EpisodeInv, EpisodeBounded
      <4> QED BY <3>2, <4>2, <4>3, SameBurn DEF SafeInv, SafeStep
    <3>5. CASE MarkRetry
      <4>1. worker'.pc \notin TryPC
        BY <3>5, WorkerTypes DEF MarkRetry, NextOp, TryPC, WorkerState
      <4>2. CopyInv'
        BY <3>3, <4>1 DEF CopyInv, TryPC
      <4> QED BY <3>2, <3>5, <4>2, RetrySame, EpisodeSame, SameBurn
              DEF SafeInv, SafeStep
    <3> QED BY <1>7, <2>3, <3>4, <3>5 DEF Insert
  <2>4. CASE google[OpProj][worker.gen] # NONE
    <3>1. /\ worker'.pc = "conflict" /\ OpProj' = OpProj
          /\ worker'.gen = worker.gen /\ worker'.floor = worker.floor
          /\ UNCHANGED <<proj, google>>
      BY <1>7, <2>4, WorkerTypes DEF Insert, Goto, WorkerState, OpProj
    <3>2. CopyInv'
      BY <2>2, <2>4, <3>1 DEF SafeInv, CopyInv, AtMostOneCopy, Live
    <3>3. EpisodeInv'
      BY <2>1, <3>1 DEF SafeInv, EpisodeInv, EpisodeBounded
    <3> QED BY <3>1, <3>2, <3>3, SameBurn DEF SafeInv, SafeStep
  <2> QED BY <2>3, <2>4
<1>8. CASE Conflict
  <2>1. worker.pc \in TryPC /\ worker.pc = "conflict"
    BY <1>8 DEF Conflict, TryPC
  <2>2. /\ worker'.pc = IF Live(OpProj, worker.gen) THEN "adopt" ELSE "burned"
        /\ OpProj' = OpProj
        /\ worker'.gen = worker.gen /\ worker'.floor = worker.floor
        /\ UNCHANGED <<proj, google>>
    BY <1>8, WorkerTypes DEF Conflict, Goto, WorkerState, OpProj
  <2>3. CopyInv'
    BY <2>1, <2>2 DEF SafeInv, CopyInv, AtMostOneCopy, Live
  <2>4. EpisodeInv'
    BY <2>1, <2>2 DEF SafeInv, EpisodeInv, EpisodeBounded
  <2> QED BY <2>2, <2>3, <2>4, SameBurn DEF SafeInv, SafeStep
<1>9. CASE BumpGeneration
  <2>1. worker.pc \in TryPC /\ worker.pc = "burned" /\ worker.pc \in OpPC
    BY <1>9 DEF BumpGeneration, TryPC, OpPC, HeldPC, CreatePC
  <2>2. /\ OpProj \in Projections /\ worker.gen = proj[OpProj].gen
        /\ worker.gen + 1 \in Generations
        /\ google[OpProj][proj[OpProj].gen] = CANCELLED
    BY <1>9, <2>1, TryOp DEF BumpGeneration, SafeInv, CopyInv
  <2>3. /\ worker.floor <= proj[OpProj].floor
        /\ worker.gen - worker.floor < MaxTotalIdGenerations
    BY <2>1 DEF SafeInv, EpisodeInv
  <2>4. worker.gen + 1 - proj[OpProj].floor <= MaxTotalIdGenerations
    BY <2>2, <2>3, RowTypes, WorkerTypes, ConstantsAssumption
  <2>5. CASE GiveUp(worker.gen + 1)
    BY <2>1, <2>2, <2>4, <2>5, RowTypes, GiveUpSafe
  <2>6. CASE /\ worker.gen + 1 - worker.floor < MaxTotalIdGenerations
             /\ proj' = [proj EXCEPT ![OpProj].gen = worker.gen + 1]
             /\ \/ worker' = [worker EXCEPT !.pc = "insert", !.gen = @ + 1,
                                            !.tries = @ + 1]
                \/ worker' = NextOp
             /\ UNCHANGED google
    <3>1. \A p \in Projections :
            /\ proj'[p].floor = proj[p].floor
            /\ proj'[p].gen = IF p = OpProj THEN worker.gen + 1
                                            ELSE proj[p].gen
      BY <2>2, <2>6, RowTypes DEF TypeInv, TypeOK, ProjRow
    <3>2. AtMostOneCopy'
      BY <2>2, <2>6, <3>1 DEF SafeInv, CopyInv, AtMostOneCopy, Live
    <3>3. \/ worker'.pc \notin TryPC
          \/ /\ worker'.pc = "insert" /\ OpProj' = OpProj
             /\ worker'.gen = worker.gen + 1 /\ worker'.floor = worker.floor
      BY <2>6, WorkerTypes DEF NextOp, TryPC, WorkerState, OpProj
    <3>4. CopyInv'
      BY <2>2, <3>1, <3>2, <3>3 DEF CopyInv, TryPC
    <3>5. \A p \in Projections : proj'[p].floor <= proj'[p].gen
      BY <2>2, <3>1, RowTypes DEF SafeInv, EpisodeInv
    <3>6. EpisodeBounded'
      <4>1. ASSUME NEW p \in Projections
            PROVE  proj'[p].gen - proj'[p].floor <= MaxTotalIdGenerations
        <5>1. CASE p = OpProj
          <6>1. proj'[p].gen = worker.gen + 1
                /\ proj'[p].floor = proj[OpProj].floor
            BY <3>1, <5>1
          <6> QED BY <2>2, <2>4, <6>1, RowTypes, WorkerTypes,
                     ConstantsAssumption
        <5>2. CASE p # OpProj
          BY <3>1, <5>2 DEF SafeInv, EpisodeInv, EpisodeBounded
        <5> QED BY <5>1, <5>2
      <4> QED BY <4>1 DEF EpisodeBounded
    <3>7. ASSUME worker'.pc \in TryPC
          PROVE  /\ worker'.floor <= proj'[OpProj'].floor
                 /\ worker'.gen - worker'.floor < MaxTotalIdGenerations
      <4>1. OpProj' = OpProj /\ worker'.gen = worker.gen + 1
            /\ worker'.floor = worker.floor
        BY <3>3, <3>7
      <4>2. proj'[OpProj].floor = proj[OpProj].floor
        BY <2>2, <3>1
      <4>3. proj'[OpProj'].floor = proj[OpProj].floor
        BY <4>1, <4>2
      <4>4. worker'.gen - worker'.floor < MaxTotalIdGenerations
        BY <2>6, <4>1, WorkerTypes, ConstantsAssumption
      <4> QED BY <2>3, <4>1, <4>3, <4>4
    <3>8. EpisodeInv'
      BY <3>5, <3>6, <3>7 DEF EpisodeInv
    <3>9. BurnStep
      BY <2>2, <3>1, RowTypes, ConstantsAssumption DEF BurnStep
    <3> QED BY <3>4, <3>8, <3>9 DEF SafeInv, SafeStep
  <2>7. \/ worker.gen + 1 - worker.floor >= MaxTotalIdGenerations
        \/ worker.gen + 1 - worker.floor < MaxTotalIdGenerations
    BY WorkerTypes, ConstantsAssumption
  <2> QED BY <1>9, <2>5, <2>6, <2>7, WorkerTypes, ConstantsAssumption
          DEF BumpGeneration
<1>10. CASE Adopt
  <2>1. worker.pc \in TryPC /\ worker.pc \in CreatePC
    BY <1>10 DEF Adopt, TryPC, CreatePC
  <2>2. /\ OpProj \in Projections /\ worker.gen \in Generations
        /\ worker.pc \in HeldPC /\ worker.pc \in OpPC
    BY <2>1, TryOp
  <2>3. Op.body \in Contents
    BY <2>1, <2>2, HeldRow
  <2>4. CASE /\ Live(OpProj, worker.gen)
             /\ GoogleWrites(OpProj, worker.gen, Op.body)
             /\ UNCHANGED proj
             /\ Goto("landed")
    <3>1. /\ worker'.pc = "landed" /\ OpProj' = OpProj
          /\ worker'.gen = worker.gen /\ worker'.floor = worker.floor
      BY <2>4, WorkerTypes DEF Goto, WorkerState, OpProj
    <3>2. \A q \in Projections, h \in Generations :
            google'[q][h] = IF q = OpProj /\ h = worker.gen
                              THEN Op.body ELSE google[q][h]
      BY <2>2, <2>4 DEF TypeInv, TypeOK, GoogleWrites
    <3>3. CopyInv'
      BY <2>1, <2>4, <3>1, <3>2 DEF SafeInv, CopyInv, AtMostOneCopy, Live
    <3>4. EpisodeInv'
      BY <2>1, <2>4, <3>1 DEF SafeInv, EpisodeInv, EpisodeBounded
    <3> QED BY <2>4, <3>3, <3>4, SameBurn DEF SafeInv, SafeStep
  <2>5. CASE /\ Live(OpProj, worker.gen)
             /\ GoogleWrites(OpProj, worker.gen, Op.body)
             /\ MarkRetry
    BY <2>2, <2>3, <2>5, RetrySame, LiveStep
  <2>6. CASE Goto("supersede") /\ UNCHANGED <<proj, google>>
    BY <2>6, GotoSame, QuietStep DEF SameIds, TryPC
  <2>7. CASE (MarkRetry \/ MarkRejected) /\ UNCHANGED google
    BY <2>7, RetrySame, QuietStep
  <2> QED BY <1>10, <2>4, <2>5, <2>6, <2>7 DEF Adopt
<1>11. CASE Landed
  <2>1. worker.pc \in TryPC
    BY <1>11 DEF Landed, TryPC
  <2>2. OpProj \in Projections /\ worker.gen = proj[OpProj].gen
    BY <2>1, TryOp DEF SafeInv, CopyInv
  <2>3. \A p \in Projections :
          /\ proj'[p].gen = proj[p].gen
          /\ proj'[p].floor = IF p = OpProj THEN proj[p].gen ELSE proj[p].floor
    BY <1>11, <2>2, RowTypes DEF Landed, TypeInv, TypeOK, ProjRow
  <2>4. worker'.pc \notin TryPC /\ UNCHANGED google
    BY <1>11, WorkerTypes DEF Landed, Goto, TryPC, WorkerState
  <2>5. CopyInv'
    BY <2>3, <2>4 DEF SafeInv, CopyInv, AtMostOneCopy, Live, TryPC
  <2>6. EpisodeInv'
    BY <2>3, <2>4, RowTypes, ConstantsAssumption
       DEF SafeInv, EpisodeInv, EpisodeBounded
  <2> QED BY <2>3, <2>5, <2>6, SameBurn DEF SafeInv, SafeStep
<1>12. CASE Update
  <2>1. worker.pc \in OpPC /\ worker.pc \in UpdatePC
    BY <1>12 DEF Update, OpPC, HeldPC, UpdatePC
  <2>2. /\ OpProj \in Projections /\ proj[OpProj] \in ProjRow
        /\ Op.body \in Contents
    BY <2>1, HeldRow
  <2> DEFINE gid == proj[OpProj].gid
  <2>3. gid # NULL => gid \in Generations
    BY <2>2 DEF ProjRow
  <2>4. CASE MarkRejected /\ UNCHANGED google
    BY <2>4, RetrySame, QuietStep
  <2>5. CASE /\ gid # NULL /\ Live(OpProj, gid)
             /\ GoogleWrites(OpProj, gid, Op.body)
             /\ \/ worker' = [worker EXCEPT !.pc = "record", !.gen = gid,
                                            !.etag = "match"]
                   /\ UNCHANGED proj
                \/ /\ proj' = [proj EXCEPT ![OpProj].etag =
                                             EtagAfterForeignWrite(OpProj, gid)]
                   /\ worker' = NextOp
    <3>1. SameIds
      BY <2>2, <2>5, RowTypes DEF SameIds, TypeInv, TypeOK, ProjRow
    <3>2. SameTry
      BY <2>5, WorkerTypes, NextOpSame DEF SameTry, TryPC, WorkerState
    <3> QED BY <2>2, <2>3, <2>5, <3>1, <3>2, LiveStep
  <2>6. CASE (Goto("refetch") \/ Goto("gone")) /\ UNCHANGED <<proj, google>>
    BY <2>6, GotoSame, QuietStep DEF SameIds, TryPC
  <2> QED BY <1>12, <2>4, <2>5, <2>6 DEF Update
<1>13. CASE Refetch
  <2>1. OpProj \in Projections
    BY <1>13, HeldRow DEF Refetch, OpPC, HeldPC, UpdatePC
  <2>2. SameIds
    BY <1>13, <2>1, RowTypes DEF Refetch, SameIds, TypeInv, TypeOK, ProjRow
  <2> QED BY <1>13, <2>2, GotoSame, QuietStep DEF Refetch, TryPC
<1>14. CASE TargetGone
  <2>1. OpProj \in Projections
    BY <1>14, HeldRow DEF TargetGone, OpPC, HeldPC, UpdatePC
  <2>2. SameIds
    BY <1>14, <2>1, RowTypes
       DEF TargetGone, Forgotten, SameIds, TypeInv, TypeOK, ProjRow
  <2> QED BY <1>14, <2>2, GotoSame, QuietStep DEF TargetGone, TryPC
<1>15. CASE MarkSuperseded
  BY <1>15, GotoSame, QuietStep DEF MarkSuperseded, SameIds, TryPC
<1>16. CASE RequestReplan
  <2>1. OpProj \in Projections
    BY <1>16, HeldRow DEF RequestReplan, OpPC
  <2>2. SameIds
    BY <1>16, <2>1, RowTypes DEF RequestReplan, SameIds, TypeInv, TypeOK, ProjRow
  <2> QED BY <1>16, <2>2, NextOpSame, QuietStep DEF RequestReplan
<1>17. CASE Delete
  <2>1. worker.pc \in OpPC
    BY <1>17 DEF Delete, OpPC, HeldPC, DeletePC
  <2>2. OpProj \in Projections /\ proj[OpProj] \in ProjRow
    BY <2>1, HeldRow
  <2> DEFINE gid == proj[OpProj].gid
  <2>3. gid # NULL => gid \in Generations
    BY <2>2 DEF ProjRow
  <2>4. CASE /\ gid # NULL /\ Live(OpProj, gid)
             /\ GoogleWrites(OpProj, gid, CANCELLED)
             /\ MarkRetry \/ (Goto("absent") /\ UNCHANGED proj)
    <3>1. SameIds
      BY <2>4, RetrySame DEF SameIds
    <3>2. SameTry
      BY <2>4, RetrySame, GotoSame DEF TryPC
    <3> QED BY <2>2, <2>3, <2>4, <3>1, <3>2, LiveStep
  <2>5. CASE Goto("absent") /\ UNCHANGED <<proj, google>>
    BY <2>5, GotoSame, QuietStep DEF SameIds, TryPC
  <2> QED BY <1>17, <2>4, <2>5 DEF Delete
<1>18. CASE RecordSuccess
  <2>1. OpProj \in Projections
    BY <1>18, HeldRow DEF RecordSuccess, OpPC, HeldPC
  <2>2. SameIds
    BY <1>18, <2>1, RowTypes DEF RecordSuccess, SameIds, TypeInv, TypeOK, ProjRow
  <2> QED BY <1>18, <2>2, GotoSame, QuietStep DEF RecordSuccess, TryPC
<1>19. CASE RecordAbsent
  <2>1. OpProj \in Projections
    BY <1>19, HeldRow DEF RecordAbsent, OpPC, HeldPC, DeletePC
  <2>2. SameIds
    BY <1>19, <2>1, RowTypes DEF RecordAbsent, SameIds, TypeInv, TypeOK, ProjRow
  <2> QED BY <1>19, <2>2, GotoSame, QuietStep DEF RecordAbsent, TryPC
<1>20. CASE OpDone
  BY <1>20, NextOpSame, QuietStep DEF OpDone, SameIds
<1> QED BY <1>1, <1>2, <1>3, <1>4, <1>5, <1>6, <1>7, <1>8, <1>9, <1>10,
           <1>11, <1>12, <1>13, <1>14, <1>15, <1>16, <1>17, <1>18, <1>19,
           <1>20 DEF DrainStep

LEMMA NextSafe ==
  ASSUME TypeInv, SafeInv, [Next]_vars PROVE SafeStep
<1>1. CASE StartPass
  BY <1>1, QuietStep, WorkerTypes
     DEF StartPass, SameIds, SameTry, TryPC, WorkerState
<1>2. ASSUME NEW p \in Projections, SourceChange(p) PROVE SafeStep
  BY <1>2, QuietStep DEF SourceChange, SameIds, SameTry
<1>3. ASSUME NEW p \in Projections, IngestCopy(p) PROVE SafeStep
  <2>1. SameIds
    BY <1>3, RowTypes
       DEF IngestCopy, Listed, Forgotten, SameIds, TypeInv, TypeOK, ProjRow
  <2>2. SameTry
    BY <1>3, WorkerTypes DEF IngestCopy, SameTry, TryPC, WorkerState
  <2> QED BY <1>3, <2>1, <2>2, QuietStep DEF IngestCopy
<1>4. ASSUME NEW p \in Projections, IngestFails(p) PROVE SafeStep
  BY <1>4, QuietStep, WorkerTypes
     DEF IngestFails, SameIds, SameTry, TryPC, WorkerState
<1>5. CASE IngestDone
  BY <1>5, QuietStep, WorkerTypes
     DEF IngestDone, ReadAffected, SameIds, SameTry, TryPC, WorkerState
<1>6. ASSUME NEW p \in Projections, PlanRow(p) PROVE SafeStep
  <2>1. SameIds
    BY <1>6, RowTypes DEF PlanRow, Planned, SameIds, TypeInv, TypeOK, ProjRow
  <2>2. SameTry
    BY <1>6, WorkerTypes DEF PlanRow, SameTry, TryPC, WorkerState
  <2> QED BY <1>6, <2>1, <2>2, QuietStep DEF PlanRow
<1>7. CASE PlanDone
  BY <1>7, GotoSame, QuietStep DEF PlanDone, SameIds, TryPC
<1>8. CASE SelectDiverged
  BY <1>8, QuietStep, WorkerTypes
     DEF SelectDiverged, SameIds, SameTry, TryPC, WorkerState
<1>9. ASSUME NEW p \in Projections, DiffRow(p) PROVE SafeStep
  <2>1. SameIds
    BY <1>9, RowTypes DEF DiffRow, Snap, SameIds, TypeInv, TypeOK, ProjRow
  <2>2. SameTry
    BY <1>9, WorkerTypes DEF DiffRow, SameTry, TryPC, WorkerState
  <2> QED BY <1>9, <2>1, <2>2, QuietStep DEF DiffRow
<1>10. CASE DiffDone
  BY <1>10, GotoSame, QuietStep DEF DiffDone, SameIds, TryPC
<1>11. CASE DrainStep
  BY <1>11, DrainSafe
<1>12. ASSUME NEW p \in Projections, NEW g \in Generations, UserEdit(p, g)
       PROVE  SafeStep
  <2>1. SameIds
    BY <1>12, RowTypes DEF UserEdit, SameIds, TypeInv, TypeOK, ProjRow
  <2>2. SameTry
    BY <1>12, WorkerTypes DEF UserEdit, SameTry, WorkerState
  <2> QED BY <1>12, <2>1, <2>2, LiveStep DEF UserEdit
<1>13. ASSUME NEW p \in Projections, NEW g \in Generations, UserDelete(p, g)
       PROVE  SafeStep
  BY <1>13, LiveStep DEF UserDelete, SameIds, SameTry
<1>14. ASSUME NEW p \in Projections, CleanupCalendar(p) PROVE SafeStep
  <2>1. SameIds
    BY <1>14, RowTypes
       DEF CleanupCalendar, Cleaned, SameIds, TypeInv, TypeOK, ProjRow
  <2> QED BY <1>14, <2>1, QuietStep DEF CleanupCalendar, SameTry
<1>15. CASE CleanupAndPause
  <2>1. SameIds
    BY <1>15, RowTypes DEF CleanupAndPause, Cleaned, SameIds, ProjRow
  <2> QED BY <1>15, <2>1, QuietStep DEF CleanupAndPause, SameTry
<1>16. CASE PauseSync \/ ResumeSync \/ FullResync
  BY <1>16, QuietStep DEF PauseSync, ResumeSync, FullResync, SameIds, SameTry
<1>17. CASE RetryPermanentFailures
  <2>1. \A p \in Projections :
          /\ proj'[p].gen = proj[p].gen
          /\ proj'[p].floor \in {proj[p].floor, proj[p].gen}
    BY <1>17, RowTypes DEF RetryPermanentFailures, ProjRow
  <2>2. UNCHANGED <<worker, google>>
    BY <1>17 DEF RetryPermanentFailures
  <2>3. OpProj' = OpProj
    BY <2>2 DEF OpProj
  <2>4. CopyInv'
    BY <2>1, <2>2, <2>3, TryOp DEF SafeInv, CopyInv, AtMostOneCopy, Live
  <2>5. ASSUME NEW p \in Projections
        PROVE  /\ proj'[p].floor <= proj'[p].gen
               /\ proj[p].floor <= proj'[p].floor
               /\ proj'[p].gen - proj'[p].floor <= MaxTotalIdGenerations
    BY <2>1, RowTypes, ConstantsAssumption DEF SafeInv, EpisodeInv, EpisodeBounded
  <2>6. ASSUME worker.pc \in TryPC
        PROVE  worker.floor <= proj'[OpProj].floor
    <3>1. OpProj \in Projections /\ worker.floor <= proj[OpProj].floor
      BY <2>6, TryOp DEF SafeInv, EpisodeInv
    <3>2. proj'[OpProj].floor \in Nat
      BY <2>1, <3>1, RowTypes
    <3> QED BY <2>5, <3>1, <3>2, RowTypes, WorkerTypes
  <2>7. EpisodeInv'
    BY <2>2, <2>3, <2>5, <2>6 DEF SafeInv, EpisodeInv, EpisodeBounded
  <2> QED BY <2>1, <2>4, <2>7, SameBurn DEF SafeInv, SafeStep
<1>18. ASSUME NEW p \in Projections, NEW c \in Contents, Relabel(p, c)
       PROVE  SafeStep
  BY <1>18, QuietStep DEF Relabel, SameIds, SameTry
<1>22. CASE CleanupGoesOn \/ RecordAffected
  BY <1>22, QueueMoves, QuietStep DEF SameIds, SameTry
<1>19. CASE CrashAndRestart \/ PassDies
  <2>1. worker' = FreshWorker /\ UNCHANGED <<proj, google>>
    BY <1>19 DEF CrashAndRestart, PassDies
  <2>2. SameIds /\ SameTry
    BY <2>1 DEF FreshWorker, SameIds, SameTry, TryPC
  <2> QED BY <2>1, <2>2, QuietStep
<1>20. ASSUME NEW k \in Keys, Ripen(k) PROVE SafeStep
  BY <1>20, QuietStep DEF Ripen, SameIds, SameTry
<1>21. CASE UNCHANGED vars
  BY <1>21, QuietStep DEF vars, SameIds, SameTry
<1> QED BY <1>1, <1>2, <1>3, <1>4, <1>5, <1>6, <1>7, <1>8, <1>9, <1>10,
           <1>11, <1>12, <1>13, <1>14, <1>15, <1>16, <1>17, <1>18, <1>19,
           <1>20, <1>21, <1>22
        DEF Next, PassStep, IngestStep, PlanningStep, Environment, AdminStep,
            Time

LEMMA InitSafe == Init => SafeInv
<1> SUFFICES ASSUME Init PROVE SafeInv
  OBVIOUS
<1>1. \A p \in Projections : proj[p].gen = 0 /\ proj[p].floor = 0
  BY DEF Init, InitRow
<1>2. worker.pc = "idle"
  BY DEF Init, FreshWorker
<1>3. \A p \in Projections, g \in Generations : ~Live(p, g)
  BY DEF Init, Live
<1>4. CopyInv
  BY <1>2, <1>3 DEF CopyInv, AtMostOneCopy, TryPC
<1>5. EpisodeInv
  BY <1>1, <1>2, ConstantsAssumption DEF EpisodeInv, EpisodeBounded, TryPC
<1> QED BY <1>4, <1>5 DEF SafeInv

LEMMA SafeInvariant == Spec => [](TypeInv /\ SafeInv)
<1>1. TypeInv /\ SafeInv /\ [Next]_vars => (TypeInv /\ SafeInv)'
  BY NextTypeInv, NextSafe DEF SafeStep
<1>2. Init => TypeInv /\ SafeInv
  BY InitTypeInv, InitSafe
<1> QED BY <1>1, <1>2, PTL DEF Spec

-----------------------------------------------------------------------------

(* Two live copies of one event on one calendar are impossible, whatever   *)
(* answers are lost, rows reclaimed, processes stopped or copies deleted.  *)
THEOREM NoDuplicate == Spec => []AtMostOneCopy
<1>1. TypeInv /\ SafeInv => AtMostOneCopy
  BY DEF SafeInv, CopyInv
<1> QED BY <1>1, SafeInvariant, PTL

(* An episode burns at most MaxTotalIdGenerations ids, however often its   *)
(* create is retried and whenever an operator starts the next episode.     *)
THEOREM EpisodeCeiling == Spec => []EpisodeBounded
<1>1. TypeInv /\ SafeInv => EpisodeBounded
  BY DEF SafeInv, EpisodeInv
<1> QED BY <1>1, SafeInvariant, PTL

(* The generation only ever leaves ids that Google has burned.             *)
THEOREM GenerationsBurned == Spec => BurnsOnlyTombstones
<1>1. TypeInv /\ SafeInv /\ [Next]_vars
        => [\A p \in Projections, g \in Generations :
              proj[p].gen <= g /\ g < proj'[p].gen
                => google[p][g] = CANCELLED]_vars
  BY NextSafe DEF SafeStep, BurnStep
<1> QED BY <1>1, SafeInvariant, PTL DEF Spec, BurnsOnlyTombstones

-----------------------------------------------------------------------------

(* Where a change waits.  During the plan phase a row this pass has read   *)
(* only counts while the planner has yet to visit it.                      *)
PlanInv ==
  \A p \in Projections :
    proj[p].desired # Wanted(p) =>
      \/ "new" \in ledger[p].queued \/ "listed" \in ledger[p].queued
      \/ ledger[p].owed # "nothing"
      \/ "read" \in ledger[p].queued /\ (worker.pc = "plan" => p \in worker.dirty)

LEMMA LedgerTypes ==
  ASSUME TypeInv, NEW p \in Projections
  PROVE  ledger[p] \in LedgerRow
BY DEF TypeInv, TypeOK

(* A step outside the plan phase that changes no desired state.            *)
LEMMA PlanSame ==
  ASSUME PlanInv, UNCHANGED ledger,
         \A p \in Projections : proj'[p].desired = proj[p].desired,
         worker'.pc # "plan"
           \/ (worker'.pc = worker.pc /\ worker'.dirty = worker.dirty)
  PROVE  PlanInv'
BY DEF PlanInv, Wanted

(* The drain leaves the events alone and never goes back to planning; it   *)
(* may start another diff.                                                 *)
LEMMA DrainMoves ==
  ASSUME TypeInv, DrainStep
  PROVE  UNCHANGED ledger /\ worker'.pc \notin {"plan", "rows"}
<1>1. UNCHANGED ledger
  BY DEF DrainStep, ReclaimStale, ClaimNext, DrainEnds, CallFails,
         FailProjection, CreateEntry, Insert, Conflict, BumpGeneration, Adopt,
         Landed, Update, Refetch, TargetGone, MarkSuperseded, RequestReplan,
         Delete, RecordSuccess, RecordAbsent, OpDone, GiveUp, MarkRetry,
         MarkRejected
<1>2. worker'.pc \notin {"plan", "rows"}
  <2>1. \A w \in WorkerState, pc \in PC : [w EXCEPT !.pc = pc].pc = pc
    BY DEF WorkerState
  <2>2. NextOp.pc = "drain"
    BY WorkerTypes DEF NextOp, WorkerState
  <2>3. ASSUME MarkRetry \/ MarkRejected PROVE worker'.pc \notin {"plan", "rows"}
    BY <2>2, <2>3, WorkerTypes DEF MarkRetry, MarkRejected, Goto, WorkerState
  <2>4. ASSUME NEW g, GiveUp(g) PROVE worker'.pc \notin {"plan", "rows"}
    BY <2>4, WorkerTypes DEF GiveUp, Goto, WorkerState
  <2>5. CASE ReclaimStale \/ DrainEnds \/ CallFails \/ FailProjection
             \/ OpDone \/ RequestReplan
    BY <2>2, <2>3, <2>5, WorkerTypes
       DEF ReclaimStale, DrainEnds, CallFails, FailProjection, OpDone,
           RequestReplan, WorkerState
  <2>6. ASSUME NEW k \in Keys, ClaimNext(k) PROVE worker'.pc \notin {"plan", "rows"}
    BY <2>6, WorkerTypes DEF ClaimNext, Keys, Kinds, WorkerState
  <2>7. CASE CreateEntry \/ Insert \/ Conflict \/ BumpGeneration
    BY <2>2, <2>3, <2>4, <2>7, WorkerTypes
       DEF CreateEntry, Insert, Conflict, BumpGeneration, Goto, WorkerState
  <2>8. CASE Adopt \/ Landed \/ Update \/ Delete
    BY <2>2, <2>3, <2>8, WorkerTypes
       DEF Adopt, Landed, Update, Delete, Goto, WorkerState
  <2>9. CASE Refetch \/ TargetGone \/ MarkSuperseded \/ RecordSuccess
             \/ RecordAbsent
    BY <2>9, WorkerTypes
       DEF Refetch, TargetGone, MarkSuperseded, RecordSuccess, RecordAbsent,
           Goto, WorkerState
  <2> QED BY <2>5, <2>6, <2>7, <2>8, <2>9 DEF DrainStep
<1> QED BY <1>1, <1>2

(* Every step of the drain leaves desired states and the queue alone.      *)
LEMMA DrainPlan ==
  ASSUME TypeInv, PlanInv, DrainStep PROVE PlanInv'
<1>1. UNCHANGED ledger /\ worker'.pc # "plan"
  BY DrainMoves
<1>2. \A p \in Projections : proj'[p].desired = proj[p].desired
  <2>1. CASE UNCHANGED proj
    BY <2>1
  <2>2. ASSUME worker.pc \in OpPC PROVE OpProj \in Projections
    BY <2>2, HeldRow
  <2>3. ASSUME NEW g, GiveUp(g), worker.pc \in OpPC
        PROVE  \A p \in Projections : proj'[p].desired = proj[p].desired
    BY <2>2, <2>3, RowTypes DEF GiveUp, TypeInv, TypeOK, ProjRow
  <2>4. CASE ReclaimStale \/ (\E k \in Keys : ClaimNext(k)) \/ DrainEnds
             \/ CallFails \/ Insert \/ Conflict \/ Adopt \/ MarkSuperseded
             \/ Delete \/ OpDone
    BY <2>1, <2>4
       DEF ReclaimStale, ClaimNext, DrainEnds, CallFails, Insert, Conflict,
           Adopt, MarkSuperseded, Delete, OpDone, MarkRetry, MarkRejected
  <2>5. CASE CreateEntry \/ BumpGeneration
    <3>1. worker.pc \in OpPC
      BY <2>5 DEF CreateEntry, BumpGeneration, OpPC, HeldPC, CreatePC
    <3>2. CASE proj' = [proj EXCEPT ![OpProj].gen = worker.gen + 1]
      BY <2>2, <3>1, <3>2, RowTypes DEF TypeInv, TypeOK, ProjRow
    <3> QED BY <2>1, <2>3, <2>5, <3>1, <3>2 DEF CreateEntry, BumpGeneration
  <2>6. CASE FailProjection \/ Landed \/ Refetch \/ RequestReplan
    <3>1. OpProj \in Projections
      BY <2>2, <2>6
         DEF FailProjection, Landed, Refetch, RequestReplan, OpPC, HeldPC,
             CreatePC, UpdatePC
    <3> QED BY <2>6, <3>1, RowTypes
            DEF FailProjection, Landed, Refetch, RequestReplan,
                TypeInv, TypeOK, ProjRow
  <2>7. CASE Update
    <3>1. OpProj \in Projections
      BY <2>2, <2>7 DEF Update, OpPC, HeldPC, UpdatePC
    <3>2. CASE proj' = [proj EXCEPT ![OpProj].etag =
                          EtagAfterForeignWrite(OpProj, proj[OpProj].gid)]
      BY <3>1, <3>2, RowTypes DEF TypeInv, TypeOK, ProjRow
    <3> QED BY <2>1, <2>7, <3>2 DEF Update, MarkRejected, MarkRetry
  <2>8. CASE TargetGone \/ RecordSuccess \/ RecordAbsent
    <3>1. OpProj \in Projections
      BY <2>2, <2>8
         DEF TargetGone, RecordSuccess, RecordAbsent, OpPC, HeldPC,
             UpdatePC, DeletePC
    <3>2. CASE TargetGone
      BY <3>1, <3>2, RowTypes DEF TargetGone, Forgotten, TypeInv, TypeOK, ProjRow
    <3>3. CASE RecordSuccess
      BY <3>1, <3>3, RowTypes DEF RecordSuccess, TypeInv, TypeOK, ProjRow
    <3>4. CASE RecordAbsent
      BY <3>1, <3>4, RowTypes DEF RecordAbsent, TypeInv, TypeOK, ProjRow
    <3> QED BY <2>8, <3>2, <3>3, <3>4
  <2> QED BY <2>4, <2>5, <2>6, <2>7, <2>8 DEF DrainStep
<1> QED BY <1>1, <1>2, PlanSame

LEMMA NextPlan ==
  ASSUME TypeInv, PlanInv, [Next]_vars PROVE PlanInv'
<1>1. CASE StartPass
  BY <1>1, PlanSame, WorkerTypes DEF StartPass, WorkerState
<1>2. ASSUME NEW p \in Projections, SourceChange(p) PROVE PlanInv'
  <2>1. PICK row \in {[ledger[p] EXCEPT !.active = ~@],
                      [ledger[p] EXCEPT !.active = FALSE]}
                \cup {[ledger[p] EXCEPT !.content = c] : c \in Contents} :
          ledger' = [ledger EXCEPT ![p] =
                       [row EXCEPT !.version = @ + 1,
                                   !.queued = @ \cup {"listed"}]]
    BY <1>2 DEF SourceChange
  <2>2. "listed" \in ledger'[p].queued
    BY <2>1, LedgerTypes DEF TypeInv, TypeOK, LedgerRow
  <2>3. \A q \in Projections : q # p => ledger'[q] = ledger[q]
    BY <2>1 DEF TypeInv, TypeOK
  <2>4. UNCHANGED <<proj, worker>>
    BY <1>2 DEF SourceChange
  <2> QED BY <2>2, <2>3, <2>4 DEF PlanInv, Wanted
<1>3. ASSUME NEW p \in Projections, IngestCopy(p) PROVE PlanInv'
  <2>1. \A q \in Projections : proj'[q].desired = proj[q].desired
    BY <1>3, RowTypes DEF IngestCopy, Listed, Forgotten, TypeInv, TypeOK, ProjRow
  <2>2. worker'.pc # "plan"
    BY <1>3, WorkerTypes DEF IngestCopy, WorkerState
  <2> QED BY <1>3, <2>1, <2>2, PlanSame DEF IngestCopy
<1>4. ASSUME NEW p \in Projections, IngestFails(p) PROVE PlanInv'
  BY <1>4, PlanSame, WorkerTypes DEF IngestFails, WorkerState
<1>5. CASE IngestDone
  <2>1. ASSUME NEW p \in Projections
        PROVE  /\ Wanted(p)' = Wanted(p)
               /\ Queued(p) => "read" \in ledger'[p].queued /\ p \in worker'.dirty
               /\ "listed" \in ledger[p].queued => "listed" \in ledger'[p].queued
               /\ ledger'[p].owed = ledger[p].owed
    BY <1>5, LedgerTypes, WorkerTypes
       DEF IngestDone, ReadAffected, Wanted, LedgerRow, WorkerState
  <2>2. UNCHANGED proj
    BY <1>5 DEF IngestDone
  <2> QED BY <2>1, <2>2 DEF PlanInv, Queued
<1>6. ASSUME NEW p \in Projections, PlanRow(p) PROVE PlanInv'
  <2>1. proj'[p].desired = Wanted(p)
        /\ \A q \in Projections : q # p => proj'[q] = proj[q]
    BY <1>6, RowTypes DEF PlanRow, Planned, TypeInv, TypeOK, ProjRow
  <2>2. worker'.dirty = worker.dirty \ {p} /\ worker'.pc = worker.pc
        /\ UNCHANGED ledger
    BY <1>6, WorkerTypes DEF PlanRow, WorkerState
  <2> QED BY <2>1, <2>2 DEF PlanInv, Wanted
<1>7. CASE PlanDone
  <2>1. ASSUME NEW p \in Projections
        PROVE  /\ Wanted(p)' = Wanted(p)
               /\ ledger'[p].owed = ledger[p].owed
               /\ \A mark \in {"new", "listed"} :
                    mark \in ledger[p].queued => mark \in ledger'[p].queued
    BY <1>7, LedgerTypes DEF PlanDone, Wanted, LedgerRow
  <2>2. UNCHANGED proj /\ worker.pc = "plan" /\ worker.dirty = {}
    BY <1>7 DEF PlanDone
  <2> QED BY <2>1, <2>2 DEF PlanInv
<1>8. CASE SelectDiverged
  BY <1>8, PlanSame, WorkerTypes DEF SelectDiverged, WorkerState
<1>9. ASSUME NEW p \in Projections, DiffRow(p) PROVE PlanInv'
  <2>1. \A q \in Projections : proj'[q].desired = proj[q].desired
    <3>1. CASE UNCHANGED proj
      BY <3>1
    <3>2. ASSUME NEW v, Snap(p, v)
          PROVE  \A q \in Projections : proj'[q].desired = proj[q].desired
      <4>1. proj'[p].desired = proj[p].desired
        BY <3>2, RowTypes DEF Snap, TypeInv, TypeOK, ProjRow
      <4>2. \A q \in Projections : q # p => proj'[q] = proj[q]
        BY <3>2 DEF Snap, TypeInv, TypeOK
      <4> QED BY <4>1, <4>2
    <3> QED BY <1>9, <3>1, <3>2 DEF DiffRow
  <2>2. worker'.pc # "plan" /\ UNCHANGED ledger
    BY <1>9, WorkerTypes DEF DiffRow, WorkerState
  <2> QED BY <2>1, <2>2, PlanSame
<1>10. CASE DiffDone
  BY <1>10, PlanSame, WorkerTypes DEF DiffDone, Goto, WorkerState
<1>11. CASE DrainStep
  BY <1>11, DrainPlan
<1>12. ASSUME NEW p \in Projections, NEW g \in Generations, UserEdit(p, g)
       PROVE  PlanInv'
  <2>1. \A q \in Projections : proj'[q].desired = proj[q].desired
    BY <1>12, RowTypes DEF UserEdit, TypeInv, TypeOK, ProjRow
  <2>2. worker'.pc = worker.pc /\ worker'.dirty = worker.dirty
    BY <1>12, WorkerTypes DEF UserEdit, WorkerState
  <2> QED BY <1>12, <2>1, <2>2, PlanSame DEF UserEdit
<1>13. ASSUME NEW p \in Projections, NEW g \in Generations, UserDelete(p, g)
       PROVE  PlanInv'
  BY <1>13, PlanSame DEF UserDelete
<1>14. ASSUME NEW p \in Projections, CleanupCalendar(p) PROVE PlanInv'
  <2>1. ledger'[p].owed # "nothing"
    BY <1>14, LedgerTypes DEF CleanupCalendar, TypeInv, TypeOK, LedgerRow
  <2>2. \A q \in Projections :
          q # p => ledger'[q] = ledger[q] /\ proj'[q] = proj[q]
    BY <1>14 DEF CleanupCalendar, TypeInv, TypeOK
  <2>3. UNCHANGED worker
    BY <1>14 DEF CleanupCalendar
  <2> QED BY <2>1, <2>2, <2>3 DEF PlanInv, Wanted
<1>15. CASE CleanupAndPause
  <2>1. \A p \in Projections : ledger'[p].owed # "nothing"
    BY <1>15, LedgerTypes DEF CleanupAndPause, LedgerRow
  <2> QED BY <2>1 DEF PlanInv
<1>22. CASE CleanupGoesOn \/ RecordAffected
  <2>1. UNCHANGED <<proj, worker>> /\ \A p \in Projections : QueueMoved(p)
    BY <1>22, QueueMoves
  <2> QED BY <2>1 DEF PlanInv, QueueMoved, Wanted
<1>16. CASE PauseSync \/ ResumeSync \/ FullResync
  BY <1>16, PlanSame DEF PauseSync, ResumeSync, FullResync
<1>17. CASE RetryPermanentFailures
  <2>1. \A p \in Projections : proj'[p].desired = proj[p].desired
    BY <1>17, RowTypes DEF RetryPermanentFailures, ProjRow
  <2>2. \A p \in Projections :
          Wanted(p)' = Wanted(p)
          /\ (ledger'[p] = ledger[p] \/ "new" \in ledger'[p].queued)
    BY <1>17, LedgerTypes DEF RetryPermanentFailures, Dirty, Wanted, LedgerRow
  <2>3. UNCHANGED worker
    BY <1>17 DEF RetryPermanentFailures
  <2> QED BY <2>1, <2>2, <2>3 DEF PlanInv
<1>18. ASSUME NEW p \in Projections, NEW c \in Contents, Relabel(p, c)
       PROVE  PlanInv'
  <2>1. "new" \in ledger'[p].queued
    BY <1>18, LedgerTypes DEF Relabel, TypeInv, TypeOK, Dirty, LedgerRow
  <2>2. \A q \in Projections : q # p => ledger'[q] = ledger[q]
    BY <1>18 DEF Relabel, TypeInv, TypeOK
  <2>3. UNCHANGED <<proj, worker>>
    BY <1>18 DEF Relabel
  <2> QED BY <2>1, <2>2, <2>3 DEF PlanInv, Wanted
<1>19. CASE CrashAndRestart \/ PassDies
  <2>0. worker' = FreshWorker /\ UNCHANGED proj
    BY <1>19 DEF CrashAndRestart, PassDies
  <2>1. worker'.pc # "plan" /\ UNCHANGED proj
    BY <2>0 DEF FreshWorker
  <2>2. CASE PassDies
    BY <2>1, <2>2, PlanSame DEF PassDies
  <2>3. CASE CrashAndRestart
    <3>1. \A p \in Projections :
            /\ Wanted(p)' = Wanted(p) /\ ledger'[p].queued = ledger[p].queued
            /\ ledger[p].owed # "nothing" => ledger'[p].owed # "nothing"
      BY <2>3, LedgerTypes DEF CrashAndRestart, Wanted, LedgerRow
    <3> QED BY <2>1, <3>1 DEF PlanInv
  <2> QED BY <1>19, <2>2, <2>3
<1>20. ASSUME NEW k \in Keys, Ripen(k) PROVE PlanInv'
  BY <1>20, PlanSame DEF Ripen
<1>21. CASE UNCHANGED vars
  BY <1>21, PlanSame DEF vars
<1> QED BY <1>1, <1>2, <1>3, <1>4, <1>5, <1>6, <1>7, <1>8, <1>9, <1>10,
           <1>11, <1>12, <1>13, <1>14, <1>15, <1>16, <1>17, <1>18, <1>19,
           <1>20, <1>21, <1>22
        DEF Next, PassStep, IngestStep, PlanningStep, Environment, AdminStep,
            Time

(* A change of an event, of its rendering, or of a projection behind the   *)
(* planner's back is never forgotten: until the planner has seen it, the   *)
(* event has a row in the queue, or a listing or a cleanup has yet to give *)
(* it one; the clear at the end of a plan phase cannot take a row that came*)
(* during it.  The one exception is a cleanup that the process stopped.    *)
THEOREM NoForgottenChange == Spec => []StalePlanIsQueued
<1>1. Init => TypeInv /\ PlanInv
  <2>1. Init => PlanInv
    BY DEF Init, InitRow, PlanInv
  <2> QED BY <2>1, InitTypeInv
<1>2. TypeInv /\ PlanInv /\ [Next]_vars => (TypeInv /\ PlanInv)'
  BY NextTypeInv, NextPlan
<1>3. TypeInv /\ PlanInv => StalePlanIsQueued
  BY LedgerTypes DEF PlanInv, StalePlanIsQueued, LedgerRow
<1> QED BY <1>1, <1>2, <1>3, PTL DEF Spec

-----------------------------------------------------------------------------
(* The order of versions, where no pass dies.  A projection then has at    *)
(* most one outstanding row: the diff runs when nothing is in flight, so   *)
(* that enqueue supersedes whatever is left of the projection's queue.     *)

(* What is on record as shown is not newer than v.                         *)
NotBehind(p, v) ==
  proj[p].current = "present" /\ proj[p].aver # NULL => proj[p].aver <= v

(* In flight is the row in the drain's hands and no other; no two rows of  *)
(* a projection wait; versions go from the event by way of the plan, the   *)
(* diff and the queue to the stamp, and none overtakes the one before it.  *)
OrderInv ==
  /\ \A k \in Keys : ops[k].status = "in_flight"
                       => worker.key = k /\ worker.pc \in HeldPC
  /\ \A j, k \in Keys :
       Outstanding(j) /\ Outstanding(k) /\ j.proj = k.proj => j = k
  /\ \A k \in Keys : Outstanding(k) => /\ k.ver <= proj[k.proj].dver
                                       /\ NotBehind(k.proj, k.ver)
  /\ \A p \in Projections :
       /\ proj[p].dver <= ledger[p].version
       /\ proj[p].aver # NULL => proj[p].aver <= proj[p].dver
  /\ worker.pc = "rows" =>
       \A p \in Projections :
         worker.todo[p] # NULL => /\ worker.todo[p].ver <= proj[p].dver
                                  /\ NotBehind(p, worker.todo[p].ver)

(* What most steps do to a row: replan it, take its stamp away, or stamp a *)
(* deletion.                                                               *)
RowKept(p) ==
  /\ ledger[p].version <= ledger'[p].version
  /\ proj'[p].dver \in {proj[p].dver, ledger'[p].version}
  /\ \/ /\ proj'[p].aver \in {proj[p].aver, NULL}
        /\ proj'[p].current = "present" => proj[p].current = "present"
     \/ /\ proj'[p].current # "present"
        /\ proj'[p].aver <= proj[p].dver

QueueShrinks ==
  \A k \in Keys :
    /\ Outstanding(k)' => Outstanding(k)
    /\ ops'[k].status = "in_flight" => worker'.key = k /\ worker'.pc \in HeldPC

VerdictsKept ==
  worker'.pc = "rows" =>
    /\ worker.pc = "rows"
    /\ \A p \in Projections : worker'.todo[p] \in {NULL, worker.todo[p]}

LEMMA OrderTypes ==
  ASSUME TypeInv, NEW p \in Projections
  PROVE  /\ proj[p].dver \in Nat /\ ledger[p].version \in Nat
         /\ proj[p].aver # NULL => proj[p].aver \in Nat
         /\ \A v \in Versions : v \in Nat /\ v # NULL
<1>1. proj[p] \in ProjRow /\ ledger[p] \in LedgerRow
  BY RowTypes, LedgerTypes
<1> QED BY <1>1, ConstantsAssumption DEF ProjRow, LedgerRow

LEMMA OrderKept ==
  ASSUME TypeInv, TypeInv', OrderInv, \A p \in Projections : RowKept(p),
         QueueShrinks, VerdictsKept
  PROVE  OrderInv'
<1>1. ASSUME NEW p \in Projections
      PROVE  /\ proj[p].dver <= proj'[p].dver
             /\ proj'[p].dver <= ledger'[p].version
             /\ proj'[p].aver # NULL => proj'[p].aver <= proj'[p].dver
             /\ proj[p].dver \in Nat /\ proj'[p].dver \in Nat
  <2>1. /\ proj[p].dver \in Nat /\ ledger[p].version \in Nat
        /\ proj'[p].dver \in Nat /\ ledger'[p].version \in Nat
        /\ proj[p].aver # NULL => proj[p].aver \in Nat
        /\ proj'[p].aver # NULL => proj'[p].aver \in Nat
    <3>1. /\ proj[p] \in ProjRow /\ ledger[p] \in LedgerRow
          /\ proj'[p] \in ProjRow /\ ledger'[p] \in LedgerRow
      BY DEF TypeInv, TypeOK
    <3> QED BY <3>1, ConstantsAssumption DEF ProjRow, LedgerRow
  <2>2. /\ proj[p].dver <= ledger[p].version
        /\ proj[p].aver # NULL => proj[p].aver <= proj[p].dver
    BY DEF OrderInv
  <2>3. proj[p].dver <= proj'[p].dver /\ proj'[p].dver <= ledger'[p].version
    BY <2>1, <2>2 DEF RowKept
  <2>4. proj'[p].aver # NULL => proj'[p].aver <= proj'[p].dver
    BY <2>1, <2>2, <2>3 DEF RowKept
  <2> QED BY <2>1, <2>3, <2>4
<1>2. ASSUME NEW p \in Projections, NEW v \in Versions,
             v <= proj[p].dver, NotBehind(p, v)
      PROVE  v <= proj'[p].dver /\ NotBehind(p, v)'
  <2>1. v <= proj'[p].dver
    BY <1>1, <1>2, ConstantsAssumption
  <2>2. NotBehind(p, v)'
    BY <1>2 DEF NotBehind, RowKept
  <2> QED BY <2>1, <2>2
<1>3. \A k \in Keys : k.proj \in Projections /\ k.ver \in Versions
  BY DEF Keys
<1>4. \A k \in Keys : Outstanding(k)' => /\ k.ver <= proj'[k.proj].dver
                                         /\ NotBehind(k.proj, k.ver)'
  BY <1>2, <1>3 DEF OrderInv, QueueShrinks
<1>5. ASSUME worker'.pc = "rows", NEW p \in Projections,
             worker'.todo[p] # NULL
      PROVE  (/\ worker.todo[p].ver <= proj[p].dver
              /\ NotBehind(p, worker.todo[p].ver))'
  <2>1. worker'.todo[p] = worker.todo[p] /\ worker.pc = "rows"
    BY <1>5 DEF VerdictsKept
  <2>2. PICK v \in Versions : v = worker.todo[p].ver
    BY <1>5, <2>1, WorkerTypes DEF WorkerState, Verdict
  <2>3. v <= proj[p].dver /\ NotBehind(p, v)
    BY <1>5, <2>1, <2>2 DEF OrderInv
  <2>4. v <= proj'[p].dver /\ NotBehind(p, v)'
    BY <1>2, <2>3
  <2> QED BY <2>1, <2>2, <2>4 DEF NotBehind
<1> QED BY <1>1, <1>4, <1>5 DEF OrderInv, QueueShrinks

(* The claimed row goes back, or is closed.                                *)
LEMMA ReleasedShrinks ==
  ASSUME TypeInv, OrderInv, worker.pc \in HeldPC,
         \/ ops' = [ops EXCEPT ![worker.key].status = "pending"]
         \/ ops' = [ops EXCEPT ![worker.key] = Close(@)]
  PROVE  QueueShrinks
<1>1. worker.key \in Keys /\ Outstanding(worker.key)
  BY HeldRow DEF OpPC
<1>2. ops \in [Keys -> OpRow] /\ ops[worker.key] \in OpRow
  BY <1>1 DEF TypeInv, TypeOK
<1>3. \A k \in Keys : k # worker.key => ops'[k] = ops[k]
  BY <1>1, <1>2
<1>4. ops'[worker.key].status \in {"pending", "closed"}
  <2>1. Close(ops[worker.key]).status = "closed"
    BY <1>2 DEF Close, OpRow
  <2>2. \/ ops'[worker.key] = [ops[worker.key] EXCEPT !.status = "pending"]
        \/ ops'[worker.key] = Close(ops[worker.key])
    BY <1>1, <1>2
  <2> QED BY <1>2, <2>1, <2>2 DEF OpRow
<1> QED BY <1>1, <1>3, <1>4 DEF QueueShrinks, Outstanding, OrderInv

(* The handler goes on with its row, or nothing is in hand.                *)
LEMMA SameShrinks ==
  ASSUME OrderInv, UNCHANGED ops,
         worker.pc \in HeldPC => worker'.pc \in HeldPC /\ worker'.key = worker.key
  PROVE  QueueShrinks
BY DEF QueueShrinks, Outstanding, OrderInv

LEMMA FreedShrinks ==
  ASSUME OrderInv, worker.pc \notin HeldPC,
         \A k \in Keys : /\ Outstanding(k)' => Outstanding(k)
                         /\ ops'[k].status = "in_flight"
                              => ops[k].status = "in_flight"
  PROVE  QueueShrinks
BY DEF QueueShrinks, OrderInv

LEMMA RaisedShrinks ==
  ASSUME TypeInv, OrderInv, worker.pc \in HeldPC, MarkRetry \/ MarkRejected
  PROVE  QueueShrinks
BY ReleasedShrinks DEF MarkRetry, MarkRejected

LEMMA GotoShrinks ==
  ASSUME TypeInv, OrderInv, NEW pc \in HeldPC, Goto(pc), UNCHANGED ops
  PROVE  QueueShrinks
<1>1. worker'.pc = pc /\ worker'.key = worker.key
  BY WorkerTypes DEF Goto, WorkerState
<1> QED BY <1>1, SameShrinks

LEMMA ClaimedShrinks ==
  ASSUME TypeInv, OrderInv, NEW k \in Keys, ClaimNext(k)
  PROVE  QueueShrinks
<1>1. worker'.key = k /\ worker'.pc = k.kind /\ k.kind \in HeldPC
  BY WorkerTypes
     DEF ClaimNext, WorkerState, Keys, Kinds, HeldPC, CreatePC, UpdatePC, DeletePC
<1>2. worker.pc \notin HeldPC
  BY DEF ClaimNext, HeldPC, CreatePC, UpdatePC, DeletePC
<1>3. Outstanding(k) /\ \A j \in Keys : j # k => ops'[j] = ops[j]
  BY DEF ClaimNext, Due, Outstanding, TypeInv, TypeOK
<1> QED BY <1>1, <1>2, <1>3 DEF QueueShrinks, Outstanding, OrderInv

LEMMA DrainQueue ==
  ASSUME TypeInv, OrderInv, DrainStep PROVE QueueShrinks
<1> USE DEF HeldPC, CreatePC, UpdatePC, DeletePC
<1>1. CASE ReclaimStale \/ DrainEnds
  <2>1. ops \in [Keys -> OpRow]
    BY DEF TypeInv, TypeOK
  <2> QED BY <1>1, <2>1, FreedShrinks
          DEF ReclaimStale, DrainEnds, Outstanding, OpRow
<1>2. ASSUME NEW k \in Keys, ClaimNext(k) PROVE QueueShrinks
  BY <1>2, ClaimedShrinks
<1>3. CASE CallFails
  BY <1>3, RaisedShrinks DEF CallFails
<1>4. CASE FailProjection \/ RequestReplan
  BY <1>4, SameShrinks DEF FailProjection, RequestReplan
<1>5. CASE CreateEntry \/ BumpGeneration
  <2>1. worker.pc \in HeldPC
    BY <1>5 DEF CreateEntry, BumpGeneration
  <2>2. ASSUME NEW g, GiveUp(g) PROVE QueueShrinks
    BY <2>1, <2>2, ReleasedShrinks DEF GiveUp
  <2>3. ASSUME worker'.pc = "insert", worker'.key = worker.key, UNCHANGED ops
        PROVE  QueueShrinks
    BY <2>3, SameShrinks
  <2>4. CASE CreateEntry
    BY <2>2, <2>3, <2>4, WorkerTypes DEF CreateEntry, WorkerState
  <2>5. CASE BumpGeneration
    BY <2>1, <2>2, <2>3, <2>5, ReleasedShrinks, WorkerTypes
       DEF BumpGeneration, WorkerState
  <2> QED BY <1>5, <2>4, <2>5
<1>6. CASE Insert \/ Adopt
  <2>1. worker.pc \in HeldPC
    BY <1>6 DEF Insert, Adopt
  <2>2. \/ MarkRetry \/ MarkRejected
        \/ /\ UNCHANGED ops
           /\ \/ worker' = [worker EXCEPT !.pc = "landed", !.etag = "match"]
              \/ Goto("conflict") \/ Goto("landed") \/ Goto("supersede")
    BY <1>6 DEF Insert, Adopt
  <2>3. CASE worker' = [worker EXCEPT !.pc = "landed", !.etag = "match"]
             /\ UNCHANGED ops
    <3>1. worker'.pc = "landed" /\ worker'.key = worker.key
      BY <2>3, WorkerTypes DEF WorkerState
    <3> QED BY <2>3, <3>1, SameShrinks
  <2> QED BY <2>1, <2>2, <2>3, RaisedShrinks, GotoShrinks
<1>7. CASE Conflict
  <2>1. worker'.pc \in {"adopt", "burned"} /\ worker'.key = worker.key
    BY <1>7, WorkerTypes DEF Conflict, WorkerState
  <2> QED BY <1>7, <2>1, SameShrinks DEF Conflict
<1>8. CASE Update
  <2>1. worker.pc \in HeldPC
    BY <1>8 DEF Update
  <2>2. \/ MarkRejected
        \/ ops' = [ops EXCEPT ![worker.key].status = "pending"]
        \/ /\ UNCHANGED ops
           /\ worker' = [worker EXCEPT !.pc = "record",
                                       !.gen = proj[OpProj].gid,
                                       !.etag = "match"]
        \/ /\ UNCHANGED ops
           /\ Goto("refetch") \/ Goto("gone")
    BY <1>8 DEF Update
  <2>3. CASE worker' = [worker EXCEPT !.pc = "record",
                                      !.gen = proj[OpProj].gid,
                                      !.etag = "match"]
             /\ UNCHANGED ops
    <3>1. worker'.pc = "record" /\ worker'.key = worker.key
      BY <2>3, WorkerTypes DEF WorkerState
    <3> QED BY <2>3, <3>1, SameShrinks
  <2> QED BY <2>1, <2>2, <2>3, ReleasedShrinks, RaisedShrinks, GotoShrinks
<1>9. CASE Landed \/ Refetch \/ TargetGone \/ RecordSuccess \/ RecordAbsent
  BY <1>9, GotoShrinks
     DEF Landed, Refetch, TargetGone, RecordSuccess, RecordAbsent
<1>10. CASE MarkSuperseded \/ OpDone
  BY <1>10, ReleasedShrinks DEF MarkSuperseded, OpDone
<1>11. CASE Delete
  <2>1. worker.pc \in HeldPC
    BY <1>11 DEF Delete
  <2>2. MarkRetry \/ (Goto("absent") /\ UNCHANGED ops)
    BY <1>11 DEF Delete
  <2> QED BY <2>1, <2>2, RaisedShrinks, GotoShrinks
<1> QED BY <1>1, <1>2, <1>3, <1>4, <1>5, <1>6, <1>7, <1>8, <1>9, <1>10, <1>11
        DEF DrainStep

(* A row whose plan, stamp and state stay is kept; so is one forgotten.    *)
LEMMA RowsStay ==
  ASSUME TypeInv, UNCHANGED ledger,
         \A p \in Projections :
           /\ proj'[p].dver = proj[p].dver
           /\ proj'[p].aver \in {proj[p].aver, NULL}
           /\ proj'[p].current = "present" => proj[p].current = "present"
  PROVE  \A p \in Projections : RowKept(p)
BY OrderTypes DEF RowKept

LEMMA DrainRows ==
  ASSUME TypeInv, OrderInv, DrainStep, ~RecordSuccess
  PROVE  \A p \in Projections : RowKept(p)
<1>1. UNCHANGED ledger
  BY DrainMoves
<1>2. CASE UNCHANGED proj
  BY <1>1, <1>2, RowsStay
<1>3. ASSUME worker.pc \in OpPC PROVE OpProj \in Projections
  BY <1>3, HeldRow
<1>4. ASSUME NEW g, GiveUp(g), worker.pc \in OpPC
      PROVE  \A p \in Projections : RowKept(p)
  BY <1>1, <1>3, <1>4, RowTypes, RowsStay DEF GiveUp, TypeInv, TypeOK, ProjRow
<1>5. CASE ReclaimStale \/ (\E k \in Keys : ClaimNext(k)) \/ DrainEnds
           \/ CallFails \/ Insert \/ Conflict \/ Adopt \/ MarkSuperseded
           \/ Delete \/ OpDone
  BY <1>2, <1>5
     DEF ReclaimStale, ClaimNext, DrainEnds, CallFails, Insert, Conflict,
         Adopt, MarkSuperseded, Delete, OpDone, MarkRetry, MarkRejected
<1>6. CASE CreateEntry \/ BumpGeneration
  <2>1. worker.pc \in OpPC
    BY <1>6 DEF CreateEntry, BumpGeneration, OpPC, HeldPC, CreatePC
  <2>2. CASE proj' = [proj EXCEPT ![OpProj].gen = worker.gen + 1]
    BY <1>1, <1>3, <2>1, <2>2, RowTypes, RowsStay DEF TypeInv, TypeOK, ProjRow
  <2> QED BY <1>2, <1>4, <1>6, <2>1, <2>2 DEF CreateEntry, BumpGeneration
<1>7. CASE FailProjection \/ Landed \/ Refetch \/ RequestReplan
  <2>1. OpProj \in Projections
    BY <1>3, <1>7
       DEF FailProjection, Landed, Refetch, RequestReplan, OpPC, HeldPC,
           CreatePC, UpdatePC
  <2>2. \A p \in Projections : p # OpProj => proj'[p] = proj[p]
    BY <1>7 DEF FailProjection, Landed, Refetch, RequestReplan, TypeInv, TypeOK
  <2>3. /\ proj'[OpProj].dver = proj[OpProj].dver
        /\ proj'[OpProj].aver \in {proj[OpProj].aver, NULL}
        /\ proj'[OpProj].current \in {proj[OpProj].current, "errored"}
    BY <1>7, <2>1, RowTypes
       DEF FailProjection, Landed, Refetch, RequestReplan, TypeInv, TypeOK, ProjRow
  <2>4. \A p \in Projections :
          /\ proj'[p].dver = proj[p].dver
          /\ proj'[p].aver \in {proj[p].aver, NULL}
          /\ proj'[p].current = "present" => proj[p].current = "present"
    BY <2>2, <2>3
  <2> QED BY <1>1, <2>4, RowsStay
<1>8. CASE Update
  <2>1. OpProj \in Projections
    BY <1>3, <1>8 DEF Update, OpPC, HeldPC, UpdatePC
  <2>2. CASE proj' = [proj EXCEPT ![OpProj].etag =
                        EtagAfterForeignWrite(OpProj, proj[OpProj].gid)]
    BY <1>1, <2>1, <2>2, RowTypes, RowsStay DEF TypeInv, TypeOK, ProjRow
  <2> QED BY <1>2, <1>8, <2>2 DEF Update, MarkRejected, MarkRetry
<1>9. CASE TargetGone
  <2>1. OpProj \in Projections
    BY <1>3, <1>9 DEF TargetGone, OpPC, HeldPC, UpdatePC
  <2> QED BY <1>1, <1>9, <2>1, RowTypes, RowsStay
          DEF TargetGone, Forgotten, TypeInv, TypeOK, ProjRow
<1>10. CASE RecordAbsent
  <2>1. /\ OpProj \in Projections /\ worker.key \in Keys
        /\ Outstanding(worker.key)
    BY <1>10, HeldRow DEF RecordAbsent, OpPC, HeldPC, DeletePC
  <2>2. worker.key.ver <= proj[OpProj].dver
    BY <2>1 DEF OrderInv, OpProj
  <2>3. \A p \in Projections :
          /\ proj'[p].dver = proj[p].dver
          /\ p # OpProj => proj'[p] = proj[p]
    BY <1>10, <2>1, RowTypes DEF RecordAbsent, TypeInv, TypeOK, ProjRow
  <2>4. /\ proj'[OpProj].aver = worker.key.ver
        /\ proj'[OpProj].current = "absent"
    BY <1>10, <2>1, RowTypes DEF RecordAbsent, TypeInv, TypeOK, ProjRow
  <2> QED BY <1>1, <2>2, <2>3, <2>4, OrderTypes DEF RowKept
<1> QED BY <1>5, <1>6, <1>7, <1>8, <1>9, <1>10 DEF DrainStep

(* The stamp of the row in hand: it is the projection's only one.          *)
LEMMA RecordOrder ==
  ASSUME TypeInv, TypeInv', OrderInv, RecordSuccess PROVE OrderInv'
<1>1. /\ OpProj \in Projections /\ worker.key \in Keys
      /\ worker.key.ver \in Versions /\ Outstanding(worker.key)
  BY HeldRow DEF RecordSuccess, OpPC, HeldPC
<1>2. worker.key.ver <= proj[OpProj].dver
  BY <1>1 DEF OrderInv, OpProj
<1>3. /\ \A p \in Projections : p # OpProj => proj'[p] = proj[p]
      /\ proj'[OpProj].aver = worker.key.ver
      /\ proj'[OpProj].dver = proj[OpProj].dver
  BY <1>1, RowTypes DEF RecordSuccess, TypeInv, TypeOK, ProjRow
<1>4. UNCHANGED <<ledger, ops>> /\ worker'.pc = "done" /\ worker'.key = worker.key
  BY WorkerTypes DEF RecordSuccess, Goto, WorkerState
<1>5. ASSUME NEW k \in Keys, Outstanding(k)'
      PROVE  k.ver <= proj'[k.proj].dver /\ NotBehind(k.proj, k.ver)'
  <2>1. Outstanding(k) /\ k.proj \in Projections
    BY <1>4, <1>5 DEF Outstanding, Keys
  <2>2. CASE k.proj = OpProj
    <3>1. k = worker.key
      BY <1>1, <2>1, <2>2 DEF OrderInv, OpProj
    <3>2. PICK v \in Versions : v = k.ver
      BY <1>1, <3>1
    <3>3. v <= v
      BY ConstantsAssumption
    <3>4. k.ver <= proj'[k.proj].dver /\ proj'[k.proj].aver = k.ver
      BY <1>2, <1>3, <2>2, <3>1
    <3> QED BY <3>2, <3>3, <3>4 DEF NotBehind
  <2>3. CASE k.proj # OpProj
    BY <1>3, <2>1, <2>3 DEF OrderInv, NotBehind
  <2> QED BY <2>2, <2>3
<1>6. \A p \in Projections :
        /\ proj'[p].dver <= ledger'[p].version
        /\ proj'[p].aver # NULL => proj'[p].aver <= proj'[p].dver
  BY <1>1, <1>2, <1>3, <1>4 DEF OrderInv
<1>7. QueueShrinks
  BY <1>4, SameShrinks DEF HeldPC
<1> QED BY <1>4, <1>5, <1>6, <1>7 DEF OrderInv, QueueShrinks

LEMMA DrainOrder ==
  ASSUME TypeInv, TypeInv', OrderInv, DrainStep PROVE OrderInv'
<1>1. CASE RecordSuccess
  BY <1>1, RecordOrder
<1>2. CASE ~RecordSuccess
  <2>1. VerdictsKept
    BY DrainMoves DEF VerdictsKept
  <2> QED BY <1>2, <2>1, DrainQueue, DrainRows, OrderKept
<1> QED BY <1>1, <1>2

(* The diff reads versions the planner has stamped.                        *)
LEMMA SelectOrder ==
  ASSUME TypeInv, OrderInv, SelectDiverged PROVE OrderInv'
<1>1. /\ UNCHANGED <<ledger, proj, ops>> /\ worker.pc = "diff"
      /\ \A p \in Projections :
           worker'.todo[p] # NULL => worker'.todo[p] = Decide(p)
  BY WorkerTypes DEF SelectDiverged, WorkerState
<1>2. \A k \in Keys : ops'[k].status # "in_flight"
  BY <1>1 DEF OrderInv, HeldPC, CreatePC, UpdatePC, DeletePC
<1>3. ASSUME NEW p \in Projections, worker'.todo[p] # NULL
      PROVE  (/\ worker.todo[p].ver <= proj[p].dver
              /\ NotBehind(p, worker.todo[p].ver))'
  <2>1. worker'.todo[p].ver = proj[p].dver
    <3>1. Decide(p).ver = proj[p].dver
      BY DEF Decide
    <3>2. worker'.todo[p] = Decide(p)
      BY <1>1, <1>3
    <3> QED BY <3>1, <3>2
  <2>2. proj[p].dver \in Nat /\ proj'[p] = proj[p]
    BY <1>1, OrderTypes
  <2>3. proj[p].dver <= proj[p].dver /\ NotBehind(p, proj[p].dver)
    BY <2>2 DEF NotBehind, OrderInv
  <2> QED BY <2>1, <2>2, <2>3 DEF NotBehind
<1> QED BY <1>1, <1>2, <1>3 DEF OrderInv, NotBehind, Outstanding

(* _snap_applied: the stamp of a deletion nobody had to deliver.           *)
LEMMA SnapOrder ==
  ASSUME TypeInv, TypeInv', OrderInv, NEW p \in Projections,
         DiffRow(p), worker.todo[p].kind = "converged"
  PROVE  OrderInv'
<1>1. /\ worker.pc = "rows" /\ worker.todo[p] # NULL
      /\ UNCHANGED <<ledger, ops>>
      /\ Snap(p, worker.todo[p])
      /\ worker' = [worker EXCEPT !.todo[p] = NULL]
  BY DEF DiffRow
<1>2. VerdictsKept
  BY <1>1, WorkerTypes DEF VerdictsKept, WorkerState
<1>3. QueueShrinks
  BY <1>1, FreedShrinks DEF HeldPC, CreatePC, UpdatePC, DeletePC, Outstanding
<1>4. worker.todo[p].ver <= proj[p].dver
  BY <1>1 DEF OrderInv
<1>5. /\ \A q \in Projections : q # p => proj'[q] = proj[q]
      /\ proj'[p].dver = proj[p].dver
      /\ proj'[p].aver = worker.todo[p].ver
      /\ proj'[p].current = "absent"
  BY <1>1, RowTypes DEF Snap, TypeInv, TypeOK, ProjRow
<1>6. \A q \in Projections : RowKept(q)
  BY <1>1, <1>4, <1>5, OrderTypes DEF RowKept
<1> QED BY <1>2, <1>3, <1>6, OrderKept

(* enqueue: with nothing in flight the new row is the projection's only    *)
(* one.                                                                    *)
LEMMA EnqueueOrder ==
  ASSUME TypeInv, TypeInv', OrderInv, NEW p \in Projections,
         DiffRow(p), worker.todo[p].kind # "converged"
  PROVE  OrderInv'
<1>1. /\ worker.pc = "rows" /\ worker.todo[p] # NULL
      /\ Enqueue(p, worker.todo[p])
      /\ UNCHANGED <<ledger, proj>>
      /\ worker' = [worker EXCEPT !.todo[p] = NULL]
  BY DEF DiffRow
<1>2. VerdictsKept
  BY <1>1, WorkerTypes DEF VerdictsKept, WorkerState
<1>3. \A q \in Projections : RowKept(q)
  BY <1>1, RowsStay
<1>4. PICK v \in Verdict : v = worker.todo[p]
  BY <1>1, WorkerTypes DEF WorkerState
<1>5. /\ v.ver <= proj[p].dver /\ NotBehind(p, v.ver)
      /\ v.kind \in Kinds /\ v.ver \in Versions
  BY <1>1, <1>4 DEF OrderInv, Verdict
<1>6. \A j \in Keys : ops[j].status # "in_flight"
  BY <1>1 DEF OrderInv, HeldPC, CreatePC, UpdatePC, DeletePC
<1>7. PICK k \in Keys : k = [proj |-> p, ver |-> v.ver, kind |-> v.kind]
  BY <1>5 DEF Keys
<1>8. CASE Outstanding(k)
  <2>1. UNCHANGED ops
    BY <1>1, <1>4, <1>7, <1>8 DEF Enqueue
  <2>2. QueueShrinks
    BY <1>6, <2>1 DEF QueueShrinks, Outstanding
  <2> QED BY <1>2, <1>3, <2>2, OrderKept
<1>9. CASE ~Outstanding(k)
  <2>1. PICK row : /\ row.status = "pending"
                   /\ ops' = [j \in Keys |->
                                IF j = k THEN row
                                ELSE IF j.proj = p /\ ops[j].status = "pending"
                                       THEN Close(ops[j]) ELSE ops[j]]
    <3> DEFINE r == [status |-> "pending", hash |-> v.hash, body |-> v.body,
                     attempts |-> 0, ripe |-> TRUE,
                     id |-> IF ops[k].id = 0 THEN lastId + 1 ELSE ops[k].id]
    <3>1. r.status = "pending"
      OBVIOUS
    <3>2. ops' = [j \in Keys |->
                    IF j = k THEN r
                    ELSE IF j.proj = p /\ ops[j].status = "pending"
                           THEN Close(ops[j]) ELSE ops[j]]
      BY <1>1, <1>4, <1>7, <1>9 DEF Enqueue, Superseded
    <3> HIDE DEF r
    <3> QED BY <3>1, <3>2
  <2>2. \A j \in Keys : Close(ops[j]).status = "closed"
    BY DEF Close, TypeInv, TypeOK, OpRow
  <2>3. \A j \in Keys : ops'[j].status # "in_flight"
    BY <1>6, <2>1, <2>2
  <2>4. \A j \in Keys :
          j # k /\ Outstanding(j)' => j.proj # p /\ Outstanding(j)
    BY <1>6, <2>1, <2>2 DEF Outstanding
  <2>5. k.proj = p /\ k.ver = v.ver
    BY <1>7
  <2>6. \A i, j \in Keys :
          Outstanding(i)' /\ Outstanding(j)' /\ i.proj = j.proj => i = j
    BY <2>4, <2>5 DEF OrderInv
  <2>7. \A j \in Keys : Outstanding(j)' => /\ j.ver <= proj'[j.proj].dver
                                           /\ NotBehind(j.proj, j.ver)'
    BY <1>1, <1>5, <2>4, <2>5 DEF OrderInv, NotBehind
  <2>8. worker'.pc = "rows" /\ \A q \in Projections :
          worker'.todo[q] \in {NULL, worker.todo[q]}
    BY <1>1, WorkerTypes DEF WorkerState
  <2>9. \A q \in Projections :
          worker'.todo[q] # NULL => (/\ worker.todo[q].ver <= proj[q].dver
                                     /\ NotBehind(q, worker.todo[q].ver))'
    BY <1>1, <2>8 DEF OrderInv, NotBehind
  <2> QED BY <1>1, <2>3, <2>6, <2>7, <2>9 DEF OrderInv
<1> QED BY <1>8, <1>9

LEMMA NextOrder ==
  ASSUME TypeInv, TypeInv', OrderInv, PassesEnd, [Next]_vars PROVE OrderInv'
<1> USE DEF HeldPC, CreatePC, UpdatePC, DeletePC
<1>1. CASE StartPass
  <2>1. worker'.pc \in {"diff", "ingest"}
    BY <1>1, WorkerTypes DEF StartPass, WorkerState
  <2>2. \A p \in Projections : RowKept(p)
    BY <1>1, RowsStay DEF StartPass
  <2>3. QueueShrinks
    BY <1>1, SameShrinks DEF StartPass
  <2> QED BY <2>1, <2>2, <2>3, OrderKept DEF VerdictsKept
<1>2. ASSUME NEW p \in Projections, SourceChange(p) PROVE OrderInv'
  <2>1. PICK row \in LedgerRow :
          /\ row.version = ledger[p].version
          /\ ledger' = [ledger EXCEPT ![p] =
                          [row EXCEPT !.version = @ + 1,
                                      !.queued = @ \cup {"listed"}]]
    <3>1. PICK row \in {[ledger[p] EXCEPT !.active = ~@],
                        [ledger[p] EXCEPT !.active = FALSE]}
                  \cup {[ledger[p] EXCEPT !.content = c] : c \in Contents} :
            ledger' = [ledger EXCEPT ![p] =
                         [row EXCEPT !.version = @ + 1,
                                     !.queued = @ \cup {"listed"}]]
      BY <1>2 DEF SourceChange
    <3>3. ledger[p] \in LedgerRow
      BY LedgerTypes
    <3>4. row \in LedgerRow /\ row.version = ledger[p].version
      <4>1. CASE row = [ledger[p] EXCEPT !.active = ~@]
        BY <3>3, <4>1 DEF LedgerRow
      <4>2. CASE row = [ledger[p] EXCEPT !.active = FALSE]
        BY <3>3, <4>2 DEF LedgerRow
      <4>3. ASSUME NEW c \in Contents, row = [ledger[p] EXCEPT !.content = c]
            PROVE  row \in LedgerRow /\ row.version = ledger[p].version
        BY <3>3, <4>3 DEF LedgerRow
      <4> QED BY <4>1, <4>2, <4>3
    <3> QED BY <3>1, <3>4
  <2>2. ledger'[p].version = ledger[p].version + 1
    BY <2>1 DEF LedgerRow, TypeInv, TypeOK
  <2>3. \A q \in Projections : q # p => ledger'[q] = ledger[q]
    BY <2>1 DEF TypeInv, TypeOK
  <2>4. UNCHANGED <<proj, ops, worker>>
    BY <1>2 DEF SourceChange
  <2>5. \A q \in Projections : RowKept(q)
    BY <2>2, <2>3, <2>4, OrderTypes DEF RowKept
  <2> QED BY <2>4, <2>5, SameShrinks, OrderKept DEF VerdictsKept
<1>3. ASSUME NEW p \in Projections, IngestCopy(p) PROVE OrderInv'
  <2>1. \A q \in Projections :
          /\ proj'[q].dver = proj[q].dver
          /\ proj'[q].aver \in {proj[q].aver, NULL}
          /\ proj'[q].current = "present" => proj[q].current = "present"
    BY <1>3, RowTypes DEF IngestCopy, Listed, Forgotten, TypeInv, TypeOK, ProjRow
  <2>2. worker'.pc = "ingest" /\ worker.pc = "ingest" /\ UNCHANGED <<ledger, ops>>
    BY <1>3, WorkerTypes DEF IngestCopy, WorkerState
  <2>3. \A q \in Projections : RowKept(q)
    BY <2>1, <2>2, RowsStay
  <2> QED BY <2>2, <2>3, SameShrinks, OrderKept DEF VerdictsKept
<1>4. ASSUME NEW p \in Projections, IngestFails(p) PROVE OrderInv'
  <2>1. /\ worker'.pc = "ingest" /\ worker.pc = "ingest"
        /\ UNCHANGED <<ledger, proj, ops>>
    BY <1>4, WorkerTypes DEF IngestFails, WorkerState
  <2> QED BY <2>1, RowsStay, SameShrinks, OrderKept DEF VerdictsKept
<1>5. CASE IngestDone
  <2>1. /\ worker'.pc = "plan" /\ worker.pc = "ingest" /\ UNCHANGED <<proj, ops>>
    BY <1>5, WorkerTypes DEF IngestDone, ReadAffected, WorkerState
  <2>2. \A p \in Projections : ledger'[p].version = ledger[p].version
    BY <1>5, LedgerTypes DEF IngestDone, ReadAffected, LedgerRow
  <2>3. \A p \in Projections : RowKept(p)
    BY <2>1, <2>2, OrderTypes DEF RowKept
  <2> QED BY <2>1, <2>3, SameShrinks, OrderKept DEF VerdictsKept
<1>6. ASSUME NEW p \in Projections, PlanRow(p) PROVE OrderInv'
  <2>1. \A q \in Projections :
          /\ proj'[q].dver \in {proj[q].dver, ledger[q].version}
          /\ proj'[q].aver = proj[q].aver /\ proj'[q].current = proj[q].current
    BY <1>6, RowTypes DEF PlanRow, Planned, TypeInv, TypeOK, ProjRow
  <2>2. worker'.pc = "plan" /\ worker.pc = "plan" /\ UNCHANGED <<ledger, ops>>
    BY <1>6, WorkerTypes DEF PlanRow, WorkerState
  <2>3. \A q \in Projections : RowKept(q)
    BY <2>1, <2>2, OrderTypes DEF RowKept
  <2> QED BY <2>2, <2>3, SameShrinks, OrderKept DEF VerdictsKept
<1>7. CASE PlanDone
  <2>1. /\ worker'.pc = "diff" /\ worker.pc = "plan" /\ UNCHANGED <<proj, ops>>
    BY <1>7, WorkerTypes DEF PlanDone, Goto, WorkerState
  <2>2. \A p \in Projections : ledger'[p].version = ledger[p].version
    BY <1>7, LedgerTypes DEF PlanDone, LedgerRow
  <2>3. \A p \in Projections : RowKept(p)
    BY <2>1, <2>2, OrderTypes DEF RowKept
  <2> QED BY <2>1, <2>3, SameShrinks, OrderKept DEF VerdictsKept
<1>8. CASE SelectDiverged
  BY <1>8, SelectOrder
<1>9. ASSUME NEW p \in Projections, DiffRow(p) PROVE OrderInv'
  BY <1>9, SnapOrder, EnqueueOrder
<1>10. CASE DiffDone
  <2>1. /\ worker'.pc = "reclaim" /\ worker.pc = "rows"
        /\ UNCHANGED <<ledger, proj, ops>>
    BY <1>10, WorkerTypes DEF DiffDone, Goto, WorkerState
  <2> QED BY <2>1, RowsStay, SameShrinks, OrderKept DEF VerdictsKept
<1>11. CASE DrainStep
  BY <1>11, DrainOrder
<1>12. ASSUME NEW p \in Projections, NEW g \in Generations,
              UserEdit(p, g) \/ UserDelete(p, g)
       PROVE  OrderInv'
  <2>1. \A q \in Projections :
          /\ proj'[q].dver = proj[q].dver /\ proj'[q].aver = proj[q].aver
          /\ proj'[q].current = proj[q].current
    BY <1>12, RowTypes DEF UserEdit, UserDelete, TypeInv, TypeOK, ProjRow
  <2>2. /\ worker'.pc = worker.pc /\ worker'.key = worker.key
        /\ worker'.todo = worker.todo /\ UNCHANGED <<ledger, ops>>
    BY <1>12, WorkerTypes DEF UserEdit, UserDelete, WorkerState
  <2>3. \A q \in Projections : RowKept(q)
    BY <2>1, <2>2, RowsStay
  <2> QED BY <2>2, <2>3, SameShrinks, OrderKept DEF VerdictsKept
<1>13. ASSUME \/ \E p \in Projections : CleanupCalendar(p)
              \/ CleanupAndPause \/ RetryPermanentFailures
       PROVE  OrderInv'
  <2>1. ASSUME NEW q \in Projections
        PROVE  /\ proj'[q].dver \in {proj[q].dver, ledger[q].version}
               /\ proj'[q].aver = proj[q].aver
               /\ proj'[q].current = proj[q].current
               /\ ledger'[q].version = ledger[q].version
    <3>1. ASSUME NEW p \in Projections, CleanupCalendar(p)
          PROVE  /\ proj'[q] \in {proj[q], Cleaned(q)}
                 /\ ledger'[q] \in {ledger[q], [ledger[q] EXCEPT !.owed = "token"]}
      BY <3>1 DEF CleanupCalendar, TypeInv, TypeOK
    <3>2. ASSUME proj'[q] \in {proj[q], Cleaned(q)},
                 \E o : ledger'[q] \in {ledger[q], [ledger[q] EXCEPT !.owed = o]}
          PROVE  /\ proj'[q].dver \in {proj[q].dver, ledger[q].version}
                 /\ proj'[q].aver = proj[q].aver
                 /\ proj'[q].current = proj[q].current
                 /\ ledger'[q].version = ledger[q].version
      <4>1. /\ proj[q] \in ProjRow /\ ledger[q] \in LedgerRow
            /\ Cleaned(q).dver = ledger[q].version
            /\ Cleaned(q).aver = proj[q].aver
            /\ Cleaned(q).current = proj[q].current
            /\ \A o : [ledger[q] EXCEPT !.owed = o].version = ledger[q].version
        BY RowTypes, LedgerTypes DEF Cleaned, ProjRow, LedgerRow
      <4> QED BY <3>2, <4>1
    <3>3. CASE RetryPermanentFailures
      <4>1. /\ proj'[q].dver = proj[q].dver
            /\ proj'[q].aver = proj[q].aver
            /\ proj'[q].current = proj[q].current
        BY <3>3, RowTypes DEF RetryPermanentFailures, ProjRow
      <4>2. ledger'[q].version = ledger[q].version
        BY <3>3, LedgerTypes DEF RetryPermanentFailures, Dirty, LedgerRow
      <4> QED BY <4>1, <4>2
    <3>4. CASE CleanupAndPause
      <4>1. proj'[q] = Cleaned(q) /\ ledger'[q] = [ledger[q] EXCEPT !.owed = "pause"]
        BY <3>4 DEF CleanupAndPause
      <4> QED BY <3>2, <4>1
    <3> QED BY <1>13, <3>1, <3>2, <3>3, <3>4
  <2>2. UNCHANGED <<ops, worker>>
    BY <1>13 DEF CleanupCalendar, CleanupAndPause, RetryPermanentFailures
  <2>3. \A q \in Projections : RowKept(q)
    BY <2>1, OrderTypes DEF RowKept
  <2> QED BY <2>2, <2>3, SameShrinks, OrderKept DEF VerdictsKept
<1>14. CASE PauseSync \/ ResumeSync \/ FullResync \/ UNCHANGED vars
  <2>1. UNCHANGED <<ledger, proj, ops, worker>>
    BY <1>14 DEF PauseSync, ResumeSync, FullResync, vars
  <2> QED BY <2>1, RowsStay, SameShrinks, OrderKept DEF VerdictsKept
<1>15. ASSUME NEW p \in Projections, NEW c \in Contents, Relabel(p, c)
       PROVE  OrderInv'
  <2>1. UNCHANGED <<proj, ops, worker>>
    BY <1>15 DEF Relabel
  <2>2. \A q \in Projections : ledger'[q].version = ledger[q].version
    BY <1>15, LedgerTypes DEF Relabel, Dirty, LedgerRow, TypeInv, TypeOK
  <2>3. \A q \in Projections : RowKept(q)
    BY <2>1, <2>2, OrderTypes DEF RowKept
  <2> QED BY <2>1, <2>3, SameShrinks, OrderKept DEF VerdictsKept
<1>16. CASE CrashAndRestart
  <2>1. UNCHANGED proj /\ worker'.pc = "idle"
    BY <1>16 DEF CrashAndRestart, FreshWorker
  <2>3. \A p \in Projections : ledger'[p].version = ledger[p].version
    BY <1>16, LedgerTypes DEF CrashAndRestart, LedgerRow
  <2>4. \A p \in Projections : RowKept(p)
    BY <2>1, <2>3, OrderTypes DEF RowKept
  <2>2. QueueShrinks
    BY <1>16 DEF CrashAndRestart, QueueShrinks, Outstanding, TypeInv, TypeOK, OpRow
  <2> QED BY <2>1, <2>2, <2>4, OrderKept DEF VerdictsKept
<1>19. CASE CleanupGoesOn \/ RecordAffected
  <2>1. UNCHANGED <<proj, ops, worker>>
        /\ \A p \in Projections : ledger'[p].version = ledger[p].version
    BY <1>19, QueueMoves DEF QueueMoved
  <2>2. \A p \in Projections : RowKept(p)
    BY <2>1, OrderTypes DEF RowKept
  <2> QED BY <2>1, <2>2, SameShrinks, OrderKept DEF VerdictsKept
<1>17. CASE PassDies
  BY <1>17 DEF PassDies, Spend, PassesEnd
<1>18. ASSUME NEW k \in Keys, Ripen(k) PROVE OrderInv'
  <2>1. UNCHANGED <<ledger, proj, worker>> /\ worker.pc \notin HeldPC
    BY <1>18 DEF Ripen
  <2>2. \A j \in Keys : ops'[j].status = ops[j].status
    BY <1>18 DEF Ripen, TypeInv, TypeOK, OpRow
  <2>3. QueueShrinks
    BY <2>1, <2>2, FreedShrinks DEF Outstanding
  <2> QED BY <2>1, <2>3, RowsStay, OrderKept DEF VerdictsKept
<1> QED BY <1>1, <1>2, <1>3, <1>4, <1>5, <1>6, <1>7, <1>8, <1>9, <1>10,
           <1>11, <1>12, <1>13, <1>14, <1>15, <1>16, <1>17, <1>18, <1>19
        DEF Next, PassStep, IngestStep, PlanningStep, Environment, AdminStep,
            Time

(* What may still go wrong in a behaviour never changes in kind.           *)
LEMMA KindsKept ==
  ASSUME TypeInv, [Next]_vars PROVE budget'.kinds = budget.kinds
<1>1. budget \in Budget
  BY DEF TypeInv, TypeOK
<1>2. ASSUME NEW f, Spend(f) PROVE budget'.kinds = budget.kinds
  BY <1>1, <1>2 DEF Spend, Budget
<1>3. CASE DrainStep
  BY <1>2, <1>3
     DEF DrainStep, ReclaimStale, ClaimNext, DrainEnds, CallFails,
         FailProjection, CreateEntry, Insert, Conflict, BumpGeneration, Adopt,
         Landed, Update, Refetch, TargetGone, MarkSuperseded, RequestReplan,
         Delete, RecordSuccess, RecordAbsent, OpDone, GiveUp
<1>4. CASE StartPass \/ IngestStep \/ PlanningStep \/ Time \/ UNCHANGED vars
  BY <1>2, <1>4
     DEF StartPass, IngestStep, IngestCopy, IngestFails, RecordAffected,
         IngestDone, PlanningStep, PlanRow, PlanDone, SelectDiverged, DiffRow, DiffDone,
         Time, Ripen, vars
<1>5. CASE Environment
  <2>1. ASSUME Edit PROVE budget'.kinds = budget.kinds
    BY <1>1, <2>1 DEF Edit, Budget
  <2>2. ASSUME NEW kind, Admin(kind) PROVE budget'.kinds = budget.kinds
    BY <1>1, <2>2 DEF Admin, Budget
  <2>3. CASE AdminStep
    BY <2>2, <2>3
       DEF AdminStep, CleanupCalendar, CleanupAndPause, CleanupGoesOn,
           ClearToken, PauseAfterCleanup, QueueCleaned, PauseSync, ResumeSync,
           FullResync, RetryPermanentFailures, Relabel
  <2> QED BY <1>2, <1>5, <2>1, <2>3
          DEF Environment, SourceChange, UserEdit, UserDelete,
              CrashAndRestart, PassDies
<1> QED BY <1>3, <1>4, <1>5 DEF Next, PassStep

(* The drain writes to a copy only for the row it holds.                   *)
LEMMA DrainWrites ==
  ASSUME TypeInv, DrainStep, NEW p \in Projections, NEW g \in Generations,
         Live(p, g), google'[p][g] # google[p][g]
  PROVE  worker.pc \in HeldPC /\ OpProj = p
<1>1. ASSUME NEW h, NEW what, GoogleWrites(OpProj, h, what)
      PROVE  OpProj = p /\ h = g
  BY <1>1 DEF GoogleWrites, TypeInv, TypeOK
<1>2. CASE Insert
  <2>1. CASE google[OpProj][worker.gen] = NONE
    <3>1. GoogleWrites(OpProj, worker.gen, Op.body)
      BY <1>2, <2>1 DEF Insert
    <3> QED BY <1>1, <2>1, <3>1 DEF Live
  <2>2. CASE google[OpProj][worker.gen] # NONE
    BY <1>2, <2>2 DEF Insert
  <2> QED BY <2>1, <2>2
<1>3. CASE Adopt \/ Update \/ Delete
  <2>1. worker.pc \in HeldPC
    BY <1>3 DEF Adopt, Update, Delete, HeldPC, CreatePC, UpdatePC, DeletePC
  <2>2. \E h, what : GoogleWrites(OpProj, h, what)
    BY <1>3 DEF Adopt, Update, Delete
  <2> QED BY <1>1, <2>1, <2>2
<1>4. CASE ~(Insert \/ Adopt \/ Update \/ Delete)
  BY <1>4
     DEF DrainStep, ReclaimStale, ClaimNext, DrainEnds, CallFails,
         FailProjection, CreateEntry, Conflict, BumpGeneration, Landed,
         Refetch, TargetGone, MarkSuperseded, RequestReplan, RecordSuccess,
         RecordAbsent, OpDone, GiveUp
<1> QED BY <1>2, <1>3, <1>4

(* Only people and the drain change what Google holds.                     *)
LEMMA OthersWriteNothing ==
  ASSUME TypeInv, [Next]_vars, ~DrainStep, budget'.edits = budget.edits
  PROVE  UNCHANGED google
<1>1. ~Edit
  BY DEF Edit, TypeInv, TypeOK, Budget
<1>2. CASE Environment
  BY <1>1, <1>2
     DEF Environment, SourceChange, UserEdit, UserDelete, CrashAndRestart,
         PassDies, AdminStep, CleanupCalendar, CleanupAndPause, CleanupGoesOn,
         ClearToken, PauseAfterCleanup, QueueCleaned, PauseSync, ResumeSync,
         FullResync, RetryPermanentFailures, Relabel
<1>3. CASE ~Environment
  BY <1>3
     DEF Next, PassStep, StartPass, IngestStep, IngestCopy, IngestFails,
         RecordAffected, IngestDone, ReadAffected, PlanningStep, PlanRow,
         PlanDone, SelectDiverged, DiffRow, DiffDone, Time, Ripen, vars
<1> QED BY <1>2, <1>3

LEMMA InitOrder == Init => OrderInv
<1> SUFFICES ASSUME Init PROVE OrderInv
  OBVIOUS
<1>1. TypeInv
  BY InitTypeInv
<1>2. \A k \in Keys : ops[k].status = "none"
  BY DEF Init
<1>3. \A p \in Projections :
        proj[p].dver = ledger[p].version /\ proj[p].aver = NULL
  BY DEF Init, InitRow
<1>4. worker.pc = "idle"
  BY DEF Init, FreshWorker
<1> QED BY <1>1, <1>2, <1>3, <1>4, OrderTypes DEF OrderInv, Outstanding

(* Where every pass runs to its end or takes the process with it, no       *)
(* version on record is overwritten by an older one, in any number of      *)
(* retries, supersessions, resurrections and restarts: it is the order of  *)
(* the versions in plan, diff and queue that keeps it, and not the ETag.   *)
THEOREM NewestStays == Spec => OldNeverOverNew
<1>1. Init => TypeInv /\ (PassesEnd => OrderInv)
  BY InitOrder, InitTypeInv
<1>2. /\ TypeInv /\ (PassesEnd => OrderInv)
      /\ [Next]_vars
      => (TypeInv /\ (PassesEnd => OrderInv))'
  <2> SUFFICES ASSUME TypeInv, PassesEnd => OrderInv, [Next]_vars
               PROVE  (TypeInv /\ (PassesEnd => OrderInv))'
    OBVIOUS
  <2>1. PassesEnd' <=> PassesEnd
    BY KindsKept DEF PassesEnd
  <2> QED BY <2>1, NextTypeInv, NextOrder
<1>3. /\ TypeInv /\ (PassesEnd => OrderInv)
      /\ [Next]_vars
      => [\A p \in Projections, g \in Generations :
            /\ PassesEnd
            /\ Live(p, g) /\ google'[p][g] # google[p][g]
            /\ budget'.edits = budget.edits
            /\ proj[p].current = "present" /\ proj[p].aver # NULL
            => worker.key # NULL /\ proj[p].aver <= worker.key.ver]_vars
  <2> SUFFICES ASSUME TypeInv, OrderInv, [Next]_vars,
                      NEW p \in Projections, NEW g \in Generations,
                      Live(p, g), google'[p][g] # google[p][g],
                      budget'.edits = budget.edits,
                      proj[p].current = "present", proj[p].aver # NULL
               PROVE  worker.key # NULL /\ proj[p].aver <= worker.key.ver
    OBVIOUS
  <2>1. worker.pc \in HeldPC /\ OpProj = p
    BY OthersWriteNothing, DrainWrites
  <2>2. worker.key \in Keys /\ Outstanding(worker.key)
    BY <2>1, HeldRow DEF OpPC
  <2>3. NotBehind(p, worker.key.ver)
    BY <2>1, <2>2 DEF OrderInv, OpProj
  <2>4. worker.key # NULL
    BY <2>2, ConstantsAssumption
  <2> QED BY <2>3, <2>4 DEF NotBehind
<1> QED BY <1>1, <1>2, <1>3, PTL DEF Spec, OldNeverOverNew

=============================================================================
