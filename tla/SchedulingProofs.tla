-------------------------- MODULE SchedulingProofs --------------------------
(***************************************************************************)
(* Theorems about the scheduling of passes, for any sets of users and of   *)
(* maintenance operations, and any number of clicks and faults.            *)
(***************************************************************************)
EXTENDS Scheduling, FiniteSetTheorems, TLAPS

USE SchedulingAssumption

(* Who holds maintenance mode.                                             *)
Inside == {h \in Holders : maint[h].pc \notin {"out", "gone"}}

(* The hold count is exact: a freeze is lifted with the last hold.         *)
DepthInv == depth = Cardinality(Inside)

(* Between an upsert's two statements, and from a claim's SELECT to the    *)
(* release, there is a user.                                               *)
UserInv ==
  /\ enq # NoEnq => enq.user \in Users
  /\ tick.pc \in {"claim", "lock", "pass", "release"} => tick.user \in Users

IInv == TypeOK /\ UserInv /\ DepthInv /\ SwapExcludesSync /\ ClaimHeld

-----------------------------------------------------------------------------
(* The hold count.                                                         *)

LEMMA InsideFinite == IsFiniteSet(Inside) /\ Cardinality(Inside) \in Nat
<1>1. Inside \in SUBSET Holders
  BY DEF Inside
<1> QED BY <1>1, FS_Subset, FS_CardinalityType

(* Whoever is inside keeps the engine frozen.                              *)
LEMMA InsideFreezes ==
  ASSUME DepthInv, NEW h \in Holders, maint[h].pc \notin {"out", "gone"}
  PROVE  in_maintenance
<1>1. Inside # {}
  BY DEF Inside
<1>2. Cardinality(Inside) # 0 /\ Cardinality(Inside) \in Nat
  BY <1>1, InsideFinite, FS_EmptySet
<1> QED BY <1>2 DEF DepthInv, in_maintenance

(* A step that lets nobody in or out leaves the count exact.               *)
LEMMA DepthSame ==
  ASSUME DepthInv, depth' = depth,
         \A h \in Holders : maint'[h].pc \in {"out", "gone"}
                              <=> maint[h].pc \in {"out", "gone"}
  PROVE  DepthInv'
<1>1. Inside' = Inside
  BY DEF Inside
<1> QED BY <1>1 DEF DepthInv

LEMMA EnterDepth ==
  ASSUME TypeOK, DepthInv, NEW h \in Holders, Enter(h)
  PROVE  DepthInv'
<1>1. Inside' = Inside \cup {h} /\ h \notin Inside
  BY DEF Inside, Enter, TypeOK
<1>2. Cardinality(Inside') = Cardinality(Inside) + 1
  BY <1>1, InsideFinite, FS_AddElement
<1> QED BY <1>2 DEF DepthInv, Enter

LEMMA ExitDepth ==
  ASSUME TypeOK, DepthInv, NEW h \in Holders, Exit(h)
  PROVE  DepthInv'
<1>1. Inside' = Inside \ {h} /\ h \in Inside
  BY DEF Inside, Exit, MayExit, TypeOK, Gone, Out
<1>2. Cardinality(Inside') = Cardinality(Inside) - 1
  BY <1>1, InsideFinite, FS_RemoveElement
<1>3. depth # 0
  BY <1>1, InsideFinite, FS_EmptySet DEF DepthInv
<1> QED BY <1>2, <1>3 DEF DepthInv, Exit

LEMMA RestartDepth ==
  ASSUME CrashAndRestart
  PROVE  DepthInv'
<1>1. Inside' = {}
  BY DEF Inside, CrashAndRestart, Out, Gone
<1>2. Cardinality({}) = 0
  BY FS_EmptySet
<1> QED BY <1>1, <1>2 DEF DepthInv, CrashAndRestart

-----------------------------------------------------------------------------
(* Type correctness.                                                       *)

LEMMA InitIInv == Init => IInv
<1> SUFFICES ASSUME Init PROVE IInv
  OBVIOUS
<1>1. TypeOK
  BY DEF Init, TypeOK, NoEnq, NoTick, Out, Rows, Kinds, Schedules, Claims
<1>2. Inside = {}
  BY DEF Init, Inside, Out
<1>3. DepthInv
  BY <1>2, FS_EmptySet DEF DepthInv, Init
<1>4. UserInv /\ SwapExcludesSync /\ ClaimHeld
  BY DEF Init, UserInv, SwapExcludesSync, ClaimHeld, NoTick, Out
<1> QED BY <1>1, <1>3, <1>4 DEF IInv

LEMMA NextTypeOK == TypeOK /\ UserInv /\ [Next]_vars => TypeOK'
<1> SUFFICES ASSUME TypeOK, UserInv, [Next]_vars PROVE TypeOK'
  OBVIOUS
<1> USE DEF TypeOK, Rows, Schedules, Claims
<1>1. ASSUME NEW u \in Users, NEW kind \in Kinds, EnqueueRead(u, kind)
      PROVE  TypeOK'
  <2>1. enq' \in [user : Users \cup {NULL}, kind : Kinds,
                  when : {"due", "later"}, read : Schedules]
    BY <1>1 DEF EnqueueRead
  <2>2. budget' \in [faults : Nat, clicks : Nat]
    BY <1>1 DEF EnqueueRead
  <2> QED BY <1>1, <2>1, <2>2 DEF EnqueueRead
<1>2. CASE EnqueueWrite
  <2>1. NewSchedule \in Schedules
    BY DEF NewSchedule
  <2>2. row' \in [Users -> Rows]
    BY <1>2, <2>1 DEF EnqueueWrite, UserInv
  <2>3. hook' \in [Users -> {"none", "asleep", "lock", "pass"}]
    BY <1>2 DEF EnqueueWrite, UserInv
  <2>4. enq' \in [user : Users \cup {NULL}, kind : Kinds,
                  when : {"due", "later"}, read : Schedules]
    BY <1>2 DEF EnqueueWrite, NoEnq, Kinds
  <2> QED BY <1>2, <2>2, <2>3, <2>4 DEF EnqueueWrite
<1>3. ASSUME NEW u \in Users, HookStep(u) PROVE TypeOK'
  <2>1. hook' \in [Users -> {"none", "asleep", "lock", "pass"}]
    BY <1>3 DEF HookStep, HookWakes, HookLocks, HookEnds
  <2>2. UNCHANGED <<row, enq, tick, maint, depth, budget>>
    BY <1>3 DEF HookStep, HookWakes, HookLocks, HookEnds
  <2> QED BY <2>1, <2>2
<1>4. CASE TickStart
  BY <1>4 DEF TickStart
<1>18. CASE SelectDue
  <2> DEFINE Due == {u \in Users : row[u].claim = "free" /\ row[u].sched = "due"}
  <2>1. Due \in SUBSET Users
    OBVIOUS
  <2>2. tick' = [tick EXCEPT !.pc = "users", !.todo = Due]
    BY <1>18 DEF SelectDue
  <2> HIDE DEF Due
  <2> QED BY <1>18, <2>1, <2>2 DEF SelectDue
<1>5. CASE Sweep
  BY <1>5 DEF Sweep, Orelse
<1>6. ASSUME NEW u \in Users, ClaimRead(u) PROVE TypeOK'
  BY <1>6 DEF ClaimRead
<1>7. CASE ClaimWrite
  <2>1. row' \in [Users -> Rows]
    BY <1>7 DEF ClaimWrite, UserInv
  <2>2. tick' \in [pc : {"idle", "sweep", "select", "users", "claim", "lock",
                         "pass", "release"},
                   todo : SUBSET Users, user : Users \cup {NULL},
                   read : Schedules,
                   result : {"none", "ok", "failed", "skipped"}]
    BY <1>7 DEF ClaimWrite
  <2> QED BY <1>7, <2>1, <2>2 DEF ClaimWrite
<1>8. CASE TickLocks \/ PassEnds
  BY <1>8 DEF TickLocks, PassEnds
<1>9. CASE Release
  BY <1>9 DEF Release, NextUser, Orelse, UserInv
<1>10. CASE TickEnds \/ TickDies
  <2>1. enq' \in [user : Users \cup {NULL}, kind : Kinds,
                  when : {"due", "later"}, read : Schedules]
    BY <1>10 DEF TickEnds, TickDies, TimePasses
  <2>2. budget' \in [faults : Nat, clicks : Nat]
    BY <1>10 DEF TickEnds, TickDies
  <2> QED BY <1>10, <2>1, <2>2 DEF TickEnds, TickDies, NoTick
<1>11. ASSUME NEW h \in Holders, Swap(h) PROVE TypeOK'
  BY <1>11 DEF Swap
<1>12. ASSUME NEW h \in Holders, NEW u \in Users, Reconverge(h, u)
       PROVE  TypeOK'
  BY <1>12 DEF Reconverge
<1>13. ASSUME NEW h \in Holders,
              Enter(h) \/ Quiesced(h) \/ QuiesceTimesOut(h) \/ HolderLocks(h)
                \/ HolderPassed(h)
       PROVE  TypeOK'
  BY <1>13 DEF Enter, Quiesced, QuiesceTimesOut, HolderLocks, HolderPassed
<1>14. ASSUME NEW h \in Holders, Exit(h) PROVE TypeOK'
  <2>1. maint' = [maint EXCEPT ![h] = [pc |-> "gone", todo |-> {},
                                       user |-> NULL]]
    BY <1>14 DEF Exit, Gone
  <2>2. depth' \in Nat
    BY <1>14 DEF Exit
  <2> QED BY <1>14, <2>1, <2>2 DEF Exit
<1>15. CASE CrashAndRestart
  <2>1. row' \in [Users -> Rows]
    BY <1>15 DEF CrashAndRestart, Orelse
  <2>2. maint' \in [Holders -> [pc : {"out", "quiesce", "swap", "reconverge",
                                      "lock", "pass", "exit", "gone"},
                                todo : SUBSET Users, user : Users \cup {NULL}]]
    BY <1>15 DEF CrashAndRestart, Out, Gone
  <2>3. budget' \in [faults : Nat, clicks : Nat]
    BY <1>15 DEF CrashAndRestart
  <2> QED BY <1>15, <2>1, <2>2, <2>3 DEF CrashAndRestart, NoEnq, NoTick, Kinds
<1>16. ASSUME NEW u \in Users, Ripen(u) \/ Age(u) PROVE TypeOK'
  BY <1>16 DEF Ripen, Age
<1>17. CASE UNCHANGED vars
  BY <1>17 DEF vars
<1> QED BY <1>1, <1>2, <1>3, <1>4, <1>5, <1>6, <1>7, <1>8, <1>9, <1>10,
           <1>11, <1>12, <1>13, <1>14, <1>15, <1>16, <1>17, <1>18
        DEF Next, TickStep, HolderStep

-----------------------------------------------------------------------------
(* The inductive invariant.                                                *)

LEMMA NextUserInv == TypeOK /\ UserInv /\ [Next]_vars => UserInv'
<1> SUFFICES ASSUME TypeOK, UserInv, [Next]_vars PROVE UserInv'
  OBVIOUS
<1> USE DEF UserInv
<1>1. ASSUME NEW u \in Users, NEW kind \in Kinds, EnqueueRead(u, kind)
      PROVE  UserInv'
  BY <1>1 DEF EnqueueRead
<1>2. CASE EnqueueWrite
  BY <1>2 DEF EnqueueWrite
<1>3. ASSUME NEW u \in Users, HookStep(u) PROVE UserInv'
  BY <1>3 DEF HookStep, HookWakes, HookLocks, HookEnds
<1>4. CASE TickStart \/ Sweep \/ SelectDue
  BY <1>4 DEF TickStart, Sweep, SelectDue, TypeOK
<1>5. ASSUME NEW u \in Users, ClaimRead(u) PROVE UserInv'
  BY <1>5 DEF ClaimRead, TypeOK
<1>6. CASE ClaimWrite
  BY <1>6 DEF ClaimWrite, TypeOK
<1>7. CASE TickLocks \/ PassEnds
  BY <1>7 DEF TickLocks, PassEnds, TypeOK
<1>8. CASE Release
  BY <1>8 DEF Release, NextUser, TypeOK
<1>9. CASE TickEnds \/ TickDies
  <2>1. tick'.pc = "idle"
    BY <1>9 DEF TickEnds, TickDies, NoTick
  <2>2. enq' # NoEnq => enq.user \in Users /\ enq'.user = enq.user
    BY <1>9 DEF TickEnds, TickDies, TimePasses, NoEnq, TypeOK
  <2> QED BY <2>1, <2>2
<1>10. ASSUME NEW h \in Holders, HolderStep(h) PROVE UserInv'
  BY <1>10 DEF HolderStep, Enter, Quiesced, QuiesceTimesOut, Swap, Reconverge,
               HolderLocks, HolderPassed, Exit
<1>11. CASE CrashAndRestart
  BY <1>11 DEF CrashAndRestart, NoTick
<1>12. ASSUME NEW u \in Users, Ripen(u) \/ Age(u) PROVE UserInv'
  BY <1>12 DEF Ripen, Age
<1>13. CASE UNCHANGED vars
  BY <1>13 DEF vars
<1> QED BY <1>1, <1>2, <1>3, <1>4, <1>5, <1>6, <1>7, <1>8, <1>9, <1>10,
           <1>11, <1>12, <1>13 DEF Next, TickStep

(* Only holders move maintenance.                                          *)
LEMMA MaintUnchanged ==
  ASSUME [Next]_vars, ~CrashAndRestart, \A h \in Holders : ~HolderStep(h)
  PROVE  UNCHANGED <<maint, depth>>
BY DEF Next, vars, EnqueueRead, EnqueueWrite, TickStep, TickStart, Sweep,
       SelectDue, ClaimRead, ClaimWrite, TickLocks, PassEnds, Release, TickEnds,
       TickDies, HookStep, HookWakes, HookLocks, HookEnds, Ripen, Age

LEMMA NextDepth == TypeOK /\ DepthInv /\ [Next]_vars => DepthInv'
<1> SUFFICES ASSUME TypeOK, DepthInv, [Next]_vars PROVE DepthInv'
  OBVIOUS
<1>1. ASSUME NEW h \in Holders, Quiesced(h) \/ QuiesceTimesOut(h) \/ Swap(h)
                                \/ HolderLocks(h) \/ HolderPassed(h)
      PROVE  DepthInv'
  BY <1>1, DepthSame DEF Quiesced, QuiesceTimesOut, Swap, HolderLocks,
                         HolderPassed, TypeOK
<1>2. ASSUME NEW h \in Holders, NEW u \in Users, Reconverge(h, u)
      PROVE  DepthInv'
  BY <1>2, DepthSame DEF Reconverge, TypeOK
<1>3. CASE CrashAndRestart
  BY <1>3, RestartDepth
<1>4. CASE ~CrashAndRestart /\ \A h \in Holders : ~HolderStep(h)
  BY <1>4, MaintUnchanged, DepthSame
<1> QED BY <1>1, <1>2, <1>3, <1>4, EnterDepth, ExitDepth DEF HolderStep

LEMMA TickGivesUp ==
  ASSUME TypeOK, Release \/ TickEnds \/ TickDies
  PROVE  tick'.pc \in {"users", "idle"} /\ hook' = hook
<1>1. CASE Release
  BY <1>1 DEF Release, NextUser, TypeOK
<1>2. CASE TickEnds \/ TickDies
  BY <1>2 DEF TickEnds, TickDies, NoTick
<1> QED BY <1>1, <1>2

LEMMA NextSwap ==
  TypeOK /\ UserInv /\ DepthInv /\ SwapExcludesSync /\ [Next]_vars
    => SwapExcludesSync'
<1> SUFFICES ASSUME TypeOK, UserInv, DepthInv, SwapExcludesSync, [Next]_vars,
                    NEW h \in Holders, maint'[h].pc = "swap"
             PROVE  /\ tick'.pc \notin Tracked
                    /\ \A u \in Users : hook'[u] \notin Tracked
  BY DEF SwapExcludesSync
<1> DEFINE Excluded == /\ tick'.pc \notin Tracked
                       /\ \A u \in Users : hook'[u] \notin Tracked
<1>1. CASE maint[h].pc = "swap"
  <2>1. /\ tick.pc \notin Tracked
        /\ \A u \in Users : hook[u] \notin Tracked
    BY <1>1 DEF SwapExcludesSync
  <2>2. in_maintenance
    BY <1>1, InsideFreezes
  <2>3. ASSUME NEW u \in Users, HookStep(u) PROVE Excluded
    BY <2>1, <2>2, <2>3 DEF HookStep, HookWakes, HookLocks, HookEnds, Tracked,
                            TypeOK
  <2>4. CASE EnqueueWrite
    BY <2>1, <2>4 DEF EnqueueWrite, Tracked, TypeOK
  <2>5. CASE TickStart \/ Sweep \/ SelectDue
    BY <2>1, <2>5 DEF TickStart, Sweep, SelectDue, Tracked, TypeOK
  <2>6. ASSUME NEW u \in Users, ClaimRead(u) PROVE Excluded
    BY <2>1, <2>6 DEF ClaimRead, Tracked, TypeOK
  <2>7. CASE ClaimWrite
    BY <2>1, <2>2, <2>7 DEF ClaimWrite, Tracked, TypeOK
  <2>8. CASE TickLocks \/ PassEnds
    BY <2>1, <2>8 DEF TickLocks, PassEnds, Tracked, TypeOK
  <2>9. CASE Release \/ TickEnds \/ TickDies
    <3>1. tick'.pc \in {"users", "idle"} /\ hook' = hook
      BY <2>9, TickGivesUp
    <3> QED BY <2>1, <3>1 DEF Tracked
  <2>10. ASSUME NEW g \in Holders, HolderStep(g) PROVE Excluded
    <3>1. UNCHANGED <<tick, hook>>
      BY <2>10 DEF HolderStep, Enter, Quiesced, QuiesceTimesOut, Swap,
                   Reconverge, HolderLocks, HolderPassed, Exit
    <3> QED BY <2>1, <3>1
  <2>11. CASE CrashAndRestart
    BY <2>11 DEF CrashAndRestart, NoTick, Tracked
  <2>12. ASSUME NEW u \in Users, Ripen(u) \/ Age(u) PROVE Excluded
    BY <2>1, <2>12 DEF Ripen, Age
  <2>13. ASSUME NEW u \in Users, NEW kind \in Kinds, EnqueueRead(u, kind)
         PROVE  Excluded
    BY <2>1, <2>13 DEF EnqueueRead
  <2>14. CASE UNCHANGED vars
    BY <2>1, <2>14 DEF vars
  <2>15. Excluded
    BY <2>3, <2>4, <2>5, <2>6, <2>7, <2>8, <2>9, <2>10, <2>11, <2>12, <2>13,
       <2>14 DEF Next, TickStep
  <2> QED BY <2>15
<1>2. CASE maint[h].pc # "swap"
  <2>1. ~CrashAndRestart
    BY DEF CrashAndRestart, Out, Gone
  <2>2. PICK g \in Holders : HolderStep(g)
    BY <1>2, <2>1, MaintUnchanged
  <2>3. Quiesced(g)
    BY <1>2, <2>2 DEF HolderStep, Enter, QuiesceTimesOut, Swap, Reconverge,
                      HolderLocks, HolderPassed, Exit, Gone, TypeOK
  <2> QED BY <2>3 DEF Quiesced, Active
<1> QED BY <1>1, <1>2

LEMMA NextClaim ==
  TypeOK /\ UserInv /\ SwapExcludesSync /\ ClaimHeld /\ [Next]_vars => ClaimHeld'
<1> SUFFICES ASSUME TypeOK, UserInv, SwapExcludesSync, ClaimHeld, [Next]_vars
             PROVE  ClaimHeld'
  OBVIOUS
<1> USE DEF ClaimHeld
<1>1. ASSUME NEW u \in Users, NEW kind \in Kinds, EnqueueRead(u, kind)
      PROVE  ClaimHeld'
  BY <1>1 DEF EnqueueRead
<1>2. CASE EnqueueWrite
  BY <1>2 DEF EnqueueWrite, UserInv, TypeOK, Rows
<1>3. ASSUME NEW u \in Users, HookStep(u) PROVE ClaimHeld'
  BY <1>3 DEF HookStep, HookWakes, HookLocks, HookEnds
<1>4. CASE TickStart \/ Sweep \/ SelectDue
  BY <1>4 DEF TickStart, Sweep, SelectDue, TypeOK
<1>5. ASSUME NEW u \in Users, ClaimRead(u) PROVE ClaimHeld'
  BY <1>5 DEF ClaimRead, TypeOK
<1>6. CASE ClaimWrite
  BY <1>6 DEF ClaimWrite, UserInv, TypeOK
<1>7. CASE TickLocks \/ PassEnds
  BY <1>7 DEF TickLocks, PassEnds, TypeOK
<1>8. CASE Release \/ TickEnds \/ TickDies
  BY <1>8, TickGivesUp
<1>9. ASSUME NEW h \in Holders, Swap(h) PROVE ClaimHeld'
  <2>1. tick.pc \notin {"lock", "pass", "release"}
    BY <1>9 DEF Swap, SwapExcludesSync, Tracked
  <2>2. tick' = tick
    BY <1>9 DEF Swap
  <2> QED BY <2>1, <2>2
<1>10. ASSUME NEW h \in Holders, HolderStep(h), ~Swap(h) PROVE ClaimHeld'
  BY <1>10 DEF HolderStep, Enter, Quiesced, QuiesceTimesOut, Reconverge,
               HolderLocks, HolderPassed, Exit
<1>11. CASE CrashAndRestart
  BY <1>11 DEF CrashAndRestart, NoTick
<1>12. ASSUME NEW u \in Users, Ripen(u) \/ Age(u) PROVE ClaimHeld'
  BY <1>12 DEF Ripen, Age
<1>13. CASE UNCHANGED vars
  BY <1>13 DEF vars
<1> QED BY <1>1, <1>2, <1>3, <1>4, <1>5, <1>6, <1>7, <1>8, <1>9, <1>10,
           <1>11, <1>12, <1>13 DEF Next, TickStep

LEMMA NextIInv == IInv /\ [Next]_vars => IInv'
BY NextTypeOK, NextUserInv, NextDepth, NextSwap, NextClaim DEF IInv

LEMMA Invariance == Spec => []IInv
BY InitIInv, NextIInv, PTL DEF Spec

(* The tables and coroutines of the scheduling are well typed.             *)
THEOREM TypeCorrect == Spec => []TypeOK
<1>1. IInv => TypeOK
  BY DEF IInv
<1> QED BY <1>1, Invariance, PTL

(* No pass of the tick or of a webhook runs, or has passed the gate and    *)
(* waits, while a restore or VACUUM works on the file, whatever the number *)
(* of restores and VACUUMs under way.                                      *)
THEOREM SwapSafe == Spec => []SwapExcludesSync
<1>1. IInv => SwapExcludesSync
  BY DEF IInv
<1> QED BY <1>1, Invariance, PTL

(* A claim is on record for as long as its pass lasts.                     *)
THEOREM ClaimsOnRecord == Spec => []ClaimHeld
<1>1. IInv => ClaimHeld
  BY DEF IInv
<1> QED BY <1>1, Invariance, PTL

-----------------------------------------------------------------------------
(* Scheduling implements Coalescing.  Each lemma reads one abstract step   *)
(* off the requests and passes of the users.                               *)

LEMMA AskedType == AskedOf \in [Users -> BOOLEAN]
<1>1. \A u \in Users : Asked(u) \in BOOLEAN
  BY DEF Asked
<1> QED BY <1>1 DEF AskedOf

LEMMA AskedTypeNext == AskedOf' \in [Users -> BOOLEAN]
<1>1. \A u \in Users : Asked(u)' \in BOOLEAN
  BY DEF Asked
<1> QED BY <1>1 DEF AskedOf

LEMMA ServingType ==
  /\ ServingOf  \in [Users -> {"no", "running", "done"}]
  /\ ServingOf' \in [Users -> {"no", "running", "done"}]
BY DEF ServingOf, Serving

Same(u) == AskedOf'[u] = AskedOf[u] /\ ServingOf'[u] = ServingOf[u]

Others(u) == \A v \in Users \ {u} : Same(v)

LEMMA MapStutter ==
  ASSUME \A u \in Users : Same(u)
  PROVE  Requests!Next
<1>1. Requests!Freeze
  BY AskedType, AskedTypeNext, ServingType DEF Same, Requests!Freeze
<1> QED BY <1>1 DEF Requests!Next, in_maintenance

LEMMA MapAsk ==
  ASSUME NEW u \in Users, AskedOf'[u], ServingOf'[u] = ServingOf[u], Others(u)
  PROVE  Requests!Next
<1>1. Requests!Ask(u)
  BY AskedType, AskedTypeNext, ServingType DEF Same, Others, Requests!Ask
<1> QED BY <1>1 DEF Requests!Next, in_maintenance

LEMMA MapBegin ==
  ASSUME NEW u \in Users, AskedOf[u], ServingOf[u] = "no",
         ServingOf'[u] = "running", Others(u)
  PROVE  Requests!Next
<1>1. ServingOf' = [ServingOf EXCEPT ![u] = "running"]
  BY ServingType DEF Same, Others
<1>2. AskedOf' \in {AskedOf, [AskedOf EXCEPT ![u] = FALSE]}
  <2>1. CASE AskedOf'[u]
    BY <2>1, AskedType, AskedTypeNext DEF Same, Others
  <2>2. CASE ~AskedOf'[u]
    BY <2>2, AskedType, AskedTypeNext DEF Same, Others
  <2> QED BY <2>1, <2>2
<1>3. Requests!Begin(u)
  BY <1>1, <1>2 DEF Requests!Begin
<1> QED BY <1>3 DEF Requests!Next, in_maintenance

LEMMA MapComplete ==
  ASSUME NEW u \in Users, ServingOf[u] = "running", ServingOf'[u] = "done",
         AskedOf'[u] = AskedOf[u], Others(u)
  PROVE  Requests!Next
<1>1. Requests!Complete(u)
  BY AskedType, AskedTypeNext, ServingType DEF Same, Others, Requests!Complete
<1> QED BY <1>1 DEF Requests!Next, in_maintenance

LEMMA MapClose ==
  ASSUME NEW u \in Users, ServingOf[u] = "done", ServingOf'[u] = "no",
         AskedOf'[u] = AskedOf[u], Others(u)
  PROVE  Requests!Next
<1>1. Requests!Close(u)
  BY AskedType, AskedTypeNext, ServingType DEF Same, Others, Requests!Close
<1> QED BY <1>1 DEF Requests!Next, in_maintenance

LEMMA MapGiveBack ==
  ASSUME NEW u \in Users, ServingOf[u] # "no", ServingOf'[u] = "no",
         AskedOf'[u], Others(u)
  PROVE  Requests!Next
<1>1. Requests!GiveBack(u)
  BY AskedType, AskedTypeNext, ServingType DEF Same, Others, Requests!GiveBack
<1> QED BY <1>1 DEF Requests!Next, in_maintenance

LEMMA MapFrozen ==
  ASSUME in_maintenance, \A u \in Users : ServingOf'[u] = ServingOf[u]
  PROVE  Requests!Next
<1>1. Requests!Frozen
  BY AskedTypeNext, ServingType DEF Requests!Frozen
<1> QED BY <1>1 DEF Requests!Next, in_maintenance

LEMMA InitMaps == Init => Requests!Init
<1> SUFFICES ASSUME Init PROVE Requests!Init
  OBVIOUS
<1>1. AskedOf = [u \in Users |-> FALSE]
  BY DEF Init, AskedOf, Asked
<1>2. ServingOf = [u \in Users |-> "no"]
  BY DEF Init, ServingOf, Serving, TickPasses, NoTick
<1>3. in_maintenance = FALSE
  BY DEF Init, in_maintenance
<1> QED BY <1>1, <1>2, <1>3 DEF Requests!Init

(* The state the mapping reads: a user's row, and what the tick does.      *)
View(u) ==
  /\ AskedOf[u] <=> (row[u].sched # NULL \/ (row[u].claim # "free" /\ ~Answered(u)))
  /\ ServingOf[u] = IF tick.pc = "pass" /\ tick.user = u THEN "running"
                    ELSE IF /\ tick.user = u
                            /\ tick.pc = "release"
                            /\ tick.result = "ok" THEN "done"
                    ELSE "no"

LEMMA Views == \A u \in Users : View(u) /\ View(u)'
BY DEF View, AskedOf, ServingOf, Asked, Serving, TickPasses, Answered

(* A tick that has nothing to answer neither serves nor has answered.      *)
LEMMA Unaffected ==
  ASSUME TypeOK, TypeOK', NEW u \in Users, row'[u] = row[u],
         tick.pc \notin {"pass", "release"} \/ tick.user # u,
         tick'.pc \notin {"pass", "release"} \/ tick'.user # u
  PROVE  Same(u)
<1>1. ~Answered(u) /\ ~Answered(u)'
  BY DEF Answered
<1>2. AskedOf'[u] <=> AskedOf[u]
  BY <1>1, Views DEF View
<1>3. ServingOf[u] = "no" /\ ServingOf'[u] = "no"
  BY Views DEF View
<1> QED BY <1>2, <1>3, AskedType, AskedTypeNext DEF Same

LEMMA ViewUnchanged ==
  ASSUME UNCHANGED <<row, tick>>
  PROVE  \A u \in Users : Same(u)
BY DEF Same, AskedOf, ServingOf, Asked, Serving, TickPasses, Answered

LEMMA EnqueueMaps ==
  ASSUME TypeOK, TypeOK', UserInv, EnqueueWrite
  PROVE  Requests!Next
<1>1. enq.user \in Users /\ tick' = tick
  BY DEF EnqueueWrite, UserInv
<1>2. row'[enq.user].sched # NULL
  BY <1>1 DEF EnqueueWrite, TypeOK, NewSchedule, Rows
<1>3. \A v \in Users \ {enq.user} : row'[v] = row[v]
  BY <1>1 DEF EnqueueWrite, TypeOK
<1>4. AskedOf'[enq.user]
  BY <1>1, <1>2, Views DEF View
<1>5. ServingOf'[enq.user] = ServingOf[enq.user]
  BY <1>1, Views DEF View
<1>6. Others(enq.user)
  <2> SUFFICES ASSUME NEW v \in Users \ {enq.user} PROVE Same(v)
    BY DEF Others
  <2>1. Answered(v)' <=> Answered(v)
    BY <1>1 DEF Answered
  <2>2. AskedOf'[v] <=> AskedOf[v]
    BY <1>1, <1>3, <2>1, Views DEF View
  <2>3. ServingOf'[v] = ServingOf[v]
    BY <1>1, Views DEF View
  <2> QED BY <2>2, <2>3, AskedType, AskedTypeNext DEF Same
<1> QED BY <1>1, <1>4, <1>5, <1>6, MapAsk

LEMMA SweepMaps ==
  ASSUME TypeOK, TypeOK', Sweep
  PROVE  Requests!Next
<1>1. tick.pc = "sweep" /\ tick'.pc = "select"
  BY DEF Sweep, TypeOK
<1>2. ASSUME NEW u \in Users PROVE Same(u)
  <2>1. ~Answered(u) /\ ~Answered(u)'
    BY <1>1 DEF Answered
  <2>2. AskedOf'[u] <=> AskedOf[u]
    <3>1. CASE row[u].claim = "stale"
      <4>1. row'[u].sched # NULL
        BY <3>1 DEF Sweep, Orelse
      <4> QED BY <3>1, <4>1, <2>1, Views DEF View
    <3>2. CASE row[u].claim # "stale"
      BY <3>2, <2>1, Views DEF Sweep, View
    <3> QED BY <3>1, <3>2
  <2>3. ServingOf[u] = "no" /\ ServingOf'[u] = "no"
    BY <1>1, Views DEF View
  <2> QED BY <2>2, <2>3, AskedType, AskedTypeNext DEF Same
<1> QED BY <1>2, MapStutter

(* Starting, selecting and looking at a row change no request.             *)
LEMMA LookMaps ==
  ASSUME TypeOK, TypeOK', TickStart \/ SelectDue \/ TickEnds
                            \/ \E u \in Users : ClaimRead(u)
  PROVE  Requests!Next
<1>1. tick.pc \notin {"pass", "release"} /\ row' = row
  BY DEF TickStart, SelectDue, TickEnds, ClaimRead
<1>2. tick'.pc \notin {"pass", "release"}
  <2>1. CASE TickStart \/ SelectDue
    BY <2>1 DEF TickStart, SelectDue, TypeOK
  <2>2. CASE TickEnds
    BY <2>2 DEF TickEnds, NoTick
  <2>3. ASSUME NEW u \in Users, ClaimRead(u)
        PROVE  tick'.pc \notin {"pass", "release"}
    BY <2>3 DEF ClaimRead, TypeOK
  <2> QED BY <2>1, <2>2, <2>3
<1> QED BY <1>1, <1>2, Unaffected, MapStutter

(* A won claim leaves the request standing, unless maintenance has begun:  *)
(* then it is dropped.                                                     *)
LEMMA ClaimMaps ==
  ASSUME TypeOK, TypeOK', UserInv, ClaimWrite
  PROVE  Requests!Next
<1> DEFINE u == tick.user
           won == row[u].claim # "held" /\ row[u].sched = tick.read
<1>1. tick.pc = "claim" /\ u \in Users
  BY DEF ClaimWrite, UserInv
<1>2. CASE ~won
  <2>1. row' = row /\ tick'.pc = "users"
    BY <1>2 DEF ClaimWrite, TypeOK
  <2> QED BY <1>1, <2>1, Unaffected, MapStutter
<1>3. CASE won /\ in_maintenance
  <2>1. tick'.pc = "release" /\ tick'.result = "skipped"
    BY <1>3 DEF ClaimWrite, TypeOK
  <2>2. \A v \in Users : ServingOf'[v] = ServingOf[v]
    BY <1>1, <2>1, Views DEF View
  <2> QED BY <1>3, <2>2, MapFrozen
<1>4. CASE won /\ ~in_maintenance
  <2>1. /\ tick'.pc = "lock" /\ tick'.user = u
        /\ row'[u].claim = "held"
        /\ \A v \in Users \ {u} : row'[v] = row[v]
    BY <1>1, <1>4 DEF ClaimWrite, TypeOK
  <2>2. ~Answered(u)'
    BY <2>1 DEF Answered
  <2>3. AskedOf'[u]
    BY <1>1, <2>1, <2>2, Views DEF View
  <2>4. ServingOf[u] = "no" /\ ServingOf'[u] = "no"
    BY <1>1, <2>1, Views DEF View
  <2>5. Others(u)
    BY <1>1, <2>1, Unaffected DEF Others
  <2> QED BY <1>1, <2>3, <2>4, <2>5, MapAsk
<1> QED BY <1>2, <1>3, <1>4

LEMMA LockMaps ==
  ASSUME TypeOK, TypeOK', UserInv, ClaimHeld, TickLocks
  PROVE  Requests!Next
<1> DEFINE u == tick.user
<1>1. /\ tick.pc = "lock" /\ u \in Users /\ row[u].claim = "held"
      /\ tick'.pc = "pass" /\ tick'.user = u /\ row' = row
  BY DEF TickLocks, UserInv, ClaimHeld, TypeOK
<1>2. ~Answered(u)
  BY <1>1 DEF Answered
<1>3. AskedOf[u] /\ ServingOf[u] = "no" /\ ServingOf'[u] = "running"
  BY <1>1, <1>2, Views DEF View
<1>4. Others(u)
  BY <1>1, Unaffected DEF Others
<1> QED BY <1>1, <1>3, <1>4, MapBegin

LEMMA PassMaps ==
  ASSUME TypeOK, TypeOK', UserInv, ClaimHeld, PassEnds
  PROVE  Requests!Next
<1> DEFINE u == tick.user
<1>1. /\ tick.pc = "pass" /\ u \in Users /\ row[u].claim = "held"
      /\ tick'.pc = "release" /\ tick'.user = u /\ row' = row
      /\ tick'.result \in {"ok", "failed"}
  BY DEF PassEnds, UserInv, ClaimHeld, TypeOK
<1>2. Others(u)
  BY <1>1, Unaffected DEF Others
<1>3. ServingOf[u] = "running" /\ Answered(u)
  BY <1>1, Views DEF View, Answered
<1>4. CASE tick'.result = "ok"
  <2>1. Answered(u)'
    BY <1>1, <1>4 DEF Answered
  <2>2. AskedOf'[u] <=> AskedOf[u]
    BY <1>1, <1>3, <2>1, Views DEF View
  <2>3. ServingOf'[u] = "done"
    BY <1>1, <1>4, Views DEF View
  <2> QED BY <1>1, <1>2, <1>3, <2>2, <2>3, AskedType, AskedTypeNext, MapComplete
<1>5. CASE tick'.result = "failed"
  <2>1. ~Answered(u)'
    BY <1>1, <1>5 DEF Answered
  <2>2. AskedOf'[u] /\ ServingOf'[u] = "no"
    BY <1>1, <1>5, <2>1, Views DEF View
  <2> QED BY <1>1, <1>2, <1>3, <2>2, MapGiveBack
<1> QED BY <1>1, <1>4, <1>5

(* A clean release leaves standing what was asked since the pass began; a  *)
(* failed one leaves a retry.                                              *)
LEMMA ReleaseMaps ==
  ASSUME TypeOK, TypeOK', UserInv, ClaimHeld, Release
  PROVE  Requests!Next
<1> DEFINE u == tick.user
<1>1. /\ tick.pc = "release" /\ u \in Users /\ tick'.pc = "users"
      /\ row'[u].claim = "free"
      /\ \A v \in Users \ {u} : row'[v] = row[v]
  BY DEF Release, UserInv, NextUser, TypeOK
<1>2. Others(u)
  BY <1>1, Unaffected DEF Others
<1>3. ServingOf'[u] = "no"
  BY <1>1, Views DEF View
<1>4. CASE tick.result = "failed"
  <2>1. row'[u].sched # NULL
    BY <1>1, <1>4 DEF Release, Orelse, TypeOK
  <2>2. AskedOf'[u] /\ ServingOf[u] = "no"
    BY <1>1, <1>4, <2>1, Views DEF View
  <2> QED BY <1>1, <1>2, <1>3, <2>2, MapAsk
<1>5. CASE tick.result # "failed"
  <2>1. row'[u].sched = row[u].sched
    BY <1>1, <1>5 DEF Release, TypeOK
  <2>2. Answered(u)
    BY <1>1, <1>5 DEF Answered
  <2>3. AskedOf'[u] <=> AskedOf[u]
    BY <1>1, <2>1, <2>2, Views DEF View
  <2>4. ServingOf[u] \in {"no", "done"}
    BY <1>1, Views DEF View
  <2>5. CASE ServingOf[u] = "done"
    BY <1>1, <1>2, <1>3, <2>3, <2>5, AskedType, AskedTypeNext, MapClose
  <2>6. CASE ServingOf[u] = "no"
    <3>1. Same(u)
      BY <1>1, <1>3, <2>3, <2>6, AskedType, AskedTypeNext DEF Same
    <3> QED BY <1>2, <3>1, MapStutter DEF Others
  <2> QED BY <2>4, <2>5, <2>6
<1> QED BY <1>4, <1>5

(* Nothing is lost from a row: it is as it was, or scheduled instead of    *)
(* claimed.                                                                *)
Recovered ==
  \A v \in Users :
    \/ row'[v] = row[v]
    \/ row[v].claim # "free" /\ row'[v].sched # NULL

(* A tick, or the process, that stops between pass and release gives the   *)
(* request back.                                                           *)
LEMMA StoppedMaps ==
  ASSUME TypeOK, TypeOK', UserInv, ClaimHeld,
         tick'.pc = "idle", Recovered
  PROVE  Requests!Next
<1> DEFINE u == tick.user
<1>1. \A v \in Users : ~Answered(v)'
  BY DEF Answered
<1>2. \A v \in Users : ServingOf'[v] = "no"
  BY Views DEF View
<1>3. ASSUME NEW v \in Users, ~Answered(v) PROVE AskedOf'[v] <=> AskedOf[v]
  BY <1>1, <1>3, Views DEF View, Recovered
<1>4. CASE tick.pc \notin {"pass", "release"}
  <2>1. \A v \in Users : ~Answered(v) /\ ServingOf[v] = "no"
    BY <1>4, Views DEF View, Answered
  <2>2. \A v \in Users : Same(v)
    BY <1>2, <1>3, <2>1, AskedType, AskedTypeNext DEF Same
  <2> QED BY <2>2, MapStutter
<1>5. CASE tick.pc \in {"pass", "release"}
  <2>1. u \in Users /\ row[u].claim = "held"
    BY <1>5 DEF UserInv, ClaimHeld
  <2>2. \A v \in Users \ {u} : ~Answered(v) /\ ServingOf[v] = "no"
    BY Views DEF View, Answered
  <2>3. Others(u)
    BY <1>2, <1>3, <2>2, AskedType, AskedTypeNext DEF Same, Others
  <2>4. row'[u].claim # "free" \/ row'[u].sched # NULL
    BY <2>1 DEF Recovered
  <2>5. AskedOf'[u]
    BY <1>1, <2>1, <2>4, Views DEF View
  <2>6. CASE ServingOf[u] = "no"
    BY <1>2, <2>1, <2>3, <2>5, <2>6, MapAsk
  <2>7. CASE ServingOf[u] # "no"
    BY <1>2, <2>1, <2>3, <2>5, <2>7, MapGiveBack
  <2> QED BY <2>6, <2>7
<1> QED BY <1>4, <1>5

LEMMA CrashMaps ==
  ASSUME TypeOK, TypeOK', UserInv, ClaimHeld, CrashAndRestart
  PROVE  Requests!Next
<1>1. tick'.pc = "idle"
  BY DEF CrashAndRestart, NoTick
<1>2. Recovered
  BY DEF CrashAndRestart, Orelse, Recovered
<1> QED BY <1>1, <1>2, StoppedMaps

LEMMA DiesMaps ==
  ASSUME TypeOK, TypeOK', UserInv, ClaimHeld, TickDies
  PROVE  Requests!Next
<1>1. tick'.pc = "idle" /\ Recovered
  BY DEF TickDies, NoTick, Recovered
<1> QED BY <1>1, StoppedMaps

(* A restore rewrites requests, but only under the freeze.                 *)
LEMMA HolderMaps ==
  ASSUME DepthInv, NEW h \in Holders, HolderStep(h)
  PROVE  Requests!Next
<1>1. CASE Swap(h)
  <2>1. in_maintenance
    BY <1>1, InsideFreezes DEF Swap
  <2>2. ServingOf' = ServingOf
    BY <1>1 DEF Swap, ServingOf, Serving, TickPasses
  <2> QED BY <2>1, <2>2, MapFrozen
<1>2. CASE ~Swap(h)
  <2>1. UNCHANGED <<row, tick>>
    BY <1>2 DEF HolderStep, Enter, Quiesced, QuiesceTimesOut, Reconverge,
                HolderLocks, HolderPassed, Exit
  <2> QED BY <2>1, ViewUnchanged, MapStutter
<1> QED BY <1>1, <1>2

LEMMA TimeMaps ==
  ASSUME TypeOK, TypeOK', NEW u \in Users, Ripen(u) \/ Age(u)
  PROVE  Requests!Next
<1>1. tick.pc = "idle" /\ tick' = tick
  BY DEF Ripen, Age
<1>2. ASSUME NEW v \in Users PROVE Same(v)
  <2>1. ~Answered(v) /\ ~Answered(v)'
    BY <1>1 DEF Answered
  <2>2. /\ row'[v].sched = NULL <=> row[v].sched = NULL
        /\ row'[v].claim = "free" <=> row[v].claim = "free"
    BY DEF Ripen, Age, TypeOK, Rows
  <2>3. AskedOf'[v] <=> AskedOf[v]
    BY <2>1, <2>2, Views DEF View
  <2>4. ServingOf'[v] = ServingOf[v]
    BY <1>1, Views DEF View
  <2> QED BY <2>3, <2>4, AskedType, AskedTypeNext DEF Same
<1> QED BY <1>2, MapStutter

LEMMA StepMaps == IInv /\ IInv' /\ [Next]_vars => Requests!Next
<1> SUFFICES ASSUME IInv, IInv', [Next]_vars PROVE Requests!Next
  OBVIOUS
<1> USE DEF IInv
<1>1. ASSUME NEW u \in Users, NEW kind \in Kinds, EnqueueRead(u, kind)
      PROVE  Requests!Next
  <2>1. UNCHANGED <<row, tick>>
    BY <1>1 DEF EnqueueRead
  <2> QED BY <2>1, ViewUnchanged, MapStutter
<1>2. ASSUME NEW u \in Users, HookStep(u) PROVE Requests!Next
  <2>1. UNCHANGED <<row, tick>>
    BY <1>2 DEF HookStep, HookWakes, HookLocks, HookEnds
  <2> QED BY <2>1, ViewUnchanged, MapStutter
<1>3. CASE TickStep
  BY <1>3, LookMaps, SweepMaps, ClaimMaps, LockMaps, PassMaps, ReleaseMaps
     DEF TickStep
<1>4. CASE EnqueueWrite
  BY <1>4, EnqueueMaps
<1>5. CASE TickDies \/ CrashAndRestart
  BY <1>5, DiesMaps, CrashMaps
<1>6. ASSUME NEW h \in Holders, HolderStep(h) PROVE Requests!Next
  BY <1>6, HolderMaps
<1>7. ASSUME NEW u \in Users, Ripen(u) \/ Age(u) PROVE Requests!Next
  BY <1>7, TimeMaps
<1>8. CASE UNCHANGED vars
  <2>1. UNCHANGED <<row, tick>>
    BY <1>8 DEF vars
  <2> QED BY <2>1, ViewUnchanged, MapStutter
<1> QED BY <1>1, <1>2, <1>3, <1>4, <1>5, <1>6, <1>7, <1>8 DEF Next

(* The scheduling keeps the promise of module Coalescing, for any users,   *)
(* any restores and VACUUMs and any failures: whoever asks gets a pass     *)
(* that starts later, unless maintenance drops the request.                *)
THEOREM Implements == Spec => Coalesced
<1>1. Init => Requests!Init
  BY InitMaps
<1>2. IInv /\ IInv' /\ [Next]_vars => [Requests!Next]_(Requests!vars)
  BY StepMaps
<1> QED BY <1>1, <1>2, Invariance, PTL DEF Spec, Coalesced, Requests!Spec

=============================================================================
