--------------------------- MODULE CustodyProofs ----------------------------
(***************************************************************************)
(* Proofs about Custody, for any calendars and any setups.                 *)
(***************************************************************************)
EXTENDS Custody, TLAPS

(* A budget that is spent leaves a setup.                                  *)
LEMMA SpendType ==
  ASSUME setup \in Setup, NEW what \in {"changes", "faults", "moves"}, Spend(what)
  PROVE  setup' \in Setup
  BY DEF Setup, Spend

(* Rows with one field written.                                            *)
LEMMA RowDesired ==
  ASSUME NEW row \in CopyRow, NEW d \in {"present", "absent"}
  PROVE  [row EXCEPT !.desired = d] \in CopyRow
  BY DEF CopyRow

LEMMA NewRowType ==
  /\ NoRow \in CopyRow
  /\ \A d \in {"present", "absent"} : NewRow(d) \in CopyRow
<1>1. NoRow \in CopyRow
  BY DEF CopyRow, NoRow
<1> QED
  BY <1>1, RowDesired DEF NewRow

(* The planner makes rows, of whatever event.                              *)
LEMMA PlannedType ==
  ASSUME TypeOK
  PROVE  /\ Planned \in [Targets -> CopyRow]
         /\ PlannedStrays \subseteq Targets
<1>1. ASSUME NEW t \in Targets PROVE PlannedRow(t) \in CopyRow
  <2> DEFINE d == IF Due(t) THEN "present" ELSE "absent"
  <2>1. d \in {"present", "absent"} /\ copy[t] \in CopyRow
    BY DEF TypeOK
  <2> HIDE DEF d
  <2>2. [copy[t] EXCEPT !.desired = d] \in CopyRow /\ NewRow(d) \in CopyRow
    BY <2>1, RowDesired, NewRowType
  <2> QED
    BY <2>2, NewRowType DEF PlannedRow, d
<1> QED
  BY <1>1 DEF TypeOK, Planned, PlannedStrays, Targets

(* The initial states are well typed.                                      *)
LEMMA InitType == Init => TypeOK
<1> SUFFICES ASSUME Init PROVE TypeOK
  OBVIOUS
<1>1. setup \in Setup
  BY CustodyAssumption DEF Init
<1>2. copy \in [Targets -> CopyRow]
  BY NewRowType, Zenon DEF Init
<1>3. calendar \in [Clients -> CalendarStates]
  BY DEF Init, CalendarStates
<1>4. worker \in Worker
  BY DEF Init, Idle, Worker
<1>5. event \in EventRow
  BY DEF Init, EventRow
<1> QED
  BY <1>1, <1>2, <1>3, <1>4, <1>5 DEF Init, TypeOK

-----------------------------------------------------------------------------
(* The pass.                                                               *)
LEMMA PassType ==
  ASSUME TypeOK, PassStep
  PROVE  TypeOK'
<1>1. ASSUME NEW scan \in BOOLEAN, StartPass(scan) PROVE TypeOK'
  BY <1>1 DEF TypeOK, StartPass, Worker
<1>2. ASSUME NEW t \in Targets, ListCopy(t) PROVE TypeOK'
  <2>1. copy[t] \in CopyRow
    BY DEF TypeOK
  <2>2. Forgotten(copy[t]) \in CopyRow /\ [copy[t] EXCEPT !.echo = FALSE] \in CopyRow
    BY <2>1 DEF Forgotten, CopyRow
  <2>3. copy' \in [Targets -> CopyRow]
    BY <1>2, <2>2 DEF ListCopy, TypeOK
  <2>4. event' \in EventRow
    <3>1. CASE copy[t].desired = "present" /\ t = main
                 /\ event.status \in {"active", "cancelled"}
      <4>1. event' = [event EXCEPT !.status = "erased", !.queued = @ \cup {"listed"}]
        BY <1>2, <3>1, Zenon DEF ListCopy
      <4> QED
        BY <4>1 DEF TypeOK, EventRow
    <3>2. CASE ~(/\ copy[t].desired = "present" /\ t = main
                 /\ event.status \in {"active", "cancelled"})
      <4>1. event' = event
        BY <1>2, <3>2, Zenon DEF ListCopy
      <4> QED
        BY <4>1 DEF TypeOK
    <3> QED
      BY <3>1, <3>2
  <2>5. adrift' \subseteq Targets
    <3>1. adrift' = adrift \/ adrift' = adrift \ {t}
      BY <1>2, Zenon DEF ListCopy
    <3> QED
      BY <3>1 DEF TypeOK
  <2> QED
    BY <1>2, <2>3, <2>4, <2>5 DEF ListCopy, TypeOK
<1>3. ASSUME NEW t \in Targets, Discover(t) PROVE TypeOK'
  <2>1. copy[t] \in CopyRow
    BY DEF TypeOK
  <2>2. [copy[t] EXCEPT !.id = "own", !.current = "present", !.echo = FALSE] \in CopyRow
    BY <2>1 DEF CopyRow
  <2>3. copy' \in [Targets -> CopyRow]
    BY <1>3, <2>2 DEF Discover, Relink, TypeOK
  <2>4. adrift' \subseteq Targets /\ condemned' \subseteq live
    BY <1>3 DEF Discover, Relink, TypeOK
  <2>5. worker' \in Worker
    BY <1>3 DEF Discover, TypeOK, Worker
  <2>6. calendar' \in [Clients -> CalendarStates]
    BY <1>3 DEF Discover, TypeOK, CalendarStates
  <2> QED
    BY <1>3, <2>3, <2>4, <2>5, <2>6 DEF Discover, TypeOK
<1>4. ASSUME NEW t \in Targets, Diff(t) PROVE TypeOK'
  <2>1. copy[t] \in CopyRow /\ copy[t].desired # NULL
    BY <1>4 DEF TypeOK, Diff, Diverged
  <2>2. [copy[t] EXCEPT !.applied = copy[t].desired, !.current = "absent"] \in CopyRow
    BY <2>1 DEF CopyRow
  <2>3. copy' \in [Targets -> CopyRow]
    BY <1>4, <2>2 DEF Diff, TypeOK
  <2>4. op' \in [Targets -> {"none", "create", "update", "delete"}]
    BY <1>4 DEF Diff, TypeOK, OpFor
  <2> QED
    BY <1>4, <2>3, <2>4 DEF Diff, TypeOK
<1>5. ASSUME NEW t \in Targets, Create(t) PROVE TypeOK'
  <2>1. setup' \in Setup
    BY <1>5, SpendType DEF Create, TypeOK
  <2>2. worker' \in Worker
    <3>1. CASE worker' = [worker EXCEPT !.pc = "record", !.key = t]
      BY <3>1 DEF TypeOK, Worker
    <3>2. CASE worker' = [worker EXCEPT !.todo = @ \cup {t}]
      BY <3>2 DEF TypeOK, Worker
    <3> QED
      BY <1>5, <3>1, <3>2 DEF Create
  <2>3. calendar' \in [Clients -> CalendarStates]
    BY <1>5 DEF Create, TypeOK, CalendarStates
  <2> QED
    BY <1>5, <2>1, <2>2, <2>3 DEF Create, TypeOK
<1>6. ASSUME NEW t \in Targets, Update(t) PROVE TypeOK'
  <2>1. copy[t] \in CopyRow
    BY DEF TypeOK
  <2>2. [copy[t] EXCEPT !.applied = "present"] \in CopyRow
    BY <2>1 DEF CopyRow
  <2> QED
    BY <1>6, <2>2 DEF Update, TypeOK
<1>7. ASSUME NEW t \in Targets, Delete(t) PROVE TypeOK'
  <2>1. copy[t] \in CopyRow
    BY DEF TypeOK
  <2>2. [copy[t] EXCEPT !.applied = "absent", !.current = "absent",
                        !.id = IF @ = "own" THEN "past" ELSE @,
                        !.echo = @ \/ copy[t].id = "own"] \in CopyRow
    BY <2>1 DEF CopyRow
  <2>3. copy' \in [Targets -> CopyRow]
    BY <1>7, <2>2 DEF Delete, TypeOK
  <2> QED
    BY <1>7, <2>3 DEF Delete, Burn, TypeOK
<1>8. ASSUME NEW t \in Targets, DeleteOrphan(t) PROVE TypeOK'
  <2>1. copy[t] \in CopyRow
    BY DEF TypeOK
  <2>2. [copy[t] EXCEPT !.id = "past", !.echo = TRUE] \in CopyRow
    BY <2>1 DEF CopyRow
  <2>3. copy' \in [Targets -> CopyRow] /\ adrift' \subseteq Targets
    BY <1>8, <2>2 DEF DeleteOrphan, TypeOK
  <2> QED
    BY <1>8, <2>3 DEF DeleteOrphan, Burn, TypeOK
<1>9. CASE ReadQueue
  BY <1>9 DEF ReadQueue, TypeOK, EventRow, Worker
<1>10. CASE Plan
  <2>1. event' \in EventRow
    BY <1>10 DEF Plan, TypeOK, EventRow
  <2>2. worker' \in Worker
    BY <1>10 DEF Plan, TypeOK, Worker
  <2> QED
    BY <1>10, <2>1, <2>2, PlannedType DEF Plan, TypeOK
<1>11. CASE Record
  <2>1. worker' \in Worker
    BY <1>11 DEF Record, TypeOK, Worker
  <2>2. copy' \in [Targets -> CopyRow]
    BY <1>11 DEF Record, TypeOK, CopyRow
  <2>3. op' \in [Targets -> {"none", "create", "update", "delete"}]
    BY <1>11 DEF Record, TypeOK
  <2> QED
    BY <1>11, <2>1, <2>2, <2>3 DEF Record, TypeOK
<1>12. CASE EndPass
  BY <1>12 DEF EndPass, TypeOK, Worker, Idle
<1> QED
  BY <1>1, <1>2, <1>3, <1>4, <1>5, <1>6, <1>7, <1>8, <1>9, <1>10, <1>11, <1>12
  DEF PassStep

(* Retention, the operator, the source and the clock.                      *)
LEMMA OthersType ==
  ASSUME TypeOK, Retention \/ Operator \/ SourceChange \/ Grow \/ Crash
  PROVE  TypeOK'
<1>1. CASE Expire
  BY <1>1 DEF Expire, TypeOK, EventRow
<1>2. CASE PlanExpired
  BY <1>2, PlannedType DEF PlanExpired, TypeOK
<1>3. CASE HardDelete
  <2>1. event' \in EventRow
    BY <1>3 DEF HardDelete, TypeOK, EventRow
  <2> QED
    BY <1>3, <2>1, NewRowType DEF HardDelete, TypeOK
<1>4. ASSUME NEW c \in Clients, Purge(c) PROVE TypeOK'
  BY <1>4 DEF Purge, TypeOK, CalendarStates
<1>5. ASSUME NEW c \in Clients, Connect(c) PROVE TypeOK'
  <2>1. setup' \in Setup
    BY <1>5, SpendType DEF Connect, TypeOK
  <2>2. calendar' \in [Clients -> CalendarStates] /\ strays' \subseteq Targets
    BY <1>5 DEF Connect, TypeOK, CalendarStates, Targets
  <2> QED
    BY <1>5, <2>1, <2>2 DEF Connect, TypeOK
<1>6. ASSUME NEW c \in Clients, Cleanup(c) PROVE TypeOK'
  <2>1. setup' \in Setup
    BY <1>6, SpendType DEF Cleanup, TypeOK
  <2>2. calendar' \in [Clients -> CalendarStates]
    BY <1>6 DEF Cleanup, TypeOK, CalendarStates, Departing
  <2>3. event' \in EventRow
    BY <1>6 DEF Cleanup, TypeOK, EventRow
  <2> QED
    BY <1>6, <2>1, <2>2, <2>3 DEF Cleanup, TypeOK
<1>11. ASSUME NEW c \in Clients, ClearCopies(c) PROVE TypeOK'
  <2>1. calendar' \in [Clients -> CalendarStates]
    BY <1>11 DEF ClearCopies, TypeOK, CalendarStates, Departing
  <2>2. c \in Targets
    BY DEF Targets
  <2>3. copy[c] \in CopyRow
    BY <2>2 DEF TypeOK
  <2>4. [copy[c] EXCEPT !.desired = "absent"] \in CopyRow
    BY <2>3, RowDesired
  <2>5. copy' \in [Targets -> CopyRow]
    BY <1>11, <2>4 DEF ClearCopies, CleanedUp, TypeOK
  <2> QED
    BY <1>11, <2>1, <2>5 DEF ClearCopies, TypeOK
<1>12. ASSUME NEW c \in Clients, QueueEvent(c) PROVE TypeOK'
  <2>1. calendar' \in [Clients -> CalendarStates]
    BY <1>12 DEF QueueEvent, TypeOK, CalendarStates, Departing
  <2>2. event' \in EventRow
    BY <1>12 DEF QueueEvent, TypeOK, EventRow
  <2> QED
    BY <1>12, <2>1, <2>2 DEF QueueEvent, TypeOK
<1>7. ASSUME NEW c \in Clients, Deactivate(c) PROVE TypeOK'
  BY <1>7 DEF Deactivate, TypeOK, CalendarStates
<1>8. CASE SourceChange
  <2>1. setup' \in Setup
    BY <1>8, SpendType DEF SourceChange, TypeOK
  <2>2. event' \in EventRow
    BY <1>8 DEF SourceChange, TypeOK, EventRow
  <2> QED
    BY <1>8, <2>1, <2>2 DEF SourceChange, TypeOK
<1>9. CASE Grow
  BY <1>9 DEF Grow, TypeOK, EventRow
<1>10. CASE Crash
  <2>1. setup' \in Setup
    BY <1>10, SpendType DEF Crash, TypeOK
  <2>2. worker' \in Worker
    BY <1>10 DEF Crash, Idle, Worker
  <2>3. calendar' \in [Clients -> CalendarStates]
    BY <1>10 DEF Crash, TypeOK, CalendarStates
  <2>4. strays' \subseteq Targets
    BY <1>10 DEF Crash, Stranded, TypeOK, Targets
  <2> QED
    BY <1>10, <2>1, <2>2, <2>3, <2>4 DEF Crash, TypeOK
<1> QED
  BY <1>1, <1>2, <1>3, <1>4, <1>5, <1>6, <1>7, <1>8, <1>9, <1>10, <1>11, <1>12
  DEF Retention, Operator, Disconnecting

LEMMA NextType == TypeOK /\ [Next]_vars => TypeOK'
<1>1. ASSUME TypeOK, UNCHANGED vars PROVE TypeOK'
  BY <1>1 DEF TypeOK, vars
<1> QED
  BY <1>1, PassType, OthersType DEF Next

(* Every reachable state is well typed; in particular whatever discovery   *)
(* has condemned is a copy that is there.                                  *)
THEOREM TypeCorrect == Spec => []TypeOK
  BY InitType, NextType, PTL DEF Spec

-----------------------------------------------------------------------------
(* A released event is frozen.                                             *)

LEMMA FrozenStep ==
  ASSUME TypeOK, [Next]_vars, NEW t \in Targets,
         event.status = "released", copy[t].desired = "present"
  PROVE  copy'[t].desired = "present" \/ (t \in Clients /\ calendar'[t] = "cleared")
<1>1. CASE UNCHANGED copy
  BY <1>1
<1>2. ASSUME NEW u \in Targets,
             ListCopy(u) \/ Discover(u) \/ Diff(u) \/ Update(u) \/ Delete(u)
               \/ DeleteOrphan(u)
      PROVE  copy'[t].desired = copy[t].desired
  <2>0. copy[t] \in CopyRow /\ copy[u] \in CopyRow /\ copy \in [Targets -> CopyRow]
    BY DEF TypeOK
  <2>1. CASE ListCopy(u)
    <3>1. Forgotten(copy[u]).desired = copy[u].desired
          /\ [copy[u] EXCEPT !.echo = FALSE].desired = copy[u].desired
      BY <2>0 DEF Forgotten, CopyRow
    <3>2. copy' = [copy EXCEPT ![u] = Forgotten(@)]
          \/ copy' = [copy EXCEPT ![u] = [@ EXCEPT !.echo = FALSE]]
      BY <2>1, Zenon DEF ListCopy
    <3> QED
      BY <2>0, <3>1, <3>2
  <2>2. CASE Discover(u)
    BY <2>0, <2>2 DEF Discover, Relink, CopyRow
  <2>3. CASE Diff(u)
    BY <2>0, <2>3 DEF Diff, CopyRow
  <2>4. CASE Update(u)
    BY <2>0, <2>4 DEF Update, CopyRow
  <2>5. CASE Delete(u)
    BY <2>0, <2>5 DEF Delete, CopyRow
  <2>6. CASE DeleteOrphan(u)
    BY <2>0, <2>6 DEF DeleteOrphan, CopyRow
  <2> QED
    BY <1>2, <2>1, <2>2, <2>3, <2>4, <2>5, <2>6
<1>3. CASE Record
  BY <1>3 DEF Record, TypeOK, CopyRow
<1>4. CASE Plan
  BY <1>4 DEF Plan, Planned
<1>5. CASE PlanExpired
  BY <1>5 DEF PlanExpired, Planned
<1>6. CASE HardDelete
  BY <1>6 DEF HardDelete
<1>7. ASSUME NEW c \in Clients, ClearCopies(c)
      PROVE  copy'[t].desired = "present" \/ (t \in Clients /\ calendar'[t] = "cleared")
  <2>1. CASE t = c
    BY <1>7, <2>1 DEF ClearCopies, TypeOK
  <2>2. CASE t # c
    BY <1>7, <2>2 DEF ClearCopies, CleanedUp, TypeOK
  <2> QED
    BY <2>1, <2>2
<1>8. ASSUME NEW u \in Targets, Create(u) PROVE UNCHANGED copy
  BY <1>8 DEF Create
<1>9. ASSUME NEW c \in Clients,
             Purge(c) \/ Connect(c) \/ Cleanup(c) \/ QueueEvent(c) \/ Deactivate(c)
      PROVE  UNCHANGED copy
  BY <1>9 DEF Purge, Connect, Cleanup, QueueEvent, Deactivate
<1>10. ASSUME NEW scan \in BOOLEAN, StartPass(scan) PROVE UNCHANGED copy
  BY <1>10 DEF StartPass
<1>11. ASSUME ReadQueue \/ EndPass \/ Expire \/ SourceChange \/ Grow \/ Crash
       PROVE  UNCHANGED copy
  BY <1>11 DEF ReadQueue, EndPass, Expire, SourceChange, Grow, Crash
<1>12. ASSUME UNCHANGED vars PROVE UNCHANGED copy
  BY <1>12 DEF vars
<1> QED
  BY <1>1, <1>2, <1>3, <1>4, <1>5, <1>6, <1>7, <1>8, <1>9, <1>10, <1>11, <1>12
  DEF Next, PassStep, Retention, Operator, Disconnecting

(* What is planned for a released event stays as it was planned, whatever  *)
(* passes, retention and people do, but where a calendar is disconnected.  *)
THEOREM ReleasedFrozen == Spec => ReleasedIsFrozen
<1>1. TypeOK /\ [Next]_vars =>
        [\A t \in Targets :
           event.status = "released" /\ copy[t].desired = "present"
             => copy'[t].desired = "present" \/ (t \in Clients /\ calendar'[t] = "cleared")]_vars
  BY FrozenStep
<1> QED
  BY <1>1, TypeCorrect, PTL DEF Spec, ReleasedIsFrozen

-----------------------------------------------------------------------------
(* A calendar that leaves the table is clean.                              *)

(* A calendar that was never connected has no rows.                        *)
UnbornIsEmpty ==
  \A c \in Clients : calendar[c] = "unborn" =>
    /\ copy[c].desired = NULL /\ copy[c].id = "none"
    /\ op[c] = "none" /\ worker.key # c /\ c \notin worker.todo

(* An id is on record in a row, which says that the copy is there as long  *)
(* as the calendar is.                                                     *)
OwnIsPresent ==
  \A t \in Targets :
    copy[t].id = "own" =>
      /\ copy[t].desired # NULL
      /\ copy[t].current = "present" \/ (t \in Clients /\ calendar[t] = "purged")

(* After the scan that followed the last write to a disconnected calendar, *)
(* what is there is on record or condemned.                                *)
ScannedIsKnown ==
  \A c \in Clients : calendar[c] = "scanned" /\ c \in live =>
    copy[c].id = "own" \/ c \in condemned

(* And no insert is made once the calendar is gone.                        *)
PurgedIsClosed ==
  \A c \in Clients : calendar[c] = "purged" => c \notin live /\ op[c] # "create"

IInv == /\ TypeOK
        /\ UnbornIsEmpty /\ OwnIsPresent /\ ScannedIsKnown /\ PurgedIsClosed

LEMMA InitInv == Init => IInv
<1> SUFFICES ASSUME Init PROVE IInv
  OBVIOUS
<1>1. TypeOK
  BY InitType
<1>2. UnbornIsEmpty
  <2> SUFFICES ASSUME NEW c \in Clients, calendar[c] = "unborn"
               PROVE  /\ copy[c].desired = NULL /\ copy[c].id = "none"
                      /\ op[c] = "none" /\ worker.key # c /\ c \notin worker.todo
    BY DEF UnbornIsEmpty
  <2>1. c \notin setup.connected /\ c # main /\ c # NULL /\ c \in Targets
    BY CustodyAssumption DEF Init, Targets
  <2>2. copy[c] = NoRow
    BY <2>1, Zenon DEF Init
  <2> QED
    BY <2>1, <2>2 DEF Init, NoRow, Idle
<1>3. OwnIsPresent
  <2> SUFFICES ASSUME NEW t \in Targets PROVE copy[t].id = "none"
    BY DEF OwnIsPresent
  <2>1. copy[t] = NoRow \/ \E d \in {"present", "absent"} : copy[t] = NewRow(d)
    BY Zenon DEF Init
  <2>2. NoRow.id = "none" /\ \A d \in {"present", "absent"} : NewRow(d).id = "none"
    BY DEF NoRow, NewRow
  <2> QED
    BY <2>1, <2>2
<1>4. ScannedIsKnown /\ PurgedIsClosed
  BY DEF Init, ScannedIsKnown, PurgedIsClosed
<1> QED
  BY <1>1, <1>2, <1>3, <1>4 DEF IInv

(* What the planner does to a row that was there leaves the id and what is *)
(* known of the copy; it makes none for a calendar that is not active.     *)
LEMMA PlannedKeeps ==
  ASSUME TypeOK, NEW t \in Targets
  PROVE  /\ Planned[t].id = "own" =>
              /\ copy[t].id = "own" /\ Planned[t].current = copy[t].current
              /\ copy[t].desired # NULL => Planned[t].desired # NULL
         /\ copy[t].id = "own" /\ copy[t].desired # NULL => Planned[t].id = "own"
         /\ copy[t].desired = NULL /\ copy[t].id = "none" /\ ~Active(t)
              => Planned[t].desired = NULL /\ Planned[t].id = "none"
<1>1. copy[t] \in CopyRow
  BY DEF TypeOK
<1>2. CASE event.status \in {"released", "gone"}
  BY <1>2, <1>1 DEF Planned
<1>3. CASE event.status \notin {"released", "gone"}
  <2>1. Planned[t] = PlannedRow(t)
    BY <1>3 DEF Planned
  <2> DEFINE d == IF Due(t) THEN "present" ELSE "absent"
  <2>2. d \in {"present", "absent"}
    OBVIOUS
  <2> HIDE DEF d
  <2>3. PlannedRow(t) = IF copy[t].desired # NULL THEN [copy[t] EXCEPT !.desired = d]
                        ELSE IF Active(t) THEN NewRow(d) ELSE NoRow
    BY Zenon DEF PlannedRow, d
  <2>4. [copy[t] EXCEPT !.desired = d].id = copy[t].id
        /\ [copy[t] EXCEPT !.desired = d].current = copy[t].current
        /\ [copy[t] EXCEPT !.desired = d].desired # NULL
    BY <1>1, <2>2, CustodyAssumption DEF CopyRow
  <2>5. NewRow(d).id = "none" /\ NoRow.id = "none" /\ NoRow.desired = NULL
    BY DEF NewRow, NoRow
  <2> QED
    BY <2>1, <2>3, <2>4, <2>5
<1> QED
  BY <1>2, <1>3

(* Steps that leave what the invariant is about alone.                     *)
LEMMA Untouched ==
  ASSUME IInv, TypeOK', UNCHANGED <<copy, op, live, condemned, calendar>>,
         worker'.key \in {worker.key, NULL}, worker'.todo \cap Clients \subseteq worker.todo
  PROVE  IInv'
<1>1. UnbornIsEmpty'
  BY CustodyAssumption DEF IInv, UnbornIsEmpty, Targets
<1>2. OwnIsPresent'
  BY DEF IInv, OwnIsPresent, Targets
<1>3. ScannedIsKnown' /\ PurgedIsClosed'
  BY DEF IInv, ScannedIsKnown, PurgedIsClosed
<1> QED
  BY <1>1, <1>2, <1>3 DEF IInv

LEMMA StartInv == ASSUME IInv, TypeOK', NEW scan \in BOOLEAN, StartPass(scan) PROVE IInv'
<1>1. UnbornIsEmpty'
  <2>1. worker'.key = worker.key /\ \A c \in worker'.todo : Known(c)
    BY DEF StartPass, IInv, TypeOK, Worker
  <2> QED
    BY <2>1 DEF IInv, UnbornIsEmpty, StartPass, Known
<1>2. OwnIsPresent' /\ ScannedIsKnown' /\ PurgedIsClosed'
  BY DEF IInv, OwnIsPresent, ScannedIsKnown, PurgedIsClosed, StartPass
<1> QED
  BY <1>1, <1>2 DEF IInv

LEMMA ListCopyInv == ASSUME IInv, TypeOK', NEW t \in Targets, ListCopy(t) PROVE IInv'
<1>0. copy \in [Targets -> CopyRow] /\ copy[t] \in CopyRow /\ Active(t)
  BY DEF IInv, TypeOK, ListCopy
<1>1. UNCHANGED <<op, live, condemned, calendar, worker>>
  BY DEF ListCopy
<1>2. PICK row \in {Forgotten(copy[t]), [copy[t] EXCEPT !.echo = FALSE]} :
        copy' = [copy EXCEPT ![t] = row]
  BY Zenon DEF ListCopy
<1>3. /\ row.desired = copy[t].desired
      /\ row.id = "own" => copy[t].id = "own" /\ row.current = copy[t].current
      /\ row.id # copy[t].id => row.id = "none"
  BY <1>0 DEF Forgotten, CopyRow
<1>4. t \in Clients => calendar[t] \notin {"unborn", "scanned"}
  BY <1>0 DEF Active, Departing
<1>5. UnbornIsEmpty' /\ ScannedIsKnown'
  BY <1>0, <1>1, <1>2, <1>3, <1>4 DEF IInv, UnbornIsEmpty, ScannedIsKnown, Targets
<1>6. OwnIsPresent'
  BY <1>0, <1>1, <1>2, <1>3 DEF IInv, OwnIsPresent
<1>7. PurgedIsClosed'
  BY <1>1 DEF IInv, PurgedIsClosed
<1> QED
  BY <1>5, <1>6, <1>7 DEF IInv

LEMMA DiscoverInv == ASSUME IInv, TypeOK', NEW t \in Targets, Discover(t) PROVE IInv'
<1>0. copy \in [Targets -> CopyRow] /\ copy[t] \in CopyRow /\ calendar \in [Clients -> CalendarStates]
      /\ worker \in Worker
  BY DEF IInv, TypeOK
<1>1. /\ worker' = [worker EXCEPT !.todo = @ \ {t}] /\ UNCHANGED <<op, live>>
      /\ t \in worker.todo
      /\ worker'.key = worker.key /\ worker'.todo = worker.todo \ {t}
  BY <1>0 DEF Discover, Worker
<1>2. /\ \A c \in Clients : calendar'[c] # calendar[c]
           => calendar[c] = "inactive" /\ calendar'[c] = "scanned" /\ c = t
      /\ calendar' = calendar \/ t \in Clients
  BY <1>0 DEF Discover
<1>3. CASE t \notin live \/ copy[t].id = "own" \/ t \in condemned
  <2>1. UNCHANGED <<copy, condemned>>
    BY <1>3 DEF Discover
  <2>2. UnbornIsEmpty' /\ ScannedIsKnown' /\ PurgedIsClosed'
    BY <1>1, <1>2, <1>3, <2>1 DEF IInv, UnbornIsEmpty, ScannedIsKnown, PurgedIsClosed
  <2>3. OwnIsPresent'
    BY <1>2, <2>1 DEF IInv, OwnIsPresent
  <2> QED
    BY <2>2, <2>3 DEF IInv
<1>4. CASE ~(t \notin live \/ copy[t].id = "own" \/ t \in condemned) /\ Relinkable(t)
  <2>1. copy' = [copy EXCEPT ![t] = [@ EXCEPT !.id = "own", !.current = "present", !.echo = FALSE]]
        /\ UNCHANGED condemned
    BY <1>4 DEF Discover, Relink
  <2>2. copy'[t].id = "own" /\ copy'[t].current = "present" /\ copy'[t].desired = copy[t].desired
        /\ copy[t].desired # NULL
    BY <1>0, <1>4, <2>1 DEF CopyRow, Relinkable
  <2>3. UnbornIsEmpty' /\ ScannedIsKnown' /\ PurgedIsClosed'
    BY <1>0, <1>1, <1>2, <1>4, <2>1, <2>2 DEF IInv, UnbornIsEmpty, ScannedIsKnown, PurgedIsClosed, Targets
  <2>4. OwnIsPresent'
    BY <1>0, <1>2, <2>1, <2>2 DEF IInv, OwnIsPresent
  <2> QED
    BY <2>3, <2>4 DEF IInv
<1>5. CASE ~(t \notin live \/ copy[t].id = "own" \/ t \in condemned) /\ ~Relinkable(t)
  <2>1. condemned' = condemned \cup {t} /\ UNCHANGED copy
    BY <1>5 DEF Discover
  <2>2. UnbornIsEmpty' /\ ScannedIsKnown' /\ PurgedIsClosed'
    BY <1>1, <1>2, <2>1 DEF IInv, UnbornIsEmpty, ScannedIsKnown, PurgedIsClosed
  <2>3. OwnIsPresent'
    BY <1>2, <2>1 DEF IInv, OwnIsPresent
  <2> QED
    BY <2>2, <2>3 DEF IInv
<1> QED
  BY <1>3, <1>4, <1>5

LEMMA DiffInv == ASSUME IInv, TypeOK', NEW t \in Targets, Diff(t) PROVE IInv'
<1>0. copy \in [Targets -> CopyRow] /\ copy[t] \in CopyRow
      /\ op \in [Targets -> {"none", "create", "update", "delete"}]
      /\ UNCHANGED <<live, condemned, calendar, worker>> /\ copy[t].desired # NULL
  BY DEF IInv, TypeOK, Diff, Diverged
<1>1. CASE Nothing(t)
  <2>1. copy' = [copy EXCEPT ![t] = [@ EXCEPT !.applied = copy[t].desired, !.current = "absent"]]
        /\ UNCHANGED op
    BY <1>1 DEF Diff
  <2>2. copy'[t].id = copy[t].id /\ copy'[t].desired = copy[t].desired
        /\ \A u \in Targets : u # t => copy'[u] = copy[u]
    BY <1>0, <2>1 DEF CopyRow
  <2>3. UnbornIsEmpty' /\ ScannedIsKnown' /\ PurgedIsClosed'
    BY <1>0, <2>1, <2>2 DEF IInv, UnbornIsEmpty, ScannedIsKnown, PurgedIsClosed, Targets
  <2>4. copy[t].id = "own" => t \in Clients /\ calendar[t] = "purged"
    BY <1>0, <1>1 DEF IInv, OwnIsPresent, UnbornIsEmpty, Nothing, Known
  <2>5. OwnIsPresent'
    BY <1>0, <2>2, <2>4 DEF IInv, OwnIsPresent
  <2> QED
    BY <2>3, <2>5 DEF IInv
<1>2. CASE ~Nothing(t)
  <2>1. op' = [op EXCEPT ![t] = OpFor(t)] /\ UNCHANGED copy
    BY <1>2 DEF Diff
  <2>2. t \in Clients => calendar[t] \notin {"unborn", "purged"}
    BY <1>2 DEF Nothing, Known
  <2>3. UnbornIsEmpty' /\ ScannedIsKnown' /\ PurgedIsClosed'
    BY <1>0, <2>1, <2>2 DEF IInv, UnbornIsEmpty, ScannedIsKnown, PurgedIsClosed, Targets
  <2>4. OwnIsPresent'
    BY <1>0, <2>1 DEF IInv, OwnIsPresent
  <2> QED
    BY <2>3, <2>4 DEF IInv
<1> QED
  BY <1>1, <1>2

(* The insert takes the calendar out of the scanned state.                 *)
LEMMA CreateInv == ASSUME IInv, TypeOK', NEW t \in Targets, Create(t) PROVE IInv'
<1>0. /\ calendar \in [Clients -> CalendarStates] /\ worker \in Worker
      /\ UNCHANGED <<copy, op, condemned>> /\ op[t] = "create"
      /\ live' = live \cup {t}
  BY DEF IInv, TypeOK, Create
<1>1. worker'.key \in {worker.key, t} /\ worker'.todo \subseteq worker.todo \cup {t}
  <2>1. CASE worker' = [worker EXCEPT !.pc = "record", !.key = t]
    BY <1>0, <2>1 DEF Worker
  <2>2. CASE worker' = [worker EXCEPT !.todo = @ \cup {t}]
    BY <1>0, <2>2 DEF Worker
  <2> QED
    BY <2>1, <2>2 DEF Create
<1>2. \A c \in Clients : /\ c # t => calendar'[c] = calendar[c]
                         /\ calendar'[c] = "scanned" => c # t
                         /\ calendar'[c] \in {"unborn", "purged"} <=> calendar[c] \in {"unborn", "purged"}
                         /\ calendar'[c] = "unborn" <=> calendar[c] = "unborn"
                         /\ calendar'[c] = "purged" <=> calendar[c] = "purged"
  BY <1>0 DEF Create
<1>3. t \in Clients => calendar[t] \notin {"unborn", "purged"}
  BY <1>0 DEF IInv, UnbornIsEmpty, PurgedIsClosed
<1>4. UnbornIsEmpty'
  BY <1>0, <1>1, <1>2, <1>3 DEF IInv, UnbornIsEmpty
<1>5. OwnIsPresent'
  BY <1>0, <1>2 DEF IInv, OwnIsPresent
<1>6. ScannedIsKnown' /\ PurgedIsClosed'
  BY <1>0, <1>2, <1>3 DEF IInv, ScannedIsKnown, PurgedIsClosed
<1> QED
  BY <1>4, <1>5, <1>6 DEF IInv

LEMMA RecordInv == ASSUME IInv, TypeOK', Record PROVE IInv'
<1> DEFINE t == worker.key
<1>0. /\ copy \in [Targets -> CopyRow] /\ worker \in Worker
      /\ op \in [Targets -> {"none", "create", "update", "delete"}]
      /\ UNCHANGED <<live, condemned, calendar>> /\ op' = [op EXCEPT ![t] = "none"]
      /\ worker' = [worker EXCEPT !.pc = "drain", !.key = NULL]
  BY DEF IInv, TypeOK, Record
<1>1. worker'.key = NULL /\ worker'.todo = worker.todo
  BY <1>0 DEF Worker
<1>2. CASE copy[t].desired = NULL
  <2>1. UNCHANGED copy
    BY <1>2 DEF Record
  <2>2. UnbornIsEmpty'
    BY <1>0, <1>1, <2>1, CustodyAssumption DEF IInv, UnbornIsEmpty, Targets
  <2>3. OwnIsPresent' /\ ScannedIsKnown' /\ PurgedIsClosed'
    BY <1>0, <2>1 DEF IInv, OwnIsPresent, ScannedIsKnown, PurgedIsClosed, Targets
  <2> QED
    BY <2>2, <2>3 DEF IInv
<1>3. CASE copy[t].desired # NULL
  <2>1. copy' = [copy EXCEPT ![t] = [@ EXCEPT !.id = "own", !.current = "present",
                                              !.applied = "present", !.echo = FALSE]]
    BY <1>3 DEF Record
  <2>2. \A u \in Targets : copy'[u] # copy[u] =>
          u = t /\ copy'[u].id = "own" /\ copy'[u].current = "present"
            /\ copy'[u].desired = copy[u].desired
    BY <1>0, <2>1 DEF CopyRow
  <2>3. UnbornIsEmpty'
    BY <1>0, <1>1, <1>3, <2>2, CustodyAssumption DEF IInv, UnbornIsEmpty, Targets
  <2>4. OwnIsPresent'
    BY <1>0, <1>3, <2>2 DEF IInv, OwnIsPresent
  <2>5. ScannedIsKnown' /\ PurgedIsClosed'
    BY <1>0, <2>2 DEF IInv, ScannedIsKnown, PurgedIsClosed, Targets
  <2> QED
    BY <2>3, <2>4, <2>5 DEF IInv
<1> QED
  BY <1>2, <1>3

(* What a write to one row may do without harm: it keeps a recorded id of a*)
(* copy that is there, unless the copy goes with it.                       *)
LEMMA RowStep ==
  ASSUME IInv, TypeOK', NEW t \in Targets, NEW row,
         copy' = [copy EXCEPT ![t] = row],
         row.desired # NULL,
         row.id = "own" => copy[t].id = "own" /\ row.current = copy[t].current,
         op[t] # "none" \/ t \in condemned,
         \A u \in Targets : op'[u] \in {op[u], "none"},
         UNCHANGED <<calendar, worker>>,
         row.id # copy[t].id => t \notin live',
         \/ UNCHANGED <<live, condemned>>
         \/ live' = live \ {t} /\ condemned' = condemned \ {t},
         copy[t].desired # NULL
  PROVE  IInv'
<1>0. copy \in [Targets -> CopyRow] /\ \A u \in Targets : u # t => copy'[u] = copy[u]
  BY DEF IInv, TypeOK
<1>1. copy'[t] = row
  BY <1>0
<1>2. UnbornIsEmpty'
  BY <1>0, <1>1 DEF IInv, UnbornIsEmpty, Targets
<1>3. OwnIsPresent'
  BY <1>0, <1>1 DEF IInv, OwnIsPresent
<1>4. ScannedIsKnown' /\ PurgedIsClosed'
  BY <1>0, <1>1 DEF IInv, ScannedIsKnown, PurgedIsClosed, Targets
<1> QED
  BY <1>2, <1>3, <1>4 DEF IInv

LEMMA UpdateInv == ASSUME IInv, TypeOK', NEW t \in Targets, Update(t) PROVE IInv'
<1>1. copy[t] \in CopyRow /\ op \in [Targets -> {"none", "create", "update", "delete"}]
  BY DEF IInv, TypeOK
<1>2. copy[t].desired # NULL
  BY DEF IInv, OwnIsPresent, Update
<1> DEFINE row == [copy[t] EXCEPT !.applied = "present"]
<1>3. row.desired = copy[t].desired /\ row.id = copy[t].id /\ row.current = copy[t].current
  BY <1>1 DEF CopyRow
<1>4. copy' = [copy EXCEPT ![t] = row] /\ op[t] # "none"
      /\ UNCHANGED <<calendar, worker, live, condemned>>
      /\ \A u \in Targets : op'[u] \in {op[u], "none"}
  BY <1>1 DEF Update
<1> HIDE DEF row
<1> QED
  BY <1>2, <1>3, <1>4, RowStep

LEMMA DeleteInv == ASSUME IInv, TypeOK', NEW t \in Targets, Delete(t) PROVE IInv'
<1>0. copy \in [Targets -> CopyRow] /\ copy[t] \in CopyRow
      /\ op \in [Targets -> {"none", "create", "update", "delete"}]
      /\ op' = [op EXCEPT ![t] = "none"] /\ op[t] = "delete"
      /\ UNCHANGED <<calendar, worker>>
  BY DEF IInv, TypeOK, Delete
<1> DEFINE row == [copy[t] EXCEPT !.applied = "absent", !.current = "absent",
                                  !.id = IF @ = "own" THEN "past" ELSE @,
                                  !.echo = @ \/ copy[t].id = "own"]
<1>1. copy' = [copy EXCEPT ![t] = row]
  BY DEF Delete
<1>2. row.desired = copy[t].desired /\ row.id # "own"
      /\ (row.id # copy[t].id => copy[t].id = "own")
  BY <1>0 DEF CopyRow
<1> HIDE DEF row
<1>3. \/ UNCHANGED <<live, condemned>> /\ copy[t].id # "own"
      \/ live' = live \ {t} /\ condemned' = condemned \ {t}
  BY DEF Delete, Burn
<1>4. \A u \in Targets : copy'[u].id = "own" => copy[u].id = "own" /\ copy'[u] = copy[u]
  BY <1>0, <1>1, <1>2
<1>5. \A u \in Targets : copy'[u].desired = copy[u].desired
        /\ (u # t => copy'[u] = copy[u])
  BY <1>0, <1>1, <1>2
<1>6. UnbornIsEmpty'
  BY <1>0, <1>5 DEF IInv, UnbornIsEmpty, Targets
<1>7. OwnIsPresent'
  BY <1>0, <1>4 DEF IInv, OwnIsPresent
<1>8. ScannedIsKnown' /\ PurgedIsClosed'
  BY <1>0, <1>1, <1>2, <1>3, <1>5 DEF IInv, ScannedIsKnown, PurgedIsClosed, Targets
<1> QED
  BY <1>6, <1>7, <1>8 DEF IInv

LEMMA DeleteOrphanInv == ASSUME IInv, TypeOK', NEW t \in Targets, DeleteOrphan(t) PROVE IInv'
<1>0. copy \in [Targets -> CopyRow] /\ copy[t] \in CopyRow /\ t \in condemned
      /\ UNCHANGED <<op, calendar, worker>>
      /\ live' = live \ {t} /\ condemned' = condemned \ {t}
  BY DEF IInv, TypeOK, DeleteOrphan, Burn
<1>1. CASE copy[t].id = "own"
  <2> DEFINE row == [copy[t] EXCEPT !.id = "past", !.echo = TRUE]
  <2>1. copy' = [copy EXCEPT ![t] = row]
    BY <1>1 DEF DeleteOrphan
  <2>2. row.desired = copy[t].desired /\ row.id # "own"
    BY <1>0 DEF CopyRow
  <2> HIDE DEF row
  <2>3. copy[t].desired # NULL
    BY <1>1 DEF IInv, OwnIsPresent
  <2> QED
    BY <1>0, <2>1, <2>2, <2>3, RowStep
<1>2. CASE copy[t].id # "own"
  <2>1. UNCHANGED copy
    BY <1>2 DEF DeleteOrphan
  <2>2. UnbornIsEmpty' /\ ScannedIsKnown' /\ PurgedIsClosed'
    BY <1>0, <2>1 DEF IInv, UnbornIsEmpty, ScannedIsKnown, PurgedIsClosed
  <2>3. OwnIsPresent'
    BY <1>0, <2>1 DEF IInv, OwnIsPresent
  <2> QED
    BY <2>2, <2>3 DEF IInv
<1> QED
  BY <1>1, <1>2

(* The planner keeps every id on record, and makes no row for a calendar   *)
(* that is not active.                                                     *)
LEMMA PlannedInv ==
  ASSUME IInv, TypeOK', copy' = Planned, UNCHANGED <<op, live, condemned, calendar>>,
         worker'.key = worker.key, worker'.todo = worker.todo
  PROVE  IInv'
<1>1. UnbornIsEmpty'
  <2>1. ASSUME NEW c \in Clients, calendar[c] = "unborn"
        PROVE  Planned[c].desired = NULL /\ Planned[c].id = "none"
    BY <2>1, PlannedKeeps DEF IInv, UnbornIsEmpty, Active, Departing, Targets
  <2> QED
    BY <2>1 DEF IInv, UnbornIsEmpty
<1>2. OwnIsPresent'
  BY PlannedKeeps DEF IInv, OwnIsPresent
<1>3. ScannedIsKnown' /\ PurgedIsClosed'
  <2>1. ASSUME NEW c \in Clients, copy[c].id = "own" PROVE Planned[c].id = "own"
    BY <2>1, PlannedKeeps DEF IInv, OwnIsPresent, Targets
  <2> QED
    BY <2>1 DEF IInv, ScannedIsKnown, PurgedIsClosed
<1> QED
  BY <1>1, <1>2, <1>3 DEF IInv

LEMMA PlanInv == ASSUME IInv, TypeOK', Plan PROVE IInv'
<1>1. worker'.key = worker.key /\ worker'.todo = worker.todo
  BY DEF IInv, TypeOK, Worker, Plan
<1>2. CASE "read" \in event.queued
  BY <1>1, <1>2, PlannedInv DEF Plan
<1>3. CASE "read" \notin event.queued
  BY <1>1, <1>3, Untouched DEF Plan
<1> QED
  BY <1>2, <1>3

LEMMA PassInv == ASSUME IInv, TypeOK', PassStep PROVE IInv'
<1>1. CASE ReadQueue
  <2>1. worker'.key = worker.key /\ worker'.todo = worker.todo
    BY <1>1 DEF IInv, TypeOK, Worker, ReadQueue
  <2> QED
    BY <1>1, <2>1, Untouched DEF ReadQueue
<1>2. CASE EndPass
  <2>1. worker'.key = NULL /\ worker'.todo = {}
    BY <1>2 DEF EndPass, Idle
  <2> QED
    BY <1>2, <2>1, Untouched DEF EndPass
<1> QED
  BY <1>1, <1>2, StartInv, ListCopyInv, DiscoverInv, DiffInv, CreateInv, UpdateInv,
     DeleteInv, DeleteOrphanInv, PlanInv, RecordInv DEF PassStep

(* Nothing is deleted from the tables that knows of a copy.                *)
LEMMA HardDeleteInv == ASSUME IInv, TypeOK', HardDelete PROVE IInv'
<1>0. /\ copy' = [t \in Targets |-> NoRow] /\ op' = [t \in Targets |-> "none"]
      /\ UNCHANGED <<live, condemned, calendar, worker>> /\ Drained
  BY DEF HardDelete
<1>1. NoRow.id = "none" /\ NoRow.desired = NULL
  BY DEF NoRow
<1>2. UnbornIsEmpty'
  BY <1>0, <1>1 DEF IInv, UnbornIsEmpty, Targets
<1>3. OwnIsPresent'
  BY <1>0, <1>1 DEF OwnIsPresent
<1>4. ScannedIsKnown' /\ PurgedIsClosed'
  <2>1. ASSUME NEW c \in Clients, calendar[c] = "scanned" PROVE copy[c].id # "own"
    BY <1>0, <2>1 DEF IInv, OwnIsPresent, Drained, Targets
  <2> QED
    BY <1>0, <2>1 DEF IInv, ScannedIsKnown, PurgedIsClosed, Targets
<1> QED
  BY <1>2, <1>3, <1>4 DEF IInv

LEMMA PurgeInv == ASSUME IInv, TypeOK', NEW c \in Clients, Purge(c) PROVE IInv'
<1>0. /\ calendar \in [Clients -> CalendarStates] /\ calendar' = [calendar EXCEPT ![c] = "purged"]
      /\ UNCHANGED <<copy, op, live, condemned, worker>>
      /\ calendar[c] = "scanned" /\ op[c] = "none" /\ ~Needed(c)
  BY DEF IInv, TypeOK, Purge
<1>1. copy[c].id # "own" /\ c \notin condemned
  BY <1>0 DEF IInv, OwnIsPresent, Needed, Targets
<1>2. c \notin live
  BY <1>0, <1>1 DEF IInv, ScannedIsKnown
<1>3. \A d \in Clients : d # c => calendar'[d] = calendar[d]
  BY <1>0
<1>4. UnbornIsEmpty' /\ ScannedIsKnown' /\ PurgedIsClosed'
  BY <1>0, <1>2, <1>3 DEF IInv, UnbornIsEmpty, ScannedIsKnown, PurgedIsClosed
<1>5. OwnIsPresent'
  BY <1>0, <1>3 DEF IInv, OwnIsPresent
<1> QED
  BY <1>4, <1>5 DEF IInv

LEMMA ConnectInv == ASSUME IInv, TypeOK', NEW c \in Clients, Connect(c) PROVE IInv'
<1>0. /\ calendar \in [Clients -> CalendarStates] /\ calendar' = [calendar EXCEPT ![c] = "active"]
      /\ UNCHANGED <<copy, op, live, condemned, worker>> /\ calendar[c] = "unborn"
  BY DEF IInv, TypeOK, Connect
<1>1. UnbornIsEmpty' /\ ScannedIsKnown' /\ PurgedIsClosed'
  BY <1>0 DEF IInv, UnbornIsEmpty, ScannedIsKnown, PurgedIsClosed
<1>2. OwnIsPresent'
  BY <1>0 DEF IInv, OwnIsPresent
<1> QED
  BY <1>1, <1>2 DEF IInv

LEMMA ClearCopiesInv == ASSUME IInv, TypeOK', NEW c \in Clients, ClearCopies(c) PROVE IInv'
<1>0. /\ calendar \in [Clients -> CalendarStates] /\ calendar' = [calendar EXCEPT ![c] = "cleared"]
      /\ UNCHANGED <<op, live, condemned, worker>> /\ calendar[c] = "closing"
      /\ copy \in [Targets -> CopyRow] /\ copy[c] \in CopyRow /\ copy' = CleanedUp(c)
  BY DEF IInv, TypeOK, ClearCopies, Targets
<1>1. \A t \in Targets : /\ copy'[t].id = copy[t].id /\ copy'[t].current = copy[t].current
                         /\ t # c => copy'[t] = copy[t]
                         /\ copy[t].desired # NULL => copy'[t].desired # NULL
  BY <1>0, CustodyAssumption DEF CleanedUp, CopyRow
<1>2. UnbornIsEmpty' /\ ScannedIsKnown' /\ PurgedIsClosed'
  BY <1>0, <1>1 DEF IInv, UnbornIsEmpty, ScannedIsKnown, PurgedIsClosed, Targets
<1>3. OwnIsPresent'
  BY <1>0, <1>1 DEF IInv, OwnIsPresent
<1> QED
  BY <1>2, <1>3 DEF IInv

(* The other statements of a disconnect write no projection.               *)
LEMMA DepartingInv ==
  ASSUME IInv, TypeOK', NEW c \in Clients, Cleanup(c) \/ QueueEvent(c)
  PROVE  IInv'
<1>0. /\ calendar \in [Clients -> CalendarStates]
      /\ UNCHANGED <<copy, op, live, condemned, worker>> /\ calendar[c] \in {"active", "cleared"}
      /\ \E state \in Departing : calendar' = [calendar EXCEPT ![c] = state]
  BY DEF IInv, TypeOK, Cleanup, QueueEvent, Departing
<1>1. UnbornIsEmpty' /\ ScannedIsKnown' /\ PurgedIsClosed'
  BY <1>0 DEF IInv, UnbornIsEmpty, ScannedIsKnown, PurgedIsClosed, Departing
<1>2. OwnIsPresent'
  BY <1>0 DEF IInv, OwnIsPresent
<1> QED
  BY <1>1, <1>2 DEF IInv

LEMMA DeactivateInv == ASSUME IInv, TypeOK', NEW c \in Clients, Deactivate(c) PROVE IInv'
<1>0. /\ calendar \in [Clients -> CalendarStates] /\ calendar' = [calendar EXCEPT ![c] = "inactive"]
      /\ UNCHANGED <<copy, op, live, condemned, worker>> /\ calendar[c] = "leaving"
  BY DEF IInv, TypeOK, Deactivate
<1>1. UnbornIsEmpty' /\ ScannedIsKnown' /\ PurgedIsClosed'
  BY <1>0 DEF IInv, UnbornIsEmpty, ScannedIsKnown, PurgedIsClosed
<1>2. OwnIsPresent'
  BY <1>0 DEF IInv, OwnIsPresent
<1> QED
  BY <1>1, <1>2 DEF IInv

LEMMA CrashInv == ASSUME IInv, TypeOK', Crash PROVE IInv'
<1>0. /\ UNCHANGED <<copy, op, live, condemned>> /\ worker' = Idle
      /\ \A c \in Clients : calendar'[c] = calendar[c] \/ calendar'[c] = "active"
      /\ \A c \in Clients : calendar'[c] \in {"unborn", "inactive", "scanned", "purged"}
                             => calendar'[c] = calendar[c]
      /\ \A c \in Clients : calendar[c] = "purged" => calendar'[c] = "purged"
  BY DEF Crash, Departing, IInv, TypeOK
<1>1. worker'.key = NULL /\ worker'.todo = {}
  BY <1>0 DEF Idle
<1>2. UnbornIsEmpty'
  BY <1>0, <1>1, CustodyAssumption DEF IInv, UnbornIsEmpty, Targets
<1>3. OwnIsPresent'
  BY <1>0 DEF IInv, OwnIsPresent
<1>4. ScannedIsKnown' /\ PurgedIsClosed'
  BY <1>0 DEF IInv, ScannedIsKnown, PurgedIsClosed
<1> QED
  BY <1>2, <1>3, <1>4 DEF IInv

LEMMA NextInv == IInv /\ [Next]_vars => IInv'
<1> SUFFICES ASSUME IInv, [Next]_vars PROVE IInv'
  OBVIOUS
<1>0. TypeOK'
  BY NextType DEF IInv
<1>1. CASE PassStep
  BY <1>0, <1>1, PassInv
<1>2. CASE Expire \/ SourceChange \/ Grow \/ UNCHANGED vars
  BY <1>0, <1>2, Untouched DEF Expire, SourceChange, Grow, vars
<1>3. CASE PlanExpired
  BY <1>0, <1>3, PlannedInv DEF PlanExpired
<1>4. CASE HardDelete \/ \E c \in Clients : Purge(c)
  BY <1>0, <1>4, HardDeleteInv, PurgeInv
<1>5. CASE Operator
  BY <1>0, <1>5, ConnectInv, ClearCopiesInv, DepartingInv, DeactivateInv
  DEF Operator, Disconnecting
<1>6. CASE Crash
  BY <1>0, <1>6, CrashInv
<1> QED
  BY <1>1, <1>2, <1>3, <1>4, <1>5, <1>6 DEF Next, Retention

(* A disconnected calendar leaves the table only when nothing of ours is   *)
(* on it, and nothing is put there afterwards: whatever inserts went       *)
(* unrecorded, the scan after the last of them has found them.             *)
THEOREM PurgedClean == Spec => []PurgedIsClean
<1>1. IInv => PurgedIsClean
  BY DEF IInv, PurgedIsClosed, PurgedIsClean
<1> QED
  BY <1>1, InitInv, NextInv, PTL DEF Spec

-----------------------------------------------------------------------------
(* What has settled is shown.                                              *)

(* A row that was deleted took its projections and operations with it.     *)
GoneIsEmpty == event.status = "gone" => \A t \in Targets : copy[t].desired = NULL

(* An insert that awaits its record is still an operation, unless the event*)
(* was deleted from under it.                                              *)
RecordIsPending ==
  worker.pc = "record" =>
    /\ worker.key \in Targets /\ worker.key \in live
    /\ event.status # "gone" => op[worker.key] = "create"

(* The row of target t tells the truth: a recorded copy is there, and a    *)
(* copy that is there is recorded or its insert is still to be made good;  *)
(* an id that is past is of a copy known to have gone; what was applied is *)
(* what is there, or an operation will say so.                             *)
Recorded(t) ==
  /\ copy[t].id = "own" => t \in live
  /\ t \in live /\ event.status # "gone" => op[t] = "create" \/ copy[t].id = "own"
  /\ copy[t].desired = NULL => copy[t] = NoRow /\ op[t] = "none"

IdIsKnown(t) ==
  /\ copy[t].current = "unknown" => copy[t].id = "none"
  /\ copy[t].echo => copy[t].id = "past"
  /\ op[t] = "create" /\ copy[t].id = "past" => copy[t].current = "absent"
  /\ op[t] = "create" /\ copy[t].id = "own" => t \notin condemned

AppliedIsTrue(t) ==
  /\ copy[t].applied = "present" => copy[t].current = "present"
  /\ t \notin adrift /\ copy[t].applied = "present" => copy[t].id = "own"
  /\ t \notin adrift /\ copy[t].applied = "absent" /\ copy[t].id = "own"
       => op[t] \in {"create", "update"}
  /\ t \in Clients /\ calendar[t] = "purged" => copy[t].desired # "present"

Honest(t) == Recorded(t) /\ IdIsKnown(t) /\ AppliedIsTrue(t)

HInv == IInv /\ GoneIsEmpty /\ RecordIsPending /\ \A t \in Targets : Honest(t)

LEMMA HonestMeansShown == HInv => SettledIsShown
<1> SUFFICES ASSUME HInv, NEW t \in Targets, op[t] = "none", ~Diverged(t),
                    t \notin adrift, event.status # "gone"
             PROVE  t \in live <=> copy[t].desired = "present"
  BY DEF SettledIsShown
<1>0. copy[t] \in CopyRow /\ Honest(t)
  BY DEF HInv, IInv, TypeOK
<1>1. t \in live <=> copy[t].id = "own"
  BY <1>0 DEF Honest, Recorded
<1>2. CASE copy[t].desired = NULL
  BY <1>0, <1>1, <1>2, CustodyAssumption DEF Honest, Recorded, NoRow
<1>3. CASE copy[t].desired # NULL
  <2>1. copy[t].applied = copy[t].desired
    BY <1>3 DEF Diverged
  <2> QED
    BY <1>0, <1>1, <1>3, <2>1 DEF Honest, AppliedIsTrue, CopyRow
<1> QED
  BY <1>2, <1>3

LEMMA InitHonest == Init => HInv
<1> SUFFICES ASSUME Init PROVE HInv
  OBVIOUS
<1>1. IInv
  BY InitInv
<1>2. GoneIsEmpty /\ RecordIsPending
  BY DEF Init, GoneIsEmpty, RecordIsPending, Idle
<1>3. ASSUME NEW t \in Targets PROVE Honest(t)
  <2>1. copy[t] = NoRow \/ \E d \in {"present", "absent"} : copy[t] = NewRow(d)
    BY Zenon DEF Init
  <2>2. NoRow.desired = NULL /\ \A d \in {"present", "absent"} : NewRow(d).desired = d
    BY DEF NoRow, NewRow
  <2>3. \A r \in {NoRow, NewRow("present"), NewRow("absent")} :
          r.id = "none" /\ r.current = "unknown" /\ ~r.echo /\ r.applied = NULL
    BY DEF NoRow, NewRow
  <2>4. copy[t].id = "none" /\ ~copy[t].echo /\ copy[t].applied = NULL
        /\ (copy[t].desired = NULL => copy[t] = NoRow)
    BY <2>1, <2>2, <2>3, CustodyAssumption
  <2>5. op[t] = "none" /\ t \notin live /\ (t \in Clients => calendar[t] # "purged")
    BY DEF Init
  <2> QED
    BY <2>4, <2>5, CustodyAssumption DEF Honest, Recorded, IdIsKnown, AppliedIsTrue
<1> QED
  BY <1>1, <1>2, <1>3 DEF HInv

(* A row nobody touched stays honest, as long as its calendar is not purged*)
(* and no deleted event comes back.                                        *)
LEMMA SameRow ==
  ASSUME NEW t \in Targets, Honest(t),
         UNCHANGED <<copy[t], op[t]>>,
         t \in live' <=> t \in live,
         t \in condemned' => t \in condemned,
         t \in adrift' <=> t \in adrift,
         t \in Clients /\ calendar'[t] = "purged" => calendar[t] = "purged",
         event.status = "gone" => event'.status = "gone"
  PROVE  Honest(t)'
  BY DEF Honest, Recorded, IdIsKnown, AppliedIsTrue

(* A step that touches the row of t at most.                               *)
LEMMA OneRow ==
  ASSUME HInv, NEW t \in Targets, Honest(t)',
         \A u \in Targets \ {t} : UNCHANGED <<copy[u], op[u]>>,
         \A u \in Targets \ {t} :
            /\ u \in live' <=> u \in live
            /\ u \in condemned' => u \in condemned
            /\ u \in adrift' <=> u \in adrift,
         \A c \in Clients : c # t /\ calendar'[c] = "purged" => calendar[c] = "purged",
         event.status = "gone" => event'.status = "gone"
  PROVE  \A u \in Targets : Honest(u)'
<1> SUFFICES ASSUME NEW u \in Targets \ {t} PROVE Honest(u)'
  OBVIOUS
<1>1. Honest(u)
  BY DEF HInv
<1> QED
  BY <1>1, SameRow

(* A step that leaves all rows alone, and the operations with them.        *)
LEMMA NoRowTouched ==
  ASSUME HInv, IInv', UNCHANGED <<copy, op, live, adrift>>, condemned' \subseteq condemned,
         \A c \in Clients : calendar'[c] = "purged" => calendar[c] = "purged",
         event'.status = "gone" <=> event.status = "gone",
         worker'.pc = "record" => UNCHANGED <<worker.pc, worker.key>>
  PROVE  HInv'
<1>1. \A t \in Targets : Honest(t)'
  <2> SUFFICES ASSUME NEW t \in Targets PROVE Honest(t)'
    OBVIOUS
  <2>1. Honest(t)
    BY DEF HInv
  <2> QED
    BY <2>1, SameRow
<1>2. GoneIsEmpty' /\ RecordIsPending'
  BY DEF HInv, GoneIsEmpty, RecordIsPending
<1> QED
  BY <1>1, <1>2 DEF HInv

-----------------------------------------------------------------------------
(* The pass, one action at a time.                                         *)
LEMMA ListCopyHonest ==
  ASSUME HInv, IInv', NEW t \in Targets, ListCopy(t) PROVE HInv'
<1>0. copy \in [Targets -> CopyRow] /\ copy[t] \in CopyRow /\ Honest(t)
      /\ UNCHANGED <<op, live, condemned, calendar, worker>>
      /\ Active(t) /\ copy[t].echo
  BY DEF HInv, IInv, TypeOK, ListCopy
<1>1. copy[t].id = "past" /\ copy[t].desired # NULL
  <2>1. copy[t].id = "past"
    BY <1>0 DEF Honest, IdIsKnown
  <2> QED
    BY <1>0, <2>1 DEF Honest, Recorded, NoRow
<1>2. event'.status = "gone" <=> event.status = "gone"
  BY DEF ListCopy, HInv, IInv, TypeOK, EventRow
<1>3. adrift' \in {adrift, adrift \ {t}}
  BY DEF ListCopy
<1>4. CASE copy[t].desired = "present" /\ t # main
  <2>1. copy' = [copy EXCEPT ![t] = Forgotten(copy[t])] /\ adrift' = adrift \ {t}
    BY <1>4 DEF ListCopy
  <2>2. /\ copy'[t].desired = copy[t].desired /\ copy'[t].applied = NULL
        /\ copy'[t].current = "absent" /\ copy'[t].id = "none" /\ ~copy'[t].echo
    BY <1>0, <2>1 DEF Forgotten, CopyRow
  <2>3. t \in Clients => calendar'[t] # "purged"
    BY <1>0 DEF Active, Departing
  <2>4. Honest(t)'
    BY <1>0, <1>1, <1>2, <2>2, <2>3, CustodyAssumption
    DEF Honest, Recorded, IdIsKnown, AppliedIsTrue
  <2>5. \A u \in Targets : copy'[u].desired = copy[u].desired /\ (u # t => copy'[u] = copy[u])
    BY <1>0, <2>1, <2>2
  <2>6. \A u \in Targets : Honest(u)'
    BY <1>0, <1>2, <2>1, <2>4, <2>5, OneRow
  <2> QED
    BY <1>0, <1>2, <2>5, <2>6 DEF HInv, GoneIsEmpty, RecordIsPending
<1>5. CASE ~(copy[t].desired = "present" /\ t # main)
  <2>1. copy' = [copy EXCEPT ![t] = [@ EXCEPT !.echo = FALSE]] /\ adrift' = adrift
    BY <1>5 DEF ListCopy
  <2>2. /\ copy'[t].desired = copy[t].desired /\ copy'[t].applied = copy[t].applied
        /\ copy'[t].current = copy[t].current /\ copy'[t].id = copy[t].id /\ ~copy'[t].echo
    BY <1>0, <2>1 DEF CopyRow
  <2>4. Honest(t)'
    BY <1>0, <1>1, <1>2, <2>1, <2>2 DEF Honest, Recorded, IdIsKnown, AppliedIsTrue
  <2>5. \A u \in Targets : copy'[u].desired = copy[u].desired /\ (u # t => copy'[u] = copy[u])
    BY <1>0, <2>1, <2>2
  <2>6. \A u \in Targets : Honest(u)'
    BY <1>0, <1>2, <2>1, <2>4, <2>5, OneRow
  <2> QED
    BY <1>0, <1>2, <2>5, <2>6 DEF HInv, GoneIsEmpty, RecordIsPending
<1> QED
  BY <1>4, <1>5

(* A copy that is linked again has its insert pending; one that is         *)
(* condemned has an id of its own on record, which is past.                *)
LEMMA DiscoverHonest ==
  ASSUME HInv, IInv', NEW t \in Targets, Discover(t) PROVE HInv'
<1>0. copy \in [Targets -> CopyRow] /\ copy[t] \in CopyRow /\ Honest(t)
      /\ UNCHANGED <<op, live, event, adrift>>
      /\ calendar \in [Clients -> CalendarStates] /\ worker \in Worker
  BY DEF HInv, IInv, TypeOK, Discover
<1>1. worker'.pc = "ingest"
  BY <1>0 DEF Discover, Worker
<1>2. \A c \in Clients : calendar'[c] = "purged" => calendar[c] = "purged"
  BY <1>0 DEF Discover
<1>3. CASE t \notin live \/ copy[t].id = "own" \/ t \in condemned
  <2>1. UNCHANGED <<copy, condemned>>
    BY <1>3 DEF Discover
  <2> QED
    BY <1>0, <1>1, <1>2, <2>1, NoRowTouched
<1>4. CASE ~(t \notin live \/ copy[t].id = "own" \/ t \in condemned) /\ Relinkable(t)
  <2>1. copy' = [copy EXCEPT ![t] = [@ EXCEPT !.id = "own", !.current = "present", !.echo = FALSE]]
        /\ UNCHANGED condemned
    BY <1>4 DEF Discover, Relink
  <2>2. /\ copy'[t].desired = copy[t].desired /\ copy'[t].applied = copy[t].applied
        /\ copy'[t].current = "present" /\ copy'[t].id = "own" /\ ~copy'[t].echo
    BY <1>0, <2>1 DEF CopyRow
  <2>3. event.status # "gone" /\ copy[t].desired # NULL
    BY <1>4 DEF Relinkable, HInv, GoneIsEmpty
  <2>4. op[t] = "create" /\ t \in live /\ t \notin condemned
    BY <1>0, <1>4, <2>3 DEF Honest, Recorded
  <2>5. Honest(t)'
    BY <1>0, <1>2, <2>1, <2>2, <2>3, <2>4 DEF Honest, Recorded, IdIsKnown, AppliedIsTrue
  <2>6. \A u \in Targets : copy'[u].desired = copy[u].desired /\ (u # t => copy'[u] = copy[u])
    BY <1>0, <2>1, <2>2
  <2>7. \A u \in Targets : Honest(u)'
    BY <1>0, <1>2, <2>1, <2>5, <2>6, OneRow
  <2> QED
    BY <1>0, <1>1, <2>6, <2>7 DEF HInv, GoneIsEmpty, RecordIsPending
<1>5. CASE ~(t \notin live \/ copy[t].id = "own" \/ t \in condemned) /\ ~Relinkable(t)
  <2>1. condemned' = condemned \cup {t} /\ UNCHANGED copy
    BY <1>5 DEF Discover
  <2>2. Honest(t)'
    BY <1>0, <1>2, <1>5, <2>1 DEF Honest, Recorded, IdIsKnown, AppliedIsTrue
  <2>3. \A u \in Targets : Honest(u)'
    BY <1>0, <1>2, <2>1, <2>2, OneRow
  <2> QED
    BY <1>0, <1>1, <2>1, <2>3 DEF HInv, GoneIsEmpty, RecordIsPending
<1> QED
  BY <1>3, <1>4, <1>5

(* A row that converges as it is has no copy on record; an insert that is  *)
(* enqueued again starts from a row without a copy.                        *)
LEMMA DiffHonest ==
  ASSUME HInv, IInv', NEW t \in Targets, Diff(t) PROVE HInv'
<1>0. copy \in [Targets -> CopyRow] /\ copy[t] \in CopyRow /\ Honest(t)
      /\ UNCHANGED <<event, live, condemned, calendar, worker, adrift>>
      /\ op \in [Targets -> {"none", "create", "update", "delete"}]
      /\ worker.pc = "drain" /\ copy[t].desired # NULL /\ copy[t].applied # copy[t].desired
  BY DEF HInv, IInv, TypeOK, Diff, Diverged
<1>1. t \in Clients => calendar[t] # "unborn"
  BY <1>0 DEF HInv, IInv, UnbornIsEmpty
<1>2. copy[t].id = "own" => copy[t].current = "present" /\ (t \in Clients => calendar[t] # "purged")
  BY <1>0 DEF HInv, IInv, OwnIsPresent, PurgedIsClosed, Honest, Recorded
<1>3. CASE Nothing(t)
  <2>1. copy' = [copy EXCEPT ![t] = [@ EXCEPT !.applied = copy[t].desired, !.current = "absent"]]
        /\ UNCHANGED op
    BY <1>3 DEF Diff
  <2>2. copy[t].desired = "absent" /\ copy[t].id # "own"
    BY <1>0, <1>1, <1>2, <1>3 DEF Nothing, Known, Honest, AppliedIsTrue, CopyRow
  <2>3. /\ copy'[t].desired = "absent" /\ copy'[t].applied = "absent"
        /\ copy'[t].current = "absent" /\ copy'[t].id = copy[t].id
        /\ copy'[t].echo <=> copy[t].echo
    BY <1>0, <2>1, <2>2 DEF CopyRow
  <2>4. Honest(t)'
    BY <1>0, <2>1, <2>2, <2>3, CustodyAssumption
    DEF Honest, Recorded, IdIsKnown, AppliedIsTrue
  <2>5. \A u \in Targets : copy'[u].desired = copy[u].desired /\ (u # t => copy'[u] = copy[u])
    BY <1>0, <2>1, <2>2, <2>3
  <2>6. \A u \in Targets : Honest(u)'
    BY <1>0, <2>1, <2>4, <2>5, OneRow
  <2> QED
    BY <1>0, <2>5, <2>6 DEF HInv, GoneIsEmpty, RecordIsPending
<1>4. CASE ~Nothing(t)
  <2>1. op' = [op EXCEPT ![t] = OpFor(t)] /\ UNCHANGED copy
    BY <1>4 DEF Diff
  <2>2. op'[t] = OpFor(t) /\ \A u \in Targets : u # t => op'[u] = op[u]
    BY <1>0, <2>1
  <2>3. /\ OpFor(t) = "create" => copy[t].id # "own" /\ (copy[t].id = "past" => copy[t].current = "absent")
        /\ OpFor(t) # "create" /\ op[t] = "create" => copy[t].id = "own"
    BY <1>0, <1>2, <1>4 DEF OpFor, Nothing, Honest, IdIsKnown, CopyRow
  <2>4. copy[t].applied = "absent" => OpFor(t) \in {"create", "update"}
    BY <1>0 DEF OpFor, CopyRow
  <2>5. Honest(t)'
    BY <1>0, <2>1, <2>2, <2>3, <2>4 DEF Honest, Recorded, IdIsKnown, AppliedIsTrue
  <2>6. \A u \in Targets : Honest(u)'
    BY <1>0, <2>1, <2>2, <2>5, OneRow
  <2> QED
    BY <1>0, <2>1, <2>6 DEF HInv, GoneIsEmpty, RecordIsPending
<1> QED
  BY <1>3, <1>4

LEMMA CreateHonest ==
  ASSUME HInv, IInv', NEW t \in Targets, Create(t) PROVE HInv'
<1>0. /\ UNCHANGED <<event, copy, op, condemned, adrift>> /\ op[t] = "create"
      /\ live' = live \cup {t} /\ Honest(t) /\ worker \in Worker /\ worker.pc = "drain"
      /\ calendar \in [Clients -> CalendarStates]
  BY DEF HInv, IInv, TypeOK, Create
<1>1. \A c \in Clients : calendar'[c] = "purged" => calendar[c] = "purged"
  BY <1>0 DEF Create
<1>2. Honest(t)'
  BY <1>0, <1>1 DEF Honest, Recorded, IdIsKnown, AppliedIsTrue
<1>3. \A u \in Targets : Honest(u)'
  BY <1>0, <1>1, <1>2, OneRow
<1>4. worker'.pc = "record" => worker'.key = t
  <2>1. CASE worker' = [worker EXCEPT !.pc = "record", !.key = t]
    BY <1>0, <2>1 DEF Worker
  <2>2. CASE worker' = [worker EXCEPT !.todo = @ \cup {t}]
    BY <1>0, <2>2 DEF Worker
  <2> QED
    BY <2>1, <2>2 DEF Create
<1> QED
  BY <1>0, <1>3, <1>4 DEF HInv, GoneIsEmpty, RecordIsPending

LEMMA RecordHonest == ASSUME HInv, IInv', Record PROVE HInv'
<1>0. PICK t \in Targets : t = worker.key
  BY DEF HInv, RecordIsPending, Record
<1>1. copy \in [Targets -> CopyRow] /\ worker \in Worker
      /\ op \in [Targets -> {"none", "create", "update", "delete"}]
      /\ UNCHANGED <<event, live, condemned, calendar, adrift>>
      /\ op' = [op EXCEPT ![t] = "none"] /\ worker.pc = "record"
  BY <1>0 DEF HInv, IInv, TypeOK, Record
<1>2. worker'.pc = "drain"
  BY <1>1 DEF Record, Worker
<1>3. copy[t] \in CopyRow /\ Honest(t) /\ op'[t] = "none"
      /\ \A u \in Targets : u # t => op'[u] = op[u]
  BY <1>1, <1>0 DEF HInv
<1>4. CASE copy[t].desired = NULL
  <2>1. UNCHANGED copy
    BY <1>0, <1>4 DEF Record
  <2>2. Honest(t)'
    BY <1>1, <1>3, <1>4, <2>1 DEF Honest, Recorded, IdIsKnown, AppliedIsTrue
  <2>3. \A u \in Targets : Honest(u)'
    BY <1>1, <1>0, <1>3, <2>1, <2>2, OneRow
  <2> QED
    BY <1>1, <1>2, <2>1, <2>3 DEF HInv, GoneIsEmpty, RecordIsPending
<1>5. CASE copy[t].desired # NULL
  <2>1. copy' = [copy EXCEPT ![t] = [@ EXCEPT !.id = "own", !.current = "present",
                                              !.applied = "present", !.echo = FALSE]]
    BY <1>0, <1>5 DEF Record
  <2>2. /\ copy'[t].desired = copy[t].desired /\ copy'[t].applied = "present"
        /\ copy'[t].current = "present" /\ copy'[t].id = "own" /\ ~copy'[t].echo
    BY <1>1, <1>0, <1>3, <2>1 DEF CopyRow
  <2>3. event.status # "gone"
    BY <1>0, <1>5 DEF HInv, GoneIsEmpty
  <2>4. op[t] = "create"
    BY <1>1, <1>0, <2>3 DEF HInv, RecordIsPending
  <2>5. t \in live
    BY <1>1, <1>0 DEF HInv, RecordIsPending
  <2>6. Honest(t)'
    BY <1>1, <1>3, <1>5, <2>2, <2>5 DEF Honest, Recorded, IdIsKnown, AppliedIsTrue
  <2>7. \A u \in Targets : copy'[u].desired = copy[u].desired /\ (u # t => copy'[u] = copy[u])
    BY <1>1, <1>0, <2>1, <2>2
  <2>8. \A u \in Targets : Honest(u)'
    BY <1>1, <1>0, <1>3, <2>1, <2>6, <2>7, OneRow
  <2> QED
    BY <1>1, <1>2, <2>7, <2>8 DEF HInv, GoneIsEmpty, RecordIsPending
<1> QED
  BY <1>4, <1>5

LEMMA UpdateHonest ==
  ASSUME HInv, IInv', NEW t \in Targets, Update(t) PROVE HInv'
<1>0. copy \in [Targets -> CopyRow] /\ copy[t] \in CopyRow /\ Honest(t)
      /\ UNCHANGED <<event, live, condemned, calendar, worker, adrift>>
      /\ op \in [Targets -> {"none", "create", "update", "delete"}]
      /\ op' = [op EXCEPT ![t] = "none"] /\ op[t] = "update"
      /\ copy' = [copy EXCEPT ![t] = [@ EXCEPT !.applied = "present"]]
      /\ copy[t].id = "own" /\ worker.pc = "drain"
  BY DEF HInv, IInv, TypeOK, Update
<1>1. copy[t].current = "present" /\ (t \in Clients => calendar[t] # "purged")
  BY <1>0 DEF HInv, IInv, OwnIsPresent, PurgedIsClosed, Honest, Recorded
<1>2. copy[t].desired # NULL
  BY <1>0 DEF HInv, IInv, OwnIsPresent
<1>3. /\ copy'[t].desired = copy[t].desired /\ copy'[t].applied = "present"
      /\ copy'[t].current = "present" /\ copy'[t].id = "own" /\ (copy'[t].echo <=> copy[t].echo)
  BY <1>0, <1>1 DEF CopyRow
<1>4. op'[t] = "none" /\ \A u \in Targets : u # t => op'[u] = op[u]
  BY <1>0
<1>5. Honest(t)'
  BY <1>0, <1>1, <1>2, <1>3, <1>4 DEF Honest, Recorded, IdIsKnown, AppliedIsTrue
<1>6. \A u \in Targets : copy'[u].desired = copy[u].desired /\ (u # t => copy'[u] = copy[u])
  BY <1>0, <1>3
<1>7. \A u \in Targets : Honest(u)'
  BY <1>0, <1>4, <1>5, <1>6, OneRow
<1> QED
  BY <1>0, <1>6, <1>7 DEF HInv, GoneIsEmpty, RecordIsPending

LEMMA DeleteHonest ==
  ASSUME HInv, IInv', NEW t \in Targets, Delete(t) PROVE HInv'
<1>0. copy \in [Targets -> CopyRow] /\ copy[t] \in CopyRow /\ Honest(t)
      /\ UNCHANGED <<event, calendar, worker, adrift>>
      /\ op \in [Targets -> {"none", "create", "update", "delete"}]
      /\ op' = [op EXCEPT ![t] = "none"] /\ op[t] = "delete"
      /\ worker.pc = "drain"
  BY DEF HInv, IInv, TypeOK, Delete
<1>1. copy[t].desired # NULL
  BY <1>0 DEF Honest, Recorded
<1> DEFINE row == [copy[t] EXCEPT !.applied = "absent", !.current = "absent",
                                  !.id = IF @ = "own" THEN "past" ELSE @,
                                  !.echo = @ \/ copy[t].id = "own"]
<1>2. copy' = [copy EXCEPT ![t] = row]
  BY DEF Delete
<1>3. copy'[t] = row /\ \A u \in Targets : u # t => copy'[u] = copy[u]
  BY <1>0, <1>2
<1>4. /\ copy'[t].desired = copy[t].desired /\ copy'[t].applied = "absent"
      /\ copy'[t].current = "absent"
      /\ copy'[t].id = (IF copy[t].id = "own" THEN "past" ELSE copy[t].id)
      /\ copy'[t].echo <=> (copy[t].echo \/ copy[t].id = "own")
  BY <1>0, <1>3 DEF CopyRow
<1>5. op'[t] = "none" /\ \A u \in Targets : u # t => op'[u] = op[u]
  BY <1>0
<1>6. /\ live' \subseteq live /\ live \subseteq live' \cup {t}
      /\ condemned' \subseteq condemned
      /\ copy[t].id = "own" => t \notin live'
      /\ copy[t].id # "own" => live' = live
  BY DEF Delete, Burn
<1>7. Honest(t)'
  BY <1>0, <1>1, <1>4, <1>5, <1>6 DEF Honest, Recorded, IdIsKnown, AppliedIsTrue
<1>8. \A u \in Targets : copy'[u].desired = copy[u].desired /\ (u # t => copy'[u] = copy[u])
  BY <1>3, <1>4
<1>9. \A u \in Targets : Honest(u)'
  BY <1>0, <1>5, <1>6, <1>7, <1>8, OneRow
<1> QED
  BY <1>0, <1>8, <1>9 DEF HInv, GoneIsEmpty, RecordIsPending

(* The copy of a tombstone goes; if it was adopted meanwhile, the row is   *)
(* adrift until the deletion is listed.                                    *)
LEMMA DeleteOrphanHonest ==
  ASSUME HInv, IInv', NEW t \in Targets, DeleteOrphan(t) PROVE HInv'
<1>0. copy \in [Targets -> CopyRow] /\ copy[t] \in CopyRow /\ Honest(t)
      /\ UNCHANGED <<event, op, calendar, worker>> /\ t \in condemned
      /\ live' = live \ {t} /\ condemned' = condemned \ {t} /\ worker.pc = "drain"
  BY DEF HInv, IInv, TypeOK, DeleteOrphan, Burn
<1>1. CASE copy[t].id = "own"
  <2>1. copy' = [copy EXCEPT ![t] = [@ EXCEPT !.id = "past", !.echo = TRUE]]
        /\ adrift' = adrift \cup {t}
    BY <1>1 DEF DeleteOrphan
  <2>2. /\ copy'[t].desired = copy[t].desired /\ copy'[t].applied = copy[t].applied
        /\ copy'[t].current = copy[t].current /\ copy'[t].id = "past" /\ copy'[t].echo
    BY <1>0, <2>1 DEF CopyRow
  <2>3. op[t] # "create" /\ copy[t].current = "present" /\ copy[t].desired # NULL
    BY <1>0, <1>1 DEF Honest, IdIsKnown, HInv, IInv, OwnIsPresent, PurgedIsClosed, Recorded
  <2>4. Honest(t)'
    BY <1>0, <2>1, <2>2, <2>3 DEF Honest, Recorded, IdIsKnown, AppliedIsTrue
  <2>5. \A u \in Targets : copy'[u].desired = copy[u].desired /\ (u # t => copy'[u] = copy[u])
    BY <1>0, <2>1, <2>2
  <2>6. \A u \in Targets : Honest(u)'
    BY <1>0, <2>1, <2>4, <2>5, OneRow
  <2> QED
    BY <1>0, <2>5, <2>6 DEF HInv, GoneIsEmpty, RecordIsPending
<1>2. CASE copy[t].id # "own"
  <2>1. UNCHANGED <<copy, adrift>>
    BY <1>2 DEF DeleteOrphan
  <2>2. Honest(t)'
    BY <1>0, <1>2, <2>1 DEF Honest, Recorded, IdIsKnown, AppliedIsTrue
  <2>3. \A u \in Targets : Honest(u)'
    BY <1>0, <2>1, <2>2, OneRow
  <2> QED
    BY <1>0, <2>1, <2>3 DEF HInv, GoneIsEmpty, RecordIsPending
<1> QED
  BY <1>1, <1>2

-----------------------------------------------------------------------------
(* The planner, whoever calls it.                                          *)

(* It writes what is desired, and makes rows; never for a calendar that is *)
(* gone from the table.                                                    *)
LEMMA PlannedWritesDesired ==
  ASSUME HInv, NEW t \in Targets
  PROVE  LET row == Planned[t] IN
         /\ \/ row = copy[t]
            \/ /\ copy[t].desired = NULL
               /\ \E d \in {"present", "absent"} : row = NewRow(d)
            \/ /\ copy[t].desired # NULL
               /\ \E d \in {"present", "absent"} : row = [copy[t] EXCEPT !.desired = d]
         /\ row.desired = "present" => copy[t].desired = "present" \/ Active(t)
<1>0. copy[t] \in CopyRow /\ Honest(t)
  BY DEF HInv, IInv, TypeOK
<1>1. CASE event.status \in {"released", "gone"}
  BY <1>1 DEF Planned
<1>2. CASE event.status \notin {"released", "gone"}
  <2> DEFINE d == IF Due(t) THEN "present" ELSE "absent"
  <2>1. d \in {"present", "absent"} /\ (d = "present" => Active(t))
    BY DEF Due
  <2>2. Planned[t] = PlannedRow(t)
    BY <1>2 DEF Planned
  <2>3. PlannedRow(t) = IF copy[t].desired # NULL THEN [copy[t] EXCEPT !.desired = d]
                        ELSE IF Active(t) THEN NewRow(d) ELSE NoRow
    BY Zenon DEF PlannedRow, d
  <2> HIDE DEF d
  <2>4. copy[t].desired = NULL => copy[t] = NoRow
    BY <1>0 DEF Honest, Recorded
  <2>5. [copy[t] EXCEPT !.desired = d].desired = d /\ NewRow(d).desired = d
    BY <1>0, <2>1 DEF CopyRow, NewRow, NoRow
  <2>6. NoRow.desired = NULL
    BY DEF NoRow
  <2>7. CASE copy[t].desired # NULL
    BY <2>1, <2>2, <2>3, <2>5, <2>7
  <2>8. CASE copy[t].desired = NULL
    BY <2>1, <2>2, <2>3, <2>4, <2>5, <2>6, <2>8, CustodyAssumption
  <2> QED
    BY <2>7, <2>8
<1> QED
  BY <1>1, <1>2

LEMMA PlannedHonest ==
  ASSUME HInv, IInv', copy' = Planned, UNCHANGED <<op, live, condemned, calendar, adrift>>,
         event'.status = event.status, worker'.pc # "record" \/ worker' = worker
  PROVE  HInv'
<1>1. ASSUME NEW t \in Targets PROVE Honest(t)'
  <2>0. copy[t] \in CopyRow /\ Honest(t)
    BY DEF HInv, IInv, TypeOK
  <2>1. t \in Clients /\ calendar[t] = "purged" => copy'[t].desired # "present"
    BY <2>0, PlannedWritesDesired DEF Honest, AppliedIsTrue, Active, Departing
  <2>2. CASE copy'[t] = copy[t]
    BY <2>0, <2>1, <2>2 DEF Honest, Recorded, IdIsKnown, AppliedIsTrue
  <2>3. ASSUME copy[t].desired = NULL, NEW d \in {"present", "absent"}, copy'[t] = NewRow(d)
        PROVE  Honest(t)'
    <3>1. copy[t] = NoRow /\ op[t] = "none"
      BY <2>0, <2>3 DEF Honest, Recorded
    <3>2. NewRow(d).desired = d /\ NewRow(d).id = "none" /\ NewRow(d).current = "unknown"
          /\ ~NewRow(d).echo /\ NewRow(d).applied = NULL
      BY <2>3 DEF NewRow, NoRow
    <3>3. NoRow.id = "none"
      BY DEF NoRow
    <3> QED
      BY <2>0, <2>1, <2>3, <3>1, <3>2, <3>3, CustodyAssumption
      DEF Honest, Recorded, IdIsKnown, AppliedIsTrue
  <2>4. ASSUME copy[t].desired # NULL, NEW d \in {"present", "absent"},
               copy'[t] = [copy[t] EXCEPT !.desired = d]
        PROVE  Honest(t)'
    <3>1. /\ copy'[t].desired = d /\ copy'[t].applied = copy[t].applied
          /\ copy'[t].current = copy[t].current /\ copy'[t].id = copy[t].id
          /\ copy'[t].echo <=> copy[t].echo
      BY <2>0, <2>4 DEF CopyRow
    <3> QED
      BY <2>0, <2>1, <2>4, <3>1, CustodyAssumption
      DEF Honest, Recorded, IdIsKnown, AppliedIsTrue
  <2> QED
    BY <2>2, <2>3, <2>4, PlannedWritesDesired
<1>2. event.status = "gone" => Planned = copy
  BY DEF Planned
<1>3. GoneIsEmpty' /\ RecordIsPending'
  BY <1>2 DEF HInv, GoneIsEmpty, RecordIsPending
<1> QED
  BY <1>1, <1>3 DEF HInv

LEMMA PlanHonest == ASSUME HInv, IInv', Plan PROVE HInv'
<1>1. worker'.pc = "drain"
  BY DEF Plan, HInv, IInv, TypeOK, Worker
<1>2. event'.status = event.status
  BY DEF Plan, HInv, IInv, TypeOK, EventRow
<1>3. CASE "read" \in event.queued
  BY <1>1, <1>2, <1>3, PlannedHonest DEF Plan
<1>4. CASE "read" \notin event.queued
  BY <1>1, <1>4, NoRowTouched DEF Plan
<1> QED
  BY <1>3, <1>4

LEMMA PassHonest == ASSUME HInv, IInv', PassStep PROVE HInv'
<1>1. ASSUME NEW scan \in BOOLEAN, StartPass(scan) PROVE HInv'
  <2>1. worker'.pc = "ingest"
    BY <1>1 DEF StartPass, HInv, IInv, TypeOK, Worker
  <2> QED
    BY <1>1, <2>1, NoRowTouched DEF StartPass
<1>2. CASE ReadQueue
  <2>1. worker'.pc = "plan" /\ event'.status = event.status
    BY <1>2 DEF ReadQueue, HInv, IInv, TypeOK, Worker, EventRow
  <2> QED
    BY <1>2, <2>1, NoRowTouched DEF ReadQueue
<1>3. CASE EndPass
  <2>1. worker'.pc = "idle"
    BY <1>3 DEF EndPass, Idle
  <2> QED
    BY <1>3, <2>1, NoRowTouched DEF EndPass
<1> QED
  BY <1>1, <1>2, <1>3, ListCopyHonest, DiscoverHonest, DiffHonest, CreateHonest,
     UpdateHonest, DeleteHonest, DeleteOrphanHonest, PlanHonest, RecordHonest
  DEF PassStep

(* Retention and the operator.                                             *)
LEMMA HardDeleteHonest == ASSUME HInv, IInv', HardDelete PROVE HInv'
<1>0. /\ copy' = [t \in Targets |-> NoRow] /\ op' = [t \in Targets |-> "none"]
      /\ UNCHANGED <<live, condemned, calendar, worker>>
  BY DEF HardDelete
<1>1. event'.status = "gone"
  BY DEF HardDelete, HInv, IInv, TypeOK, EventRow
<1>2. NoRow.desired = NULL /\ NoRow.id = "none" /\ NoRow.current = "unknown"
      /\ ~NoRow.echo /\ NoRow.applied = NULL
  BY DEF NoRow
<1>3. ASSUME NEW t \in Targets PROVE Honest(t)'
  <2>1. copy'[t] = NoRow /\ op'[t] = "none"
    BY <1>0
  <2> QED
    BY <1>0, <1>1, <1>2, <2>1, CustodyAssumption
    DEF Honest, Recorded, IdIsKnown, AppliedIsTrue
<1> QED
  BY <1>0, <1>1, <1>2, <1>3 DEF HInv, GoneIsEmpty, RecordIsPending

(* A calendar that goes from the table has no copy that is wanted: one that*)
(* was applied is known to be there, and one that was not is divergent.    *)
LEMMA PurgeHonest == ASSUME HInv, IInv', NEW c \in Clients, Purge(c) PROVE HInv'
<1>0. /\ UNCHANGED <<event, copy, op, live, condemned, worker, adrift>>
      /\ calendar \in [Clients -> CalendarStates]
      /\ calendar' = [calendar EXCEPT ![c] = "purged"] /\ ~Needed(c)
      /\ c \in Targets /\ Honest(c)
  BY DEF Purge, HInv, IInv, TypeOK, Targets
<1>1. copy[c].desired # "present"
  BY <1>0, CustodyAssumption DEF Needed, Diverged, Honest, AppliedIsTrue
<1>2. Honest(c)'
  BY <1>0, <1>1 DEF Honest, Recorded, IdIsKnown, AppliedIsTrue
<1>3. \A d \in Clients : d # c /\ calendar'[d] = "purged" => calendar[d] = "purged"
  BY <1>0
<1>4. \A u \in Targets : Honest(u)'
  BY <1>0, <1>2, <1>3, OneRow
<1> QED
  BY <1>0, <1>4 DEF HInv, GoneIsEmpty, RecordIsPending

LEMMA ClearCopiesHonest == ASSUME HInv, IInv', NEW c \in Clients, ClearCopies(c) PROVE HInv'
<1>0. /\ UNCHANGED <<op, live, condemned, worker, adrift>> /\ copy' = CleanedUp(c)
      /\ calendar \in [Clients -> CalendarStates] /\ calendar' = [calendar EXCEPT ![c] = "cleared"]
      /\ copy \in [Targets -> CopyRow] /\ copy[c] \in CopyRow /\ c \in Targets /\ Honest(c)
  BY DEF ClearCopies, HInv, IInv, TypeOK, Targets
<1>1. event'.status = "gone" <=> event.status = "gone"
  BY DEF ClearCopies
<1>2. \A d \in Clients : calendar'[d] = "purged" => calendar[d] = "purged"
  BY <1>0
<1>3. CASE copy[c].desired = NULL
  <2>1. UNCHANGED copy
    BY <1>0, <1>3 DEF CleanedUp
  <2> QED
    BY <1>0, <1>1, <1>2, <2>1, NoRowTouched
<1>4. CASE copy[c].desired # NULL
  <2>1. copy' = [copy EXCEPT ![c] = [@ EXCEPT !.desired = "absent"]]
    BY <1>0, <1>4 DEF CleanedUp
  <2>2. /\ copy'[c].desired = "absent" /\ copy'[c].applied = copy[c].applied
        /\ copy'[c].current = copy[c].current /\ copy'[c].id = copy[c].id
        /\ copy'[c].echo <=> copy[c].echo
    BY <1>0, <2>1 DEF CopyRow
  <2>3. Honest(c)'
    BY <1>0, <1>1, <1>2, <2>2, CustodyAssumption
    DEF Honest, Recorded, IdIsKnown, AppliedIsTrue
  <2>4. \A u \in Targets : u # c => copy'[u] = copy[u]
    BY <1>0, <2>1
  <2>5. \A u \in Targets : Honest(u)'
    BY <1>0, <1>1, <1>2, <2>3, <2>4, OneRow
  <2>6. event.status # "gone"
    BY <1>0, <1>4 DEF HInv, GoneIsEmpty
  <2> QED
    BY <1>0, <1>1, <2>5, <2>6 DEF HInv, GoneIsEmpty, RecordIsPending
<1> QED
  BY <1>3, <1>4

(* Steps that write no projection.                                         *)
LEMMA OthersHonest ==
  ASSUME HInv, IInv',
         \/ Expire \/ SourceChange \/ Grow \/ Crash \/ UNCHANGED vars
         \/ \E c \in Clients : Connect(c) \/ Cleanup(c) \/ QueueEvent(c) \/ Deactivate(c)
  PROVE  HInv'
<1>0. event \in EventRow /\ calendar \in [Clients -> CalendarStates]
  BY DEF HInv, IInv, TypeOK
<1>1. CASE Expire
  BY <1>0, <1>1, NoRowTouched DEF Expire, EventRow
<1>2. CASE SourceChange
  <2>1. event'.status # "gone" /\ event.status # "gone"
    BY <1>0, <1>2 DEF SourceChange, EventRow
  <2> QED
    BY <1>2, <2>1, NoRowTouched DEF SourceChange
<1>3. CASE Grow
  BY <1>0, <1>3, NoRowTouched DEF Grow, EventRow
<1>4. CASE Crash
  <2>1. worker'.pc = "idle"
    BY <1>4 DEF Crash, Idle
  <2> QED
    BY <1>4, <2>1, NoRowTouched DEF Crash
<1>5. CASE UNCHANGED vars
  BY <1>5, NoRowTouched DEF vars
<1>6. ASSUME NEW c \in Clients, Connect(c) \/ Deactivate(c) PROVE HInv'
  BY <1>0, <1>6, NoRowTouched DEF Connect, Deactivate
<1>7. ASSUME NEW c \in Clients, Cleanup(c) PROVE HInv'
  BY <1>0, <1>7, NoRowTouched DEF Cleanup, EventRow
<1>8. ASSUME NEW c \in Clients, QueueEvent(c) PROVE HInv'
  BY <1>0, <1>8, NoRowTouched DEF QueueEvent, EventRow
<1> QED
  BY <1>1, <1>2, <1>3, <1>4, <1>5, <1>6, <1>7, <1>8

LEMMA NextHonest == HInv /\ [Next]_vars => HInv'
<1> SUFFICES ASSUME HInv, [Next]_vars PROVE HInv'
  OBVIOUS
<1>0. IInv'
  BY NextInv DEF HInv
<1>1. CASE PlanExpired
  BY <1>0, <1>1, PlannedHonest DEF PlanExpired
<1> QED
  BY <1>0, <1>1, PassHonest, HardDeleteHonest, PurgeHonest, ClearCopiesHonest, OthersHonest
  DEF Next, Retention, Operator, Disconnecting

(* Once nothing is left to do for a copy, it is there iff its projection   *)
(* asks for it: an insert is an operation until it is recorded, and what   *)
(* was applied is known to be there, so a row may only converge as it is   *)
(* when there is nothing of it.                                            *)
THEOREM SettledShown == Spec => []SettledIsShown
  BY InitHonest, NextHonest, HonestMeansShown, PTL DEF Spec

-----------------------------------------------------------------------------
(* The plan is current unless somebody is about to renew it.               *)

(* Retention plans what it cancelled, which nobody releases meanwhile.     *)
PlanningIsOpen == nightly = "plan" => event.status \notin {"released", "gone"}

(* A calendar being disconnected has its event queued, or was planned as   *)
(* one that is connected.                                                  *)
LeavingIsStray ==
  event.queued = {} /\ event.status \notin {"released", "gone"} =>
    \A c \in Clients : calendar[c] = "leaving" => c \in strays

(* The targets an event may be shown on, and what is asked of target t.    *)
Connected == {"active", "closing"}
Open(t) == t # setup.source /\ (t = main \/ calendar[t] \in Connected)
WantedIsOpen(t) == copy[t].desired = "present" => Open(t)
AsAsked(t) ==
  event.queued = {} /\ nightly = "idle" /\ ~CancelUnqueued /\ event.status # "released"
    => (copy[t].desired = "present" <=> event.status = "active" /\ Open(t))

CInv == /\ TypeOK /\ PlanIsCurrent
        /\ GoneIsEmpty /\ PlanningIsOpen /\ LeavingIsStray

LEMMA CurrentByTarget ==
  PlanIsCurrent <=> \A t \in Targets \ strays : WantedIsOpen(t) /\ AsAsked(t)
  BY DEF PlanIsCurrent, WantedIsOpen, AsAsked, Open, Connected

LEMMA InitCurrent == Init => CInv
<1> SUFFICES ASSUME Init PROVE CInv
  OBVIOUS
<1>1. TypeOK
  BY InitType
<1>2. GoneIsEmpty /\ PlanningIsOpen /\ LeavingIsStray
  BY DEF Init, GoneIsEmpty, PlanningIsOpen, LeavingIsStray
<1>3. ASSUME NEW t \in Targets PROVE WantedIsOpen(t) /\ AsAsked(t)
  <2>1. NoRow.desired = NULL /\ \A d \in {"present", "absent"} : NewRow(d).desired = d
    BY DEF NewRow, NoRow
  <2>2. copy[t] = IF t \notin setup.connected \cup {main} THEN NoRow
                  ELSE NewRow(IF t = Source THEN "absent" ELSE "present")
    BY Zenon DEF Init
  <2>3. copy[t].desired = "present" <=> t \in setup.connected \cup {main} /\ t # setup.source
    BY <2>1, <2>2, CustodyAssumption DEF Source
  <2>4. t = main \/ (t \in Clients /\ (calendar[t] \in Connected <=> t \in setup.connected))
    BY DEF Init, Targets, Connected
  <2>5. main \notin Clients /\ setup.connected \subseteq Clients
    BY CustodyAssumption DEF Init, Setup
  <2>6. event.status = "active"
    BY DEF Init
  <2> QED
    BY <2>3, <2>4, <2>5, <2>6 DEF WantedIsOpen, AsAsked, Open
<1>4. PlanIsCurrent
  BY <1>3, CurrentByTarget
<1> QED
  BY <1>1, <1>2, <1>4 DEF CInv

LEMMA SpendKeepsSource ==
  ASSUME TypeOK, NEW what \in {"changes", "faults", "moves"}, Spend(what)
  PROVE  setup'.source = setup.source
  BY DEF TypeOK, Setup, Spend

(* A step that leaves the event, its plan and the calendars alone.         *)
LEMMA SameStep ==
  ASSUME CInv, TypeOK', event'.status = event.status,
         event'.queued = {} => event.queued = {},
         \A t \in Targets : copy'[t].desired = copy[t].desired,
         nightly' = nightly, strays \subseteq strays', setup'.source = setup.source,
         \A c \in Clients :
            /\ c \notin strays' => (calendar'[c] \in Connected <=> calendar[c] \in Connected)
            /\ calendar'[c] = "leaving" => calendar[c] = "leaving"
            /\ calendar[c] \in {"closing", "cleared"} => calendar'[c] \in {"closing", "cleared"}
  PROVE  CInv'
<1>0. CancelUnqueued => CancelUnqueued'
  BY DEF CancelUnqueued, Source, CInv, TypeOK, Setup
<1>1. ASSUME NEW t \in Targets \ strays' PROVE WantedIsOpen(t)' /\ AsAsked(t)'
  <2>1. WantedIsOpen(t) /\ AsAsked(t)
    BY CurrentByTarget DEF CInv
  <2>2. Open(t)' <=> Open(t)
    BY DEF Open, Targets, Connected
  <2> QED
    BY <1>0, <2>1, <2>2 DEF WantedIsOpen, AsAsked
<1>2. PlanIsCurrent'
  BY <1>1 DEF PlanIsCurrent, WantedIsOpen, AsAsked, Open, Connected
<1>3. GoneIsEmpty' /\ PlanningIsOpen' /\ LeavingIsStray'
  BY DEF CInv, GoneIsEmpty, PlanningIsOpen, LeavingIsStray
<1> QED
  BY <1>2, <1>3 DEF CInv

(* A step after which the plan is somebody else's to renew, or nobody's:   *)
(* it may only have taken from it.                                         *)
LEMMA HandedOver ==
  ASSUME CInv, TypeOK',
         event'.queued # {} \/ nightly' = "plan" \/ event'.status = "released",
         event'.status = "gone" => event.status = "gone" /\ UNCHANGED copy,
         nightly' = "plan" => event'.status \notin {"released", "gone"},
         \A t \in Targets \ strays :
           copy'[t].desired = "present" => copy[t].desired = "present" /\ (Open(t) => Open(t)'),
         UNCHANGED strays,
         \/ event'.queued # {} \/ event'.status = "released"
         \/ UNCHANGED <<event.queued, calendar>> /\ event.status \notin {"released", "gone"}
  PROVE  CInv'
<1>1. ASSUME NEW t \in Targets \ strays' PROVE WantedIsOpen(t)' /\ AsAsked(t)'
  <2>1. WantedIsOpen(t)
    BY CurrentByTarget DEF CInv
  <2> QED
    BY <2>1 DEF WantedIsOpen, AsAsked
<1>2. PlanIsCurrent'
  BY <1>1 DEF PlanIsCurrent, WantedIsOpen, AsAsked, Open, Connected
<1>3. GoneIsEmpty' /\ PlanningIsOpen' /\ LeavingIsStray'
  BY DEF CInv, GoneIsEmpty, PlanningIsOpen, LeavingIsStray
<1> QED
  BY <1>2, <1>3 DEF CInv

(* The planner asks of every target what the event asks, but of a calendar *)
(* that is being disconnected, which goes stray.                           *)
LEMMA PlannedIsAsked ==
  ASSUME TypeOK, event.status \notin {"released", "gone"}, NEW t \in Targets,
         t \notin PlannedStrays
  PROVE  Planned[t].desired = "present" <=> event.status = "active" /\ Open(t)
<1>0. copy[t] \in CopyRow
  BY DEF TypeOK
<1> DEFINE d == IF Due(t) THEN "present" ELSE "absent"
<1>1. d = "present" <=> event.status = "active" /\ Open(t)
  <2>1. t \in Clients => calendar[t] \notin {"cleared", "leaving"}
    BY DEF PlannedStrays
  <2>2. Active(t) <=> (t = main \/ calendar[t] \in Connected)
    BY <2>1, CustodyAssumption DEF Active, Targets, Departing, Connected
  <2> QED
    BY <2>2 DEF Due, Open, Source
<1>2. d \in {"present", "absent"} /\ (d = "present" => Active(t))
  BY DEF Due
<1>3. Planned[t] = IF copy[t].desired # NULL THEN [copy[t] EXCEPT !.desired = d]
                   ELSE IF Active(t) THEN NewRow(d) ELSE NoRow
  BY Zenon DEF Planned, PlannedRow, d
<1> HIDE DEF d
<1>4. [copy[t] EXCEPT !.desired = d].desired = d /\ NewRow(d).desired = d
      /\ NoRow.desired = NULL
  BY <1>0 DEF CopyRow, NewRow, NoRow
<1> QED
  BY <1>1, <1>2, <1>3, <1>4, CustodyAssumption

(* Planning makes the plan current, or leaves that of a released event.    *)
LEMMA PlannedCurrent ==
  ASSUME CInv, TypeOK', copy' = Planned, strays' = PlannedStrays,
         UNCHANGED <<calendar, setup>>, event'.status = event.status,
         nightly' # nightly => nightly' = "idle" /\ event.status \notin {"released", "gone"}
  PROVE  CInv'
<1>1. CASE event.status \in {"released", "gone"}
  <2>1. UNCHANGED <<copy, strays>> /\ nightly' = nightly
    BY <1>1 DEF Planned, PlannedStrays
  <2>2. ASSUME NEW t \in Targets \ strays' PROVE WantedIsOpen(t)' /\ AsAsked(t)'
    <3>1. WantedIsOpen(t) /\ (event.status = "gone" => copy[t].desired = NULL)
      BY <2>1, CurrentByTarget DEF CInv, GoneIsEmpty
    <3> QED
      BY <1>1, <2>1, <3>1, CustodyAssumption DEF WantedIsOpen, AsAsked, Open
  <2>3. PlanIsCurrent'
    BY <2>2 DEF PlanIsCurrent, WantedIsOpen, AsAsked, Open, Connected
  <2> QED
    BY <1>1, <2>1, <2>3 DEF CInv, GoneIsEmpty, PlanningIsOpen, LeavingIsStray
<1>2. CASE event.status \notin {"released", "gone"}
  <2>1. ASSUME NEW t \in Targets \ strays' PROVE WantedIsOpen(t)' /\ AsAsked(t)'
    <3>1. copy'[t].desired = "present" <=> event.status = "active" /\ Open(t)
      BY <1>2, <2>1, PlannedIsAsked DEF CInv
    <3>2. Open(t)' <=> Open(t)
      BY DEF Open
    <3> QED
      BY <3>1, <3>2 DEF WantedIsOpen, AsAsked
  <2>2. PlanIsCurrent'
    BY <2>1 DEF PlanIsCurrent, WantedIsOpen, AsAsked, Open, Connected
  <2>3. LeavingIsStray'
    BY <1>2 DEF LeavingIsStray, PlannedStrays
  <2> QED
    BY <1>2, <2>2, <2>3 DEF CInv, GoneIsEmpty, PlanningIsOpen
<1> QED
  BY <1>1, <1>2

(* Steps of the pass that leave what is desired as it is.                  *)
LEMMA PassKeepsDesired ==
  ASSUME TypeOK, NEW t \in Targets,
         ListCopy(t) \/ Discover(t) \/ Diff(t) \/ Create(t) \/ Update(t) \/ Delete(t)
           \/ DeleteOrphan(t)
  PROVE  \A u \in Targets : copy'[u].desired = copy[u].desired
<1>0. copy \in [Targets -> CopyRow] /\ copy[t] \in CopyRow
  BY DEF TypeOK
<1>1. CASE ListCopy(t)
  <2>1. Forgotten(copy[t]).desired = copy[t].desired
        /\ [copy[t] EXCEPT !.echo = FALSE].desired = copy[t].desired
    BY <1>0 DEF Forgotten, CopyRow
  <2>2. copy' = [copy EXCEPT ![t] = Forgotten(@)]
        \/ copy' = [copy EXCEPT ![t] = [@ EXCEPT !.echo = FALSE]]
    BY <1>1, Zenon DEF ListCopy
  <2> QED
    BY <1>0, <2>1, <2>2
<1>2. CASE Discover(t)
  BY <1>0, <1>2 DEF Discover, Relink, CopyRow
<1>3. CASE Diff(t)
  BY <1>0, <1>3 DEF Diff, CopyRow
<1>4. CASE Create(t)
  BY <1>4 DEF Create
<1>5. CASE Update(t)
  BY <1>0, <1>5 DEF Update, CopyRow
<1>6. CASE Delete(t)
  BY <1>0, <1>6 DEF Delete, CopyRow
<1>7. CASE DeleteOrphan(t)
  BY <1>0, <1>7 DEF DeleteOrphan, CopyRow
<1> QED
  BY <1>1, <1>2, <1>3, <1>4, <1>5, <1>6, <1>7

LEMMA PassCurrent == ASSUME CInv, TypeOK', PassStep PROVE CInv'
<1>0. event \in EventRow /\ calendar \in [Clients -> CalendarStates] /\ TypeOK
  BY DEF CInv, TypeOK
<1>1. ASSUME NEW scan \in BOOLEAN, StartPass(scan) PROVE CInv'
  BY <1>1, SameStep DEF StartPass
<1>2. ASSUME NEW t \in Targets, ListCopy(t) PROVE CInv'
  <2>1. \A u \in Targets : copy'[u].desired = copy[u].desired
    BY <1>0, <1>2, PassKeepsDesired
  <2>2. CASE copy[t].desired = "present" /\ t = main
               /\ event.status \in {"active", "cancelled"}
    <3>1. event' = [event EXCEPT !.status = "erased", !.queued = @ \cup {"listed"}]
      BY <1>2, <2>2, Zenon DEF ListCopy
    <3>2. event'.queued # {} /\ event'.status = "erased"
      BY <1>0, <3>1 DEF EventRow
    <3>3. UNCHANGED <<calendar, nightly, strays, setup>>
      BY <1>2 DEF ListCopy
    <3>4. nightly' = "plan" => event'.status \notin {"released", "gone"}
      BY <3>2
    <3> QED
      BY <2>1, <3>2, <3>3, <3>4, HandedOver DEF Open
  <2>3. CASE ~(/\ copy[t].desired = "present" /\ t = main
               /\ event.status \in {"active", "cancelled"})
    <3>1. UNCHANGED <<event, calendar, nightly, strays, setup>>
      BY <1>2, <2>3, Zenon DEF ListCopy
    <3> QED
      BY <2>1, <3>1, SameStep
  <2> QED
    BY <2>2, <2>3
<1>3. ASSUME NEW t \in Targets, Discover(t) PROVE CInv'
  <2>1. \A u \in Targets : copy'[u].desired = copy[u].desired
    BY <1>0, <1>3, PassKeepsDesired
  <2>2. \A c \in Clients : \/ calendar'[c] = calendar[c]
                           \/ calendar[c] = "inactive" /\ calendar'[c] = "scanned"
    BY <1>0, <1>3 DEF Discover
  <2> QED
    BY <1>3, <2>1, <2>2, SameStep DEF Discover, Connected
<1>4. ASSUME NEW t \in Targets,
             Diff(t) \/ Update(t) \/ Delete(t) \/ DeleteOrphan(t)
      PROVE  CInv'
  <2>1. \A u \in Targets : copy'[u].desired = copy[u].desired
    BY <1>0, <1>4, PassKeepsDesired
  <2>2. UNCHANGED <<event, calendar, nightly, strays, setup>>
    BY <1>4 DEF Diff, Update, Delete, DeleteOrphan
  <2> QED
    BY <2>1, <2>2, SameStep
<1>5. ASSUME NEW t \in Targets, Create(t) PROVE CInv'
  <2>1. \A c \in Clients : \/ calendar'[c] = calendar[c]
                           \/ calendar[c] = "scanned" /\ calendar'[c] = "inactive"
    BY <1>0, <1>5 DEF Create
  <2>2. setup'.source = setup.source
    BY <1>0, <1>5, SpendKeepsSource DEF Create
  <2> QED
    BY <1>5, <2>1, <2>2, SameStep DEF Create, Connected
<1>6. CASE ReadQueue
  <2>1. event'.status = event.status /\ (event'.queued = {} => event.queued = {})
    BY <1>0, <1>6 DEF ReadQueue, EventRow
  <2> QED
    BY <1>6, <2>1, SameStep DEF ReadQueue
<1>7. CASE Plan
  <2>1. event'.status = event.status
    BY <1>0, <1>7 DEF Plan, EventRow
  <2>2. CASE "read" \in event.queued
    <3>1. /\ copy' = Planned /\ strays' = PlannedStrays
          /\ calendar' = calendar /\ setup' = setup /\ nightly' = nightly
      BY <1>7, <2>2 DEF Plan
    <3> QED
      BY <2>1, <3>1, PlannedCurrent
  <2>3. CASE "read" \notin event.queued
    BY <1>7, <2>3, SameStep DEF Plan
  <2> QED
    BY <2>2, <2>3
<1>8. CASE Record
  <2>1. \A u \in Targets : copy'[u].desired = copy[u].desired
    BY <1>0, <1>8 DEF Record, TypeOK, CopyRow
  <2> QED
    BY <1>8, <2>1, SameStep DEF Record
<1>9. CASE EndPass
  BY <1>9, SameStep DEF EndPass
<1> QED
  BY <1>1, <1>2, <1>3, <1>4, <1>5, <1>6, <1>7, <1>8, <1>9 DEF PassStep

LEMMA RetentionCurrent == ASSUME CInv, TypeOK', Retention PROVE CInv'
<1>0. event \in EventRow /\ calendar \in [Clients -> CalendarStates]
  BY DEF CInv, TypeOK
<1>1. CASE Expire
  <2>1. UNCHANGED <<copy, calendar, strays, setup>> /\ nightly = "idle"
        /\ event.status \in {"active", "erased"} /\ event'.queued = event.queued
        /\ \/ event'.status = "released" /\ nightly' = "idle"
           \/ event'.status = "cancelled" /\ nightly' = "plan"
    BY <1>0, <1>1 DEF Expire, EventRow
  <2> QED
    BY <2>1, HandedOver DEF Open
<1>2. CASE PlanExpired
  BY <1>2, PlannedCurrent DEF PlanExpired, CInv, PlanningIsOpen
<1>3. CASE HardDelete
  <2>1. event'.status = "gone" /\ UNCHANGED nightly /\ nightly = "idle"
    BY <1>0, <1>3 DEF HardDelete, EventRow
  <2>2. \A t \in Targets : copy'[t].desired = NULL
    BY <1>3 DEF HardDelete, NoRow
  <2>3. PlanIsCurrent'
    BY <2>1, <2>2, CustodyAssumption DEF PlanIsCurrent
  <2> QED
    BY <2>1, <2>2, <2>3 DEF CInv, GoneIsEmpty, PlanningIsOpen, LeavingIsStray
<1>4. ASSUME NEW c \in Clients, Purge(c) PROVE CInv'
  BY <1>0, <1>4, SameStep DEF Purge, Connected
<1> QED
  BY <1>1, <1>2, <1>3, <1>4 DEF Retention

(* A disconnect that cancels the event has yet to queue it.                *)
LEMMA CleanupCurrent == ASSUME CInv, TypeOK', NEW c \in Clients, Cleanup(c) PROVE CInv'
<1>0. /\ calendar \in [Clients -> CalendarStates] /\ calendar' = [calendar EXCEPT ![c] = "closing"]
      /\ event \in EventRow /\ TypeOK /\ calendar[c] = "active"
      /\ UNCHANGED <<copy, nightly, strays>>
  BY DEF CInv, TypeOK, Cleanup
<1>1. setup'.source = setup.source
  BY <1>0, SpendKeepsSource DEF Cleanup
<1>2. /\ event'.queued = event.queued
      /\ \A st \in {"released", "gone"} : event'.status = st <=> event.status = st
      /\ setup.source # c => event'.status = event.status
  BY <1>0 DEF Cleanup, EventRow, Source
<1>3. CASE setup.source # c
  <2>1. \A d \in Clients :
          /\ calendar'[d] \in Connected <=> calendar[d] \in Connected
          /\ calendar'[d] = "leaving" => calendar[d] = "leaving"
          /\ calendar[d] \in {"closing", "cleared"} => calendar'[d] \in {"closing", "cleared"}
    BY <1>0 DEF Connected
  <2> QED
    BY <1>0, <1>1, <1>2, <1>3, <2>1, SameStep
<1>4. CASE setup.source = c
  <2>1. CancelUnqueued'
    BY <1>0, <1>1, <1>4, CustodyAssumption DEF CancelUnqueued, Source, Targets
  <2>2. ASSUME NEW t \in Targets \ strays' PROVE WantedIsOpen(t)' /\ AsAsked(t)'
    <3>1. WantedIsOpen(t)
      BY <1>0, <2>2, CurrentByTarget DEF CInv
    <3>2. Open(t) => Open(t)'
      BY <1>0, <1>1 DEF Open, Connected, Targets
    <3> QED
      BY <1>0, <2>1, <3>1, <3>2 DEF WantedIsOpen, AsAsked
  <2>3. PlanIsCurrent'
    BY <2>2 DEF PlanIsCurrent, WantedIsOpen, AsAsked, Open, Connected
  <2>4. GoneIsEmpty' /\ PlanningIsOpen'
    BY <1>0, <1>2 DEF CInv, GoneIsEmpty, PlanningIsOpen
  <2>5. LeavingIsStray'
    BY <1>0, <1>2 DEF CInv, LeavingIsStray
  <2> QED
    BY <2>3, <2>4, <2>5 DEF CInv
<1> QED
  BY <1>3, <1>4

(* A calendar whose copies are made absent asks for none any more.         *)
LEMMA ClearCopiesCurrent ==
  ASSUME CInv, TypeOK', NEW c \in Clients, ClearCopies(c)
  PROVE  CInv'
<1>0. /\ calendar \in [Clients -> CalendarStates] /\ calendar' = [calendar EXCEPT ![c] = "cleared"]
      /\ copy \in [Targets -> CopyRow] /\ c \in Targets /\ c # main
      /\ calendar[c] = "closing" /\ UNCHANGED <<event, nightly, strays, setup>>
  BY CustodyAssumption DEF CInv, TypeOK, ClearCopies, Targets
<1>1. copy' = IF copy[c].desired = NULL THEN copy
              ELSE [copy EXCEPT ![c] = [@ EXCEPT !.desired = "absent"]]
  BY DEF ClearCopies, CleanedUp
<1>2. /\ copy'[c].desired # "present"
      /\ \A t \in Targets : t # c => copy'[t] = copy[t]
      /\ \A t \in Targets : copy[t].desired = NULL => copy'[t] = copy[t]
  BY <1>0, <1>1, CustodyAssumption DEF CopyRow
<1>3. CancelUnqueued => CancelUnqueued'
  BY <1>0 DEF CancelUnqueued, Source
<1>4. ASSUME NEW t \in Targets \ strays' PROVE WantedIsOpen(t)' /\ AsAsked(t)'
  <2>1. CASE t = c
    <3>1. ~Open(c)'
      BY <1>0 DEF Open, Connected
    <3> QED
      BY <1>2, <2>1, <3>1 DEF WantedIsOpen, AsAsked
  <2>2. CASE t # c
    <3>1. WantedIsOpen(t) /\ AsAsked(t)
      BY <1>0, CurrentByTarget DEF CInv
    <3>2. Open(t)' <=> Open(t)
      BY <1>0, <2>2 DEF Open, Targets, Connected
    <3>3. copy'[t] = copy[t]
      BY <1>2, <2>2
    <3> QED
      BY <1>0, <1>3, <3>1, <3>2, <3>3 DEF WantedIsOpen, AsAsked
  <2> QED
    BY <2>1, <2>2
<1>5. PlanIsCurrent'
  BY <1>4 DEF PlanIsCurrent, WantedIsOpen, AsAsked, Open, Connected
<1>6. LeavingIsStray'
  BY <1>0 DEF CInv, LeavingIsStray
<1>7. GoneIsEmpty' /\ PlanningIsOpen'
  BY <1>0, <1>2 DEF CInv, GoneIsEmpty, PlanningIsOpen
<1> QED
  BY <1>5, <1>6, <1>7 DEF CInv

(* The event of a calendar that leaves is queued, unless it is gone.       *)
LEMMA QueueEventCurrent ==
  ASSUME CInv, TypeOK', NEW c \in Clients, QueueEvent(c)
  PROVE  CInv'
<1>0. /\ calendar \in [Clients -> CalendarStates] /\ calendar' = [calendar EXCEPT ![c] = "leaving"]
      /\ event \in EventRow /\ calendar[c] = "cleared"
      /\ UNCHANGED <<copy, nightly, strays, setup>>
  BY DEF CInv, TypeOK, QueueEvent
<1>1. /\ event'.status = event.status
      /\ event.status # "gone" => event'.queued # {}
      /\ event.status = "gone" => event'.queued = event.queued
  BY <1>0 DEF QueueEvent, EventRow
<1>2. ASSUME NEW t \in Targets \ strays' PROVE WantedIsOpen(t)' /\ AsAsked(t)'
  <2>1. WantedIsOpen(t)
    BY <1>0, CurrentByTarget DEF CInv
  <2>2. Open(t)' <=> Open(t)
    BY <1>0 DEF Open, Targets, Connected
  <2>3. event.status = "gone" => copy[t].desired = NULL
    BY DEF CInv, GoneIsEmpty
  <2> QED
    BY <1>0, <1>1, <2>1, <2>2, <2>3, CustodyAssumption DEF WantedIsOpen, AsAsked
<1>3. PlanIsCurrent'
  BY <1>2 DEF PlanIsCurrent, WantedIsOpen, AsAsked, Open, Connected
<1>4. LeavingIsStray'
  BY <1>1 DEF LeavingIsStray
<1>5. GoneIsEmpty' /\ PlanningIsOpen'
  BY <1>0, <1>1 DEF CInv, GoneIsEmpty, PlanningIsOpen
<1> QED
  BY <1>3, <1>4, <1>5 DEF CInv

LEMMA OperatorCurrent == ASSUME CInv, TypeOK', Operator PROVE CInv'
<1>0. event \in EventRow /\ calendar \in [Clients -> CalendarStates] /\ TypeOK
  BY DEF CInv, TypeOK
<1>1. ASSUME NEW c \in Clients, Connect(c) PROVE CInv'
  <2>1. \A d \in Clients :
          /\ d \notin strays' => calendar'[d] = calendar[d]
          /\ calendar'[d] = "leaving" => calendar[d] = "leaving"
          /\ calendar[d] \in {"closing", "cleared"} => calendar'[d] = calendar[d]
    BY <1>0, <1>1 DEF Connect
  <2>2. setup'.source = setup.source
    BY <1>0, <1>1, SpendKeepsSource DEF Connect
  <2> QED
    BY <1>1, <2>1, <2>2, SameStep DEF Connect
<1>2. ASSUME NEW c \in Clients, Deactivate(c) PROVE CInv'
  BY <1>0, <1>2, SameStep DEF Deactivate, Connected
<1> QED
  BY <1>1, <1>2, CleanupCurrent, ClearCopiesCurrent, QueueEventCurrent
  DEF Operator, Disconnecting

(* A stop takes a calendar that was leaving back among the connected, and  *)
(* the plan of a cancellation with it: such targets are stray.             *)
LEMMA CrashCurrent == ASSUME CInv, TypeOK', Crash PROVE CInv'
<1>0. calendar \in [Clients -> CalendarStates] /\ TypeOK /\ nightly \in {"idle", "plan"}
  BY DEF CInv, TypeOK
<1>1. /\ UNCHANGED <<event, copy>> /\ nightly' = "idle"
      /\ strays' = strays \cup Stranded
      /\ \A c \in Clients : calendar'[c] = IF calendar[c] \in Departing THEN "active" ELSE calendar[c]
  BY DEF Crash
<1>2. setup'.source = setup.source
  BY <1>0, SpendKeepsSource DEF Crash
<1>3. ASSUME NEW t \in Targets \ strays' PROVE WantedIsOpen(t)' /\ AsAsked(t)'
  <2>1. nightly = "idle" /\ t \in Targets \ strays /\ (event.queued = {} => ~CancelUnqueued)
    BY <1>0, <1>1 DEF Stranded
  <2>2. WantedIsOpen(t) /\ AsAsked(t)
    BY <2>1, CurrentByTarget DEF CInv
  <2>3. Open(t) => Open(t)'
    BY <1>1, <1>2 DEF Open, Targets, Connected, Departing
  <2>4. CASE event.status = "gone"
    BY <1>1, <2>4, CustodyAssumption DEF CInv, GoneIsEmpty, WantedIsOpen, AsAsked
  <2>5. CASE event.status # "gone" /\ event.queued = {} /\ event.status # "released"
    <3>1. t \in Clients => calendar[t] # "leaving"
      BY <2>1, <2>5 DEF CInv, LeavingIsStray
    <3>2. t \in Clients => calendar[t] # "cleared"
      BY <1>1, <2>1, <2>5 DEF Stranded
    <3>3. Open(t)' <=> Open(t)
      BY <1>1, <1>2, <3>1, <3>2 DEF Open, Targets, Connected, Departing
    <3> QED
      BY <1>1, <2>1, <2>2, <2>5, <3>3 DEF WantedIsOpen, AsAsked
  <2>6. CASE event.queued # {} \/ event.status = "released"
    BY <1>1, <2>2, <2>3, <2>6 DEF WantedIsOpen, AsAsked
  <2> QED
    BY <2>4, <2>5, <2>6
<1>4. PlanIsCurrent'
  BY <1>3 DEF PlanIsCurrent, WantedIsOpen, AsAsked, Open, Connected
<1>5. LeavingIsStray'
  BY <1>1 DEF LeavingIsStray, Departing
<1> QED
  BY <1>1, <1>4, <1>5 DEF CInv, GoneIsEmpty, PlanningIsOpen

LEMMA NextCurrent == CInv /\ [Next]_vars => CInv'
<1> SUFFICES ASSUME CInv, [Next]_vars PROVE CInv'
  OBVIOUS
<1>0. TypeOK' /\ event \in EventRow /\ TypeOK
  BY NextType DEF CInv, TypeOK
<1>1. CASE SourceChange
  <2>1. event'.queued # {} /\ event'.status \in {"active", "cancelled"}
    BY <1>0, <1>1 DEF SourceChange, EventRow
  <2>2. setup'.source = setup.source
    BY <1>0, <1>1, SpendKeepsSource DEF SourceChange
  <2>3. UNCHANGED <<copy, calendar, nightly, strays>>
    BY <1>1 DEF SourceChange
  <2> QED
    BY <1>0, <2>1, <2>2, <2>3, HandedOver DEF Open
<1>2. CASE Grow
  BY <1>0, <1>2, SameStep DEF Grow, EventRow
<1>3. CASE UNCHANGED vars
  BY <1>0, <1>3, SameStep DEF vars
<1> QED
  BY <1>0, <1>1, <1>2, <1>3, PassCurrent, RetentionCurrent, OperatorCurrent, CrashCurrent
  DEF Next

(* Whatever is not queued for planning is planned as it should be: every   *)
(* step that changes what an event asks for queues it, plans it, or hands  *)
(* it to retention, and what the planner wrote for a calendar on its way   *)
(* out is all that may be wrong.                                           *)
THEOREM PlanCurrent == Spec => []PlanIsCurrent
<1>1. CInv => PlanIsCurrent
  BY DEF CInv
<1> QED
  BY <1>1, InitCurrent, NextCurrent, PTL DEF Spec

=============================================================================
