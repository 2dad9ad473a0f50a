-------------------------- MODULE WriteBackProofs ---------------------------
(***************************************************************************)
(* Proofs about WriteBack, for any responses and times and any number of   *)
(* edits and mishaps.                                                      *)
(***************************************************************************)
EXTENDS WriteBack, TLAPS

-----------------------------------------------------------------------------
(* What is planned and enqueued may be written: a whole body on main, and  *)
(* on the source what the user may change there.                           *)
Full == [rsvp : Rsvps, slot : Slots]
Allowed(body) == body \in Body /\ (event.locked => body.slot = NULL)

Rights ==
  /\ ~event.locked => IsClient
  /\ origin.want # "none" => IsClient
  /\ ops["origin"].kind # "none" => IsClient
  /\ main.want = "present" => main.body \in Full
  /\ ops["main"].kind \in {"create", "update"} => ops["main"].body \in Full
  /\ origin.want = "patch" => Allowed(origin.body)
  /\ ops["origin"].kind = "patch" => Allowed(ops["origin"].body)

(* A source is to be deleted because somebody asked for it, or a deletion  *)
(* was misread; an untouched copy is not gone by anybody's hand.           *)
Causes ==
  /\ row.erase \/ ops["origin"].kind = "delete_source" =>
       /\ ~event.locked /\ ~IsOccurrence /\ event.mode = "on"
       /\ slips # {} \/ asked
  /\ "state" \in copy.touched => asked \/ (IsOccurrence /\ series # "covers")

IInv == TypeOK /\ Rights /\ Causes

Holes == {"echo", "overrun", "halfway", "disarmed", "revived", "coincidence"}

(* The parts of the type invariant, one by one.                            *)
LEMMA Typed ==
  TypeOK <=> /\ event \in Event /\ series \in Coverage
             /\ source \in Source /\ copy \in Copy /\ row \in Row
             /\ main \in Main /\ origin \in Origin
             /\ ops \in [{"main", "origin"} -> Op]
             /\ replan \in BOOLEAN /\ worker \in Worker
             /\ wish \subseteq Rsvps /\ asked \in BOOLEAN /\ slips \subseteq Holes
             /\ budget \in [faults : Nat, edits : Nat]
  BY DEF TypeOK, Worker, Holes

(* A body that is shown is whole, and one that is patched is allowed.      *)
LEMMA Bodies ==
  ASSUME TypeOK, NEW r \in Row
  PROVE  /\ Shown(r) \in Full /\ Shown(r) \in Body
         /\ Allowed(Patch(r)) /\ Patch(r) \in Body
<1>1. Shown(r) \in Full /\ Shown(r) \in Body
  BY DEF Shown, Row, Full, Body
<1>2. CASE event.locked
  <2>1. Patch(r) = [Shown(r) EXCEPT !.slot = NULL]
    BY <1>2 DEF Patch
  <2> QED
    BY <1>1, <1>2, <2>1 DEF Allowed, Body
<1>3. CASE ~event.locked
  BY <1>1, <1>3 DEF Allowed, Patch
<1> QED
  BY <1>1, <1>2, <1>3 DEF Allowed

LEMMA InitInv == Init => IInv
<1> SUFFICES ASSUME Init PROVE IInv
  OBVIOUS
<1>1. /\ event \in Event /\ series \in Coverage
      /\ event.origin = "readonly" => event.locked
  BY DEF Init, Coverage
<1>2. ~event.locked => IsClient
  BY <1>1 DEF IsClient, Event
<1>3. row = [status |-> IF event.shape = "single" THEN "active" ELSE "none",
             rsvp |-> FirstRsvp, slot |-> FirstSlot,
             deleted |-> FALSE, pending |-> FALSE, erase |-> FALSE]
  BY DEF Init
<1>4. row \in Row /\ row.erase = FALSE
  BY <1>3, ConstantsAssumption DEF Row
<1>5. First \in Full /\ First \in Body
  BY ConstantsAssumption DEF First, Full, Body
<1>6. main \in Main /\ (main.want = "present" => main.body \in Full)
  BY <1>5 DEF Init, Main
<1>7. Allowed(Patch(row)) /\ Patch(row) \in Body
  <2>1. Shown(row) \in Body
    BY <1>4 DEF Shown, Row, Body
  <2>2. CASE event.locked
    BY <2>1, <2>2 DEF Allowed, Patch, Body
  <2>3. CASE ~event.locked
    BY <2>1, <2>3 DEF Allowed, Patch
  <2> QED
    BY <2>2, <2>3 DEF Allowed
<1>8. /\ origin \in Origin
      /\ origin.want # "none" => IsClient
      /\ origin.want = "patch" => Allowed(origin.body)
  <2> DEFINE patched == event.shape = "single" /\ event.origin = "client"
             body == IF patched THEN Patch(row) ELSE NULL
  <2>1. origin = [want |-> IF patched THEN "patch" ELSE "none", body |-> body,
                  applied |-> body, synced |-> TRUE]
    BY DEF Init
  <2>2. body \in Body \cup {NULL} /\ (patched => Allowed(body))
    BY <1>7
  <2>3. patched => IsClient
    BY DEF IsClient
  <2> HIDE DEF patched, body
  <2> QED
    BY <2>1, <2>2, <2>3 DEF Origin
<1>9. ops \in [{"main", "origin"} -> Op] /\ \A p \in {"main", "origin"} : ops[p].kind = "none"
  BY DEF Init, NoOp, Op
<1>10. source \in Source /\ copy \in Copy /\ copy.touched = {}
  BY ConstantsAssumption DEF Init, Source, Copy
<1>11. /\ replan \in BOOLEAN /\ worker \in Worker /\ wish \subseteq Rsvps
       /\ asked \in BOOLEAN /\ slips \subseteq Holes
       /\ budget \in [faults : Nat, edits : Nat]
  BY ConstantsAssumption DEF Init, Idle, Worker, Holes
<1>12. TypeOK
  BY <1>1, <1>4, <1>6, <1>8, <1>9, <1>10, <1>11, Typed
<1> QED
  BY <1>2, <1>4, <1>6, <1>8, <1>9, <1>10, <1>12 DEF IInv, Rights, Causes

-----------------------------------------------------------------------------
(* What the steps change, variable by variable.                            *)
LEMMA WorkerStep ==
  ASSUME TypeOK, NEW pc \in {"client", "main", "halfway", "plan", "diff", "drain"},
         NEW p \in {NULL, "main", "origin"}, NEW b \in BOOLEAN
  PROVE  /\ Idle \in Worker /\ [worker EXCEPT !.pc = pc] \in Worker
         /\ [worker EXCEPT !.pc = pc, !.hand = FALSE] \in Worker
         /\ [worker EXCEPT !.pc = pc, !.worked = b] \in Worker
         /\ Sent(p) \in Worker /\ Taken(p) \in Worker
         /\ Sent(p).pc = worker.pc /\ Taken(p).pc = worker.pc
  BY DEF TypeOK, Worker, Idle, Sent, Taken

LEMMA DropStep ==
  ASSUME TypeOK, NEW p \in {"main", "origin"}, DropOp(p)
  PROVE  /\ ops' \in [{"main", "origin"} -> Op]
         /\ ops'[p].kind = "none"
         /\ \A q \in {"main", "origin"} \ {p} : ops'[q] = ops[q]
<1>1. NoOp \in Op /\ NoOp.kind = "none"
  BY DEF NoOp, Op
<1> QED
  BY <1>1 DEF DropOp, TypeOK

LEMMA SlipStep ==
  ASSUME TypeOK, NEW name \in Holes, NEW happens, Slip(name, happens)
  PROVE  slips' \subseteq Holes /\ slips \subseteq slips' /\ (happens => slips' # {})
  BY DEF TypeOK, Slip, Slips, Hole, Holes

(* Whoever keeps rights and causes in what it changes keeps the invariant. *)
LEMMA IngestSourceInv == IInv /\ IngestSource => IInv'
<1> SUFFICES ASSUME IInv, IngestSource PROVE IInv'
  OBVIOUS
<1>1. /\ source' = [source EXCEPT !.unread = FALSE]
      /\ worker' = [worker EXCEPT !.pc = "main", !.hand = FALSE]
      /\ UNCHANGED <<event, series, wish, asked, copy, main, origin, ops, budget>>
  BY DEF IngestSource, people
<1>2. TypeOK
  BY DEF IInv
<1>3. \/ UNCHANGED <<row, replan, slips>>
      \/ /\ replan' = TRUE /\ row' \in {Reread, [row EXCEPT !.status = "cancelled"]}
         /\ Slip("revived", UndoesCancellation)
  BY DEF IngestSource
<1>4. TakenResponse \in Rsvps /\ source.slot \in Slots
  BY <1>2 DEF TypeOK, TakenResponse, Row, Source
<1>5. row' \in Row /\ row'.erase = row.erase /\ replan' \in BOOLEAN
  BY <1>2, <1>3, <1>4 DEF TypeOK, Reread, Row
<1>6. source' \in Source /\ worker' \in Worker
  BY <1>1, <1>2, WorkerStep DEF TypeOK, Source
<1>7. slips' \subseteq Holes /\ slips \subseteq slips'
  BY <1>2, <1>3, SlipStep DEF TypeOK, Holes
<1>8. TypeOK'
  BY <1>1, <1>2, <1>5, <1>6, <1>7 DEF TypeOK, Worker, Holes
<1> QED
  BY <1>1, <1>5, <1>7, <1>8 DEF IInv, Rights, Causes, IsClient, IsOccurrence, Allowed, Full, Body

LEMMA NothingReadStep ==
  ASSUME TypeOK, NothingRead
  PROVE  copy' \in Copy /\ copy'.touched = {} /\ worker' \in Worker
<1>1. copy \in Copy /\ copy' = [copy EXCEPT !.unread = FALSE, !.touched = {}]
  BY DEF NothingRead, TypeOK
<1>2. worker' \in Worker
  BY WorkerStep DEF NothingRead
<1> QED
  BY <1>1, <1>2 DEF Copy

(* A change that is taken from the copy keeps the row's flags.             *)
LEMMA AppliedType ==
  ASSUME TypeOK
  PROVE  Applied \in Row /\ Applied.erase = row.erase /\ Applied.status = row.status
         /\ Applied.deleted = row.deleted
  BY DEF TypeOK, Applied, Row, Copy

(* Reading the copy: what each branch leaves.                              *)
ReadsMain ==
  /\ row' \in Row /\ main' \in Main /\ origin' \in Origin /\ copy' \in Copy
  /\ worker' \in Worker /\ replan' \in BOOLEAN /\ slips' \subseteq Holes
  /\ slips \subseteq slips'
  /\ main'.want = main.want /\ main'.body = main.body
  /\ origin'.want = origin.want /\ origin'.body = origin.body
  /\ row'.erase => row.erase \/ /\ Editable /\ ~IsOccurrence /\ event.mode = "on"
                                /\ slips' # {} \/ asked
  /\ copy'.touched \in {{}, copy.touched}

LEMMA DriftStep ==
  ASSUME TypeOK, RevertDrift \/ UNCHANGED main
  PROVE  main' \in Main /\ main'.want = main.want /\ main'.body = main.body
  BY DEF TypeOK, RevertDrift, Main

LEMMA OccurrenceDeletedReads ==
  ASSUME IInv, OccurrenceDeleted PROVE ReadsMain
<1>1. TypeOK
  BY DEF IInv
<1>2. NothingRead /\ replan' = TRUE /\ UNCHANGED origin
  BY DEF OccurrenceDeleted, Read
<1>3. \/ RevertDrift /\ UNCHANGED row
      \/ row' = [row EXCEPT !.status = "cancelled"] /\ UNCHANGED main
  BY DEF OccurrenceDeleted
<1>4. main' \in Main /\ main'.want = main.want /\ main'.body = main.body
  BY <1>1, <1>3, DriftStep
<1>5. row' \in Row /\ row'.erase = row.erase
  BY <1>1, <1>3 DEF TypeOK, Row
<1>6. slips' \subseteq Holes /\ slips \subseteq slips'
  BY <1>1, SlipStep DEF OccurrenceDeleted, Holes
<1> QED
  BY <1>1, <1>2, <1>4, <1>5, <1>6, NothingReadStep DEF ReadsMain, TypeOK

LEMMA EventDeletedReads ==
  ASSUME IInv, EventDeleted PROVE ReadsMain
<1>1. TypeOK /\ Causes /\ copy.state = "cancelled" /\ ~IsOccurrence
  BY DEF IInv, EventDeleted
<1>2. NothingRead /\ replan' = TRUE /\ UNCHANGED origin
  BY DEF EventDeleted, Read
<1>3. \/ RevertDrift /\ UNCHANGED row
      \/ /\ IsClient /\ UNCHANGED main
         /\ row' = [row EXCEPT !.deleted = TRUE, !.erase = Arms \/ @]
  BY DEF EventDeleted
<1>4. main' \in Main /\ main'.want = main.want /\ main'.body = main.body
  BY <1>1, <1>3, DriftStep
<1>5. slips' \subseteq Holes /\ slips \subseteq slips'
      /\ (IsClient /\ "state" \notin copy.touched => slips' # {})
  BY <1>1, SlipStep DEF EventDeleted, Holes
<1>6. CASE RevertDrift /\ UNCHANGED row
  BY <1>1, <1>2, <1>4, <1>5, <1>6, NothingReadStep DEF ReadsMain, TypeOK
<1>7. CASE IsClient /\ row' = [row EXCEPT !.deleted = TRUE, !.erase = Arms \/ @]
  <2>1. Arms \in BOOLEAN
    BY DEF Arms, Editable, IsClient, IsOccurrence
  <2>2. row \in Row
    BY <1>1 DEF TypeOK
  <2> DEFINE armed == Arms \/ row.erase
  <2>3. row' = [row EXCEPT !.deleted = TRUE, !.erase = armed] /\ armed \in BOOLEAN
    BY <1>7, <2>1, <2>2 DEF Row
  <2> HIDE DEF armed
  <2>4. row' \in Row /\ row'.erase = armed
    BY <2>2, <2>3 DEF Row
  <2>5. slips' # {} \/ asked
    BY <1>1, <1>5, <1>7 DEF Causes
  <2>6. row'.erase => row.erase \/ (Editable /\ ~IsOccurrence /\ event.mode = "on")
    BY <2>4 DEF armed, Arms
  <2> QED
    BY <1>1, <1>2, <1>4, <1>5, <2>4, <2>5, <2>6, NothingReadStep DEF ReadsMain, TypeOK
<1> QED
  BY <1>3, <1>6, <1>7

LEMMA EditedCopyReads ==
  ASSUME IInv, EditedCopy PROVE ReadsMain
<1>1. TypeOK
  BY DEF IInv
<1>2. NothingRead /\ replan' = TRUE
  BY DEF EditedCopy, Read
<1>3. copy' \in Copy /\ copy'.touched = {} /\ worker' \in Worker
  BY <1>1, <1>2, NothingReadStep
<1>4. Propagates \in BOOLEAN
  BY DEF Propagates, AppliesRsvp, AppliesSlot, RsvpChanged, SlotChanged, IsClient,
         Editable
<1>5. CASE /\ row' = [row EXCEPT !.status = "cancelled"]
           /\ UNCHANGED <<main, origin, slips>>
  <2>1. row' \in Row /\ row'.erase = row.erase
    BY <1>1, <1>5 DEF TypeOK, Row
  <2> QED
    BY <1>1, <1>2, <1>3, <1>5, <2>1 DEF ReadsMain, TypeOK, Holes
<1>6. CASE /\ UNCHANGED <<row, main, origin>>
           /\ Slip("coincidence", main.body \notin {NULL, Shown(copy)})
  <2>1. slips' \subseteq Holes /\ slips \subseteq slips'
    BY <1>1, <1>6, SlipStep DEF Holes
  <2> QED
    BY <1>1, <1>2, <1>3, <1>6, <2>1 DEF ReadsMain, TypeOK
<1>7. CASE /\ row' = [Applied EXCEPT !.pending = Propagates \/ @]
           /\ main' = [main EXCEPT !.synced = FALSE]
           /\ origin' = [origin EXCEPT !.synced = @ /\ ~Propagates]
           /\ Slip("echo", MisreadsCopy)
  <2>1. slips' \subseteq Holes /\ slips \subseteq slips'
    BY <1>1, <1>7, SlipStep DEF Holes
  <2>2. main' \in Main /\ main'.want = main.want /\ main'.body = main.body
    BY <1>1, <1>7, DriftStep DEF RevertDrift
  <2>3. origin' \in Origin /\ origin'.want = origin.want /\ origin'.body = origin.body
    BY <1>1, <1>4, <1>7 DEF TypeOK, Origin
  <2> HIDE DEF Applied
  <2>4. row' \in Row /\ row'.erase = row.erase
    BY <1>1, <1>4, <1>7, AppliedType DEF Row
  <2> QED
    BY <1>1, <1>2, <1>3, <2>1, <2>2, <2>3, <2>4 DEF ReadsMain
<1> QED
  BY <1>5, <1>6, <1>7 DEF EditedCopy

LEMMA FirstEditReads ==
  ASSUME IInv, FirstEdit PROVE ReadsMain
<1>1. TypeOK
  BY DEF IInv
<1> DEFINE new == IF row.pending THEN [Applied EXCEPT !.rsvp = row.rsvp] ELSE Applied
           changes == new # row \/ StatusRead = "none"
<1>2. new \in Row /\ new.erase = row.erase
  BY <1>1, AppliedType DEF TypeOK, Row
<1>3. row' = (IF changes THEN [new EXCEPT !.status = "active"] ELSE row)
  BY DEF FirstEdit
<1>4. /\ main' = [main EXCEPT !.synced = @ /\ (SlotChanged => AppliesSlot)]
      /\ Slips(Hole("echo", MisreadsCopy) \cup Hole("revived", StatusRead = "cancelled"))
      /\ UNCHANGED origin
  BY DEF FirstEdit
<1>5. \/ worker' = [worker EXCEPT !.pc = "halfway", !.hand = FALSE] /\ UNCHANGED <<copy, replan>>
      \/ NothingRead /\ replan' = TRUE
  BY DEF FirstEdit, Read
<1> HIDE DEF new, changes
<1>6. row' \in Row /\ row'.erase = row.erase
  BY <1>1, <1>2, <1>3 DEF TypeOK, Row
<1>7. main' \in Main /\ main'.want = main.want /\ main'.body = main.body
  <2>1. (SlotChanged => AppliesSlot) \in BOOLEAN
    OBVIOUS
  <2> QED
    BY <1>1, <1>4, <2>1 DEF TypeOK, Main
<1>8. slips' \subseteq Holes /\ slips \subseteq slips'
  BY <1>1, <1>4 DEF TypeOK, Slips, Hole, Holes
<1>9. copy' \in Copy /\ copy'.touched \in {{}, copy.touched}
      /\ worker' \in Worker /\ replan' \in BOOLEAN
  <2>1. CASE worker' = [worker EXCEPT !.pc = "halfway", !.hand = FALSE] /\ UNCHANGED <<copy, replan>>
    BY <1>1, <2>1, WorkerStep DEF TypeOK
  <2>2. CASE NothingRead /\ replan' = TRUE
    BY <1>1, <2>2, NothingReadStep
  <2> QED
    BY <1>5, <2>1, <2>2
<1> QED
  BY <1>1, <1>4, <1>6, <1>7, <1>8, <1>9 DEF ReadsMain, TypeOK

LEMMA IngestMainInv == IInv /\ IngestMain => IInv'
<1> SUFFICES ASSUME IInv, IngestMain PROVE IInv'
  OBVIOUS
<1>1. TypeOK /\ UNCHANGED <<event, series, wish, asked, source, ops, budget>>
  BY DEF IInv, IngestMain, people
<1>2. ReadsMain
  <2>1. CASE NothingRead /\ UNCHANGED <<row, main, origin, replan, slips>>
    BY <1>1, <2>1, NothingReadStep DEF ReadsMain, TypeOK, Holes
  <2> QED
    BY <2>1, OccurrenceDeletedReads, EventDeletedReads, EditedCopyReads, FirstEditReads
       DEF IngestMain
<1>3. TypeOK'
  BY <1>1, <1>2 DEF TypeOK, ReadsMain, Worker, Holes
<1>4. Rights'
  BY <1>1, <1>2 DEF IInv, Rights, ReadsMain, IsClient, Allowed, Full, Body
<1>5. Causes'
  BY <1>1, <1>2 DEF IInv, Causes, ReadsMain, IsOccurrence, Editable
<1> QED
  BY <1>3, <1>4, <1>5 DEF IInv

LEMMA FirstEditIsFlaggedInv == IInv /\ FirstEditIsFlagged => IInv'
<1> SUFFICES ASSUME IInv, FirstEditIsFlagged PROVE IInv'
  OBVIOUS
<1>1. TypeOK /\ NothingRead /\ replan' = TRUE
      /\ row' = [row EXCEPT !.pending = TRUE]
      /\ UNCHANGED <<event, series, wish, asked, source, main, origin, ops, slips, budget>>
  BY DEF IInv, FirstEditIsFlagged, Read, people
<1>2. row' \in Row /\ row'.erase = row.erase
  BY <1>1 DEF TypeOK, Row
<1>3. copy' \in Copy /\ copy'.touched = {} /\ worker' \in Worker
  BY <1>1, NothingReadStep
<1>4. TypeOK'
  BY <1>1, <1>2, <1>3 DEF TypeOK, Worker
<1> QED
  BY <1>1, <1>2, <1>3, <1>4 DEF IInv, Rights, Causes, IsClient, IsOccurrence, Allowed,
                               Full, Body

-----------------------------------------------------------------------------
(* Planning renders what the row shows, and for the source what may go     *)
(* there.                                                                  *)
LEMMA PlanInv == IInv /\ Plan => IInv'
<1> SUFFICES ASSUME IInv, Plan PROVE IInv'
  OBVIOUS
<1>1. /\ TypeOK /\ Rights
      /\ replan' = FALSE /\ worker' = [worker EXCEPT !.pc = "diff"]
      /\ UNCHANGED <<event, series, wish, asked, source, copy, row, ops, slips, budget>>
  BY DEF IInv, Plan, people
<1>2. worker' \in Worker
  BY <1>1, WorkerStep
<1>3. row \in Row
  BY <1>1 DEF TypeOK
<1>4. /\ Shown(row) \in Full /\ Shown(row) \in Body
      /\ Allowed(Patch(row)) /\ Patch(row) \in Body
  BY <1>1, <1>3, Bodies
<1>5. /\ WantedMain \in Body \cup {NULL} /\ (Mirrored => WantedMain \in Full)
      /\ WantedOrigin \in Body \cup {NULL} /\ (Mirrored => Allowed(WantedOrigin))
  BY <1>4 DEF WantedMain, WantedOrigin
<1>6. main' \in Main /\ (main'.want = "present" => main'.body \in Full)
  <2>1. CASE main' = main
    BY <1>1, <2>1 DEF TypeOK, Rights
  <2>2. CASE main' = [main EXCEPT !.want = IF Mirrored THEN "present" ELSE "absent",
                                  !.body = WantedMain, !.synced = FALSE]
    BY <1>1, <1>5, <2>2 DEF TypeOK, Main
  <2> QED
    BY <2>1, <2>2 DEF Plan, Planned
<1>7. /\ origin' \in Origin
      /\ origin'.want # "none" => IsClient
      /\ origin'.want = "patch" => Allowed(origin'.body)
  <2>1. CASE origin' = origin
    BY <1>1, <2>1 DEF TypeOK, Rights
  <2>2. CASE /\ IsClient
             /\ origin' = [origin EXCEPT !.want = IF Mirrored THEN "patch" ELSE "absent",
                                         !.body = WantedOrigin, !.synced = FALSE]
    BY <1>1, <1>5, <2>2 DEF TypeOK, Origin
  <2> QED
    BY <2>1, <2>2 DEF Plan, Planned
<1>8. TypeOK'
  BY <1>1, <1>2, <1>6, <1>7 DEF TypeOK, Worker
<1>9. Rights'
  BY <1>1, <1>6, <1>7 DEF Rights, IsClient, Allowed, Full, Body
<1> QED
  BY <1>1, <1>8, <1>9 DEF IInv, Causes, IsOccurrence

(* The diff enqueues what was planned, and a deletion of the source for a  *)
(* row that is flagged for it.                                             *)
LEMMA DiffInv == IInv /\ Diff => IInv'
<1> SUFFICES ASSUME IInv, Diff PROVE IInv'
  OBVIOUS
<1> DEFINE visitsMain == main.want # "none" /\ ~main.synced
           visitsOrigin == origin.want # "none" /\ ~origin.synced
           cleared == row.pending /\ ~(visitsOrigin /\ ConvergedWriteback)
<1>1. /\ TypeOK /\ Rights /\ Causes
      /\ worker' = [worker EXCEPT !.pc = "drain", !.worked = FALSE]
      /\ UNCHANGED <<event, series, wish, asked, source, copy, replan, budget>>
  BY DEF IInv, Diff, people
<1>2. worker' \in Worker
  BY <1>1, WorkerStep
<1>3. ops' = [p \in {"main", "origin"} |->
         IF p = "main" /\ visitsMain /\ DecidedMain # NoOp THEN DecidedMain
         ELSE IF p = "origin" /\ visitsOrigin /\ DecidedOrigin # NoOp THEN DecidedOrigin
         ELSE ops[p]]
  BY DEF Diff
<1>4. visitsMain =>
         DecidedMain \in Op /\ (DecidedMain.kind \in {"create", "update"} => DecidedMain.body \in Full)
         /\ DecidedMain.kind \in {"none", "create", "update", "delete"}
  BY <1>1 DEF TypeOK, Rights, DecidedMain, NoOp, Op, Main
<1>5. visitsOrigin =>
         /\ DecidedOrigin \in Op /\ IsClient
         /\ DecidedOrigin.kind = "patch" => Allowed(DecidedOrigin.body)
         /\ DecidedOrigin.kind = "delete_source" => row.erase
  BY <1>1 DEF TypeOK, Rights, DecidedOrigin, NoOp, Op, Origin
<1>6. main' = main \/ main' = [main EXCEPT !.id = @ \/ IsOccurrence,
                                           !.synced = DecidedMain = NoOp]
  BY DEF Diff
<1>7. main' \in Main /\ main'.want = main.want /\ main'.body = main.body
  <2>1. main \in Main /\ (DecidedMain = NoOp) \in BOOLEAN /\ IsOccurrence \in BOOLEAN
    BY <1>1 DEF TypeOK, IsOccurrence
  <2> DEFINE id == main.id \/ IsOccurrence
             done == DecidedMain = NoOp
  <2>2. main' = main \/ main' = [main EXCEPT !.id = id, !.synced = done]
    BY <1>6, <2>1 DEF Main
  <2>3. id \in BOOLEAN /\ done \in BOOLEAN
    BY <2>1 DEF Main
  <2> HIDE DEF id, done
  <2> QED
    BY <2>1, <2>2, <2>3 DEF Main
<1>8. /\ origin' \in Origin /\ origin'.want = origin.want /\ origin'.body = origin.body
  <2>1. origin \in Origin
    BY <1>1 DEF TypeOK
  <2>2. origin' = origin
          \/ origin' = [origin EXCEPT !.applied = origin.body, !.synced = TRUE]
    BY DEF Diff
  <2> QED
    BY <2>1, <2>2 DEF Origin
<1>9. row' \in Row /\ row'.erase = row.erase
  <2>1. row \in Row
    BY <1>1 DEF TypeOK
  <2>2. row' = [row EXCEPT !.pending = cleared]
    BY <2>1 DEF Diff, Row
  <2>3. cleared \in BOOLEAN
    BY <2>1 DEF Row, ConvergedWriteback
  <2> HIDE DEF cleared
  <2> QED
    BY <2>1, <2>2, <2>3 DEF Row
<1>10. slips' \subseteq Holes /\ slips \subseteq slips'
  BY <1>1, SlipStep DEF Diff, Holes
<1> HIDE DEF visitsMain, visitsOrigin, cleared
<1>11. /\ ops' \in [{"main", "origin"} -> Op]
       /\ ops'["main"] = ops["main"] \/ (visitsMain /\ ops'["main"] = DecidedMain)
       /\ ops'["origin"] = ops["origin"] \/ (visitsOrigin /\ ops'["origin"] = DecidedOrigin)
  <2>1. ops \in [{"main", "origin"} -> Op]
    BY <1>1 DEF TypeOK
  <2> QED
    BY <1>3, <1>4, <1>5, <2>1
<1>12. TypeOK'
  BY <1>1, <1>2, <1>7, <1>8, <1>9, <1>10, <1>11 DEF TypeOK, Worker, Holes
<1>13. Rights'
  BY <1>1, <1>4, <1>5, <1>7, <1>8, <1>11 DEF Rights, IsClient, Allowed, Full, Body
<1>14. Causes'
  BY <1>1, <1>5, <1>9, <1>10, <1>11 DEF Causes, IsOccurrence
<1> QED
  BY <1>12, <1>13, <1>14 DEF IInv

-----------------------------------------------------------------------------
(* Delivery: what is enqueued is sent as it is, and recorded.              *)
LEMMA WriteCopyStep ==
  ASSUME TypeOK, NEW body \in Full, WriteCopy(body)
  PROVE  /\ copy' \in Copy /\ copy'.touched = {}
         /\ slips' \subseteq Holes /\ slips \subseteq slips'
<1>1. copy' \in Copy /\ copy'.touched = {}
  BY DEF WriteCopy, Copy, Full
<1>2. slips' \subseteq Holes /\ slips \subseteq slips'
  BY SlipStep DEF WriteCopy, Holes
<1> QED
  BY <1>1, <1>2

LEMMA WriteInv == IInv /\ (SendCreate \/ SendUpdate) => IInv'
<1> SUFFICES ASSUME IInv, SendCreate \/ SendUpdate PROVE IInv'
  OBVIOUS
<1>1. /\ TypeOK /\ Rights /\ Causes
      /\ worker' = Sent("main") /\ WriteCopy(ops["main"].body)
      /\ ops["main"].kind \in {"create", "update"}
      /\ UNCHANGED <<event, series, wish, asked, source, row, main, origin, ops, replan,
                     budget>>
  BY DEF IInv, SendCreate, SendUpdate, Sends, people
<1>2. /\ copy' \in Copy /\ copy'.touched = {}
      /\ slips' \subseteq Holes /\ slips \subseteq slips'
  BY <1>1, WriteCopyStep DEF Rights
<1>3. worker' \in Worker
  BY <1>1, WorkerStep
<1>4. TypeOK'
  BY <1>1, <1>2, <1>3 DEF TypeOK, Worker, Holes
<1> QED
  BY <1>1, <1>2, <1>4 DEF IInv, Rights, Causes, IsClient, IsOccurrence, Allowed, Full, Body

(* The op of the copy is taken off the outbox, whatever became of it.      *)
LEMMA TakenMainInv ==
  ASSUME IInv, DropOp("main"), worker' = Taken("main"),
         main' \in Main, main'.want = "present" => main.want = "present",
         main'.want = "present" => main'.body = main.body,
         row' \in Row, row'.erase = row.erase, replan' \in BOOLEAN,
         UNCHANGED <<event, series, wish, asked, source, copy, origin, slips, budget>>
  PROVE  IInv'
<1>1. TypeOK /\ Rights /\ Causes
  BY DEF IInv
<1>2. /\ ops' \in [{"main", "origin"} -> Op]
      /\ ops'["main"].kind = "none" /\ ops'["origin"] = ops["origin"]
  BY <1>1, DropStep
<1>3. worker' \in Worker
  BY <1>1, WorkerStep
<1>4. TypeOK'
  BY <1>1, <1>2, <1>3 DEF TypeOK, Worker
<1> QED
  BY <1>1, <1>2, <1>4 DEF IInv, Rights, Causes, IsClient, IsOccurrence, Allowed, Full, Body

LEMMA UpdateIsStaleInv == IInv /\ UpdateIsStale => IInv'
<1> SUFFICES ASSUME IInv, UpdateIsStale PROVE IInv'
  OBVIOUS
<1>1. /\ TypeOK /\ DropOp("main") /\ worker' = Taken("main")
      /\ main' = [main EXCEPT !.etag = "match", !.synced = FALSE]
      /\ UNCHANGED <<event, series, wish, asked, source, copy, row, origin, replan, slips,
                     budget>>
  BY DEF IInv, UpdateIsStale, people
<1>2. main' \in Main /\ main'.want = main.want /\ main'.body = main.body
  BY <1>1 DEF TypeOK, Main
<1> QED
  BY <1>1, <1>2, TakenMainInv DEF TypeOK

LEMMA UpdateFindsNothingInv == IInv /\ UpdateFindsNothing => IInv'
<1> SUFFICES ASSUME IInv, UpdateFindsNothing PROVE IInv'
  OBVIOUS
<1>1. /\ TypeOK /\ DropOp("main") /\ worker' = Taken("main")
      /\ main' = [main EXCEPT !.id = FALSE, !.current = "absent", !.etag = "none",
                              !.synced = FALSE]
      /\ UNCHANGED <<event, series, wish, asked, source, copy, row, origin, replan, slips,
                     budget>>
  BY DEF IInv, UpdateFindsNothing, people
<1>2. main' \in Main /\ main'.want = main.want /\ main'.body = main.body
  BY <1>1 DEF TypeOK, Main
<1> QED
  BY <1>1, <1>2, TakenMainInv DEF TypeOK

LEMMA RetireTombstoneInv == IInv /\ RetireTombstone => IInv'
<1> SUFFICES ASSUME IInv, RetireTombstone PROVE IInv'
  OBVIOUS
<1>1. /\ TypeOK /\ DropOp("main") /\ worker' = Taken("main")
      /\ main' = [main EXCEPT !.want = "absent", !.body = NULL, !.synced = TRUE,
                              !.id = FALSE, !.current = "absent", !.etag = "none"]
      /\ row' = [row EXCEPT !.status = IF @ = "active" THEN "cancelled" ELSE @]
      /\ replan' = (replan \/ row.status = "active")
      /\ UNCHANGED <<event, series, wish, asked, source, copy, origin, slips, budget>>
  BY DEF IInv, RetireTombstone, people
<1>2. main' \in Main /\ main'.want = "absent"
  BY <1>1 DEF TypeOK, Main
<1>3. row' \in Row /\ row'.erase = row.erase /\ replan' \in BOOLEAN
  BY <1>1 DEF TypeOK, Row
<1> QED
  BY <1>1, <1>2, <1>3, TakenMainInv

LEMMA SendDeleteInv == IInv /\ SendDelete => IInv'
<1> SUFFICES ASSUME IInv, SendDelete PROVE IInv'
  OBVIOUS
<1>1. /\ TypeOK /\ Rights /\ Causes /\ worker' = Sent("main")
      /\ UNCHANGED <<event, series, wish, asked, source, row, main, origin, ops, replan,
                     slips, budget>>
  BY DEF IInv, SendDelete, people
<1>2. copy' \in Copy /\ copy'.touched \in {{}, copy.touched}
  BY <1>1 DEF SendDelete, TypeOK, Copy
<1>3. worker' \in Worker
  BY <1>1, WorkerStep
<1>4. TypeOK'
  BY <1>1, <1>2, <1>3 DEF TypeOK, Worker
<1> QED
  BY <1>1, <1>2, <1>4 DEF IInv, Rights, Causes, IsClient, IsOccurrence, Allowed, Full, Body

LEMMA RecordMainInv == IInv /\ RecordMain => IInv'
<1> SUFFICES ASSUME IInv, RecordMain PROVE IInv'
  OBVIOUS
<1> DEFINE op == ops["main"]
           settles == (op.kind = "delete") = (main.want = "absent") /\ op.body = main.body
           etag == IF copy.touched = {} THEN "match" ELSE "stale"
<1>1. /\ TypeOK /\ DropOp("main") /\ worker' = Taken("main")
      /\ UNCHANGED <<event, series, wish, asked, source, copy, row, origin, replan, slips,
                     budget>>
  BY DEF IInv, RecordMain, people
<1>2. \/ main' = [main EXCEPT !.current = "absent", !.synced = settles]
      \/ main' = [main EXCEPT !.current = "present", !.synced = settles, !.id = TRUE,
                              !.etag = etag]
  BY DEF RecordMain
<1>3. settles \in BOOLEAN /\ etag \in {"match", "stale"}
  OBVIOUS
<1> HIDE DEF settles, etag
<1>4. main' \in Main /\ main'.want = main.want /\ main'.body = main.body
  BY <1>1, <1>2, <1>3 DEF TypeOK, Main
<1> QED
  BY <1>1, <1>4, TakenMainInv DEF TypeOK

LEMMA SendSourceInv == IInv /\ (SendPatch \/ SendDeleteSource) => IInv'
<1> SUFFICES ASSUME IInv, SendPatch \/ SendDeleteSource PROVE IInv'
  OBVIOUS
<1>1. /\ TypeOK /\ Rights /\ Causes /\ worker' = Sent("origin")
      /\ UNCHANGED <<event, series, wish, asked, copy, row, main, origin, ops, replan,
                     slips, budget>>
  BY DEF IInv, SendPatch, SendDeleteSource, people
<1>2. source' \in Source
  <2>1. CASE SendPatch
    <3> DEFINE body == ops["origin"].body
               slot == IF body.slot = NULL THEN source.slot ELSE body.slot
               patched == [source EXCEPT !.rsvp = body.rsvp, !.slot = slot]
    <3>1. source \in Source /\ body \in Body
      BY <1>1, <2>1 DEF TypeOK, Rights, Allowed, SendPatch, Sends
    <3>2. body.rsvp \in Rsvps /\ slot \in Slots
      BY <3>1 DEF Body, Source
    <3>3. source' = source \/ source' = [patched EXCEPT !.unread = TRUE]
      BY <2>1, <3>1 DEF SendPatch, Source
    <3> HIDE DEF body, slot
    <3> QED
      BY <3>1, <3>2, <3>3 DEF Source
  <2>2. CASE SendDeleteSource
    BY <1>1, <2>2 DEF SendDeleteSource, TypeOK, Source
  <2> QED
    BY <2>1, <2>2
<1>3. worker' \in Worker
  BY <1>1, WorkerStep
<1>4. TypeOK'
  BY <1>1, <1>2, <1>3 DEF TypeOK, Worker
<1> QED
  BY <1>1, <1>4 DEF IInv, Rights, Causes, IsClient, IsOccurrence, Allowed, Full, Body

LEMMA RecordOriginInv == IInv /\ RecordOrigin => IInv'
<1> SUFFICES ASSUME IInv, RecordOrigin PROVE IInv'
  OBVIOUS
<1> DEFINE op == ops["origin"]
           done == op.body = origin.body
<1>1. /\ TypeOK /\ Rights /\ Causes /\ DropOp("origin") /\ worker' = Taken("origin")
      /\ origin' = [origin EXCEPT !.applied = op.body, !.synced = done]
      /\ row' = [row EXCEPT !.pending = FALSE] \/ row' = [row EXCEPT !.erase = FALSE]
      /\ UNCHANGED <<event, series, wish, asked, source, copy, main, replan, slips, budget>>
  BY DEF IInv, RecordOrigin, people
<1>2. row' \in Row /\ (row'.erase => row.erase)
  BY <1>1 DEF TypeOK, Row
<1>3. op.body \in Body \cup {NULL} /\ done \in BOOLEAN
  BY <1>1 DEF TypeOK, Op
<1> HIDE DEF op, done
<1>4. origin' \in Origin /\ origin'.want = origin.want /\ origin'.body = origin.body
  BY <1>1, <1>3 DEF TypeOK, Origin
<1>5. /\ ops' \in [{"main", "origin"} -> Op]
      /\ ops'["origin"].kind = "none" /\ ops'["main"] = ops["main"]
  BY <1>1, DropStep
<1>6. worker' \in Worker
  BY <1>1, WorkerStep
<1>7. TypeOK'
  BY <1>1, <1>2, <1>4, <1>5, <1>6 DEF TypeOK, Worker
<1> QED
  BY <1>1, <1>2, <1>4, <1>5, <1>7
     DEF IInv, Rights, Causes, IsClient, IsOccurrence, Allowed, Full, Body

-----------------------------------------------------------------------------
(* What only moves the worker, or stops it.                                *)
LEMMA WorkerInv ==
  ASSUME IInv, worker' \in Worker,
         budget' \in [faults : Nat, edits : Nat],
         slips' \subseteq Holes, slips \subseteq slips',
         row' \in Row, row'.erase = row.erase,
         UNCHANGED <<event, series, wish, asked, source, copy, main, origin, ops, replan>>
  PROVE  IInv'
<1>1. TypeOK /\ Rights /\ Causes
  BY DEF IInv
<1>2. TypeOK'
  BY <1>1 DEF TypeOK, Worker, Holes
<1> QED
  BY <1>1, <1>2 DEF IInv, Rights, Causes, IsClient, IsOccurrence, Allowed, Full, Body

LEMMA SpendStep ==
  ASSUME TypeOK, NEW fault, Spend(fault)
  PROVE  budget' \in [faults : Nat, edits : Nat]
  BY DEF TypeOK, Spend

LEMMA DrainEndsInv == IInv /\ DrainEnds => IInv'
<1> SUFFICES ASSUME IInv, DrainEnds PROVE IInv'
  OBVIOUS
<1>1. TypeOK
  BY DEF IInv
<1>2. worker' \in Worker
  BY <1>1, WorkerStep DEF DrainEnds
<1> QED
  BY <1>1, <1>2, WorkerInv DEF DrainEnds, people, TypeOK, Holes

LEMMA MishapInv == IInv /\ (CallFails \/ Crash \/ Release) => IInv'
<1> SUFFICES ASSUME IInv, CallFails \/ Crash \/ Release PROVE IInv'
  OBVIOUS
<1>1. TypeOK
  BY DEF IInv
<1>2. CASE CallFails
  <2>1. worker' \in Worker /\ budget' \in [faults : Nat, edits : Nat]
    BY <1>1, <1>2, WorkerStep, SpendStep DEF CallFails
  <2> QED
    BY <1>1, <1>2, <2>1, WorkerInv DEF CallFails, people, TypeOK, Holes
<1>3. CASE Crash
  <2>1. worker' \in Worker /\ budget' \in [faults : Nat, edits : Nat]
    BY <1>1, <1>3, WorkerStep, SpendStep DEF Crash
  <2>2. slips' \subseteq Holes /\ slips \subseteq slips'
    BY <1>1, <1>3, SlipStep DEF Crash, Holes
  <2> QED
    BY <1>1, <1>3, <2>1, <2>2, WorkerInv DEF Crash, people, TypeOK
<1>4. CASE Release
  <2>1. budget' \in [faults : Nat, edits : Nat] /\ worker' \in Worker
    BY <1>1, <1>4, SpendStep DEF Release, TypeOK, Worker
  <2>2. row' \in Row /\ row'.erase = row.erase
    BY <1>1, <1>4 DEF Release, TypeOK, Row
  <2> QED
    BY <1>1, <1>4, <2>1, <2>2, WorkerInv DEF Release, people, TypeOK, Holes, Worker
<1> QED
  BY <1>2, <1>3, <1>4

-----------------------------------------------------------------------------
(* People change the two events and the series, and ask.                   *)
PeopleDo ==
  /\ source' \in Source /\ copy' \in Copy /\ main' \in Main
  /\ main'.want = main.want /\ main'.body = main.body
  /\ series' \in Coverage /\ wish' \subseteq Rsvps /\ asked' \in BOOLEAN
  /\ budget' \in [faults : Nat, edits : Nat]
  /\ UNCHANGED <<event, row, origin, ops, replan, worker, slips>>
  /\ asked => asked'
  /\ series # "covers" => series' # "covers"
  /\ "state" \in copy'.touched =>
       \/ "state" \in copy.touched
       \/ asked' \/ (IsOccurrence /\ series # "covers")

LEMMA EditStep ==
  ASSUME TypeOK, Edit
  PROVE  /\ budget' \in [faults : Nat, edits : Nat]
         /\ UNCHANGED <<event, row, main, origin, ops, replan, worker, slips>>
  BY DEF TypeOK, Edit

LEMMA WishesStep ==
  ASSUME TypeOK, NEW r \in Rsvps, Wishes(r)
  PROVE  wish' \subseteq Rsvps
  BY DEF TypeOK, Wishes

LEMMA TouchStep ==
  ASSUME TypeOK, NEW c \in Copy, c.touched = copy.touched,
         NEW field \in {"rsvp", "slot", "state"}, Touch(c, field)
  PROVE  /\ source' \in Source /\ copy' \in Copy /\ main' \in Main
         /\ main'.want = main.want /\ main'.body = main.body
         /\ copy'.touched = copy.touched \cup {field}
         /\ budget' \in [faults : Nat, edits : Nat]
         /\ UNCHANGED <<event, series, row, origin, ops, replan, worker, slips>>
<1>1. /\ copy' = [c EXCEPT !.unread = TRUE, !.touched = @ \cup {field}]
      /\ main' = [main EXCEPT !.etag = IF @ = "match" THEN "stale" ELSE @]
      /\ budget' = [budget EXCEPT !.edits = @ - 1] /\ budget.edits > 0
      /\ UNCHANGED <<event, series, source, row, origin, ops, replan, worker, slips>>
  BY DEF Touch
<1>2. copy' \in Copy /\ copy'.touched = copy.touched \cup {field}
  BY <1>1 DEF Copy
<1>3. main' \in Main /\ main'.want = main.want /\ main'.body = main.body
  BY <1>1 DEF TypeOK, Main
<1>4. budget' \in [faults : Nat, edits : Nat]
  BY <1>1 DEF TypeOK
<1> QED
  BY <1>1, <1>2, <1>3, <1>4 DEF TypeOK

LEMMA PeopleStep == TypeOK /\ People => PeopleDo
<1> SUFFICES ASSUME TypeOK, People PROVE PeopleDo
  OBVIOUS
<1>0. source \in Source /\ copy \in Copy /\ main \in Main
  BY DEF TypeOK
<1>1. ASSUME NEW r \in Rsvps, RespondOnSource(r) PROVE PeopleDo
  <2>1. source' \in Source
    BY <1>0, <1>1 DEF RespondOnSource, Source
  <2>2. wish' \subseteq Rsvps
    BY <1>1, WishesStep DEF RespondOnSource
  <2> QED
    BY <1>0, <1>1, <2>1, <2>2, EditStep DEF RespondOnSource, PeopleDo, TypeOK
<1>2. ASSUME NEW r \in Rsvps, RespondOnMain(r) PROVE PeopleDo
  <2> DEFINE c == [copy EXCEPT !.rsvp = r]
  <2>1. c \in Copy /\ c.touched = copy.touched
    BY <1>0 DEF Copy
  <2>2. Touch(c, "rsvp") /\ Wishes(r) /\ UNCHANGED asked
    BY <1>2 DEF RespondOnMain
  <2> HIDE DEF c
  <2>3. wish' \subseteq Rsvps
    BY <2>2, WishesStep
  <2> QED
    BY <2>1, <2>2, <2>3, TouchStep DEF PeopleDo, TypeOK
<1>3. ASSUME NEW s \in Slots, ChangeSource(s) PROVE PeopleDo
  <2>1. source' \in Source
    BY <1>0, <1>3 DEF ChangeSource, Source
  <2> QED
    BY <1>0, <1>3, <2>1, EditStep DEF ChangeSource, PeopleDo, TypeOK
<1>4. ASSUME NEW s \in Slots, ChangeOnMain(s) PROVE PeopleDo
  <2> DEFINE c == [copy EXCEPT !.slot = s]
  <2>1. c \in Copy /\ c.touched = copy.touched
    BY <1>0 DEF Copy
  <2>2. Touch(c, "slot") /\ UNCHANGED <<wish, asked>>
    BY <1>4 DEF ChangeOnMain
  <2> HIDE DEF c
  <2> QED
    BY <2>1, <2>2, TouchStep DEF PeopleDo, TypeOK
<1>5. ASSUME NEW cover \in Coverage, Split(cover) PROVE PeopleDo
  BY <1>0, <1>5, EditStep DEF Split, PeopleDo, TypeOK
<1>6. CASE CancelSource
  <2>1. source' \in Source
    BY <1>0, <1>6 DEF CancelSource, Source
  <2> QED
    BY <1>0, <1>6, <2>1, EditStep DEF CancelSource, PeopleDo, TypeOK
<1>7. CASE RestoreSource
  <2>1. source' \in Source /\ source.rsvp \in Rsvps
    BY <1>0, <1>7 DEF RestoreSource, Source
  <2> QED
    BY <1>0, <1>7, <2>1, EditStep DEF RestoreSource, PeopleDo, TypeOK
<1> DEFINE gone == [copy EXCEPT !.state = "cancelled"]
<1>8. gone \in Copy /\ gone.touched = copy.touched /\ source.rsvp \in Rsvps
  BY <1>0 DEF Copy, Source
<1>9. CASE DeleteOnMain
  <2>1. Touch(gone, "state") /\ asked' = TRUE /\ wish' = wish \cup {source.rsvp}
    BY <1>9 DEF DeleteOnMain
  <2> HIDE DEF gone
  <2> QED
    BY <1>8, <2>1, TouchStep DEF PeopleDo, TypeOK
<1>10. CASE SplitCancelsCopy
  <2>1. /\ Touch(gone, "state") /\ UNCHANGED asked /\ wish' = wish \cup {source.rsvp}
        /\ IsOccurrence /\ series # "covers"
    BY <1>10 DEF SplitCancelsCopy
  <2> HIDE DEF gone
  <2> QED
    BY <1>8, <2>1, TouchStep DEF PeopleDo, TypeOK
<1> QED
  BY <1>1, <1>2, <1>3, <1>4, <1>5, <1>6, <1>7, <1>9, <1>10 DEF People

LEMMA PeopleInv == IInv /\ People => IInv'
<1> SUFFICES ASSUME IInv, People PROVE IInv'
  OBVIOUS
<1>1. TypeOK /\ Rights /\ Causes /\ PeopleDo
  BY PeopleStep DEF IInv
<1>2. TypeOK'
  BY <1>1 DEF TypeOK, PeopleDo, Worker, Holes
<1>3. Rights'
  BY <1>1 DEF Rights, PeopleDo, IsClient, Allowed, Full, Body
<1>4. Causes'
  BY <1>1 DEF Causes, PeopleDo, IsOccurrence
<1> QED
  BY <1>2, <1>3, <1>4 DEF IInv

LEMMA NextInv == IInv /\ [Next]_vars => IInv'
<1> SUFFICES ASSUME IInv, [Next]_vars PROVE IInv'
  OBVIOUS
<1>1. CASE UNCHANGED vars
  BY <1>1 DEF vars, IInv, TypeOK, Rights, Causes, IsClient, IsOccurrence, Allowed, Full,
              Body, people
<1>2. CASE Deliver
  BY <1>2, WriteInv, UpdateIsStaleInv, UpdateFindsNothingInv, RetireTombstoneInv,
     SendDeleteInv, RecordMainInv, SendSourceInv, RecordOriginInv, DrainEndsInv
     DEF Deliver
<1>3. CASE Pass
  BY <1>2, <1>3, IngestSourceInv, IngestMainInv, FirstEditIsFlaggedInv, PlanInv, DiffInv
     DEF Pass
<1> QED
  BY <1>1, <1>3, MishapInv, PeopleInv DEF Next

(* Every variable keeps to its type, in every behaviour of the code.       *)
THEOREM TypeCorrect == Spec => []TypeOK
<1>1. IInv => TypeOK
  BY DEF IInv
<1> QED
  BY <1>1, InitInv, NextInv, PTL DEF Spec

-----------------------------------------------------------------------------
(* What a pass sends to the source.                                        *)
LEMMA SourceIsSent ==
  ASSUME TypeOK, [Next]_vars, source' # source, worker' # worker
  PROVE  IngestSource \/ SendPatch \/ SendDeleteSource
<1>1. ~UNCHANGED vars
  BY DEF vars
<1>2. CASE Deliver
  BY <1>2 DEF Deliver, SendCreate, SendUpdate, UpdateIsStale, UpdateFindsNothing,
              RetireTombstone, SendDelete, RecordMain, RecordOrigin, DrainEnds
<1>3. CASE IngestMain \/ FirstEditIsFlagged \/ Plan \/ Diff
  BY <1>3 DEF IngestMain, FirstEditIsFlagged, Plan, Diff
<1>4. CASE CallFails \/ Crash \/ Release
  BY <1>4 DEF CallFails, Crash, Release
<1>5. CASE People
  BY <1>5, PeopleStep DEF PeopleDo
<1> QED
  BY <1>1, <1>2, <1>3, <1>4, <1>5 DEF Next, Pass

(* A patch writes what it carries; a time only where it carries one.       *)
LEMMA PatchWrites ==
  ASSUME TypeOK, SendPatch
  PROVE  /\ source'.state = source.state
         /\ source' # source => source.state = "live"
         /\ source'.slot # source.slot => ops["origin"].body.slot # NULL
<1> DEFINE body == ops["origin"].body
           slot == IF body.slot = NULL THEN source.slot ELSE body.slot
           patched == [source EXCEPT !.rsvp = body.rsvp, !.slot = slot]
<1>1. source \in Source
  BY DEF TypeOK
<1>2. \/ source' = source
      \/ source.state = "live" /\ source' = [patched EXCEPT !.unread = TRUE]
  BY <1>1 DEF SendPatch, Source
<1>3. slot # source.slot => body.slot # NULL
  OBVIOUS
<1> HIDE DEF slot, body
<1>4. patched.state = source.state /\ patched.slot = slot
  BY <1>1 DEF Source
<1>5. source' = source \/ (source'.state = patched.state /\ source'.slot = patched.slot)
  BY <1>1, <1>2 DEF Source
<1> QED
  BY <1>2, <1>3, <1>4, <1>5 DEF body

LEMMA EraseWrites ==
  ASSUME TypeOK, SendDeleteSource
  PROVE  /\ source' # source => source.state = "live"
         /\ source'.slot = source.slot
  BY DEF SendDeleteSource, TypeOK, Source

(* Writes within rights: a source calendar is written only where the user  *)
(* may write, the time and the details only of an event the user can edit, *)
(* and never an event that is gone.                                        *)
THEOREM StaysWithinRights == Spec => WritesWithinRights
<1>1. ASSUME IInv, [Next]_vars, source' # source, worker' # worker,
             worker.pc = "drain"
      PROVE  /\ IsClient
             /\ source'.slot # source.slot => Editable
             /\ source.state = "live"
  <2>1. TypeOK /\ Rights
    BY <1>1 DEF IInv
  <2>2. SendPatch \/ SendDeleteSource
    BY <1>1, <2>1, SourceIsSent DEF IngestSource
  <2>3. ops["origin"].kind \in {"patch", "delete_source"}
    BY <2>2 DEF SendPatch, SendDeleteSource, Sends
  <2>4. IsClient
    BY <2>1, <2>3 DEF Rights
  <2>5. CASE SendPatch
    <3>1. Allowed(ops["origin"].body)
      BY <2>1, <2>5 DEF Rights, SendPatch, Sends
    <3>2. ops["origin"].body.slot # NULL => ~event.locked
      BY <3>1 DEF Allowed
    <3> QED
      BY <1>1, <2>1, <2>4, <2>5, <3>2, PatchWrites DEF Editable
  <2>6. CASE SendDeleteSource
    BY <1>1, <2>1, <2>4, <2>6, EraseWrites
  <2> QED
    BY <2>2, <2>5, <2>6
<1>2. IInv /\ [Next]_vars =>
        [ (source' # source /\ worker' # worker /\ worker.pc = "drain") =>
            /\ IsClient
            /\ source'.slot # source.slot => Editable
            /\ source.state = "live" ]_vars
  BY <1>1
<1> QED
  BY <1>2, InitInv, NextInv, PTL DEF Spec, WritesWithinRights

(* Erases only when asked: an event is deleted at its source only after    *)
(* somebody deleted the copy of a single event they could edit, with       *)
(* delete propagation switched on (or the copy's own deletion was misread).*)
THEOREM ErasesForCause == Spec => ErasesOnlyWhenAsked
<1>1. ASSUME IInv, [Next]_vars, source'.state # source.state, worker' # worker
      PROVE  /\ slips = {} => asked
             /\ Editable /\ ~IsOccurrence /\ event.mode = "on"
  <2>1. TypeOK /\ Rights /\ Causes
    BY <1>1 DEF IInv
  <2>2. ~IngestSource
    <3>1. IngestSource => source'.state = source.state
      BY <2>1 DEF IngestSource, TypeOK, Source
    <3> QED
      BY <1>1, <3>1
  <2>3. SendDeleteSource
    BY <1>1, <2>1, <2>2, SourceIsSent, PatchWrites
  <2>4. ops["origin"].kind = "delete_source"
    BY <2>3 DEF SendDeleteSource, Sends
  <2> QED
    BY <2>1, <2>4 DEF Causes, Rights, Editable
<1>2. IInv /\ [Next]_vars =>
        [ (source'.state # source.state /\ worker' # worker) =>
            /\ slips = {} => asked
            /\ Editable /\ ~IsOccurrence /\ event.mode = "on" ]_vars
  BY <1>1
<1> QED
  BY <1>2, InitInv, NextInv, PTL DEF Spec, ErasesOnlyWhenAsked

-----------------------------------------------------------------------------
(* The mirror of a live event is given up for a cause.                     *)
ForCause == asked \/ series \in {"beyond", "moved"} \/ slips' # {}

LEMMA OccurrenceGone ==
  ASSUME IInv, OccurrenceDeleted, Mirrored, ~Mirrored'
  PROVE  ForCause
<1>1. TypeOK /\ Causes /\ row.status = "active"
  BY DEF IInv, Mirrored
<1>0. StatusRead = "active"
  BY <1>1 DEF StatusRead
<1> DEFINE reverts == \/ Matched /\ ~IsClient
                      \/ row.status = "active" /\ ~HonoursDelete
<1>2. ~reverts
  BY <1>0, <1>1 DEF OccurrenceDeleted, Mirrored
<1>3. series = "covers"
  BY <1>1, <1>2 DEF HonoursDelete
<1>4. "state" \notin copy.touched => slips' # {}
  BY <1>0, <1>1, <1>2, SlipStep DEF OccurrenceDeleted, Holes
<1> QED
  BY <1>1, <1>3, <1>4 DEF Causes, ForCause

LEMMA EventGone ==
  ASSUME IInv, EventDeleted, Mirrored, ~Mirrored'
  PROVE  ForCause
<1>1. TypeOK /\ Causes /\ ~IsOccurrence
  BY DEF IInv, EventDeleted
<1>2. IsClient
  BY DEF EventDeleted, Mirrored
<1>3. "state" \notin copy.touched => slips' # {}
  BY <1>1, <1>2, SlipStep DEF EventDeleted, Holes
<1> QED
  BY <1>1, <1>3 DEF Causes, ForCause

LEMMA EditedGone ==
  ASSUME IInv, EditedCopy, Mirrored, ~Mirrored'
  PROVE  ForCause
<1>1. TypeOK
  BY DEF IInv
<1>2. CASE OrphanedBySplit
  BY <1>2 DEF OrphanedBySplit, ForCause
<1>3. CASE ~OrphanedBySplit
  <2>1. \/ row' = row
        \/ row' = [Applied EXCEPT !.pending = Propagates \/ @]
    BY <1>3 DEF EditedCopy
  <2>2. Applied \in Row /\ Applied.status = row.status /\ Applied.deleted = row.deleted
    BY <1>1, AppliedType
  <2> HIDE DEF Applied
  <2>3. row'.status = row.status /\ row'.deleted = row.deleted
    BY <2>1, <2>2 DEF Row
  <2> QED
    BY <2>3 DEF Mirrored
<1> QED
  BY <1>2, <1>3

LEMMA FirstEditKeeps ==
  ASSUME IInv, FirstEdit, Mirrored PROVE Mirrored'
<1>1. TypeOK
  BY DEF IInv
<1> DEFINE new == IF row.pending THEN [Applied EXCEPT !.rsvp = row.rsvp] ELSE Applied
<1>2. new \in Row /\ new.deleted = row.deleted
  BY <1>1, AppliedType DEF TypeOK, Row
<1>3. row' = row \/ row' = [new EXCEPT !.status = "active"]
  BY DEF FirstEdit
<1> HIDE DEF new
<1> QED
  BY <1>2, <1>3 DEF Mirrored, Row

(* Steps that set a flag of the row, or retire a tombstone.                *)
LEMMA FlagsKeep ==
  ASSUME TypeOK, Mirrored, ~Mirrored',
         FirstEditIsFlagged \/ Diff \/ RecordOrigin \/ RetireTombstone
  PROVE  ForCause
<1>1. row \in Row /\ series \in Coverage
  BY DEF TypeOK
<1>2. ~FirstEditIsFlagged
  BY <1>1 DEF FirstEditIsFlagged, Mirrored, Row
<1>3. ~RecordOrigin
  BY <1>1 DEF RecordOrigin, Mirrored, Row
<1>4. ~Diff
  <2>1. Diff => row'.status = row.status /\ row'.deleted = row.deleted
    BY <1>1 DEF Diff, Row
  <2> QED
    BY <2>1 DEF Mirrored
<1>5. RetireTombstone => series \in {"beyond", "moved"}
  BY <1>1 DEF RetireTombstone, Revivable, Coverage
<1> QED
  BY <1>2, <1>3, <1>4, <1>5 DEF ForCause

(* A live mirror is kept: the mirror of an event that is live, and was     *)
(* read so, is given up only because somebody deleted the copy, because    *)
(* the series surely does not have the occurrence any more, or through one *)
(* of the known holes.                                                     *)
THEOREM KeepsLiveMirror == Spec => LiveMirrorIsKept
<1>1. ASSUME IInv, [Next]_vars, Mirrored, ~Mirrored', row'.status # "released",
             source.state = "live", ~source.unread
      PROVE  ForCause
  <2>1. TypeOK
    BY <1>1 DEF IInv
  <2>2. row' # row
    BY <1>1 DEF Mirrored
  <2>3. ~UNCHANGED vars /\ ~People
    BY <2>1, <2>2, PeopleStep DEF vars, PeopleDo
  <2>4. CASE Deliver
    <3>1. RecordOrigin \/ RetireTombstone
      BY <2>2, <2>4 DEF Deliver, SendCreate, SendUpdate, UpdateIsStale,
         UpdateFindsNothing, SendDelete, RecordMain, SendPatch, SendDeleteSource, DrainEnds
    <3> QED
      BY <1>1, <2>1, <3>1, FlagsKeep
  <2>5. CASE IngestSource
    BY <1>1, <2>2, <2>5 DEF IngestSource
  <2>6. CASE IngestMain
    BY <1>1, <2>2, <2>6, OccurrenceGone, EventGone, EditedGone, FirstEditKeeps
       DEF IngestMain
  <2>7. CASE FirstEditIsFlagged \/ Diff
    BY <1>1, <2>1, <2>7, FlagsKeep
  <2>8. ~Plan
    BY <2>2 DEF Plan
  <2>9. ~CallFails /\ ~Crash
    BY <2>2 DEF CallFails, Crash
  <2>10. ~Release
    BY <1>1, <2>1 DEF Release, TypeOK, Row
  <2> QED
    BY <1>1, <2>3, <2>4, <2>5, <2>6, <2>7, <2>8, <2>9, <2>10 DEF Next, Pass
<1>2. IInv /\ [Next]_vars =>
        [ (/\ Mirrored /\ ~Mirrored' /\ row'.status # "released"
           /\ source.state = "live" /\ ~source.unread) =>
            (asked \/ series \in {"beyond", "moved"} \/ slips' # {}) ]_vars
  BY <1>1 DEF ForCause
<1> QED
  BY <1>2, InitInv, NextInv, PTL DEF Spec, LiveMirrorIsKept

(* A frozen copy is left alone: after retention released the event nothing *)
(* that is read reaches its row, or has a projection delivered again, but  *)
(* through the handler that had read the row before; and nothing but that  *)
(* handler takes the release back.                                         *)
THEOREM LeavesFrozenAlone == Spec => FrozenCopyIsLeftAlone
<1>1. ASSUME IInv, [Next]_vars, row.status = "released", ~worker.hand,
             worker.pc \in {"client", "main"}
      PROVE  UNCHANGED <<row, main.synced, origin, replan>>
  <2>1. TypeOK /\ StatusRead = "released"
    BY <1>1 DEF IInv, StatusRead
  <2>2. CASE UNCHANGED vars
    BY <2>2 DEF vars
  <2>3. CASE IngestSource
    BY <2>1, <2>3 DEF IngestSource
  <2>4. CASE IngestMain
    BY <2>1, <2>4 DEF IngestMain, HandsOff
  <2>5. ~FirstEditIsFlagged /\ ~Plan /\ ~Diff
    BY <1>1 DEF FirstEditIsFlagged, Plan, Diff
  <2>6. ~Deliver
    BY <1>1 DEF Deliver, SendCreate, SendUpdate, UpdateIsStale, UpdateFindsNothing,
       RetireTombstone, SendDelete, RecordMain, SendPatch, SendDeleteSource, RecordOrigin,
       DrainEnds, Sends
  <2>7. CASE CallFails \/ Crash
    BY <2>7 DEF CallFails, Crash
  <2>8. ~Release
    BY <1>1 DEF Release
  <2>9. CASE People
    <3>1. UNCHANGED <<row, origin, replan>>
      BY <2>1, <2>9, PeopleStep DEF PeopleDo
    <3>2. ASSUME NEW c, NEW field, Touch(c, field) PROVE main'.synced = main.synced
      BY <2>1, <3>2 DEF Touch, TypeOK, Main
    <3>3. Edit => main'.synced = main.synced
      BY DEF Edit
    <3>4. main'.synced = main.synced
      BY <2>9, <3>2, <3>3 DEF People, RespondOnSource, RespondOnMain, ChangeSource,
         ChangeOnMain, Split, CancelSource, RestoreSource, DeleteOnMain, SplitCancelsCopy
    <3> QED
      BY <3>1, <3>4
  <2> QED
    BY <1>1, <2>2, <2>3, <2>4, <2>5, <2>6, <2>7, <2>8, <2>9 DEF Next, Pass
<1>2. ASSUME IInv, [Next]_vars, row.status = "released", ~worker.hand
      PROVE  row'.status = "released"
  <2>1. row \in Row
    BY <1>2 DEF IInv, TypeOK
  <2>2. CASE UNCHANGED row
    BY <1>2, <2>2
  <2>3. CASE IngestSource \/ IngestMain
    BY <1>1, <1>2, <2>3 DEF IngestSource, IngestMain
  <2>4. CASE FirstEditIsFlagged \/ Diff
    BY <1>2, <2>1, <2>4 DEF FirstEditIsFlagged, Diff, Row
  <2>5. CASE RetireTombstone \/ RecordOrigin
    BY <1>2, <2>1, <2>5 DEF RetireTombstone, RecordOrigin, Row
  <2>6. ~Release
    BY <1>2 DEF Release
  <2>7. Plan \/ CallFails \/ Crash => UNCHANGED row
    BY DEF Plan, CallFails, Crash
  <2>8. Deliver => UNCHANGED row \/ RetireTombstone \/ RecordOrigin
    BY DEF Deliver, SendCreate, SendUpdate, UpdateIsStale, UpdateFindsNothing,
       SendDelete, RecordMain, SendPatch, SendDeleteSource, DrainEnds
  <2>9. People \/ UNCHANGED vars => UNCHANGED row
    BY <1>2, PeopleStep DEF PeopleDo, IInv, vars
  <2> QED
    BY <1>2, <2>2, <2>3, <2>4, <2>5, <2>6, <2>7, <2>8, <2>9 DEF Next, Pass
<1>3. IInv /\ [Next]_vars =>
        [ row.status = "released" =>
            /\ worker.pc \in {"client", "main"} =>
                 worker.hand \/ UNCHANGED <<row, main.synced, origin, replan>>
            /\ row'.status = "released" \/ worker.hand ]_vars
  BY <1>1, <1>2
<1> QED
  BY <1>3, InitInv, NextInv, PTL DEF Spec, FrozenCopyIsLeftAlone

-----------------------------------------------------------------------------
(* What is quiet is right.  Source, row, plan and copy form a chain, and   *)
(* each of its links is right or carries a mark that work is left to do:   *)
(* the listing, the replan queue and the write-back flag, the applied      *)
(* version, the outbox.                                                    *)

Same(x, y) == x.rsvp = y.rsvp /\ x.slot = y.slot

(* Nobody responds to an event of a read-only source.                      *)
Voiceless ==
  ~IsClient =>
    /\ source.rsvp = FirstRsvp /\ row.rsvp = FirstRsvp /\ copy.rsvp = FirstRsvp
    /\ main.want = "present" => main.body.rsvp = FirstRsvp
    /\ ops["main"].kind \in {"create", "update"} => ops["main"].body.rsvp = FirstRsvp

(* An occurrence that has no row yet is as its series has it.              *)
Fresh ==
  row.status = "none" =>
    /\ IsOccurrence /\ main.want = "none" /\ origin.want = "none" /\ ~main.id
    /\ ops["main"] = NoOp /\ ops["origin"] = NoOp
    /\ ~row.pending /\ ~row.deleted /\ ~row.erase
    /\ ~source.unread => source.state = "live" /\ Same(source, row)
    /\ ~copy.unread => copy.state = "live" /\ Same(copy, row)

(* Only what may be written is flagged, and nothing is enqueued twice over.*)
Flags ==
  /\ row.pending \/ worker.pc = "halfway" => IsClient
  /\ worker.pc = "halfway" =>
       row.status \in {"active", "released"} /\ IsOccurrence /\ ~main.id
  /\ row.erase \/ ops["origin"].kind = "delete_source" => row.deleted
  /\ row.deleted => ~IsOccurrence
  /\ \A p \in {"main", "origin"} : ops[p].kind = "none" => ops[p] = NoOp
  /\ worker.sent # NULL => worker.pc = "drain" /\ ops[worker.sent] # NoOp

(* A row that is read is as its source, but for what is flagged.           *)
RowFollows ==
  /\ row.status = "active" /\ ~source.unread =>
       source.state = "live" /\ (~Editable => row.slot = source.slot)
  /\ Mirrored /\ ~source.unread /\ ~row.pending /\ worker.pc # "halfway"
       => Same(row, source)

(* A row that is not queued is planned as it is; one that is flagged will  *)
(* be visited by the diff.                                                 *)
PlanFollows ==
  /\ ~replan /\ row.status \notin {"none", "released"} /\ worker.pc # "halfway" =>
       /\ main.want = IF Mirrored THEN "present" ELSE "absent"
       /\ main.body = WantedMain
       /\ IsClient => /\ origin.want = IF Mirrored THEN "patch" ELSE "absent"
                      /\ origin.body = WantedOrigin
  /\ worker.pc \in {"diff", "drain"} /\ row.status = "active" => ~replan
  /\ row.pending /\ Mirrored /\ ~replan => ~origin.synced

(* In the drain, what is flagged is enqueued as it is planned; what was    *)
(* sent is there, unless the source was changed again.                     *)
PatchFollows ==
  /\ worker.pc = "drain" /\ Mirrored /\ row.pending =>
       ops["origin"].kind = "patch" /\ ops["origin"].body = Patch(row)
  /\ worker.sent = "origin" /\ ops["origin"].kind = "patch" =>
       \/ source.unread \/ source.state = "cancelled"
       \/ SourceHas(ops["origin"].body)

(* The event was given up for good, and the plan will say so.              *)
Doomed == ~Mirrored /\ replan /\ (~IsOccurrence => row.deleted)

(* A copy that is delivered and read is as it is planned.                  *)
CopyFollows ==
  /\ main.synced /\ ops["main"] = NoOp /\ row.status # "released" =>
       /\ main.want = "absent" => copy.state = "cancelled"
       /\ main.want = "present" /\ ~copy.unread =>
            (copy.state = "live" /\ Same(copy, main.body)) \/ Doomed
  /\ main.want = "present" /\ ~main.id => ~main.synced
  /\ main.want = "absent" => main.body = NULL

(* Of a copy that is gone the projection knows, and the outbox writes it   *)
(* only as it is told.                                                     *)
OutboxFollows ==
  /\ ~IsOccurrence /\ (~main.id \/ main.current = "absent")
       /\ ops["main"].kind # "create" => copy.state = "cancelled"
  /\ ops["main"].kind = "create" => ~IsOccurrence
  /\ ops["main"].kind = "delete" =>
       ops["main"].body = NULL /\ (main.id \/ copy.state = "cancelled")
  /\ worker.sent = "main" =>
       IF ops["main"].kind = "delete" THEN copy.state = "cancelled" ELSE copy.unread

Follows == Voiceless /\ Fresh /\ Flags /\ RowFollows /\ PlanFollows /\ PatchFollows
           /\ CopyFollows /\ OutboxFollows

(* A handler that read the row before it was released knew it as active,   *)
(* with all that follows.                                                  *)
HandFollows ==
  worker.hand =>
    /\ row.status = "released" /\ worker.pc \in {"client", "main"}
    /\ ~source.unread =>
         source.state = "live" /\ (~Editable => row.slot = source.slot)
    /\ ~source.unread /\ ~row.pending /\ ~row.deleted => Same(row, source)
    /\ row.pending /\ ~row.deleted /\ ~replan => ~origin.synced
    /\ main.synced /\ ops["main"] = NoOp =>
         /\ main.want = "absent" => copy.state = "cancelled"
         /\ main.want = "present" /\ ~copy.unread =>
              \/ copy.state = "live" /\ Same(copy, main.body)
              \/ row.deleted

Fit == IInv /\ (slips = {} => Follows /\ HandFollows)

LEMMA InitFit == Init => Fit
<1> SUFFICES ASSUME Init PROVE Follows /\ HandFollows
  BY InitInv DEF Fit
<1>1. /\ ~source.unread /\ source.state = "live" /\ source.rsvp = FirstRsvp
      /\ source.slot = FirstSlot
      /\ ~copy.unread /\ copy.state = "live" /\ copy.rsvp = FirstRsvp
      /\ copy.slot = FirstSlot
  BY DEF Init
<1>2. /\ row.status = IF event.shape = "single" THEN "active" ELSE "none"
      /\ row.rsvp = FirstRsvp /\ row.slot = FirstSlot
      /\ ~row.deleted /\ ~row.pending /\ ~row.erase
  BY DEF Init
<1>3. /\ ops["main"] = NoOp /\ ops["origin"] = NoOp /\ NoOp.kind = "none"
      /\ worker.pc = "client" /\ worker.sent = NULL /\ ~worker.hand /\ ~replan
  BY DEF Init, NoOp, Idle
<1>4. event.shape = "single" =>
        /\ main.want = "present" /\ main.body = First /\ main.id
        /\ main.current = "present"
        /\ IsClient => origin.want = "patch" /\ origin.body = Patch(row)
  BY DEF Init, IsClient
<1>5. event.shape # "single" =>
        main.want = "none" /\ ~main.id /\ IsOccurrence /\ origin.want = "none"
  BY DEF Init, Event, IsOccurrence
<1>6. First = Shown(row) /\ First.rsvp = FirstRsvp /\ First.slot = FirstSlot
  BY <1>2 DEF First, Shown
<1>7. Fresh
  BY <1>1, <1>2, <1>3, <1>5 DEF Fresh, Same
<1>8. Flags
  BY <1>2, <1>3 DEF Flags
<1>9. RowFollows
  BY <1>1, <1>2 DEF RowFollows, Same, Mirrored
<1>10. PlanFollows
  BY <1>2, <1>3, <1>4, <1>6 DEF PlanFollows, Mirrored, WantedMain, WantedOrigin
<1>11. Voiceless
  BY <1>1, <1>2, <1>3, <1>4, <1>5, <1>6 DEF Voiceless
<1>12. PatchFollows /\ CopyFollows /\ OutboxFollows
  BY <1>1, <1>2, <1>3, <1>4, <1>5, <1>6, ConstantsAssumption
     DEF PatchFollows, CopyFollows, OutboxFollows, Same
<1> QED
  BY <1>3, <1>7, <1>8, <1>9, <1>10, <1>11, <1>12 DEF Follows, HandFollows

LEMMA NoSlip ==
  ASSUME TypeOK, NEW name, NEW happens, Slip(name, happens), slips' = {}
  PROVE  slips = {} /\ ~happens
  BY DEF Slip, Slips, Hole

(* The source is read: the row takes what it has, but for a response that  *)
(* is on its way there, and is queued.                                     *)
LEMMA IngestSourceFit ==
  ASSUME IInv, Follows, IngestSource, slips' = {}, ~worker.hand
  PROVE  Follows'
<1>0. StatusRead = row.status
  BY DEF StatusRead
<1>1. /\ TypeOK /\ worker.pc = "client" /\ worker'.pc = "main"
      /\ worker.sent = NULL /\ worker'.sent = NULL
      /\ ~source'.unread /\ source'.state = source.state
      /\ source'.rsvp = source.rsvp /\ source'.slot = source.slot
      /\ UNCHANGED <<event, series, copy, main, origin, ops>>
  BY DEF IInv, TypeOK, Source, IngestSource, people, Follows, Flags
<1>2. UNCHANGED <<IsClient, IsOccurrence, Editable>>
  BY <1>1 DEF IsClient, IsOccurrence, Editable
<1>3. CASE UNCHANGED <<row, replan>> /\ (~source.unread \/ row.status = "released")
  <2>1. UNCHANGED <<Mirrored, WantedMain, WantedOrigin, Doomed>>
    BY <1>1, <1>3 DEF Mirrored, WantedMain, WantedOrigin, Shown, Patch, Doomed, IsOccurrence
  <2>2. Fresh' /\ RowFollows'
    BY <1>1, <1>2, <1>3, <2>1 DEF Follows, Fresh, RowFollows, Same, Mirrored
  <2>3. Flags' /\ PlanFollows'
    BY <1>1, <1>2, <1>3, <2>1 DEF Follows, Flags, PlanFollows
  <2>4. CopyFollows' /\ OutboxFollows'
    BY <1>1, <1>2, <1>3, <2>1 DEF Follows, CopyFollows, OutboxFollows, Same
  <2>5. Voiceless' /\ PatchFollows'
    BY <1>1, <1>2, <1>3, ConstantsAssumption DEF Follows, Voiceless, PatchFollows
  <2> QED
    BY <2>2, <2>3, <2>4, <2>5 DEF Follows
<1>4. CASE /\ source.unread /\ row.status # "released" /\ replan' = TRUE
           /\ row' = IF source.state = "live" THEN Reread
                       ELSE [row EXCEPT !.status = "cancelled"]
           /\ Slip("revived", UndoesCancellation)
  <2>1. /\ ~UndoesCancellation
        /\ row'.pending = row.pending /\ row'.deleted = row.deleted
        /\ row'.erase = row.erase
    BY <1>0, <1>1, <1>4, NoSlip DEF TypeOK, Row, Reread
  <2>2. source.state = "live" =>
          /\ row' = Reread /\ row'.slot = source.slot
          /\ ~row.pending => row'.rsvp = source.rsvp
          /\ row'.status = "active" \/ (IsOccurrence /\ row'.status = row.status)
          /\ row'.status # "none" /\ row'.status # "released"
    BY <1>0, <1>1, <1>4 DEF TypeOK, Row, Reread, TakenResponse
  <2>3. source.state # "live" => row'.status = "cancelled"
    BY <1>1, <1>4 DEF TypeOK, Row
  <2>4. Fresh'
    BY <2>2, <2>3 DEF Fresh
  <2>5. Flags'
    BY <1>1, <1>2, <2>1 DEF Follows, Flags
  <2>6. RowFollows'
    BY <1>1, <1>2, <2>1, <2>2, <2>3 DEF RowFollows, Mirrored, Same
  <2>7. PlanFollows' /\ PatchFollows'
    BY <1>1, <1>4, ConstantsAssumption DEF PlanFollows, PatchFollows
  <2>8. ASSUME main.synced, main.want = "present", Doomed PROVE Doomed'
    <3>1. CASE ~IsOccurrence
      BY <1>1, <1>2, <1>4, <2>1, <2>8, <3>1 DEF Doomed, Mirrored
    <3>2. CASE IsOccurrence
      <4>1. row.status = "cancelled"
        BY <1>1, <1>4, <2>8, <3>2 DEF Doomed, Mirrored, Follows, Flags, Fresh, TypeOK, Row
      <4>2. source.state = "live" => row'.status # "active"
        BY <2>1, <2>2, <2>8, <3>2, <4>1 DEF UndoesCancellation
      <4> QED
        BY <1>2, <1>4, <2>3, <3>2, <4>2 DEF Doomed, Mirrored
    <3> QED
      BY <3>1, <3>2
  <2>9. CopyFollows'
    BY <1>1, <1>4, <2>8 DEF Follows, CopyFollows, Same
  <2>10. OutboxFollows'
    BY <1>1, <1>2 DEF Follows, OutboxFollows
  <2>11. row.pending => IsClient
    BY DEF Follows, Flags
  <2>12. Voiceless'
    <3>1. ~IsClient => row'.rsvp \in {row.rsvp, source.rsvp}
      BY <1>4, <2>11 DEF Reread, TakenResponse, IInv, TypeOK, Row
    <3> QED
      BY <1>1, <1>2, <3>1 DEF Follows, Voiceless
  <2> QED
    BY <2>4, <2>5, <2>6, <2>7, <2>9, <2>10, <2>12 DEF Follows
<1> QED
  BY <1>0, <1>3, <1>4 DEF IngestSource

(* The copy is read.  What every branch leaves of the chain.               *)
ReadsCopy ==
  /\ worker.pc = "main" /\ worker.sent = NULL /\ worker'.sent = NULL
  /\ worker'.pc \in {"plan", "halfway"}
  /\ copy'.state = copy.state /\ copy'.rsvp = copy.rsvp /\ copy'.slot = copy.slot
  /\ ~copy'.unread \/ copy'.unread = copy.unread
  /\ main'.want = main.want /\ main'.body = main.body /\ main'.id = main.id
  /\ main'.current = main.current /\ (main'.synced => main.synced)
  /\ UNCHANGED <<event, series, source, ops>>

LEMMA NothingReadCopy ==
  ASSUME TypeOK, NothingRead
  PROVE  /\ copy'.state = copy.state /\ copy'.rsvp = copy.rsvp
         /\ copy'.slot = copy.slot /\ ~copy'.unread
         /\ worker'.pc = "plan" /\ worker'.sent = worker.sent
  BY DEF TypeOK, Copy, NothingRead

LEMMA ReadsFit ==
  ASSUME Follows, ReadsCopy
  PROVE  /\ OutboxFollows' /\ PatchFollows'
         /\ UNCHANGED <<IsClient, IsOccurrence, Editable>>
<1>1. UNCHANGED <<IsClient, IsOccurrence, Editable>>
  BY DEF IsClient, IsOccurrence, Editable, ReadsCopy
<1>2. OutboxFollows'
  BY <1>1, ConstantsAssumption DEF Follows, OutboxFollows, ReadsCopy
<1>3. PatchFollows'
  BY ConstantsAssumption DEF PatchFollows, ReadsCopy
<1> QED
  BY <1>1, <1>2, <1>3

(* A copy whose row is as it was, and is not reverted.                     *)
LEMMA HandsOffFit ==
  ASSUME IInv, Follows, worker.pc = "main", ~worker.hand, HandsOff, NothingRead,
         UNCHANGED <<row, main, origin, replan, slips, people, source, ops, budget>>
  PROVE  Follows'
<1>1. TypeOK /\ ReadsCopy /\ worker'.pc = "plan" /\ ~copy'.unread
  BY NothingReadCopy DEF IInv, ReadsCopy, Follows, Flags, people
<1>2. UNCHANGED <<IsClient, IsOccurrence, Editable>> /\ OutboxFollows' /\ PatchFollows'
  BY <1>1, ReadsFit
<1>3. UNCHANGED <<Mirrored, WantedMain, WantedOrigin, Doomed>>
  BY <1>1, <1>2 DEF Mirrored, WantedMain, WantedOrigin, Shown, Patch, Doomed, ReadsCopy
<1>4. Voiceless'
  BY <1>1, <1>2 DEF Follows, Voiceless, ReadsCopy
<1>5. Fresh'
  BY <1>1, <1>2 DEF Follows, Fresh, Voiceless, Same, ReadsCopy, HandsOff, Matched,
                    StatusRead, RsvpChanged, SlotChanged
<1>6. Flags' /\ RowFollows' /\ PlanFollows'
  BY <1>1, <1>2, <1>3 DEF Follows, Flags, RowFollows, PlanFollows, Same, ReadsCopy
<1>7. CopyFollows'
  BY <1>1, <1>2, <1>3 DEF Follows, CopyFollows, Same, ReadsCopy, HandsOff, Matched,
                          StatusRead, OutboxFollows, Flags, Doomed
<1> QED
  BY <1>2, <1>4, <1>5, <1>6, <1>7 DEF Follows

(* The copy is gone: the row is given up, or the copy put back.            *)
LEMMA CopyGoneFit ==
  ASSUME IInv, Follows, worker.pc = "main", slips' = {}, row.status # "released",
         ~worker.hand, OccurrenceDeleted \/ EventDeleted,
         UNCHANGED <<people, source, ops, budget>>
  PROVE  Follows'
<1>1. /\ TypeOK /\ NothingRead /\ replan' = TRUE /\ UNCHANGED origin
      /\ copy.state = "cancelled"
  BY DEF IInv, OccurrenceDeleted, EventDeleted, Read
<1>2. \/ row' = row /\ ~main'.synced /\ (row.status = "none" => ~IsOccurrence)
      \/ IsOccurrence /\ row'.status = "cancelled" /\ UNCHANGED main
      \/ IsClient /\ ~IsOccurrence /\ row'.deleted /\ UNCHANGED main
  BY <1>1 DEF OccurrenceDeleted, EventDeleted, RevertDrift, TypeOK, Row, Main, Matched,
              StatusRead, Follows, Fresh
<1>3. /\ row'.rsvp = row.rsvp /\ row'.slot = row.slot /\ row'.pending = row.pending
      /\ row'.status \in {row.status, "cancelled"}
      /\ row'.deleted => row.deleted \/ ~IsOccurrence
      /\ row'.erase => row'.deleted
      /\ row.deleted => row'.deleted
  BY <1>1 DEF OccurrenceDeleted, EventDeleted, TypeOK, Row, Follows, Flags
<1>4. /\ main'.want = main.want /\ main'.body = main.body /\ main'.id = main.id
      /\ main'.current = main.current /\ (main'.synced => main.synced)
  BY <1>1 DEF OccurrenceDeleted, EventDeleted, RevertDrift, TypeOK, Main
<1>5. ReadsCopy /\ worker'.pc = "plan" /\ ~copy'.unread
  BY <1>1, <1>4, NothingReadCopy DEF ReadsCopy, Follows, Flags, people
<1>6. UNCHANGED <<IsClient, IsOccurrence, Editable>> /\ OutboxFollows' /\ PatchFollows'
  BY <1>5, ReadsFit
<1>7. Voiceless'
  BY <1>3, <1>5, <1>6 DEF Follows, Voiceless, ReadsCopy
<1>8. Fresh'
  BY <1>1, <1>2, <1>3, <1>5, <1>6 DEF Follows, Fresh, Same, ReadsCopy
<1>9. Flags'
  BY <1>3, <1>5, <1>6 DEF Follows, Flags, ReadsCopy
<1>10. RowFollows'
  BY <1>1, <1>2, <1>3, <1>5, <1>6 DEF Follows, RowFollows, Same, Mirrored, ReadsCopy
<1>11. PlanFollows'
  BY <1>1, <1>5 DEF PlanFollows
<1>12. CopyFollows'
  BY <1>1, <1>2, <1>3, <1>5, <1>6
     DEF Follows, CopyFollows, Same, ReadsCopy, Doomed, Mirrored
<1> QED
  BY <1>6, <1>7, <1>8, <1>9, <1>10, <1>11, <1>12 DEF Follows

(* A change of the copy is taken and flagged, or reverted.                 *)
LEMMA EditedCopyFit ==
  ASSUME IInv, Follows, worker.pc = "main", slips' = {}, row.status # "released",
         ~worker.hand, EditedCopy, UNCHANGED <<people, source, ops, budget>>
  PROVE  Follows'
<1>1. /\ TypeOK /\ NothingRead /\ replan' = TRUE /\ copy.state = "live" /\ main.id
      /\ row.status # "none" /\ worker.sent = NULL
  BY DEF IInv, EditedCopy, Read, Matched, Follows, Flags, Fresh
<1>2. worker'.pc = "plan" /\ ~copy'.unread
  BY <1>1, NothingReadCopy
<1> DEFINE asIs == copy'.state = copy.state /\ copy'.rsvp = copy.rsvp /\ copy'.slot = copy.slot
<1>3. CASE OrphanedBySplit
  <2>1. /\ IsOccurrence /\ row' = [row EXCEPT !.status = "cancelled"]
        /\ UNCHANGED <<main, origin, slips>>
    BY <1>3 DEF OrphanedBySplit, EditedCopy
  <2>2. /\ row'.status = "cancelled" /\ row'.rsvp = row.rsvp /\ row'.slot = row.slot
        /\ row'.pending = row.pending /\ row'.deleted = row.deleted
        /\ row'.erase = row.erase
    BY <1>1, <2>1 DEF TypeOK, Row
  <2>3. ReadsCopy
    BY <1>1, <1>2, <2>1, NothingReadCopy DEF ReadsCopy, people
  <2>4. UNCHANGED <<IsClient, IsOccurrence, Editable>> /\ OutboxFollows' /\ PatchFollows'
    BY <2>3, ReadsFit
  <2>5. Voiceless' /\ Fresh'
    BY <2>2, <2>3, <2>4 DEF Follows, Voiceless, Fresh, ReadsCopy
  <2>6. Flags' /\ RowFollows' /\ PlanFollows'
    BY <1>1, <1>2, <2>2, <2>3, <2>4
       DEF Follows, Flags, RowFollows, PlanFollows, Mirrored, ReadsCopy
  <2>7. CopyFollows'
    BY <1>1, <2>1, <2>2, <2>3, <2>4
       DEF Follows, CopyFollows, Same, ReadsCopy, Doomed, Mirrored
  <2> QED
    BY <2>4, <2>5, <2>6, <2>7 DEF Follows
<1>4. CASE ~OrphanedBySplit /\ ~(RsvpChanged \/ SlotChanged)
  <2>1. /\ UNCHANGED <<row, main, origin>>
        /\ main.body \in {NULL, Shown(copy)}
    BY <1>1, <1>4, NoSlip DEF EditedCopy
  <2>2. ReadsCopy
    BY <1>1, <1>2, <2>1, NothingReadCopy DEF ReadsCopy, people
  <2>3. UNCHANGED <<IsClient, IsOccurrence, Editable>> /\ OutboxFollows' /\ PatchFollows'
    BY <2>2, ReadsFit
  <2>4. main.want = "present" => Same(copy, main.body)
    BY <2>1, ConstantsAssumption DEF IInv, Rights, Full, Same, Shown
  <2>5. Voiceless' /\ Fresh'
    BY <1>1, <2>1, <2>2, <2>3 DEF Follows, Voiceless, Fresh, ReadsCopy
  <2>6. Flags' /\ RowFollows' /\ PlanFollows'
    BY <1>1, <1>2, <2>1, <2>2, <2>3
       DEF Follows, Flags, RowFollows, PlanFollows, Mirrored, ReadsCopy, Same
  <2>7. CopyFollows'
    BY <1>1, <2>1, <2>2, <2>3, <2>4 DEF Follows, CopyFollows, Same, ReadsCopy
  <2> QED
    BY <2>3, <2>5, <2>6, <2>7 DEF Follows
<1>5. CASE ~OrphanedBySplit /\ (RsvpChanged \/ SlotChanged)
  <2>1. /\ row' = [Applied EXCEPT !.pending = Propagates \/ @]
        /\ main' = [main EXCEPT !.synced = FALSE]
        /\ origin' = [origin EXCEPT !.synced = @ /\ ~Propagates]
    BY <1>5 DEF EditedCopy
  <2>2. /\ row'.status = row.status /\ row'.deleted = row.deleted
        /\ row'.erase = row.erase
        /\ row'.pending = (Propagates \/ row.pending)
        /\ row'.rsvp = IF AppliesRsvp THEN copy.rsvp ELSE row.rsvp
        /\ row'.slot = IF AppliesSlot THEN copy.slot ELSE row.slot
    BY <1>1, <2>1 DEF TypeOK, Row, Applied
  <2>3. /\ main'.want = main.want /\ main'.body = main.body /\ main'.id = main.id
        /\ main'.current = main.current /\ ~main'.synced
    BY <1>1, <2>1 DEF TypeOK, Main
  <2>4. ReadsCopy
    BY <1>1, <1>2, <2>3, NothingReadCopy DEF ReadsCopy, people
  <2>5. UNCHANGED <<IsClient, IsOccurrence, Editable>> /\ OutboxFollows' /\ PatchFollows'
    BY <2>4, ReadsFit
  <2>6. /\ AppliesRsvp => Propagates /\ IsClient
        /\ AppliesSlot => Propagates /\ Editable /\ IsClient
        /\ Propagates => IsClient
    BY DEF Propagates, AppliesRsvp, AppliesSlot, RsvpChanged, Editable
  <2>7. Voiceless' /\ Fresh'
    BY <1>1, <2>2, <2>4, <2>5, <2>6 DEF Follows, Voiceless, Fresh, ReadsCopy
  <2>8. Flags' /\ PlanFollows'
    BY <1>1, <1>2, <2>2, <2>3, <2>4, <2>5, <2>6 DEF Follows, Flags, PlanFollows, ReadsCopy
  <2>9. RowFollows'
    BY <1>1, <1>2, <2>2, <2>4, <2>5, <2>6
       DEF Follows, RowFollows, Mirrored, ReadsCopy, Same
  <2>10. CopyFollows'
    BY <1>1, <2>3 DEF Follows, CopyFollows
  <2> QED
    BY <2>5, <2>7, <2>8, <2>9, <2>10 DEF Follows
<1> QED
  BY <1>3, <1>4, <1>5

(* The first change of an occurrence's copy makes its row, and flags it in *)
(* a step of its own.                                                      *)
LEMMA FirstEditFit ==
  ASSUME IInv, Follows, worker.pc = "main", slips' = {}, row.status # "released",
         ~worker.hand, FirstEdit, UNCHANGED <<people, source, ops, budget>>
  PROVE  Follows'
<1> DEFINE new == IF row.pending THEN [Applied EXCEPT !.rsvp = row.rsvp] ELSE Applied
           changes == new # row \/ StatusRead = "none"
<1>1. /\ TypeOK /\ worker.sent = NULL /\ copy.state = "live" /\ IsOccurrence /\ ~main.id
      /\ UNCHANGED origin /\ row' = IF changes THEN [new EXCEPT !.status = "active"] ELSE row
  BY DEF IInv, FirstEdit, Matched, Follows, Flags
<1>2. row.status \in {"none", "active"}
  BY <1>1 DEF FirstEdit, Slips, Hole, StatusRead, TypeOK, Row
<1>3. \/ /\ Propagates /\ changes /\ worker'.pc = "halfway"
         /\ worker'.sent = NULL /\ UNCHANGED <<copy, replan>>
      \/ /\ ~(Propagates /\ changes) /\ NothingRead /\ replan' = TRUE
         /\ worker'.pc = "plan" /\ worker'.sent = NULL
  BY <1>1, NothingReadCopy DEF FirstEdit, Read, TypeOK, Worker
<1>4. /\ AppliesRsvp => Propagates /\ IsClient
      /\ AppliesSlot => Propagates /\ Editable /\ IsClient
      /\ Propagates => IsClient
  BY DEF Propagates, AppliesRsvp, AppliesSlot, RsvpChanged, Editable
<1>5. /\ new.rsvp \in {row.rsvp, copy.rsvp} /\ (~Propagates => new = row)
      /\ ~AppliesRsvp => new.rsvp = row.rsvp
      /\ ~AppliesSlot => new.slot = row.slot
      /\ new.pending = row.pending /\ new.deleted = row.deleted /\ new.erase = row.erase
      /\ new.status = row.status /\ new \in Row
  <2>1. row \in Row /\ Applied \in Row
    BY <1>1, AppliedType DEF TypeOK
  <2>2. /\ Applied.rsvp = IF AppliesRsvp THEN copy.rsvp ELSE row.rsvp
        /\ Applied.slot = IF AppliesSlot THEN copy.slot ELSE row.slot
        /\ Applied.pending = row.pending /\ Applied.deleted = row.deleted
        /\ Applied.erase = row.erase /\ Applied.status = row.status
    BY <2>1 DEF Applied, Row
  <2>3. ~Propagates => Applied = row
    BY <1>4, <2>1 DEF Applied, Row
  <2> HIDE DEF Applied
  <2> QED
    BY <1>4, <2>1, <2>2, <2>3 DEF Row
<1> HIDE DEF new
<1>6. /\ row'.status = "active" /\ row'.pending = row.pending
      /\ row'.deleted = row.deleted /\ row'.erase = row.erase
      /\ row'.rsvp = new.rsvp /\ row'.slot = new.slot
  <2>1. CASE changes
    BY <1>1, <1>5, <2>1 DEF Row
  <2>2. CASE ~changes
    BY <1>1, <1>2, <2>2 DEF StatusRead
  <2> QED
    BY <2>1, <2>2
<1>7. /\ main'.want = main.want /\ main'.body = main.body /\ main'.id = main.id
      /\ main'.current = main.current /\ (main'.synced => main.synced)
  BY <1>1 DEF FirstEdit, TypeOK, Main
<1>8. ReadsCopy
  BY <1>1, <1>3, <1>7, NothingReadCopy DEF ReadsCopy, people
<1>9. UNCHANGED <<IsClient, IsOccurrence, Editable>> /\ OutboxFollows' /\ PatchFollows'
  BY <1>8, ReadsFit
<1>10. Voiceless' /\ Fresh'
  BY <1>4, <1>5, <1>6, <1>8, <1>9 DEF Follows, Voiceless, Fresh, ReadsCopy
<1>11. Flags'
  BY <1>1, <1>3, <1>4, <1>6, <1>8, <1>9 DEF Follows, Flags, ReadsCopy
<1>12. RowFollows'
  <2>1. ~source.unread => source.state = "live" /\ (~Editable => row.slot = source.slot)
    BY <1>2 DEF Follows, Fresh, RowFollows, Same
  <2>2. worker'.pc # "halfway" => ~Propagates \/ (row' = row /\ row.status = "active")
    <3>1. ~changes => row' = row /\ row.status = "active"
      BY <1>1, <1>2 DEF StatusRead
    <3> HIDE DEF changes
    <3> QED
      BY <1>3, <3>1
  <2>3. ~Propagates /\ ~source.unread /\ ~row.pending /\ ~row.deleted => Same(row, source)
    BY <1>1, <1>2 DEF Follows, Fresh, RowFollows, Same, Mirrored
  <2>4. row.status = "active" /\ ~source.unread /\ ~row.pending /\ ~row.deleted
          => Same(row, source)
    BY <1>1 DEF Follows, RowFollows, Mirrored
  <2> QED
    BY <1>4, <1>5, <1>6, <1>8, <1>9, <2>1, <2>2, <2>3, <2>4
       DEF RowFollows, Same, Mirrored, ReadsCopy
<1>13. PlanFollows'
  BY <1>1, <1>2, <1>3, <1>6 DEF Follows, PlanFollows, Fresh, Mirrored
<1>14. CopyFollows'
  BY <1>1, <1>2, <1>7, <1>8, <1>9 DEF Follows, CopyFollows, Fresh, ReadsCopy
<1> QED
  BY <1>9, <1>10, <1>11, <1>12, <1>13, <1>14 DEF Follows

LEMMA IngestMainFit ==
  ASSUME IInv, Follows, IngestMain, slips' = {}, ~worker.hand
  PROVE  Follows'
<1>1. worker.pc = "main" /\ UNCHANGED <<people, source, ops, budget>>
  BY DEF IngestMain
<1>2. CASE HandsOff /\ NothingRead /\ UNCHANGED <<row, main, origin, replan, slips>>
  BY <1>1, <1>2, HandsOffFit
<1>3. CASE ~HandsOff /\ (OccurrenceDeleted \/ EventDeleted \/ EditedCopy \/ FirstEdit)
  BY <1>1, <1>3, CopyGoneFit, EditedCopyFit, FirstEditFit
     DEF HandsOff, StatusRead
<1> QED
  BY <1>2, <1>3 DEF IngestMain

LEMMA FirstEditIsFlaggedFit ==
  ASSUME IInv, Follows, FirstEditIsFlagged
  PROVE  Follows'
<1>1. /\ TypeOK /\ worker.pc = "halfway" /\ worker.sent = NULL
      /\ NothingRead /\ replan' = TRUE
      /\ UNCHANGED <<event, series, source, main, origin, ops>>
  BY DEF IInv, FirstEditIsFlagged, Read, people, Follows, Flags
<1>2. /\ row'.pending /\ row'.status = row.status /\ row'.rsvp = row.rsvp
      /\ row'.slot = row.slot /\ row'.deleted = row.deleted /\ row'.erase = row.erase
  BY <1>1 DEF FirstEditIsFlagged, TypeOK, Row
<1>3. /\ copy'.state = copy.state /\ copy'.rsvp = copy.rsvp /\ copy'.slot = copy.slot
      /\ worker'.pc = "plan" /\ worker'.sent = NULL
  BY <1>1, NothingReadCopy
<1>4. UNCHANGED <<IsClient, IsOccurrence, Editable>>
  BY <1>1 DEF IsClient, IsOccurrence, Editable
<1>5. IsClient /\ IsOccurrence /\ ~main.id /\ row.status \in {"active", "released"}
  BY <1>1 DEF Follows, Flags
<1>6. Voiceless' /\ Fresh' /\ Flags'
  BY <1>1, <1>2, <1>3, <1>4, <1>5 DEF Follows, Voiceless, Fresh, Flags
<1>7. RowFollows' /\ PlanFollows'
  BY <1>1, <1>2, <1>3, <1>4, <1>5 DEF Follows, RowFollows, PlanFollows
<1>8. PatchFollows' /\ CopyFollows' /\ OutboxFollows'
  BY <1>1, <1>2, <1>3, <1>4, <1>5, ConstantsAssumption
     DEF Follows, PatchFollows, CopyFollows, OutboxFollows
<1> QED
  BY <1>6, <1>7, <1>8 DEF Follows

(* What is queued is planned as the row has it; a flagged write-back is    *)
(* marked for the diff even if its body is the one planned before.         *)
LEMMA PlanFit ==
  ASSUME IInv, Follows, Plan
  PROVE  Follows'
<1>1. /\ TypeOK /\ worker.pc = "plan" /\ worker'.pc = "diff" /\ worker.sent = NULL
      /\ worker'.sent = NULL /\ ~replan'
      /\ UNCHANGED <<event, series, source, copy, row, ops>>
  BY DEF IInv, Plan, TypeOK, people, Follows, Flags
<1>2. UNCHANGED <<IsClient, IsOccurrence, Editable, Mirrored, WantedMain, WantedOrigin>>
  BY <1>1 DEF IsClient, IsOccurrence, Editable, Mirrored, WantedMain, WantedOrigin,
              Shown, Patch
<1>3. Flags' /\ RowFollows' /\ PatchFollows'
  <2>1. main'.id = main.id
    BY <1>1 DEF Plan, Planned, TypeOK, Main
  <2> QED
    BY <1>1, <1>2, <2>1, ConstantsAssumption
       DEF Follows, Flags, RowFollows, PatchFollows, Same
<1>4. CASE ~(replan /\ row.status \notin {"none", "released"})
  <2>1. UNCHANGED <<main, origin>>
    BY <1>4 DEF Plan
  <2>2. Voiceless' /\ Fresh'
    BY <1>1, <1>2, <2>1 DEF Follows, Voiceless, Fresh, Same
  <2>3. PlanFollows'
    BY <1>1, <1>2, <1>4, <2>1 DEF Follows, PlanFollows, Mirrored
  <2>4. CopyFollows' /\ OutboxFollows'
    BY <1>1, <1>2, <1>4, <2>1, ConstantsAssumption
       DEF Follows, CopyFollows, OutboxFollows, Same, Doomed, Fresh
  <2> QED
    BY <1>3, <2>2, <2>3, <2>4 DEF Follows
<1>5. CASE replan /\ row.status \notin {"none", "released"}
  <2> DEFINE want == IF Mirrored THEN "present" ELSE "absent"
             patch == IF Mirrored THEN "patch" ELSE "absent"
  <2>1. main' = Planned(main, want, WantedMain, FALSE)
    BY <1>5 DEF Plan
  <2>2. /\ main'.want = want /\ main'.body = WantedMain
        /\ main'.id = main.id /\ main'.current = main.current
        /\ main'.synced => main.synced /\ main.want = want /\ main.body = WantedMain
    BY <1>1, <2>1 DEF Planned, Unchanged, TypeOK, Main
  <2>3. IsClient => /\ origin'.want = patch /\ origin'.body = WantedOrigin
                    /\ row.pending => ~origin'.synced
    BY <1>1, <1>5 DEF Plan, Planned, Unchanged, TypeOK, Origin
  <2>4. row.pending => IsClient
    BY DEF Follows, Flags
  <2>5. Mirrored => WantedMain = Shown(row) /\ Shown(row).rsvp = row.rsvp
    BY DEF WantedMain, Shown
  <2>6. Voiceless' /\ Fresh'
    BY <1>1, <1>2, <1>5, <2>2, <2>5 DEF Follows, Voiceless, Fresh
  <2>7. PlanFollows'
    BY <1>1, <1>2, <2>2, <2>3, <2>4 DEF PlanFollows
  <2>8. Mirrored => ~Doomed
    BY DEF Doomed
  <2>9. CopyFollows'
    BY <1>1, <1>2, <2>2, <2>8 DEF Follows, CopyFollows, Same, WantedMain
  <2>10. OutboxFollows'
    BY <1>1, <1>2, <2>2, ConstantsAssumption DEF Follows, OutboxFollows
  <2> QED
    BY <1>3, <2>6, <2>7, <2>9, <2>10 DEF Follows
<1> QED
  BY <1>4, <1>5

(* What is not delivered is enqueued; a write-back is disarmed without a   *)
(* write only if the source has it.                                        *)
LEMMA DiffFit ==
  ASSUME IInv, Follows, Diff, slips' = {}
  PROVE  Follows'
<1> DEFINE visitsMain == main.want # "none" /\ ~main.synced
           visitsOrigin == origin.want # "none" /\ ~origin.synced
           disarms == visitsOrigin /\ ConvergedWriteback
<1>1. /\ TypeOK /\ Rights /\ worker.pc = "diff" /\ worker'.pc = "drain"
      /\ worker.sent = NULL /\ worker'.sent = NULL
      /\ UNCHANGED <<event, series, source, copy, replan>>
      /\ disarms => SourceHas(origin.body)
      /\ main.want \in {"none", "present", "absent"}
  BY NoSlip DEF IInv, Diff, TypeOK, Main, Worker, people, Follows, Flags
<1>2. /\ row'.status = row.status /\ row'.rsvp = row.rsvp /\ row'.slot = row.slot
      /\ row'.deleted = row.deleted /\ row'.erase = row.erase
      /\ row'.pending = (row.pending /\ ~disarms)
  BY <1>1 DEF Diff, TypeOK, Row
<1>3. UNCHANGED <<IsClient, IsOccurrence, Editable, Mirrored, WantedMain, WantedOrigin,
                  Doomed>> /\ Patch(row)' = Patch(row)
  BY <1>1, <1>2 DEF IsClient, IsOccurrence, Editable, Mirrored, WantedMain, WantedOrigin,
                    Shown, Patch, Doomed
<1>4. /\ main'.want = main.want /\ main'.body = main.body
      /\ main'.current = main.current
      /\ visitsMain => /\ main'.id <=> main.id \/ IsOccurrence
                       /\ main'.synced <=> DecidedMain = NoOp
      /\ ~visitsMain => main'.id = main.id /\ main'.synced = main.synced
  BY <1>1 DEF Diff, TypeOK, Main
<1>5. /\ origin'.want = origin.want /\ origin'.body = origin.body
      /\ origin'.synced => origin.synced \/ (visitsOrigin /\ DecidedOrigin = NoOp)
      /\ visitsOrigin /\ DecidedOrigin # NoOp => origin' = origin
  BY <1>1 DEF Diff, TypeOK, Origin
<1>6. /\ ops'["main"] = IF visitsMain /\ DecidedMain # NoOp THEN DecidedMain ELSE ops["main"]
      /\ ops'["origin"] = IF visitsOrigin /\ DecidedOrigin # NoOp THEN DecidedOrigin
                                                                 ELSE ops["origin"]
  BY DEF Diff
<1>7. DecidedMain # NoOp =>
         \/ /\ main.want = "absent" /\ DecidedMain.kind = "delete"
            /\ DecidedMain.body = NULL
            /\ IsOccurrence \/ (main.id /\ main.current # "absent")
         \/ /\ main.want # "absent" /\ DecidedMain.body = main.body
            /\ DecidedMain.kind = IF ~IsOccurrence /\ (main.current = "absent" \/ ~main.id)
                                    THEN "create" ELSE "update"
  BY DEF DecidedMain
<1>8. DecidedMain = NoOp =>
         /\ main.want = "absent" /\ ~IsOccurrence
         /\ ~main.id \/ main.current = "absent"
  BY DEF DecidedMain, NoOp
<1>9. /\ DecidedOrigin # NoOp =>
           \/ DecidedOrigin.kind = "delete_source" /\ row.erase
           \/ DecidedOrigin.kind = "patch" /\ DecidedOrigin.body = origin.body
      /\ origin.want = "patch" /\ row.pending /\ origin.applied # origin.body =>
           DecidedOrigin.kind = "patch" /\ DecidedOrigin # NoOp
           /\ DecidedOrigin.body = origin.body
  BY DEF DecidedOrigin, NoOp
<1>10. Mirrored /\ row.pending =>
         /\ origin.want = "patch" /\ origin.body = Patch(row) /\ ~origin.synced
         /\ ~replan /\ IsClient
  BY <1>1 DEF Follows, PlanFollows, Flags, Mirrored, WantedOrigin
<1>11. Mirrored /\ row'.pending =>
         /\ DecidedOrigin.kind = "patch" /\ DecidedOrigin.body = Patch(row)
         /\ origin' = origin /\ ops'["origin"] = DecidedOrigin
  BY <1>2, <1>5, <1>6, <1>9, <1>10 DEF ConvergedWriteback
<1> HIDE DEF visitsMain, visitsOrigin, disarms
<1>12. Voiceless'
  BY <1>1, <1>2, <1>3, <1>4, <1>6, <1>7 DEF Follows, Voiceless, visitsMain
<1>13. Fresh'
  BY <1>1, <1>2, <1>3, <1>4, <1>5, <1>6
     DEF Follows, Fresh, Same, visitsMain, visitsOrigin
<1>14. Flags'
  BY <1>1, <1>2, <1>3, <1>6, <1>7, <1>9 DEF Follows, Flags
<1>15. RowFollows'
  <2>1. ASSUME Mirrored, ~source.unread, row.pending, disarms PROVE Same(row, source)
    <3>1. SourceHas(Patch(row))
      BY <1>1, <1>10, <2>1
    <3>2. row.slot \in Slots /\ row.slot # NULL
      BY <1>1, ConstantsAssumption DEF TypeOK, Row
    <3>3. event.locked => row.slot = source.slot
      BY <2>1 DEF Follows, RowFollows, Mirrored, Editable
    <3> QED
      BY <3>1, <3>2, <3>3 DEF SourceHas, Patch, Shown, Same
  <2> QED
    BY <1>1, <1>2, <1>3, <2>1 DEF Follows, RowFollows, Same
<1>16. PlanFollows'
  BY <1>1, <1>2, <1>3, <1>4, <1>5, <1>10, <1>11 DEF Follows, PlanFollows
<1>17. PatchFollows'
  BY <1>1, <1>3, <1>11, ConstantsAssumption DEF PatchFollows
<1>18. CopyFollows'
  BY <1>1, <1>2, <1>3, <1>4, <1>6, <1>7, <1>8
     DEF Follows, CopyFollows, OutboxFollows, Same, visitsMain, NoOp
<1>19. OutboxFollows'
  <2>1. CASE visitsMain /\ DecidedMain # NoOp
    <3>1. ops'["main"] = DecidedMain /\ (main'.id <=> main.id \/ IsOccurrence)
      BY <1>4, <1>6, <2>1
    <3> QED
      BY <1>1, <1>3, <1>4, <1>7, <2>1, <3>1, ConstantsAssumption
         DEF Follows, OutboxFollows
  <2>2. CASE ~(visitsMain /\ DecidedMain # NoOp)
    <3>1. ops'["main"] = ops["main"] /\ (main'.id <=> main.id)
      BY <1>4, <1>6, <1>8, <2>2 DEF IInv, TypeOK, Main
    <3> QED
      BY <1>1, <1>3, <1>4, <3>1, ConstantsAssumption DEF Follows, OutboxFollows
  <2> QED
    BY <2>1, <2>2
<1> QED
  BY <1>12, <1>13, <1>14, <1>15, <1>16, <1>17, <1>18, <1>19 DEF Follows

(* A delivery leaves the source and the row alone: of the chain it is only *)
(* the copy's part that it can disturb.                                    *)
DeliversCopy ==
  /\ worker.pc = "drain" /\ worker'.pc = "drain" /\ ops["main"] # NoOp
  /\ worker'.sent = NULL \/ (worker'.sent = "main" /\ ops'["main"] # NoOp)
  /\ ops'["origin"] = ops["origin"]
  /\ ops'["main"] = ops["main"] \/ ops'["main"] = NoOp
  /\ main'.want = main.want /\ main'.body = main.body
  /\ UNCHANGED <<event, series, source, row, origin, replan>>

LEMMA DeliversFit ==
  ASSUME Follows, DeliversCopy
  PROVE  /\ Fresh' /\ Flags' /\ RowFollows' /\ PlanFollows' /\ PatchFollows'
         /\ UNCHANGED <<IsClient, IsOccurrence, Doomed>>
<1>1. UNCHANGED <<IsClient, IsOccurrence, Editable, Mirrored, WantedMain, WantedOrigin,
                  Doomed>> /\ Patch(row)' = Patch(row)
  BY DEF DeliversCopy, IsClient, IsOccurrence, Editable, Mirrored, WantedMain,
         WantedOrigin, Shown, Patch, Doomed
<1>2. NoOp.kind = "none" /\ NoOp.body = NULL
  BY DEF NoOp
<1>3. Fresh' /\ RowFollows' /\ PlanFollows'
  BY <1>1 DEF Follows, Fresh, RowFollows, PlanFollows, Same, DeliversCopy
<1>4. Flags'
  <2>1. worker'.sent # NULL => worker'.pc = "drain" /\ ops'[worker'.sent] # NoOp
    BY DEF DeliversCopy
  <2> QED
    BY <1>1, <1>2, <2>1 DEF Follows, Flags, DeliversCopy
<1>5. PatchFollows'
  BY <1>1, ConstantsAssumption DEF Follows, PatchFollows, SourceHas, DeliversCopy
<1> QED
  BY <1>1, <1>2, <1>3, <1>4, <1>5 DEF DeliversCopy

(* An op is dropped from the outbox.                                       *)
LEMMA DropsCopyOp ==
  ASSUME TypeOK, DropOp("main")
  PROVE  ops'["main"] = NoOp /\ ops'["origin"] = ops["origin"] /\ NoOp.kind = "none"
  BY DEF TypeOK, DropOp, NoOp

LEMMA SendCopyFit ==
  ASSUME IInv, Follows, SendCreate \/ SendUpdate
  PROVE  Follows'
<1>1. /\ TypeOK /\ worker.pc = "drain" /\ ops["main"].kind \in {"create", "update"}
      /\ worker'.pc = "drain" /\ worker'.sent = "main" /\ WriteCopy(ops["main"].body)
      /\ UNCHANGED <<event, series, source, row, main, origin, ops, replan>>
  BY DEF IInv, TypeOK, Worker, SendCreate, SendUpdate, Sends, Sent, people
<1>2. /\ copy'.unread /\ copy'.state = "live" /\ copy'.rsvp = ops["main"].body.rsvp
      /\ ops["main"] # NoOp
  BY <1>1 DEF WriteCopy, NoOp
<1>3. DeliversCopy
  BY <1>1, <1>2 DEF DeliversCopy
<1>4. /\ Fresh' /\ Flags' /\ RowFollows' /\ PlanFollows' /\ PatchFollows'
      /\ UNCHANGED <<IsClient, IsOccurrence, Doomed>>
  BY <1>3, DeliversFit
<1>5. Voiceless'
  BY <1>1, <1>2, <1>4 DEF Follows, Voiceless
<1>6. CopyFollows'
  BY <1>1, <1>2 DEF Follows, CopyFollows
<1>7. OutboxFollows'
  <2>1. ~IsOccurrence /\ (~main.id \/ main.current = "absent") => ops["main"].kind = "create"
    BY <1>1 DEF SendCreate, SendUpdate, Sends, Revivable, Follows, OutboxFollows
  <2> QED
    BY <1>1, <1>2, <1>4, <2>1 DEF Follows, OutboxFollows
<1> QED
  BY <1>4, <1>5, <1>6, <1>7 DEF Follows

(* The copy is stale, or is gone.                                          *)
LEMMA UpdateFailsFit ==
  ASSUME IInv, Follows, UpdateIsStale \/ UpdateFindsNothing
  PROVE  Follows'
<1>1. /\ TypeOK /\ worker.pc = "drain" /\ ops["main"].kind = "update"
      /\ worker'.pc = "drain" /\ worker'.sent = NULL /\ DropOp("main")
      /\ UNCHANGED <<event, series, source, copy, row, origin, replan>>
  BY DEF IInv, TypeOK, Worker, UpdateIsStale, UpdateFindsNothing, Sends, Taken, people
<1>2. /\ ops'["main"] = NoOp /\ ops'["origin"] = ops["origin"] /\ NoOp.kind = "none"
      /\ ops["main"] # NoOp
  BY <1>1, DropsCopyOp
<1>3. /\ main'.want = main.want /\ main'.body = main.body /\ ~main'.synced
      /\ (main'.id = main.id /\ main'.current = main.current)
           \/ (IsOccurrence \/ ~main.id \/ copy.state = "cancelled")
  BY <1>1 DEF TypeOK, Main, UpdateIsStale, UpdateFindsNothing
<1>4. DeliversCopy
  BY <1>1, <1>2, <1>3 DEF DeliversCopy
<1>5. /\ Fresh' /\ Flags' /\ RowFollows' /\ PlanFollows' /\ PatchFollows'
      /\ UNCHANGED <<IsClient, IsOccurrence, Doomed>>
  BY <1>4, DeliversFit
<1>6. Voiceless' /\ CopyFollows'
  BY <1>1, <1>2, <1>3, <1>5 DEF Follows, Voiceless, CopyFollows
<1>7. OutboxFollows'
  BY <1>1, <1>2, <1>3, <1>5, ConstantsAssumption DEF Follows, OutboxFollows
<1> QED
  BY <1>5, <1>6, <1>7 DEF Follows

(* An occurrence the series does not have any more is given up.            *)
LEMMA RetireFit ==
  ASSUME IInv, Follows, RetireTombstone
  PROVE  Follows'
<1>1. /\ TypeOK /\ worker.pc = "drain" /\ ops["main"].kind = "update"
      /\ worker'.pc = "drain" /\ worker'.sent = NULL /\ DropOp("main")
      /\ IsOccurrence /\ copy.state = "cancelled"
      /\ replan' = (replan \/ row.status = "active")
      /\ UNCHANGED <<event, series, source, copy, origin>>
  BY DEF IInv, TypeOK, RetireTombstone, Sends, Taken, people
<1>2. /\ ops'["main"] = NoOp /\ ops'["origin"] = ops["origin"] /\ NoOp.kind = "none"
      /\ ops["main"] # NoOp
  BY <1>1, DropsCopyOp
<1>3. main'.want = "absent" /\ main'.body = NULL
  BY <1>1 DEF RetireTombstone, TypeOK, Main
<1>4. /\ row'.status = IF row.status = "active" THEN "cancelled" ELSE row.status
      /\ row'.rsvp = row.rsvp /\ row'.slot = row.slot /\ row'.pending = row.pending
      /\ row'.deleted = row.deleted /\ row'.erase = row.erase
  BY <1>1 DEF RetireTombstone, TypeOK, Row
<1>5. UNCHANGED <<IsClient, IsOccurrence, Editable>> /\ ~Mirrored'
  BY <1>1, <1>4 DEF IsClient, IsOccurrence, Editable, Mirrored
<1>6. row.status # "none"
  BY <1>2 DEF Follows, Fresh
<1>7. Voiceless' /\ Fresh' /\ Flags' /\ RowFollows'
  BY <1>1, <1>2, <1>3, <1>4, <1>5, <1>6
     DEF Follows, Voiceless, Fresh, Flags, RowFollows
<1>8. PlanFollows'
  <2>1. ~replan' /\ row'.status \notin {"none", "released"} =>
          ~replan /\ row.status \notin {"none", "released"} /\ ~Mirrored
    BY <1>1, <1>4 DEF Mirrored
  <2>2. WantedMain' = NULL /\ WantedOrigin' = NULL
    BY <1>5 DEF WantedMain, WantedOrigin
  <2> QED
    BY <1>1, <1>3, <1>4, <1>5, <2>1, <2>2 DEF Follows, PlanFollows, WantedOrigin
<1>9. PatchFollows' /\ CopyFollows' /\ OutboxFollows'
  BY <1>1, <1>2, <1>3, <1>5, ConstantsAssumption
     DEF Follows, PatchFollows, CopyFollows, OutboxFollows
<1> QED
  BY <1>7, <1>8, <1>9 DEF Follows

LEMMA SendDeleteFit ==
  ASSUME IInv, Follows, SendDelete
  PROVE  Follows'
<1>1. /\ TypeOK /\ worker.pc = "drain" /\ ops["main"].kind = "delete"
      /\ worker'.pc = "drain" /\ worker'.sent = "main"
      /\ UNCHANGED <<event, series, source, row, main, origin, ops, replan>>
  BY DEF IInv, TypeOK, SendDelete, Sends, Sent, people
<1>2. copy'.state = "cancelled" /\ copy'.rsvp = copy.rsvp /\ copy'.slot = copy.slot
      /\ ops["main"] # NoOp
  BY <1>1 DEF SendDelete, TypeOK, Copy, NoOp, Follows, OutboxFollows
<1>3. DeliversCopy
  BY <1>1, <1>2 DEF DeliversCopy
<1>4. /\ Fresh' /\ Flags' /\ RowFollows' /\ PlanFollows' /\ PatchFollows'
      /\ UNCHANGED <<IsClient, IsOccurrence, Doomed>>
  BY <1>3, DeliversFit
<1>5. Voiceless' /\ CopyFollows' /\ OutboxFollows'
  BY <1>1, <1>2, <1>4 DEF Follows, Voiceless, CopyFollows, OutboxFollows
<1> QED
  BY <1>4, <1>5 DEF Follows

(* Only what the projection still wants is recorded as applied.            *)
LEMMA RecordMainFit ==
  ASSUME IInv, Follows, RecordMain
  PROVE  Follows'
<1>1. /\ TypeOK /\ worker.pc = "drain" /\ worker.sent = "main"
      /\ worker'.pc = "drain" /\ worker'.sent = NULL /\ DropOp("main")
      /\ UNCHANGED <<event, series, source, copy, row, origin, replan>>
  BY DEF IInv, TypeOK, RecordMain, Taken, people
<1>2. /\ ops'["main"] = NoOp /\ ops'["origin"] = ops["origin"] /\ NoOp.kind = "none"
      /\ ops["main"] # NoOp
  BY <1>1, DropsCopyOp, ConstantsAssumption DEF Follows, Flags
<1>3. /\ main'.want = main.want /\ main'.body = main.body
      /\ ops["main"].kind = "delete" => main'.id = main.id
      /\ ops["main"].kind # "delete" => main'.id /\ main'.current = "present"
      /\ main'.synced => (ops["main"].kind = "delete" <=> main.want = "absent")
  BY <1>1 DEF RecordMain, TypeOK, Main
<1>4. IF ops["main"].kind = "delete" THEN copy.state = "cancelled" ELSE copy.unread
  BY <1>1 DEF Follows, OutboxFollows
<1>5. DeliversCopy
  BY <1>1, <1>2, <1>3 DEF DeliversCopy
<1>6. /\ Fresh' /\ Flags' /\ RowFollows' /\ PlanFollows' /\ PatchFollows'
      /\ UNCHANGED <<IsClient, IsOccurrence, Doomed>>
  BY <1>5, DeliversFit
<1>7. Voiceless' /\ CopyFollows'
  BY <1>1, <1>2, <1>3, <1>4, <1>6 DEF Follows, Voiceless, CopyFollows
<1>8. OutboxFollows'
  BY <1>1, <1>2, <1>3, <1>4, <1>6, ConstantsAssumption DEF Follows, OutboxFollows
<1> QED
  BY <1>6, <1>7, <1>8 DEF Follows

(* The source is written: it has what was sent, or somebody changed it     *)
(* since, and then it will be read.                                        *)
LEMMA SendSourceFit ==
  ASSUME IInv, Follows, SendPatch \/ SendDeleteSource
  PROVE  Follows'
<1>1. /\ TypeOK /\ worker.pc = "drain" /\ worker'.pc = "drain"
      /\ worker'.sent = "origin" /\ ops["origin"].kind \in {"patch", "delete_source"}
      /\ UNCHANGED <<event, series, copy, row, main, origin, ops, replan>>
  BY DEF IInv, TypeOK, Worker, SendPatch, SendDeleteSource, Sends, Sent, people
<1>2. ops["origin"] # NoOp /\ IsClient
  BY <1>1 DEF NoOp, IInv, Rights
<1>3. UNCHANGED <<IsClient, IsOccurrence, Editable, Mirrored, WantedMain, WantedOrigin,
                  Doomed>> /\ Patch(row)' = Patch(row)
  BY <1>1 DEF IsClient, IsOccurrence, Editable, Mirrored, WantedMain, WantedOrigin,
              Shown, Patch, Doomed
<1>4. source'.unread \/ source' = source
  BY <1>1 DEF SendPatch, SendDeleteSource, TypeOK, Source
<1>5. ops["origin"].kind = "patch" =>
        \/ source'.unread \/ source'.state = "cancelled"
        \/ SourceHas(ops["origin"].body)'
  <2> SUFFICES ASSUME ops["origin"].kind = "patch", source.state = "live", ~source'.unread
               PROVE  SourceHas(ops["origin"].body)'
    BY <1>1, <1>4 DEF TypeOK, Source
  <2> DEFINE body == ops["origin"].body
             slot == IF body.slot = NULL THEN source.slot ELSE body.slot
             patched == [source EXCEPT !.rsvp = body.rsvp, !.slot = slot]
  <2>1. source' = source /\ (patched = source \/ source' = [patched EXCEPT !.unread = TRUE])
    BY <1>1, <1>4 DEF SendPatch, SendDeleteSource, Sends, TypeOK, Source
  <2>2. patched = source
    <3> HIDE DEF slot, body
    <3> QED
      BY <1>1, <2>1 DEF TypeOK, Source
  <2>3. source.rsvp = body.rsvp /\ source.slot = slot
    <3> HIDE DEF slot, body
    <3> QED
      BY <1>1, <2>2 DEF TypeOK, Source
  <2> QED
    BY <1>1, <2>1, <2>3 DEF SourceHas
<1>6. Voiceless' /\ Fresh' /\ Flags'
  BY <1>1, <1>2, <1>3 DEF Follows, Voiceless, Fresh, Flags
<1>7. RowFollows' /\ PlanFollows'
  BY <1>1, <1>3, <1>4 DEF Follows, RowFollows, PlanFollows, Same
<1>8. PatchFollows'
  BY <1>1, <1>3, <1>5 DEF Follows, PatchFollows
<1>9. CopyFollows' /\ OutboxFollows'
  BY <1>1, <1>3 DEF Follows, CopyFollows, OutboxFollows, Same
<1> QED
  BY <1>6, <1>7, <1>8, <1>9 DEF Follows

(* The flag is cleared once the source has what the row shows.             *)
LEMMA RecordOriginFit ==
  ASSUME IInv, Follows, RecordOrigin
  PROVE  Follows'
<1> DEFINE op == ops["origin"]
<1>1. /\ TypeOK /\ worker.pc = "drain" /\ worker.sent = "origin" /\ op # NoOp
      /\ worker'.pc = "drain" /\ worker'.sent = NULL
      /\ UNCHANGED <<event, series, source, copy, main, replan>>
  BY ConstantsAssumption
     DEF IInv, TypeOK, RecordOrigin, Taken, people, Follows, Flags
<1>2. ops'["origin"] = NoOp /\ ops'["main"] = ops["main"] /\ NoOp.kind = "none"
  BY <1>1 DEF RecordOrigin, DropOp, TypeOK, NoOp
<1>3. /\ row'.status = row.status /\ row'.rsvp = row.rsvp /\ row'.slot = row.slot
      /\ row'.deleted = row.deleted /\ (row'.erase => row.erase)
      /\ row'.pending => row.pending /\ op.kind # "patch"
  BY <1>1 DEF RecordOrigin, TypeOK, Row
<1>4. origin'.want = origin.want /\ origin'.body = origin.body
  BY <1>1 DEF RecordOrigin, TypeOK, Origin
<1>5. UNCHANGED <<IsClient, IsOccurrence, Editable, Mirrored, WantedMain, WantedOrigin,
                  Doomed>>
  BY <1>1, <1>3 DEF IsClient, IsOccurrence, Editable, Mirrored, WantedMain, WantedOrigin,
                    Shown, Patch, Doomed
<1>6. row.pending /\ Mirrored => op.kind = "patch" /\ op.body = Patch(row)
  BY <1>1 DEF Follows, PatchFollows
<1>7. Voiceless' /\ Fresh'
  BY <1>1, <1>2, <1>3, <1>5 DEF Follows, Voiceless, Fresh
<1>8. Flags'
  BY <1>1, <1>2, <1>3, <1>5 DEF Follows, Flags
<1>9. RowFollows'
  <2>1. ASSUME Mirrored, ~source.unread, row.pending PROVE Same(row, source)
    <3>1. source.state = "live"
      BY <2>1 DEF Follows, RowFollows, Mirrored
    <3>2. SourceHas(Patch(row))
      BY <1>1, <1>6, <2>1, <3>1 DEF Follows, PatchFollows
    <3>3. row.slot # NULL
      BY <1>1, ConstantsAssumption DEF TypeOK, Row
    <3>4. event.locked => row.slot = source.slot
      BY <2>1 DEF Follows, RowFollows, Mirrored, Editable
    <3> QED
      BY <3>2, <3>3, <3>4 DEF SourceHas, Patch, Shown, Same
  <2> QED
    BY <1>1, <1>3, <1>5, <2>1 DEF Follows, RowFollows, Same
<1>10. PlanFollows'
  BY <1>1, <1>3, <1>4, <1>5, <1>6 DEF Follows, PlanFollows
<1>11. PatchFollows'
  BY <1>1, <1>3, <1>5, <1>6, ConstantsAssumption DEF PatchFollows
<1>12. CopyFollows' /\ OutboxFollows'
  BY <1>1, <1>2, <1>3, <1>5, ConstantsAssumption DEF Follows, CopyFollows, OutboxFollows, Same
<1> QED
  BY <1>7, <1>8, <1>9, <1>10, <1>11, <1>12 DEF Follows

(* The worker moves on, or starts over.                                    *)
LEMMA WorkerFit ==
  ASSUME Follows, worker'.sent = NULL, worker.pc # "halfway",
         worker'.pc = "client" \/ (worker.pc = "drain" /\ worker'.pc = "diff"),
         UNCHANGED <<event, series, source, copy, row, main, origin, ops, replan>>
  PROVE  Follows'
<1>1. UNCHANGED <<IsClient, IsOccurrence, Editable, Mirrored, WantedMain, WantedOrigin,
                  Doomed>>
  BY DEF IsClient, IsOccurrence, Editable, Mirrored, WantedMain, WantedOrigin, Shown,
         Patch, Doomed
<1>2. Voiceless' /\ Fresh' /\ Flags'
  BY <1>1 DEF Follows, Voiceless, Fresh, Flags, Same
<1>3. RowFollows' /\ PlanFollows'
  BY <1>1 DEF Follows, RowFollows, PlanFollows, Same
<1>4. PatchFollows' /\ CopyFollows' /\ OutboxFollows'
  BY <1>1, ConstantsAssumption DEF Follows, PatchFollows, CopyFollows, OutboxFollows, Same
<1> QED
  BY <1>2, <1>3, <1>4 DEF Follows

LEMMA MishapFit ==
  ASSUME IInv, Follows, DrainEnds \/ CallFails \/ Crash \/ Release, slips' = {}
  PROVE  Follows'
<1>1. TypeOK
  BY DEF IInv
<1>2. CASE DrainEnds
  BY <1>1, <1>2, WorkerFit DEF DrainEnds, Idle, people, TypeOK, Worker
<1>3. CASE CallFails
  BY <1>1, <1>3, WorkerFit DEF CallFails, Idle, people
<1>4. CASE Crash
  <2>1. worker.pc # "halfway"
    BY <1>1, <1>4, NoSlip DEF Crash
  <2> QED
    BY <1>1, <1>4, <2>1, WorkerFit DEF Crash, Idle, people
<1>5. CASE Release
  <2>1. /\ row'.status = "released" /\ row.status = "active" /\ row'.rsvp = row.rsvp
        /\ row'.pending = row.pending /\ row'.deleted = row.deleted
        /\ row'.erase = row.erase
        /\ worker'.pc = worker.pc /\ worker'.sent = worker.sent
        /\ UNCHANGED <<event, series, source, copy, main, origin, ops, replan>>
    BY <1>1, <1>5 DEF Release, TypeOK, Row, Worker, people
  <2>2. UNCHANGED <<IsClient, IsOccurrence>> /\ ~Mirrored'
    BY <2>1 DEF IsClient, IsOccurrence, Mirrored
  <2>3. Voiceless' /\ Fresh' /\ Flags'
    BY <2>1, <2>2 DEF Follows, Voiceless, Fresh, Flags
  <2>4. RowFollows' /\ PlanFollows'
    BY <2>1, <2>2 DEF RowFollows, PlanFollows
  <2>5. PatchFollows' /\ CopyFollows' /\ OutboxFollows'
    BY <2>1, <2>2 DEF Follows, PatchFollows, CopyFollows, OutboxFollows, SourceHas
  <2> QED
    BY <2>3, <2>4, <2>5 DEF Follows
<1> QED
  BY <1>2, <1>3, <1>4, <1>5

(* What people change will be read.                                        *)
PeopleMark ==
  /\ \/ /\ UNCHANGED <<copy, main>>
        /\ source' = source \/ source'.unread
        /\ source'.rsvp = source.rsvp \/ IsClient
     \/ /\ UNCHANGED source
        /\ copy.state = "live" /\ copy'.unread /\ (copy'.rsvp = copy.rsvp \/ IsClient)
        /\ main'.want = main.want /\ main'.body = main.body /\ main'.id = main.id
        /\ main'.synced = main.synced /\ main'.current = main.current
  /\ UNCHANGED <<event, row, origin, ops, replan, worker>>

LEMMA TouchMark ==
  ASSUME TypeOK, NEW c \in Copy, NEW field, Touch(c, field)
  PROVE  /\ copy.state = "live" /\ copy'.unread /\ copy'.rsvp = c.rsvp
         /\ main'.want = main.want /\ main'.body = main.body /\ main'.id = main.id
         /\ main'.synced = main.synced /\ main'.current = main.current
         /\ UNCHANGED <<source, event, row, origin, ops, replan, worker>>
  BY DEF TypeOK, Touch, Copy, Main

LEMMA PeopleMarks == TypeOK /\ People => PeopleMark
<1> SUFFICES ASSUME TypeOK, People PROVE PeopleMark
  OBVIOUS
<1>1. source \in Source /\ copy \in Copy
  BY DEF TypeOK
<1>2. ASSUME NEW r \in Rsvps, RespondOnMain(r) PROVE PeopleMark
  <2> DEFINE c == [copy EXCEPT !.rsvp = r]
  <2>1. c \in Copy /\ Touch(c, "rsvp") /\ IsClient
    BY <1>1, <1>2 DEF Copy, RespondOnMain
  <2> HIDE DEF c
  <2> QED
    BY <2>1, TouchMark DEF PeopleMark
<1>3. ASSUME NEW s \in Slots, ChangeOnMain(s) PROVE PeopleMark
  <2> DEFINE c == [copy EXCEPT !.slot = s]
  <2>1. c \in Copy /\ Touch(c, "slot") /\ c.rsvp = copy.rsvp
    BY <1>1, <1>3 DEF Copy, ChangeOnMain
  <2> HIDE DEF c
  <2> QED
    BY <2>1, TouchMark DEF PeopleMark
<1>4. CASE DeleteOnMain \/ SplitCancelsCopy
  <2> DEFINE c == [copy EXCEPT !.state = "cancelled"]
  <2>1. c \in Copy /\ Touch(c, "state") /\ c.rsvp = copy.rsvp
    BY <1>1, <1>4 DEF Copy, DeleteOnMain, SplitCancelsCopy
  <2> HIDE DEF c
  <2> QED
    BY <2>1, TouchMark DEF PeopleMark
<1>5. CASE \/ \E r \in Rsvps : RespondOnSource(r)
           \/ \E s \in Slots : ChangeSource(s)
           \/ CancelSource \/ RestoreSource
  <2>1. /\ source'.unread /\ (source'.rsvp = source.rsvp \/ IsClient) /\ Edit
        /\ UNCHANGED copy
    BY <1>1, <1>5 DEF RespondOnSource, ChangeSource, CancelSource, RestoreSource, Source
  <2> QED
    BY <2>1 DEF PeopleMark, Edit
<1>6. CASE \E cover \in Coverage : Split(cover)
  BY <1>6 DEF Split, Edit, PeopleMark
<1> QED
  BY <1>2, <1>3, <1>4, <1>5, <1>6 DEF People

LEMMA PeopleFit ==
  ASSUME IInv, Follows, People
  PROVE  Follows'
<1>1. PeopleMark
  BY PeopleMarks DEF IInv
<1>2. UNCHANGED <<IsClient, IsOccurrence, Editable, Mirrored, WantedMain, WantedOrigin,
                  Doomed>> /\ Patch(row)' = Patch(row)
  BY <1>1 DEF IsClient, IsOccurrence, Editable, Mirrored, WantedMain, WantedOrigin,
              Shown, Patch, Doomed, PeopleMark
<1>3. Voiceless' /\ Fresh'
  BY <1>1, <1>2 DEF Follows, Voiceless, Fresh, Same, PeopleMark
<1>4. Flags' /\ RowFollows' /\ PlanFollows'
  BY <1>1, <1>2 DEF Follows, Flags, RowFollows, PlanFollows, Same, PeopleMark
<1>5. PatchFollows'
  BY <1>1, <1>2 DEF Follows, PatchFollows, SourceHas, PeopleMark
<1>6. CopyFollows' /\ OutboxFollows'
  BY <1>1, <1>2 DEF Follows, CopyFollows, OutboxFollows, Same, PeopleMark
<1> QED
  BY <1>3, <1>4, <1>5, <1>6 DEF Follows

-----------------------------------------------------------------------------
(* A handler that was overtaken by a release.  If the row stays released,  *)
(* little is said of it.                                                   *)
ReadsOn ==
  /\ worker.sent = NULL /\ worker'.sent = NULL
  /\ worker'.pc \in {"main", "plan", "halfway"}
  /\ source'.state = source.state /\ source'.rsvp = source.rsvp
  /\ source'.slot = source.slot
  /\ copy'.state = copy.state /\ copy'.rsvp = copy.rsvp /\ copy'.slot = copy.slot
  /\ ~copy'.unread \/ copy'.unread = copy.unread
  /\ main'.want = main.want /\ main'.body = main.body /\ main'.id = main.id
  /\ main'.current = main.current /\ (main'.synced => main.synced)
  /\ row'.pending => IsClient
  /\ row'.erase => row'.deleted
  /\ row.deleted => row'.deleted
  /\ row'.deleted => ~IsOccurrence
  /\ ~IsClient => row'.rsvp = FirstRsvp
  /\ UNCHANGED <<event, series, ops>>

LEMMA ReadsOnFit ==
  ASSUME Follows, ReadsOn, row'.status # "none",
         worker'.pc = "halfway" =>
           IsClient /\ IsOccurrence /\ ~main.id /\ row'.status = "active"
  PROVE  /\ Voiceless' /\ Fresh' /\ Flags' /\ PatchFollows' /\ OutboxFollows'
         /\ UNCHANGED <<IsClient, IsOccurrence, Editable>>
<1>1. UNCHANGED <<IsClient, IsOccurrence, Editable>>
  BY DEF IsClient, IsOccurrence, Editable, ReadsOn
<1>2. Voiceless' /\ Fresh'
  BY <1>1 DEF Follows, Voiceless, Fresh, ReadsOn
<1>3. Flags'
  BY <1>1 DEF Follows, Flags, ReadsOn
<1>4. OutboxFollows'
  BY <1>1, ConstantsAssumption DEF Follows, OutboxFollows, ReadsOn
<1>5. PatchFollows'
  BY ConstantsAssumption DEF PatchFollows, ReadsOn
<1> QED
  BY <1>1, <1>2, <1>3, <1>4, <1>5

LEMMA StaysReleasedFit ==
  ASSUME Follows, ReadsOn, row'.status = "released", worker'.pc # "halfway"
  PROVE  Follows'
<1>1. /\ Voiceless' /\ Fresh' /\ Flags' /\ PatchFollows' /\ OutboxFollows'
      /\ UNCHANGED <<IsClient, IsOccurrence, Editable>>
  BY ReadsOnFit
<1>2. RowFollows' /\ PlanFollows'
  BY DEF RowFollows, PlanFollows, Mirrored
<1>3. CopyFollows'
  BY DEF Follows, CopyFollows, ReadsOn
<1> QED
  BY <1>1, <1>2, <1>3 DEF Follows

(* A row that is given up is queued, and its copy is gone or will be.      *)
LEMMA GivenUpFit ==
  ASSUME Follows, HandFollows, worker.hand, ReadsOn, worker'.pc # "halfway",
         row'.status = "cancelled", replan', row.deleted => row'.deleted,
         copy'.unread = copy.unread \/ IsOccurrence
  PROVE  Follows'
<1>1. /\ Voiceless' /\ Fresh' /\ Flags' /\ PatchFollows' /\ OutboxFollows'
      /\ UNCHANGED <<IsClient, IsOccurrence, Editable>>
  BY ReadsOnFit
<1>2. RowFollows' /\ PlanFollows'
  BY DEF RowFollows, PlanFollows, Mirrored
<1>3. CopyFollows'
  BY <1>1 DEF Follows, HandFollows, CopyFollows, ReadsOn, Doomed, Mirrored, Same
<1> QED
  BY <1>1, <1>2, <1>3 DEF Follows

LEMMA HandSourceFit ==
  ASSUME IInv, Follows, HandFollows, worker.hand, IngestSource
  PROVE  Follows'
<1>1. /\ TypeOK /\ row \in Row /\ worker'.pc = "main"
      /\ worker.sent = NULL /\ worker'.sent = NULL
      /\ ~source'.unread /\ source'.state = source.state
      /\ source'.rsvp = source.rsvp /\ source'.slot = source.slot
      /\ UNCHANGED <<event, series, copy, main, origin, ops>>
  BY DEF IInv, TypeOK, Source, Worker, IngestSource, people, Follows, Flags
<1>2. StatusRead = "active" /\ row.status = "released"
  BY DEF StatusRead, HandFollows
<1>3. /\ row.pending => IsClient
      /\ row.erase => row.deleted
      /\ row.deleted => ~IsOccurrence
      /\ ~IsClient => row.rsvp = FirstRsvp /\ source.rsvp = FirstRsvp
  BY DEF Follows, Flags, Voiceless
<1>4. \/ row' = row
      \/ /\ replan' /\ source.state # "live"
         /\ row' = [row EXCEPT !.status = "cancelled"]
      \/ /\ replan' /\ source.state = "live"
         /\ row' = [row EXCEPT !.status = "active", !.rsvp = TakenResponse,
                               !.slot = source.slot]
  BY DEF IngestSource, Reread
<1>5. /\ row'.pending = row.pending /\ row'.deleted = row.deleted
      /\ row'.erase = row.erase /\ row'.rsvp \in {row.rsvp, TakenResponse}
  BY <1>1, <1>4 DEF Row
<1>6. ~IsClient => row'.rsvp = FirstRsvp
  BY <1>3, <1>5 DEF TakenResponse
<1>7. ReadsOn
  BY <1>1, <1>3, <1>5, <1>6 DEF ReadsOn
<1>8. CASE row' = row
  BY <1>1, <1>2, <1>7, <1>8, StaysReleasedFit
<1>9. CASE replan' /\ row' = [row EXCEPT !.status = "cancelled"]
  <2>1. row'.status = "cancelled"
    BY <1>1, <1>9 DEF Row
  <2> QED
    BY <1>1, <1>5, <1>7, <1>9, <2>1, GivenUpFit
<1>10. CASE /\ replan' /\ source.state = "live"
            /\ row' = [row EXCEPT !.status = "active", !.rsvp = TakenResponse,
                                  !.slot = source.slot]
  <2>1. row'.status = "active" /\ row'.rsvp = TakenResponse /\ row'.slot = source.slot
    BY <1>1, <1>10 DEF Row
  <2>2. /\ Voiceless' /\ Fresh' /\ Flags' /\ PatchFollows' /\ OutboxFollows'
        /\ UNCHANGED <<IsClient, IsOccurrence, Editable>>
    BY <1>1, <1>7, <2>1, ReadsOnFit
  <2>3. RowFollows'
    BY <1>1, <1>5, <1>10, <2>1, <2>2 DEF RowFollows, Mirrored, Same, TakenResponse
  <2>4. PlanFollows'
    BY <1>1, <1>10 DEF PlanFollows
  <2>5. CopyFollows'
    <3>1. row.deleted => Doomed'
      BY <1>3, <1>5, <1>10, <2>2 DEF Doomed, Mirrored
    <3> QED
      BY <1>1, <3>1 DEF Follows, HandFollows, CopyFollows, Same
  <2> QED
    BY <2>2, <2>3, <2>4, <2>5 DEF Follows
<1> QED
  BY <1>4, <1>8, <1>9, <1>10

(* What is common to the branches of the handler of the copy.              *)
LEMMA HandReads ==
  ASSUME IInv, Follows, HandFollows, worker.hand, IngestMain
  PROVE  /\ TypeOK /\ row \in Row /\ row.status = "released" /\ StatusRead = "active"
         /\ worker.sent = NULL /\ worker.pc = "main"
         /\ UNCHANGED <<event, series, source, ops>>
         /\ UNCHANGED <<IsClient, IsOccurrence, Editable>>
         /\ row.pending => IsClient
         /\ row.erase => row.deleted
         /\ row.deleted => ~IsOccurrence
         /\ ~IsClient => row.rsvp = FirstRsvp /\ copy.rsvp = FirstRsvp
         /\ main'.want = main.want /\ main'.body = main.body /\ main'.id = main.id
         /\ main'.current = main.current /\ (main'.synced => main.synced)
<1>1. TypeOK /\ row \in Row /\ main \in Main
  BY DEF IInv, TypeOK
<1>2. UNCHANGED <<event, series, source, ops>> /\ worker.pc = "main"
  BY DEF IngestMain, people
<1>3. UNCHANGED <<IsClient, IsOccurrence, Editable>>
  BY <1>2 DEF IsClient, IsOccurrence, Editable
<1>4. \/ UNCHANGED main
      \/ main' = [main EXCEPT !.synced = FALSE]
      \/ main' = [main EXCEPT !.synced = @ /\ (SlotChanged => AppliesSlot)]
  BY DEF IngestMain, OccurrenceDeleted, EventDeleted, EditedCopy, FirstEdit, RevertDrift
<1>5. /\ main'.want = main.want /\ main'.body = main.body /\ main'.id = main.id
      /\ main'.current = main.current /\ (main'.synced => main.synced)
  BY <1>1, <1>4 DEF Main
<1>6. row.status = "released" /\ StatusRead = "active"
  BY DEF StatusRead, HandFollows
<1> QED
  BY <1>1, <1>2, <1>3, <1>5, <1>6 DEF Follows, Flags, Voiceless

LEMMA HandGoneFit ==
  ASSUME IInv, Follows, HandFollows, worker.hand, IngestMain,
         OccurrenceDeleted \/ EventDeleted
  PROVE  Follows'
<1>1. NothingRead /\ replan' = TRUE
  BY DEF OccurrenceDeleted, EventDeleted, Read
<1>2. /\ copy'.state = copy.state /\ copy'.rsvp = copy.rsvp /\ copy'.slot = copy.slot
      /\ ~copy'.unread /\ worker'.pc = "plan" /\ worker'.sent = NULL
  BY <1>1, HandReads, NothingReadCopy
<1>3. \/ row' = row
      \/ IsOccurrence /\ row' = [row EXCEPT !.status = "cancelled"]
      \/ IsClient /\ ~IsOccurrence /\ row' = [row EXCEPT !.deleted = TRUE,
                                                         !.erase = Arms \/ @]
  BY DEF OccurrenceDeleted, EventDeleted
<1>4. /\ row'.rsvp = row.rsvp /\ row'.pending = row.pending
      /\ row'.erase => row'.deleted
      /\ row'.deleted => ~IsOccurrence
      /\ row.deleted => row'.deleted
      /\ row'.status = row.status \/ (IsOccurrence /\ row'.status = "cancelled")
  BY <1>3, HandReads DEF Row
<1>5. ReadsOn
  BY <1>2, <1>4, HandReads DEF ReadsOn
<1>6. CASE row'.status = row.status
  BY <1>2, <1>5, <1>6, HandReads, StaysReleasedFit
<1>7. CASE IsOccurrence /\ row'.status = "cancelled"
  BY <1>1, <1>2, <1>4, <1>5, <1>7, GivenUpFit
<1> QED
  BY <1>4, <1>6, <1>7

LEMMA HandEditedFit ==
  ASSUME IInv, Follows, HandFollows, worker.hand, IngestMain, EditedCopy
  PROVE  Follows'
<1>1. NothingRead /\ replan' = TRUE
  BY DEF EditedCopy, Read
<1>2. /\ copy'.state = copy.state /\ copy'.rsvp = copy.rsvp /\ copy'.slot = copy.slot
      /\ ~copy'.unread /\ worker'.pc = "plan" /\ worker'.sent = NULL
  BY <1>1, HandReads, NothingReadCopy
<1>3. CASE OrphanedBySplit
  <2>1. IsOccurrence /\ row' = [row EXCEPT !.status = "cancelled"]
    BY <1>3 DEF OrphanedBySplit, EditedCopy
  <2>2. /\ row'.status = "cancelled" /\ row'.rsvp = row.rsvp
        /\ row'.pending = row.pending /\ row'.deleted = row.deleted
        /\ row'.erase = row.erase
    BY <2>1, HandReads DEF Row
  <2>3. ReadsOn
    BY <1>2, <2>2, HandReads DEF ReadsOn
  <2> QED
    BY <1>1, <1>2, <2>1, <2>2, <2>3, GivenUpFit
<1>4. CASE ~OrphanedBySplit
  <2>1. row' = row \/ row' = [Applied EXCEPT !.pending = Propagates \/ @]
    BY <1>4 DEF EditedCopy
  <2>2. /\ AppliesRsvp => IsClient
        /\ Propagates => IsClient
    BY DEF Propagates, AppliesRsvp, AppliesSlot, RsvpChanged, Editable
  <2>3. /\ row'.status = row.status /\ row'.deleted = row.deleted
        /\ row'.erase = row.erase
        /\ row'.pending => IsClient
        /\ row'.rsvp = row.rsvp \/ IsClient
    <3>1. Applied \in Row /\ Applied.erase = row.erase /\ Applied.status = row.status
          /\ Applied.deleted = row.deleted
      BY HandReads, AppliedType
    <3>2. /\ Applied.pending = row.pending
          /\ Applied.rsvp = row.rsvp \/ IsClient
      BY <2>2, HandReads DEF Applied, Row
    <3> HIDE DEF Applied
    <3> QED
      BY <2>1, <2>2, <3>1, <3>2, HandReads DEF Row
  <2>4. ReadsOn
    BY <1>2, <2>3, HandReads DEF ReadsOn
  <2> QED
    BY <1>2, <2>3, <2>4, HandReads, StaysReleasedFit
<1> QED
  BY <1>3, <1>4

LEMMA HandFirstEditFit ==
  ASSUME IInv, Follows, HandFollows, worker.hand, IngestMain, FirstEdit
  PROVE  Follows'
<1> DEFINE new == IF row.pending THEN [Applied EXCEPT !.rsvp = row.rsvp] ELSE Applied
<1>1. /\ copy.state = "live" /\ IsOccurrence /\ ~main.id /\ UNCHANGED origin
      /\ row' = IF new # row THEN [new EXCEPT !.status = "active"] ELSE row
  BY HandReads DEF FirstEdit, Matched
<1>2. \/ /\ Propagates /\ new # row /\ worker'.pc = "halfway"
         /\ worker'.sent = NULL /\ UNCHANGED <<copy, replan>>
      \/ /\ ~(Propagates /\ new # row) /\ NothingRead /\ replan' = TRUE
         /\ worker'.pc = "plan" /\ worker'.sent = NULL
  BY HandReads, NothingReadCopy DEF FirstEdit, Read, TypeOK, Worker
<1>3. /\ AppliesRsvp => Propagates /\ IsClient
      /\ AppliesSlot => Propagates /\ Editable /\ IsClient
      /\ Propagates => IsClient
  BY DEF Propagates, AppliesRsvp, AppliesSlot, RsvpChanged, Editable
<1>4. /\ ~AppliesRsvp => new.rsvp = row.rsvp
      /\ ~AppliesSlot => new.slot = row.slot
      /\ ~Propagates => new = row
      /\ new.pending = row.pending /\ new.deleted = row.deleted /\ new.erase = row.erase
      /\ new \in Row
  <2>1. Applied \in Row
    BY HandReads, AppliedType
  <2>2. /\ Applied.rsvp = IF AppliesRsvp THEN copy.rsvp ELSE row.rsvp
        /\ Applied.slot = IF AppliesSlot THEN copy.slot ELSE row.slot
        /\ Applied.pending = row.pending /\ Applied.deleted = row.deleted
        /\ Applied.erase = row.erase
    BY <2>1, HandReads DEF Applied, Row
  <2>3. ~Propagates => Applied = row
    BY <1>3, HandReads DEF Applied, Row
  <2> HIDE DEF Applied
  <2> QED
    BY <1>3, <2>1, <2>2, <2>3, HandReads DEF Row
<1> HIDE DEF new
<1>5. /\ row'.pending = row.pending /\ row'.deleted = row.deleted
      /\ row'.erase = row.erase
      /\ row'.rsvp = new.rsvp /\ row'.slot = new.slot
      /\ new # row => row'.status = "active"
  BY <1>1, <1>4 DEF Row
<1>6. /\ copy'.state = copy.state /\ copy'.rsvp = copy.rsvp /\ copy'.slot = copy.slot
      /\ ~copy'.unread \/ copy'.unread = copy.unread
  BY <1>2, HandReads, NothingReadCopy
<1>7. ReadsOn
  BY <1>2, <1>3, <1>4, <1>5, <1>6, HandReads DEF ReadsOn
<1>8. CASE new = row
  BY <1>1, <1>2, <1>7, <1>8, HandReads, StaysReleasedFit
<1>9. CASE new # row
  <2>1. Propagates /\ row'.status = "active" /\ worker'.pc = "halfway"
        /\ UNCHANGED <<copy, replan>>
    BY <1>2, <1>4, <1>5, <1>9
  <2>2. /\ Voiceless' /\ Fresh' /\ Flags' /\ PatchFollows' /\ OutboxFollows'
        /\ UNCHANGED <<IsClient, IsOccurrence, Editable>>
    BY <1>1, <1>3, <1>7, <2>1, ReadsOnFit
  <2>3. RowFollows'
    BY <1>3, <1>4, <1>5, <2>1, <2>2, HandReads DEF RowFollows, HandFollows, Mirrored
  <2>4. PlanFollows'
    BY <1>1, <1>5, <2>1 DEF PlanFollows, HandFollows, Mirrored
  <2>5. CopyFollows'
    BY <1>1, <2>1, HandReads DEF Follows, CopyFollows, HandFollows
  <2> QED
    BY <2>2, <2>3, <2>4, <2>5 DEF Follows
<1> QED
  BY <1>8, <1>9

LEMMA HandMainFit ==
  ASSUME IInv, Follows, HandFollows, worker.hand, IngestMain
  PROVE  Follows'
<1>1. CASE HandsOff /\ NothingRead /\ UNCHANGED <<row, main, origin, replan, slips>>
  <2>1. ReadsOn /\ worker'.pc = "plan" /\ row'.status = "released"
    BY <1>1, HandReads, NothingReadCopy DEF ReadsOn
  <2> QED
    BY <2>1, StaysReleasedFit
<1> QED
  BY <1>1, HandGoneFit, HandEditedFit, HandFirstEditFit DEF IngestMain

(* Only retention puts the row in the handler's hand, and the handler's own*)
(* step or the end of the pass lets go of it.                              *)
LEMMA HandEnds ==
  ASSUME TypeOK, HandFollows, [Next]_vars, worker'.hand
  PROVE  Release \/ (worker.hand /\ (People \/ UNCHANGED vars))
<1>1. ~IngestSource /\ ~IngestMain
  BY DEF IngestSource, IngestMain, OccurrenceDeleted, EventDeleted, EditedCopy, FirstEdit,
         Read, NothingRead, TypeOK, Worker
<1>2. ~CallFails /\ ~Crash
  BY DEF CallFails, Crash, Idle
<1>3. ~FirstEditIsFlagged /\ ~Plan /\ ~Diff
  BY DEF FirstEditIsFlagged, Read, NothingRead, Plan, Diff, HandFollows, TypeOK, Worker
<1>4. ~Deliver
  <2> SUFFICES ASSUME Deliver PROVE FALSE
    OBVIOUS
  <2>1. worker.pc = "drain"
    BY DEF Deliver, SendCreate, SendUpdate, UpdateIsStale, UpdateFindsNothing,
           RetireTombstone, SendDelete, RecordMain, SendPatch, SendDeleteSource,
           RecordOrigin, DrainEnds, Sends
  <2>2. ~worker.hand /\ worker \in Worker
    BY <2>1 DEF HandFollows, TypeOK
  <2>3. \/ \E p \in {"main", "origin"} : worker' = Sent(p) \/ worker' = Taken(p)
        \/ worker' = [worker EXCEPT !.pc = "diff"]
        \/ worker' = Idle
    <3>1. CASE SendCreate \/ SendUpdate \/ SendDelete
      BY <3>1, Zenon DEF SendCreate, SendUpdate, SendDelete
    <3>2. CASE UpdateIsStale \/ UpdateFindsNothing \/ RetireTombstone \/ RecordMain
      BY <3>2, Zenon DEF UpdateIsStale, UpdateFindsNothing, RetireTombstone, RecordMain
    <3>3. CASE SendPatch \/ SendDeleteSource \/ RecordOrigin
      BY <3>3, Zenon DEF SendPatch, SendDeleteSource, RecordOrigin
    <3>4. CASE DrainEnds
      BY <3>4, Zenon DEF DrainEnds
    <3> QED
      BY <3>1, <3>2, <3>3, <3>4 DEF Deliver
  <2>4. CASE \E p \in {"main", "origin"} : worker' = Sent(p) \/ worker' = Taken(p)
    BY <2>2, <2>4 DEF Sent, Taken, Worker
  <2>5. CASE worker' = [worker EXCEPT !.pc = "diff"] \/ worker' = Idle
    BY <2>2, <2>5 DEF Idle, Worker
  <2> QED
    BY <2>3, <2>4, <2>5
<1>5. People => worker' = worker
  BY PeopleStep DEF PeopleDo
<1> QED
  BY <1>1, <1>2, <1>3, <1>4, <1>5 DEF Next, Pass, vars

LEMMA HandFit ==
  ASSUME IInv, Follows, HandFollows, [Next]_vars
  PROVE  HandFollows'
<1> SUFFICES ASSUME worker'.hand PROVE HandFollows'
  BY DEF HandFollows
<1>1. TypeOK
  BY DEF IInv
<1>2. CASE Release
  <2>1. /\ row'.status = "released" /\ row.status = "active" /\ row'.rsvp = row.rsvp
        /\ row'.slot = row.slot /\ row'.pending = row.pending
        /\ row'.deleted = row.deleted
    BY <1>1, <1>2 DEF Release, TypeOK, Row
  <2>2. UNCHANGED <<event, series, source, copy, main, origin, ops, replan>>
    BY <1>2 DEF Release, people
  <2>3. ~worker.hand
    BY <2>1 DEF HandFollows
  <2>4. worker'.pc \in {"client", "main"}
    BY <1>1, <1>2, <2>3 DEF Release, MayHold, TypeOK, Worker
  <2>5. UNCHANGED <<Editable, IsOccurrence>>
    BY <2>2 DEF Editable, IsClient, IsOccurrence
  <2>6. Mirrored <=> ~row.deleted
    BY <2>1 DEF Mirrored
  <2>7. worker.pc # "halfway"
    BY <1>1, <1>2, <2>3 DEF Release, MayHold, TypeOK, Worker
  <2> QED
    BY <2>1, <2>2, <2>4, <2>5, <2>6, <2>7
       DEF Follows, RowFollows, PlanFollows, CopyFollows, Doomed, Same, HandFollows
<1>3. CASE worker.hand /\ People
  <2>1. PeopleMark
    BY <1>1, <1>3, PeopleMarks
  <2>2. UNCHANGED <<Editable, IsOccurrence>>
    BY <2>1 DEF Editable, IsClient, IsOccurrence, PeopleMark
  <2> QED
    BY <1>3, <2>1, <2>2 DEF HandFollows, PeopleMark, Same
<1>4. CASE worker.hand /\ UNCHANGED vars
  <2>1. UNCHANGED <<event, source, copy, row, main, origin, ops, replan, worker>>
    BY <1>4 DEF vars
  <2>2. UNCHANGED <<Editable, IsOccurrence>>
    BY <2>1 DEF Editable, IsClient, IsOccurrence
  <2> QED
    BY <1>4, <2>1, <2>2 DEF HandFollows, Same
<1> QED
  BY <1>1, <1>2, <1>3, <1>4, HandEnds

-----------------------------------------------------------------------------
(* A hole that was gone through is not forgotten.                          *)
LEMMA SlipsStay ==
  ASSUME TypeOK, [Next]_vars PROVE slips \subseteq slips'
<1>1. CASE UNCHANGED vars
  BY <1>1 DEF vars
<1>2. CASE IngestSource \/ Diff \/ SendCreate \/ SendUpdate \/ Crash
  BY <1>2 DEF IngestSource, Diff, SendCreate, SendUpdate, Crash, WriteCopy, Slip, Slips
<1>3. CASE IngestMain
  BY <1>3 DEF IngestMain, OccurrenceDeleted, EventDeleted, EditedCopy, FirstEdit, Slip,
              Slips
<1>4. CASE Deliver /\ ~(SendCreate \/ SendUpdate)
  BY <1>4 DEF Deliver, UpdateIsStale, UpdateFindsNothing, RetireTombstone, SendDelete,
              RecordMain, SendPatch, SendDeleteSource, RecordOrigin, DrainEnds
<1>5. CASE FirstEditIsFlagged \/ Plan \/ CallFails \/ Release
  BY <1>5 DEF FirstEditIsFlagged, Plan, CallFails, Release
<1>6. CASE People
  BY <1>6, PeopleStep DEF PeopleDo
<1> QED
  BY <1>1, <1>2, <1>3, <1>4, <1>5, <1>6 DEF Next, Pass

LEMMA NextFit == Fit /\ [Next]_vars => Fit'
<1> SUFFICES ASSUME Fit, [Next]_vars, slips' = {} PROVE Follows' /\ HandFollows'
  BY NextInv DEF Fit
<1>1. IInv /\ TypeOK
  BY DEF Fit, IInv
<1>2. Follows /\ HandFollows
  BY <1>1, SlipsStay DEF Fit
<1>3. ASSUME UNCHANGED vars PROVE Follows'
  <2>1. UNCHANGED <<event, series, source, copy, row, main, origin, ops, replan, worker>>
    BY <1>3 DEF vars
  <2>2. UNCHANGED <<IsClient, IsOccurrence, Editable, Mirrored, WantedMain, WantedOrigin,
                    Doomed>> /\ Patch(row)' = Patch(row)
    BY <2>1 DEF IsClient, IsOccurrence, Editable, Mirrored, WantedMain, WantedOrigin,
                Shown, Patch, Doomed
  <2>3. Voiceless' /\ Fresh' /\ Flags' /\ RowFollows'
    BY <1>2, <2>1, <2>2 DEF Follows, Voiceless, Fresh, Flags, RowFollows, Same
  <2>4. PlanFollows' /\ PatchFollows' /\ CopyFollows' /\ OutboxFollows'
    BY <1>2, <2>1, <2>2
       DEF Follows, PlanFollows, PatchFollows, CopyFollows, OutboxFollows, Same, SourceHas
  <2> QED
    BY <2>3, <2>4 DEF Follows
<1>4. ASSUME Deliver PROVE Follows'
  BY <1>1, <1>2, <1>4, SendCopyFit, UpdateFailsFit, RetireFit, SendDeleteFit,
     RecordMainFit, SendSourceFit, RecordOriginFit, MishapFit DEF Deliver
<1>5. ASSUME Pass, ~Deliver PROVE Follows'
  BY <1>1, <1>2, <1>5, IngestSourceFit, HandSourceFit, IngestMainFit, HandMainFit,
     FirstEditIsFlaggedFit, PlanFit, DiffFit DEF Pass
<1>6. ASSUME CallFails \/ Crash \/ Release PROVE Follows'
  BY <1>1, <1>2, <1>6, MishapFit
<1>7. ASSUME People PROVE Follows'
  BY <1>1, <1>2, <1>7, PeopleFit
<1> QED
  BY <1>1, <1>2, <1>3, <1>4, <1>5, <1>6, <1>7, HandFit DEF Next

LEMMA FitMatches == Fit => QuietIsMatched
<1> SUFFICES ASSUME IInv, Follows, Quiet, row.status # "released" PROVE SidesMatch
  BY DEF Fit, QuietIsMatched
<1>1. /\ ~source.unread /\ ~copy.unread /\ ~replan /\ main.synced /\ origin.synced
      /\ worker.pc = "client" /\ ops["main"] = NoOp
  BY DEF Quiet, Idle
<1>2. CASE row.status = "none"
  BY <1>1, <1>2 DEF Follows, Fresh, Same, SidesMatch, Agree
<1>3. CASE Mirrored
  <2>1. source.state = "live" /\ ~row.pending /\ Same(row, source)
    BY <1>1, <1>3 DEF Follows, RowFollows, PlanFollows, Mirrored
  <2>2. main.want = "present" /\ main.body = Shown(row)
    BY <1>1, <1>3 DEF Follows, PlanFollows, Mirrored, WantedMain
  <2>3. copy.state = "live" /\ Same(copy, row)
    BY <1>1, <1>3, <2>2 DEF Follows, CopyFollows, Doomed, Same, Shown, Mirrored
  <2> QED
    BY <1>3, <2>1, <2>3 DEF SidesMatch, Agree, Same, Shown
<1>4. CASE row.status # "none" /\ ~Mirrored
  <2>1. main.want = "absent"
    BY <1>1, <1>4 DEF Follows, PlanFollows
  <2> QED
    BY <1>1, <1>4, <2>1 DEF Follows, CopyFollows, SidesMatch
<1> QED
  BY <1>2, <1>3, <1>4

(* Quiet is matched: when nothing is listed, queued, flagged, diverged or  *)
(* enqueued any more, the source, the ledger and the copy on main show the *)
(* same, or the event is given up and its copy gone; whatever people did on*)
(* both sides meanwhile, and wherever a pass failed or stopped.            *)
THEOREM QuietMatches == Spec => []QuietIsMatched
<1>1. Init => Fit
  BY InitFit
<1> QED
  BY <1>1, NextFit, FitMatches, PTL DEF Spec

=============================================================================
