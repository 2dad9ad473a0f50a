---------------------------- MODULE WebcalProofs ----------------------------
(***************************************************************************)
(* Proofs about Webcal, for any feed, any bodies and any number of events. *)
(***************************************************************************)
EXTENDS Webcal, SequenceTheorems, TLAPS

-----------------------------------------------------------------------------
(* Data.                                                                   *)

(* The same-time events of a body are a sequence, of at most MaxSame.      *)
LEMMA SametimeIsSeq ==
  ASSUME NEW body \in Bodies
  PROVE  /\ body.sametime \in Seq(Contents)
         /\ Len(body.sametime) \in 0 .. MaxSame
         /\ body.stable \in [Stable -> Item]
<1>1. body \in Body
  BY ConstantsAssumption DEF Bodies
<1>2. PICK n \in 0 .. MaxSame : body.sametime \in [1 .. n -> Contents]
  BY <1>1 DEF Body
<1>3. n \in Nat
  BY ConstantsAssumption
<1>4. body.sametime \in Seq(Contents)
  BY <1>2, <1>3, SeqDef
<1>5. Len(body.sametime) \in Nat /\ DOMAIN body.sametime = 1 .. Len(body.sametime)
  BY <1>4, LenProperties
<1>6. Len(body.sametime) = n
  BY <1>2, <1>3, <1>5
<1> QED
  BY <1>1, <1>4, <1>6 DEF Body

(* What a body lists is among the events that last.                        *)
LEMMA ListedType ==
  \A body : Listed(body) \subseteq Stable
  BY DEF Listed

(* A move of the provider, the owner or chance leaves a budget.            *)
LEMMA SpendType ==
  ASSUME budget \in Nat, Spend
  PROVE  budget' \in Nat
  BY DEF Spend

(* What a handler may make of a row: if the pass is not given its id, the  *)
(* row is as it was and not active; an active row is cancelled only by a   *)
(* cancelled item; no row is released, none is forgotten.                  *)
Sound(row, item, out) ==
  /\ out.row \in Row /\ out.id \in BOOLEAN
  /\ ~out.id => out.row = row /\ row.status # "active"
  /\ row.status = "active" /\ out.row.status # "active" => item.state = "cancelled"
  /\ out.row.status \in {"released", "none"} => row.status = out.row.status

(* An item that is live makes an active row, or leaves the status.         *)
LEMMA LiveSound ==
  ASSUME NEW row \in Row, NEW item \in Item
  PROVE  /\ Sound(row, item, Live(row, item.content))
         /\ Live(row, item.content).id = TRUE
<1>1. item.content \in Contents \cup {NULL}
  BY DEF Item
<1>2. CASE row.status = "none" \/ row.content # item.content
  <2>1. Live(row, item.content) =
          [row |-> [status |-> "active", content |-> item.content, old |-> FALSE],
           id |-> TRUE]
    BY <1>2 DEF Live, Upserted, Outcome
  <2> QED
    BY <1>1, <2>1 DEF Sound, Row
<1>3. CASE ~(row.status = "none" \/ row.content # item.content)
  <2>1. Live(row, item.content) = [row |-> [row EXCEPT !.old = FALSE], id |-> TRUE]
    BY <1>3 DEF Live, Seen, Outcome
  <2>2. [row EXCEPT !.old = FALSE] \in Row /\ [row EXCEPT !.old = FALSE].status = row.status
    BY DEF Row
  <2> DEFINE seen == [row EXCEPT !.old = FALSE]
  <2>3. Live(row, item.content) = [row |-> seen, id |-> TRUE]
    BY <2>1
  <2>4. seen \in Row /\ seen.status = row.status
    BY <2>2
  <2> HIDE DEF seen
  <2> QED
    BY <2>3, <2>4 DEF Sound
<1> QED
  BY <1>2, <1>3, Zenon

(* _mark_cancelled.                                                        *)
LEMMA CancelledType ==
  ASSUME NEW row \in Row
  PROVE  Cancelled(row) \in Row /\ Cancelled(row).status = "cancelled"
  BY DEF Cancelled, Row

LEMMA TopEventSound ==
  ASSUME NEW row \in Row, NEW item \in Item, item.state # "absent"
  PROVE  /\ Sound(row, item, TopEvent(row, item))
         /\ item.state = "live" /\ row.status # "released" => TopEvent(row, item).id = TRUE
<1>1. CASE item.state = "cancelled" /\ row.status = "active"
  <2>1. TopEvent(row, item) = [row |-> Cancelled(row), id |-> TRUE]
    BY <1>1 DEF TopEvent, Outcome
  <2> QED
    BY <1>1, <2>1, CancelledType DEF Sound
<1>2. CASE \/ item.state = "cancelled" /\ row.status # "active"
           \/ item.state = "live" /\ row.status = "released"
  <2>1. TopEvent(row, item) = [row |-> row, id |-> FALSE]
    BY <1>2 DEF TopEvent, Ignored, Outcome
  <2> QED
    BY <1>2, <2>1 DEF Sound
<1>3. CASE item.state = "live" /\ row.status # "released"
  <2>1. TopEvent(row, item) = Live(row, item.content)
    BY <1>3 DEF TopEvent
  <2> QED
    BY <2>1, LiveSound
<1> QED
  BY <1>1, <1>2, <1>3 DEF Item

LEMMA OverrideSound ==
  ASSUME NEW row \in Row, NEW item \in Item, item.state # "absent"
  PROVE  /\ Sound(row, item, Override(row, item))
<1>1. CASE item.state = "live"
  <2>1. Override(row, item) = Live(row, item.content)
    BY <1>1 DEF Override
  <2> QED
    BY <2>1, LiveSound
<1>2. CASE item.state = "cancelled" /\ row.status = "cancelled"
  <2>1. Override(row, item) = [row |-> row, id |-> TRUE]
    BY <1>2 DEF Override, Outcome
  <2> QED
    BY <1>2, <2>1 DEF Sound
<1>3. CASE item.state = "cancelled" /\ row.status # "cancelled"
  <2>1. Override(row, item) = [row |-> Cancelled(row), id |-> TRUE]
    BY <1>3 DEF Override, Outcome
  <2> QED
    BY <1>3, <2>1, CancelledType DEF Sound
<1> QED
  BY <1>1, <1>2, <1>3 DEF Item

(* The event e of the body under way.                                      *)
LEMMA HandledSound ==
  ASSUME TypeOK, NEW e \in Stable, NEW item \in Item, item.state # "absent"
  PROVE  Sound(rows[e], item, Handled(e, item))
<1>1. rows[e] \in Row
  BY DEF TypeOK, Keys
<1> QED
  BY <1>1, TopEventSound, OverrideSound DEF Handled

-----------------------------------------------------------------------------
(* Types.  A pass reads what its body lists, and the same-time events take *)
(* the slots in their order, each its own or none.                         *)
Reading ==
  /\ pass.pc = "fetch" => pass.line = 0 /\ pass.affected = {} /\ pass.failed = FALSE
  /\ pass.pc \in {"read", "record", "success"} => pass.body \in Bodies
  /\ pass.pc = "read" =>
       /\ pass.todo \subseteq Listed(pass.body)
       /\ pass.line <= Len(pass.body.sametime)
       /\ \E n \in 0 .. pass.line : pass.affected \cap Ordinals = 0 .. (n - 1)

TypeInv == TypeOK /\ Reading

(* What one of the actions that leave the pass alone keeps.                *)
LEMMA ReadingKept ==
  ASSUME Reading, UNCHANGED pass
  PROVE  Reading'
  BY DEF Reading, Listed

(* A pass that begins or ends holds no body.                               *)
LEMMA NotReading ==
  ASSUME pass'.pc \notin {"fetch", "read", "record", "success"}
  PROVE  Reading'
  BY DEF Reading

LEMMA IdleType ==
  /\ Idle \in Pass /\ [Idle EXCEPT !.pc = "plan"] \in Pass
  /\ Idle.pc = "idle" /\ [Idle EXCEPT !.pc = "plan"].pc = "plan"
<1>1. 0 \in 0 .. MaxSame
  BY ConstantsAssumption
<1>2. Idle \in Pass
  BY <1>1, Zenon DEF Idle, Pass
<1>3. [Idle EXCEPT !.pc = "plan"] \in Pass
  BY <1>2 DEF Pass
<1> QED
  BY <1>2, <1>3 DEF Idle

(* The initial states.                                                     *)
LEMMA InitType == Init => TypeInv
<1> SUFFICES ASSUME Init PROVE TypeInv
  OBVIOUS
<1>1. rows \in [Keys -> Row] /\ planned \in [Keys -> Plan]
  BY DEF Init, NoRow, Row, Nowhere, Plan
<1>2. sub \in [active : BOOLEAN, etag : Bodies \cup {NULL}, placement : {"main", "client"}]
  BY ConstantsAssumption DEF Init
<1>3. pass \in Pass /\ request \in Request
  BY IdleType DEF Init, NoRequest, Request
<1>4. Reading
  BY IdleType DEF Init, Reading
<1> QED
  BY <1>1, <1>2, <1>3, <1>4, ConstantsAssumption DEF Init, TypeInv, TypeOK

(* Bodies a feed serves.                                                   *)
LEMMA FamilyType ==
  ASSUME TypeOK
  PROVE  family \subseteq Bodies /\ feed \in Bodies
  BY DEF TypeOK, Bodies

(* The slot of the next same-time event is one that is free, and not after *)
(* the place of the event in the body.                                     *)
LEMMA SlotType ==
  ASSUME TypeInv, pass.pc = "read", pass.line < Len(pass.body.sametime)
  PROVE  /\ pass.line \in Ordinals
         /\ Slot \in Ordinals \ pass.affected
         /\ Slot \in 0 .. pass.line
         /\ pass.affected \cap Ordinals = 0 .. (Slot - 1)
<1>1. pass.line \in Nat /\ MaxSame \in Nat /\ Len(pass.body.sametime) \in 0 .. MaxSame
  BY ConstantsAssumption, SametimeIsSeq DEF TypeInv, TypeOK, Pass, Reading
<1>2. pass.line \in Ordinals
  BY <1>1 DEF Ordinals
<1>4. PICK n \in 0 .. pass.line : pass.affected \cap Ordinals = 0 .. (n - 1)
  BY DEF TypeInv, Reading
<1>5. n \in Ordinals \ pass.affected
  BY <1>1, <1>2, <1>4 DEF Ordinals
<1>6. \A j \in Ordinals \ pass.affected : n <= j
  BY <1>1, <1>4 DEF Ordinals
<1>7. Slot = n
  <2>1. \A k \in Ordinals \ pass.affected :
          (\A j \in Ordinals \ pass.affected : k <= j) => k = n
    BY <1>1, <1>5, <1>6 DEF Ordinals
  <2> QED
    BY <1>5, <1>6, <2>1 DEF Slot
<1> QED
  BY <1>1, <1>2, <1>4, <1>5, <1>7

(* A row or a plan is written.                                             *)
LEMMA TakeInType ==
  ASSUME TypeOK, NEW e \in Keys, NEW out, out.row \in Row, TakeIn(e, out)
  PROVE  rows' \in [Keys -> Row] /\ adrift' \subseteq Keys
<1>1. rows' \in [Keys -> Row]
  BY DEF TakeIn, TypeOK
<1>2. \/ adrift' = adrift \cup {e}
      \/ adrift' = adrift \ {e}
      \/ adrift' = adrift
  BY Zenon DEF TakeIn
<1> QED
  BY <1>1, <1>2 DEF TypeOK

LEMMA ReplannedType ==
  ASSUME TypeOK, NEW e \in Keys
  PROVE  Wanted(e) \in Plan /\ Replanned(e) \in Plan
<1>1. rows[e] \in Row /\ planned[e] \in Plan
  BY DEF TypeOK
<1>2. Nowhere \in Plan
  BY DEF Nowhere, Plan
<1>3. Placed \in {"main", "client"}
  BY DEF Placed
<1>4. [where |-> Placed, content |-> rows[e].content] \in Plan
  BY <1>1, <1>3 DEF Row, Plan
<1>5. Wanted(e) \in Plan
  BY <1>2, <1>4 DEF Wanted
<1> QED
  BY <1>1, <1>5 DEF Replanned

(* The poll.                                                               *)
LEMMA PollType ==
  ASSUME TypeInv, Poll \/ FetchFails
  PROVE  TypeInv'
<1> USE DEF TypeInv
<1>0. pass \in Pass
  BY DEF TypeOK
<1>1. CASE StartPoll
  <2>1. pass' \in Pass /\ pass'.pc = "fetch"
    <3>1. sub.etag \in Bodies \cup {NULL}
      BY DEF TypeOK
    <3>2. pass' = [Idle EXCEPT !.pc = "fetch", !.asked = sub.etag]
      BY <1>1 DEF StartPoll
    <3> QED
      BY <3>1, <3>2, IdleType DEF Pass
  <2>2. Reading'
    BY <1>1, <2>1 DEF StartPoll, Idle, Reading
  <2> QED
    BY <1>1, <2>1, <2>2 DEF StartPoll, TypeOK, server, ledger
<1>2. CASE NotModified
  <2>1. pass' \in Pass /\ pass'.pc = "plan"
    BY <1>2, IdleType DEF NotModified
  <2>2. Reading'
    BY <2>1, NotReading
  <2>3. sub' \in [active : BOOLEAN, etag : Bodies \cup {NULL}, placement : {"main", "client"}]
    BY <1>0, <1>2 DEF NotModified, TypeOK, Pass
  <2> QED
    BY <1>2, <2>1, <2>2, <2>3 DEF NotModified, TypeOK, server, ledger
<1>3. CASE Fetched /\ EmptyFeedIsKept(feed)
  <2>1. /\ sub' = [sub EXCEPT !.etag = TagOf(feed)]
        /\ adrift' = adrift \cup Lingering(feed)
        /\ pass' = [Idle EXCEPT !.pc = "plan"]
    BY <1>3, Zenon DEF Fetched
  <2>2. pass' \in Pass /\ pass'.pc = "plan"
    BY <2>1, IdleType
  <2>3. Reading'
    BY <2>2, NotReading
  <2>4. TagOf(feed) \in Bodies \cup {NULL}
    BY FamilyType DEF TagOf
  <2>5. sub' \in [active : BOOLEAN, etag : Bodies \cup {NULL}, placement : {"main", "client"}]
    BY <2>1, <2>4 DEF TypeOK
  <2>6. adrift' \subseteq Keys
    BY <2>1 DEF TypeOK, Lingering, ActiveRows
  <2> QED
    BY <1>3, <2>2, <2>3, <2>5, <2>6 DEF Fetched, TypeOK, server, ledger
<1>4. CASE Fetched /\ ~EmptyFeedIsKept(feed)
  <2>1. /\ pass' = [pass EXCEPT !.pc = "read", !.body = feed, !.todo = Listed(feed)]
        /\ UNCHANGED <<sub, adrift>>
    BY <1>4, Zenon DEF Fetched
  <2>2. feed \in Bodies /\ Listed(feed) \subseteq Stable
    BY FamilyType, ListedType
  <2>3. /\ pass' \in Pass /\ pass'.pc = "read" /\ pass'.body = feed
        /\ pass'.todo = Listed(feed)
        /\ pass'.affected = {} /\ pass'.line = 0
    BY <1>0, <1>4, <2>1, <2>2 DEF Pass, Fetched, Reading
  <2>4. Reading'
    <3>1. pass'.affected \cap Ordinals = 0 .. (0 - 1) /\ 0 <= Len(feed.sametime)
      BY <2>2, <2>3, SametimeIsSeq, ConstantsAssumption
    <3>2. \E n \in 0 .. pass'.line : pass'.affected \cap Ordinals = 0 .. (n - 1)
      BY <2>3, <3>1
    <3>3. pass'.line <= Len(pass'.body.sametime)
      BY <2>3, <3>1
    <3> QED
      BY <2>2, <2>3, <3>2, <3>3 DEF Reading, Listed, Ordinals
  <2> QED
    BY <1>4, <2>1, <2>3, <2>4 DEF Fetched, TypeOK, server, ledger
<1>5. CASE FetchFails
  <2>1. pass' \in Pass /\ pass'.pc = "plan"
    BY <1>5, IdleType DEF FetchFails
  <2>2. Reading'
    BY <2>1, NotReading
  <2>3. budget' \in Nat
    BY <1>5, SpendType DEF FetchFails, Fault, TypeOK
  <2> QED
    BY <1>5, <2>1, <2>2, <2>3 DEF FetchFails, TypeOK, server, ledger
<1>6. ASSUME NEW e \in Stable, IngestEvent(e) PROVE TypeInv'
  <2> DEFINE item == pass.body.stable[e]
             out == Handled(e, item)
  <2>1. pass.pc = "read" /\ e \in pass.todo /\ pass.body \in Bodies
    BY <1>6 DEF IngestEvent, Reading
  <2>2. item \in Item /\ item.state # "absent"
    BY <2>1, SametimeIsSeq DEF Reading, Listed
  <2>3. Sound(rows[e], item, out)
    BY <2>2, HandledSound
  <2>4. e \in Keys /\ e \notin Ordinals
    BY ConstantsAssumption DEF Keys
  <2> HIDE DEF out, item
  <2>5. /\ pass' \in Pass
        /\ pass'.pc = pass.pc /\ pass'.body = pass.body /\ pass'.line = pass.line
        /\ pass'.todo = pass.todo \ {e}
        /\ pass'.affected \in {pass.affected, pass.affected \cup {e}}
    <3>1. CASE pass' = [pass EXCEPT !.todo = @ \ {e},
                          !.affected = IF out.id THEN @ \cup {e} ELSE @]
      BY <1>0, <2>4, <3>1 DEF Pass
    <3>2. CASE pass' = [pass EXCEPT !.todo = @ \ {e}, !.failed = TRUE]
      BY <1>0, <3>2 DEF Pass
    <3> QED
      BY <1>6, <3>1, <3>2, Zenon DEF IngestEvent, out, item
  <2>6. rows' \in [Keys -> Row] /\ adrift' \subseteq Keys /\ budget' \in Nat
    <3>1. CASE TakeIn(e, out) /\ UNCHANGED budget
      BY <2>3, <2>4, <3>1, TakeInType DEF Sound, TypeOK
    <3>2. CASE Fault("poison") /\ adrift' = adrift \cup {e} /\ UNCHANGED rows
      BY <2>4, <3>2, SpendType DEF Fault, TypeOK
    <3> QED
      BY <1>6, <3>1, <3>2, Zenon DEF IngestEvent, out, item
  <2>7. Reading'
    <3>1. pass'.affected \cap Ordinals = pass.affected \cap Ordinals
      BY <2>4, <2>5
    <3>2. /\ Listed(pass'.body) = Listed(pass.body)
          /\ pass.todo \subseteq Listed(pass.body)
          /\ pass.line <= Len(pass.body.sametime)
          /\ \E n \in 0 .. pass.line : pass.affected \cap Ordinals = 0 .. (n - 1)
      BY <2>1, <2>5, Zenon DEF Reading
    <3>3. /\ pass'.todo \subseteq Listed(pass'.body)
          /\ pass'.line <= Len(pass'.body.sametime)
          /\ \E n \in 0 .. pass'.line : pass'.affected \cap Ordinals = 0 .. (n - 1)
      BY <2>5, <3>1, <3>2
    <3> QED
      BY <2>1, <2>5, <3>3 DEF Reading, Ordinals, Listed
  <2> QED
    BY <1>6, <2>5, <2>6, <2>7 DEF IngestEvent, TypeOK, server
<1>7. CASE IngestSameTime
  <2> DEFINE item == [state |-> "live", content |-> pass.body.sametime[pass.line + 1]]
             out == TopEvent(rows[Slot], item)
  <2>1. /\ pass.pc = "read" /\ pass.line < Len(pass.body.sametime)
        /\ pass.body \in Bodies
    BY <1>7 DEF IngestSameTime, Reading
  <2>2. /\ Slot \in Ordinals /\ Slot \in 0 .. pass.line
        /\ pass.affected \cap Ordinals = 0 .. (Slot - 1)
        /\ pass.line \in Ordinals
    BY <2>1, SlotType
  <2>3. pass.line + 1 \in 0 .. MaxSame /\ pass.line + 1 <= Len(pass.body.sametime)
    BY <2>1, <2>2, SametimeIsSeq, ConstantsAssumption DEF Ordinals
  <2>4. item \in Item /\ item.state = "live"
    <3>1. pass.line + 1 \in 1 .. Len(pass.body.sametime)
      BY <2>1, <2>2, <2>3, SametimeIsSeq, ConstantsAssumption DEF Ordinals
    <3>2. pass.body.sametime[pass.line + 1] \in Contents
      BY <2>1, <3>1, SametimeIsSeq, ElementOfSeq
    <3> QED
      BY <3>2 DEF Item
  <2>5. Slot \in Keys /\ rows[Slot] \in Row
    BY <2>2 DEF Keys, TypeOK
  <2> HIDE DEF item
  <2>6. Sound(rows[Slot], item, out)
    BY <2>4, <2>5, TopEventSound
  <2> HIDE DEF out
  <2>7. /\ pass' \in Pass
        /\ pass'.pc = pass.pc /\ pass'.body = pass.body /\ pass'.todo = pass.todo
        /\ pass'.line = pass.line + 1
        /\ pass'.affected \in {pass.affected, pass.affected \cup {Slot}}
    <3>1. CASE pass' = [pass EXCEPT !.line = @ + 1,
                          !.affected = IF out.id THEN @ \cup {Slot} ELSE @]
      BY <1>0, <2>3, <2>5, <3>1 DEF Pass
    <3>2. CASE pass' = [pass EXCEPT !.line = @ + 1, !.failed = TRUE]
      BY <1>0, <2>3, <3>2 DEF Pass
    <3> QED
      BY <1>7, <3>1, <3>2, Zenon DEF IngestSameTime, out, item
  <2>8. rows' \in [Keys -> Row] /\ adrift' \subseteq Keys /\ budget' \in Nat
    <3>1. CASE TakeIn(Slot, out) /\ UNCHANGED budget
      BY <2>5, <2>6, <3>1, TakeInType DEF Sound, TypeOK
    <3>2. CASE Fault("poison") /\ adrift' = adrift \cup Ordinals /\ UNCHANGED rows
      BY <3>2, SpendType DEF Fault, TypeOK, Keys
    <3> QED
      BY <1>7, <3>1, <3>2, Zenon DEF IngestSameTime, out, item
  <2>9. Reading'
    <3>1. \E n \in 0 .. pass'.line : pass'.affected \cap Ordinals = 0 .. (n - 1)
      <4>1. CASE pass'.affected = pass.affected
        <5>1. pass.line \in Nat /\ Slot \in 0 .. pass'.line
          BY <2>2, <2>7 DEF Ordinals
        <5>2. pass'.affected \cap Ordinals = 0 .. (Slot - 1)
          BY <2>2, <4>1
        <5> QED
          BY <5>1, <5>2
      <4>2. CASE pass'.affected = pass.affected \cup {Slot}
        <5>1. pass'.affected \cap Ordinals = 0 .. ((Slot + 1) - 1)
          BY <2>2, <4>2 DEF Ordinals
        <5>2. Slot + 1 \in 0 .. pass'.line
          BY <2>2, <2>7 DEF Ordinals
        <5> QED
          BY <5>1, <5>2
      <4> QED
        BY <2>7, <4>1, <4>2
    <3>2. pass.todo \subseteq Listed(pass.body) /\ Listed(pass'.body) = Listed(pass.body)
      BY <2>1, <2>7, Zenon DEF Reading
    <3> QED
      BY <2>1, <2>3, <2>7, <3>1, <3>2 DEF Reading, Ordinals, Listed
  <2> QED
    BY <1>7, <2>7, <2>8, <2>9 DEF IngestSameTime, TypeOK, server
<1>8. CASE CancelStale
  <2>1. Stale \subseteq Keys
    BY DEF Stale, ActiveRows
  <2>2. rows' \in [Keys -> Row]
    BY <1>8, CancelledType DEF CancelStale, TypeOK
  <2>3. pass' \in Pass /\ pass'.pc = "record" /\ pass'.body = pass.body /\ pass.pc = "read"
    BY <1>0, <1>8, <2>1 DEF CancelStale, Pass
  <2>4. Reading'
    BY <2>3 DEF Reading
  <2> QED
    BY <1>8, <2>2, <2>3, <2>4 DEF CancelStale, TypeOK, server
<1>9. CASE RecordAffected
  <2>1. pass' \in Pass /\ pass'.pc = "success" /\ pass'.body = pass.body
    BY <1>0, <1>9 DEF RecordAffected, Pass
  <2>2. Reading'
    BY <1>9, <2>1 DEF RecordAffected, Reading
  <2>3. queue' \subseteq Keys
    BY <1>0, <1>9 DEF RecordAffected, TypeOK, Pass
  <2> QED
    BY <1>9, <2>1, <2>2, <2>3 DEF RecordAffected, TypeOK, server
<1>10. CASE RecordFetchSuccess
  <2>1. pass' \in Pass /\ pass'.pc = "plan"
    BY <1>10, IdleType DEF RecordFetchSuccess
  <2>2. Reading'
    BY <2>1, NotReading
  <2>3. TagOf(pass.body) \in Bodies \cup {NULL}
    BY <1>10 DEF RecordFetchSuccess, Reading, TagOf
  <2>4. sub' \in [active : BOOLEAN, etag : Bodies \cup {NULL}, placement : {"main", "client"}]
    BY <1>10, <2>3 DEF RecordFetchSuccess, TypeOK
  <2>5. adrift' \subseteq Keys
    BY <1>10 DEF RecordFetchSuccess, TypeOK, Lingering, ActiveRows
  <2> QED
    BY <1>10, <2>1, <2>2, <2>4, <2>5 DEF RecordFetchSuccess, TypeOK, server, ledger
<1> QED
  BY <1>1, <1>2, <1>3, <1>4, <1>5, <1>6, <1>7, <1>8, <1>9, <1>10 DEF Poll

(* The planner.                                                            *)
LEMMA PlanPassType ==
  ASSUME TypeInv, PlanPass
  PROVE  TypeInv'
<1> USE DEF TypeInv
<1>0. pass \in Pass
  BY DEF TypeOK
<1>1. CASE StartPass
  <2>1. pass' \in Pass /\ pass'.pc = "plan"
    BY <1>1, IdleType DEF StartPass
  <2> QED
    BY <1>1, <2>1, NotReading DEF StartPass, TypeOK, server, ledger
<1>2. CASE PlanReads
  <2>1. pass' \in Pass /\ pass'.pc = "planning"
    BY <1>0, <1>2 DEF PlanReads, TypeOK, Pass
  <2> QED
    BY <1>2, <2>1, NotReading DEF PlanReads, TypeOK, server
<1>3. ASSUME NEW e \in Keys, PlanRow(e) PROVE TypeInv'
  <2>1. pass' \in Pass /\ pass'.pc = "planning"
    BY <1>0, <1>3 DEF PlanRow, Pass
  <2>2. planned' \in [Keys -> Plan]
    BY <1>3, ReplannedType DEF PlanRow, TypeOK
  <2> QED
    BY <1>3, <2>1, <2>2, NotReading DEF PlanRow, TypeOK, server
<1>4. CASE ClearAffected
  <2>1. pass' \in Pass /\ pass'.pc = "idle"
    BY <1>4, IdleType DEF ClearAffected
  <2> QED
    BY <1>4, <2>1, NotReading DEF ClearAffected, TypeOK, server, ledger
<1> QED
  BY <1>1, <1>2, <1>3, <1>4 DEF PlanPass

(* The owner.                                                              *)
LEMMA OwnerType ==
  ASSUME TypeInv, Owner \/ Answer
  PROVE  TypeInv'
<1> USE DEF TypeInv
<1>1. UNCHANGED pass
  BY DEF Owner, Answer, Unsubscribe, ChangePrefix, DisconnectTarget, Resubscribe,
         ChangePlacement, EndSubscription, AppendAffected, QueueEverything, Deactivate,
         ReplanPlaced
<1>2. Reading'
  BY <1>1, ReadingKept
<1>3. ActiveRows \subseteq Keys
  BY DEF ActiveRows
<1>4. CASE Unsubscribe
  <2>1. rows' \in [Keys -> Row]
    <3>1. \A e \in Keys : rows[e] \in Row /\ [rows[e] EXCEPT !.status = "cancelled"] \in Row
      BY DEF TypeOK, Row
    <3> QED
      BY <1>4, <3>1 DEF Unsubscribe
  <2>2. request' \in Request /\ adrift' \subseteq Keys
    BY <1>3, <1>4 DEF Unsubscribe, Request, TypeOK
  <2> QED
    BY <1>1, <1>2, <1>4, <2>1, <2>2, SpendType DEF Unsubscribe, Click, TypeOK, server
<1>5. CASE ChangePrefix
  <2>1. sub' \in [active : BOOLEAN, etag : Bodies \cup {NULL}, placement : {"main", "client"}]
    BY <1>5 DEF ChangePrefix, TypeOK
  <2> QED
    BY <1>1, <1>2, <1>3, <1>5, <2>1, SpendType DEF ChangePrefix, Click, TypeOK, server
<1>6. CASE DisconnectTarget
  <2>1. planned' \in [Keys -> Plan]
    <3>1. \A e \in Keys : planned[e] \in Plan /\ [planned[e] EXCEPT !.where = "main"] \in Plan
      BY DEF TypeOK, Plan
    <3> QED
      BY <1>6, <3>1 DEF DisconnectTarget
  <2>2. request' \in Request
    BY <1>6 DEF DisconnectTarget, OnClient, Request
  <2> QED
    BY <1>1, <1>2, <1>6, <2>1, <2>2, SpendType DEF DisconnectTarget, Click, TypeOK, server
<1>7. ASSUME NEW p \in Placements, Resubscribe(p) PROVE TypeInv'
  <2>1. p \in {"main", "client"}
    BY ConstantsAssumption
  <2>2. sub' \in [active : BOOLEAN, etag : Bodies \cup {NULL}, placement : {"main", "client"}]
    BY <1>7, <2>1 DEF Resubscribe
  <2> QED
    BY <1>1, <1>2, <1>7, <2>2, SpendType DEF Resubscribe, Click, TypeOK, server, ledger
<1>8. ASSUME NEW p \in Placements, ChangePlacement(p) PROVE TypeInv'
  <2>1. p \in {"main", "client"}
    BY ConstantsAssumption
  <2>2. sub' \in [active : BOOLEAN, etag : Bodies \cup {NULL}, placement : {"main", "client"}]
    BY <1>8, <2>1 DEF ChangePlacement, TypeOK
  <2> QED
    BY <1>1, <1>2, <1>3, <1>8, <2>2, SpendType DEF ChangePlacement, Click, TypeOK, server
<1>9. NoRequest \in Request
  BY DEF NoRequest, Request
<1>10. CASE AppendAffected
  BY <1>1, <1>2, <1>9, <1>10 DEF AppendAffected, TypeOK, server, Request
<1>11. CASE Deactivate
  BY <1>1, <1>2, <1>11 DEF Deactivate, TypeOK, server, ledger, Request
<1>12. CASE ReplanPlaced
  <2>1. queue' \subseteq Keys
    BY <1>3, <1>12 DEF ReplanPlaced, TypeOK
  <2> QED
    BY <1>1, <1>2, <1>9, <1>12, <2>1 DEF ReplanPlaced, TypeOK, server
<1>13. CASE QueueEverything
  <2>1. queue' \subseteq Keys /\ request' \in Request
    BY <1>13 DEF QueueEverything, TypeOK, Request
  <2> QED
    BY <1>1, <1>2, <1>13, <2>1 DEF QueueEverything, TypeOK, server
<1>14. CASE EndSubscription
  <2>1. sub' \in [active : BOOLEAN, etag : Bodies \cup {NULL}, placement : {"main", "client"}]
    BY <1>14 DEF EndSubscription, TypeOK
  <2>2. request' \in Request /\ adrift' \subseteq Keys
    BY <1>3, <1>14 DEF EndSubscription, Request, TypeOK
  <2> QED
    BY <1>1, <1>2, <1>14, <2>1, <2>2 DEF EndSubscription, TypeOK, server
<1> QED
  BY <1>4, <1>5, <1>6, <1>7, <1>8, <1>10, <1>11, <1>12, <1>13, <1>14 DEF Owner, Answer

(* What happens around them.                                               *)
LEMMA WorldType ==
  ASSUME TypeInv, FeedChanges \/ TimePasses \/ Crash \/ \E e \in Stable : Release(e)
  PROVE  TypeInv'
<1> USE DEF TypeInv
<1>1. CASE FeedChanges
  <2>1. Reading'
    BY <1>1, ReadingKept DEF FeedChanges
  <2> QED
    BY <1>1, <2>1, SpendType DEF FeedChanges, TypeOK, server, ledger
<1>2. CASE TimePasses
  <2>1. rows' \in [Keys -> Row]
    <3>1. \A e \in Keys : rows[e] \in Row /\ [rows[e] EXCEPT !.old = TRUE] \in Row
      BY DEF TypeOK, Row
    <3> QED
      BY <1>2, <3>1 DEF TimePasses
  <2>2. Reading'
    BY <1>2, ReadingKept DEF TimePasses
  <2> QED
    BY <1>2, <2>1, <2>2 DEF TimePasses, TypeOK, server
<1>3. CASE Crash
  <2>1. pass' \in Pass /\ pass'.pc = "idle" /\ request' \in Request
    BY <1>3, IdleType DEF Crash, NoRequest, Request
  <2>2. Reading'
    BY <2>1, NotReading
  <2>3. queue' \subseteq Keys /\ adrift' \subseteq Keys
    BY <1>3 DEF Crash, TypeOK, Pass, Request
  <2> QED
    BY <1>3, <2>1, <2>2, <2>3, SpendType DEF Crash, Fault, TypeOK, server
<1>4. ASSUME NEW e \in Stable, Release(e) PROVE TypeInv'
  <2>1. rows' \in [Keys -> Row]
    <3>1. [rows[e] EXCEPT !.status = "released"] \in Row
      BY DEF TypeOK, Row, Keys
    <3> QED
      BY <1>4, <3>1 DEF Release, TypeOK
  <2>2. Reading'
    BY <1>4, ReadingKept DEF Release
  <2> QED
    BY <1>4, <2>1, <2>2, SpendType DEF Release, Fault, TypeOK, server
<1> QED
  BY <1>1, <1>2, <1>3, <1>4

LEMMA StepType ==
  ASSUME TypeInv, [Next]_vars
  PROVE  TypeInv'
<1>1. CASE UNCHANGED vars
  BY <1>1 DEF vars, TypeInv, TypeOK, Reading, Listed
<1> QED
  BY <1>1, PollType, PlanPassType, OwnerType, WorldType DEF Next

LEMMA TypeInvariant == Spec => []TypeInv
<1>1. Init => TypeInv
  BY InitType
<1>2. TypeInv /\ [Next]_vars => TypeInv'
  BY StepType
<1> QED
  BY <1>1, <1>2, PTL DEF Spec

(* The variables keep their types, and a probe for a free slot finds one.  *)
THEOREM TypeCorrect == Spec => []TypeOK
<1>1. TypeInv => TypeOK
  BY DEF TypeInv
<1> QED
  BY <1>1, TypeInvariant, PTL

-----------------------------------------------------------------------------
(* What makes the plans and the cancellations right.                       *)

(* Events that share their time end together; that they are released       *)
(* together is left to the ones with lasting UIDs.                         *)
SlotsKept == \A k \in Ordinals : rows[k].status # "released"

(* What the coroutines hold, and when.  While a body is read the tag held  *)
(* is not that of what is served: the feed would not be read else.         *)
Locals ==
  /\ pass.pc \notin {"read", "record"} => pass.affected = {}
  /\ pass.pc # "planning" => pass.left = {}
  /\ pass.left \subseteq pass.reading
  /\ request.pc \notin {"end", "append", "queue"} => request.ids = {}
  /\ pass.pc = "fetch" => sub.etag \in {pass.asked, NULL}
  /\ pass.pc \in {"read", "record", "success"} => sub.etag # feed

(* A body without events is read only when nothing is active.  Unless an   *)
(* event failed, what was read and is active was given to the pass.        *)
Complete ==
  pass.pc = "read" =>
    /\ IsEmpty(pass.body) => ActiveRows = {}
    /\ pass.failed = FALSE =>
         \A e \in Listed(pass.body) \ pass.todo : Active(e) => e \in pass.affected
    /\ \/ \A k \in Ordinals : k < pass.line => k \in pass.affected
       \/ pass.failed = TRUE /\ Ordinals \subseteq adrift

(* Every active row the body has is, once read, known to be so.            *)
Examined ==
  /\ pass.pc = "read" =>
       \A e \in Listed(pass.body) \ pass.todo : Active(e) => e \in pass.affected \cup adrift
  /\ pass.pc = "record" =>
       \A e \in ActiveRows \ Gone(pass.body) : e \in pass.affected \cup adrift
  /\ pass.pc = "success" =>
       \A e \in ActiveRows \ Gone(pass.body) : e \in queue \cup adrift

Unplaced == \A e \in Keys : rows[e].status = "none" => planned[e] = Nowhere

Unsubscribed == sub.active = FALSE => ActiveRows \subseteq adrift

(* A plan out of date that nothing in the database or in a coroutine       *)
(* points at is that of an active row, of a feed that will be read again;  *)
(* or of a placement that is being disconnected.                           *)
Known == queue \cup pass.left \cup pass.affected \cup request.ids \cup adrift
Lineage(e) == {e, SeriesOf[e]} \cap Keys
Owed(e) == planned[e] # Replanned(e) /\ Lineage(e) \cap Known = {}
Recalled(e) ==
  \/ /\ sub.active = TRUE /\ sub.etag # feed
     /\ pass.pc = "fetch" => pass.asked # feed
     /\ Lineage(e) \cap ActiveRows # {}
  \/ /\ request.pc = "replan" /\ sub.active = TRUE /\ sub.placement = "client"
     /\ Active(e)
OwedRecalled == \A e \in Keys : Owed(e) => Recalled(e)

IInv ==
  /\ TypeInv
  /\ SlotsKept
  /\ Locals
  /\ Complete
  /\ Examined
  /\ Unplaced
  /\ Unsubscribed
  /\ OwedRecalled

LEMMA InitSafe == Init => IInv
<1> SUFFICES ASSUME Init PROVE IInv
  OBVIOUS
<1>1. /\ pass.pc = "idle" /\ pass.affected = {} /\ pass.left = {} /\ pass.reading = {}
      /\ request.pc = "idle" /\ request.ids = {}
  BY DEF Init, Idle, NoRequest
<1>2. \A e \in Keys : rows[e].status = "none" /\ planned[e] = Nowhere
  BY DEF Init, NoRow
<1>3. SlotsKept
  BY <1>2 DEF SlotsKept, Keys
<1>4. Locals
  BY <1>1 DEF Locals
<1>5. Complete /\ Examined /\ Unplaced
  BY <1>1, <1>2 DEF Complete, Examined, Unplaced
<1>6. ActiveRows = {}
  BY <1>2 DEF ActiveRows, Active
<1>7. OwedRecalled
  BY <1>2 DEF OwedRecalled, Owed, Replanned, Wanted, Active
<1> QED
  BY <1>3, <1>4, <1>5, <1>6, <1>7, InitType DEF IInv, Unsubscribed

(* A series is a row of its own.                                           *)
LEMMA LineageType ==
  ASSUME NEW e \in Keys
  PROVE  /\ e \in Lineage(e)
         /\ SeriesOf[e] # NULL => SeriesOf[e] \in Lineage(e) /\ SeriesOf[e] \in Keys
         /\ \A x \in Lineage(e) : x = e \/ (x = SeriesOf[e] /\ SeriesOf[e] # NULL)
<1>1. SeriesOf[e] \in Stable \cup {NULL} /\ NULL \notin Keys /\ Stable \subseteq Keys
  BY ConstantsAssumption DEF Keys
<1> QED
  BY <1>1 DEF Lineage

(* A plan follows from its row, that of its series, and the placement.     *)
LEMMA SamePlan ==
  ASSUME NEW e \in Keys,
         \A x \in Lineage(e) : /\ rows'[x].status = rows[x].status
                               /\ rows'[x].content = rows[x].content,
         Active(e) => Placed' = Placed,
         planned'[e] = planned[e]
  PROVE  Replanned(e)' = Replanned(e)
<1>1. Active(e)' <=> Active(e)
  BY LineageType DEF Active
<1>2. SeriesOf[e] # NULL => (Active(SeriesOf[e])' <=> Active(SeriesOf[e]))
  BY LineageType DEF Active
<1>3. Wanted(e)' = Wanted(e)
  <2>1. CASE /\ Active(e)
             /\ SeriesOf[e] # NULL => Active(SeriesOf[e])
    <3>1. Wanted(e) = [where |-> Placed, content |-> rows[e].content]
      BY <2>1, Zenon DEF Wanted
    <3>2. Wanted(e)' = [where |-> Placed', content |-> rows'[e].content]
      BY <1>1, <1>2, <2>1, Zenon DEF Wanted
    <3>3. Placed' = Placed /\ rows'[e].content = rows[e].content
      BY <2>1, LineageType
    <3> QED
      BY <3>1, <3>2, <3>3
  <2>2. CASE ~(/\ Active(e)
               /\ SeriesOf[e] # NULL => Active(SeriesOf[e]))
    <3>1. Wanted(e) = Nowhere
      BY <2>2, Zenon DEF Wanted
    <3>2. Wanted(e)' = Nowhere
      BY <1>1, <1>2, <2>2, Zenon DEF Wanted
    <3> QED
      BY <3>1, <3>2
  <2> QED
    BY <2>1, <2>2
<1>4. rows'[e].status = rows[e].status
  BY LineageType
<1> QED
  BY <1>3, <1>4 DEF Replanned

(* What is owed now was owed before, when nothing that was known is        *)
(* forgotten and every row that was written is known.                      *)
LEMMA StillOwed ==
  ASSUME NEW e \in Keys, Owed(e)',
         Known \subseteq Known',
         \A x \in Keys \ Known' : /\ rows'[x].status = rows[x].status
                                  /\ rows'[x].content = rows[x].content,
         Active(e) /\ e \notin Known' => Placed' = Placed,
         planned'[e] = planned[e]
  PROVE  /\ Owed(e)
         /\ \A x \in Lineage(e) : Active(x)' <=> Active(x)
<1>1. Lineage(e)' = Lineage(e)
  BY DEF Lineage, Keys, Ordinals
<1>2. Lineage(e) \cap Known' = {} /\ Lineage(e) \cap Known = {}
  BY <1>1 DEF Owed
<1>3. \A x \in Lineage(e) : x \in Keys \ Known'
  BY <1>2 DEF Lineage
<1>4. Replanned(e)' = Replanned(e)
  BY <1>3, LineageType, SamePlan
<1>5. \A x \in Lineage(e) : Active(x)' <=> Active(x)
  BY <1>3 DEF Active
<1> QED
  BY <1>2, <1>4, <1>5 DEF Owed

(* ... and it still is recalled, unless the step touches what recalls it.  *)
LEMMA RecalledKept ==
  ASSUME OwedRecalled,
         Known \subseteq Known',
         \A x \in Keys \ Known' : /\ rows'[x].status = rows[x].status
                                  /\ rows'[x].content = rows[x].content,
         UNCHANGED <<planned, sub, client, feed>>,
         request.pc = "replan" => request'.pc = "replan",
         pass'.pc = "fetch" => pass.pc = "fetch" /\ pass'.asked = pass.asked
  PROVE  OwedRecalled'
<1> SUFFICES ASSUME NEW e \in Keys, Owed(e)' PROVE Recalled(e)'
  BY DEF OwedRecalled, Keys, Ordinals
<1>1. Placed' = Placed
  BY DEF Placed
<1>2. Owed(e) /\ \A x \in Lineage(e) : Active(x)' <=> Active(x)
  BY <1>1, StillOwed
<1>3. Recalled(e)
  BY <1>2 DEF OwedRecalled
<1>4. Active(e)' <=> Active(e)
  BY <1>2, LineageType
<1>5. Lineage(e) \cap ActiveRows # {} => Lineage(e)' \cap ActiveRows' # {}
  <2>1. Lineage(e)' = Lineage(e) /\ Lineage(e) \subseteq Keys /\ Keys' = Keys
    BY DEF Lineage, Keys, Ordinals
  <2> QED
    BY <1>2, <2>1 DEF ActiveRows
<1> QED
  BY <1>3, <1>4, <1>5 DEF Recalled

-----------------------------------------------------------------------------
(* An event is read.                                                       *)
Took(x) ==
  /\ pass.pc = "read" /\ pass'.pc = "read" /\ pass'.body = pass.body
  /\ pass'.left = pass.left /\ pass'.reading = pass.reading
  /\ UNCHANGED <<feed, sub, client, planned, queue, request>>
  /\ \A y \in Keys \ {x} : rows'[y] = rows[y]
  /\ rows'[x].status \in {"released", "none"} => rows[x].status = rows'[x].status
  /\ rows'[x] # rows[x] => x \in pass'.affected
  /\ \/ x \in pass'.affected \cup adrift'
     \/ rows'[x] = rows[x] /\ rows[x].status # "active"
  /\ pass'.failed = FALSE => /\ pass.failed = FALSE
                             /\ rows'[x].status = "active" => x \in pass'.affected
  /\ pass.affected \subseteq pass'.affected /\ pass'.affected \subseteq pass.affected \cup {x}
  /\ pass.affected \cup adrift \subseteq pass'.affected \cup adrift'
  /\ sub.active = FALSE => adrift \cup {x} \subseteq adrift'

(* What TakeIn leaves, with the locals that go with it.                    *)
LEMMA TakeInTook ==
  ASSUME TypeOK, NEW x \in Keys, NEW out, NEW item, Sound(rows[x], item, out),
         TakeIn(x, out),
         pass.pc = "read", pass'.pc = "read", pass'.body = pass.body,
         pass'.left = pass.left, pass'.reading = pass.reading, pass'.failed = pass.failed,
         pass'.affected = IF out.id THEN pass.affected \cup {x} ELSE pass.affected,
         UNCHANGED <<feed, sub, client, planned, queue, request>>
  PROVE  Took(x)
<1>1. rows' = [rows EXCEPT ![x] = out.row]
  BY DEF TakeIn
<1>2. rows'[x] = out.row /\ \A y \in Keys \ {x} : rows'[y] = rows[y]
  BY <1>1 DEF TypeOK
<1>3. CASE out.id = TRUE
  <2>1. pass'.affected = pass.affected \cup {x}
    BY <1>3
  <2>2. pass.affected \cup adrift \subseteq pass'.affected \cup adrift'
    <3>1. adrift' = adrift \cup {x} \/ adrift' = adrift \ {x} \/ adrift' = adrift
      BY Zenon DEF TakeIn
    <3> QED
      BY <2>1, <3>1
  <2>3. sub.active = FALSE => adrift' = adrift \cup {x}
    BY Zenon DEF TakeIn
  <2> QED
    BY <1>2, <2>1, <2>2, <2>3 DEF Sound, Took
<1>4. CASE out.id = FALSE
  <2>1. pass'.affected = pass.affected
    BY <1>4
  <2>2. out.row = rows[x] /\ rows[x].status # "active"
    BY <1>4 DEF Sound
  <2>3. adrift' = adrift \cup {x} \/ adrift' = adrift
    BY <1>4, Zenon DEF TakeIn
  <2>4. sub.active = FALSE => adrift' = adrift \cup {x}
    BY Zenon DEF TakeIn
  <2> QED
    BY <1>2, <2>1, <2>2, <2>3, <2>4 DEF Took
<1>5. out.id \in BOOLEAN
  BY DEF Sound
<1> QED
  BY <1>3, <1>4, <1>5

(* An event with a lasting UID.                                            *)
LEMMA EventTook ==
  ASSUME TypeInv, NEW e \in Stable, IngestEvent(e)
  PROVE  /\ Took(e)
         /\ e \in pass.todo /\ pass'.todo = pass.todo \ {e} /\ pass'.line = pass.line
         /\ e \notin Ordinals
         /\ Ordinals \subseteq adrift => Ordinals \subseteq adrift'
         /\ rows[e].status = "active" /\ rows'[e].status = "cancelled" =>
              pass.body.stable[e].state = "cancelled"
<1> DEFINE item == pass.body.stable[e]
           out == Handled(e, item)
<1>1. pass.pc = "read" /\ e \in pass.todo /\ pass.body \in Bodies
  BY DEF IngestEvent, Reading, TypeInv
<1>2. item \in Item /\ item.state # "absent"
  BY <1>1, SametimeIsSeq DEF Reading, Listed, TypeInv
<1>3. Sound(rows[e], item, out)
  BY <1>2, HandledSound DEF TypeInv
<1>4. e \in Keys /\ e \notin Ordinals
  BY ConstantsAssumption DEF Keys
<1>5. pass \in Pass /\ rows \in [Keys -> Row]
  BY DEF TypeInv, TypeOK
<1> HIDE DEF out, item
<1>6. UNCHANGED <<feed, sub, client, planned, queue, request>>
  BY DEF IngestEvent
<1>7. CASE /\ TakeIn(e, out)
           /\ pass' = [pass EXCEPT !.todo = @ \ {e},
                !.affected = IF out.id THEN @ \cup {e} ELSE @]
  <2>1. /\ pass'.pc = "read" /\ pass'.body = pass.body
        /\ pass'.left = pass.left /\ pass'.reading = pass.reading
        /\ pass'.failed = pass.failed
        /\ pass'.affected = IF out.id THEN pass.affected \cup {e} ELSE pass.affected
        /\ pass'.todo = pass.todo \ {e} /\ pass'.line = pass.line
    BY <1>1, <1>5, <1>7 DEF Pass
  <2>2. Took(e)
    BY <1>1, <1>3, <1>4, <1>6, <1>7, <2>1, TakeInTook DEF TypeInv
  <2>3. Ordinals \subseteq adrift => Ordinals \subseteq adrift'
    <3>1. adrift' = adrift \cup {e} \/ adrift' = adrift \ {e} \/ adrift' = adrift
      BY <1>7, Zenon DEF TakeIn
    <3> QED
      BY <1>4, <3>1
  <2>4. rows'[e] = out.row
    BY <1>4, <1>5, <1>7 DEF TakeIn
  <2> QED
    BY <1>1, <1>3, <1>4, <2>1, <2>2, <2>3, <2>4 DEF Sound, item
<1>8. CASE /\ pass' = [pass EXCEPT !.todo = @ \ {e}, !.failed = TRUE]
           /\ adrift' = adrift \cup {e}
           /\ UNCHANGED rows
  <2>1. /\ pass'.pc = "read" /\ pass'.body = pass.body
        /\ pass'.left = pass.left /\ pass'.reading = pass.reading
        /\ pass'.failed = TRUE /\ pass'.affected = pass.affected
        /\ pass'.todo = pass.todo \ {e} /\ pass'.line = pass.line
    BY <1>1, <1>5, <1>8 DEF Pass
  <2> QED
    BY <1>1, <1>4, <1>6, <1>8, <2>1 DEF Took
<1> QED
  BY <1>7, <1>8, Zenon DEF IngestEvent, out, item

(* One without.  Unless an earlier one failed, its slot is its place.      *)
LEMMA SameTimeTook ==
  ASSUME TypeInv, SlotsKept, Complete, IngestSameTime
  PROVE  /\ Took(Slot)
         /\ Slot \in Ordinals /\ pass'.todo = pass.todo
         /\ pass.line \in Ordinals /\ pass'.line = pass.line + 1
         /\ ~(rows[Slot].status = "active" /\ rows'[Slot].status = "cancelled")
         /\ \/ Slot = pass.line /\ Slot \in pass'.affected
               /\ \A k \in Ordinals : k < pass.line => k \in pass.affected
            \/ pass'.failed = TRUE /\ Ordinals \subseteq adrift'
<1> DEFINE item == [state |-> "live", content |-> pass.body.sametime[pass.line + 1]]
           out == TopEvent(rows[Slot], item)
<1>1. /\ pass.pc = "read" /\ pass.line < Len(pass.body.sametime)
      /\ pass.body \in Bodies
  BY DEF IngestSameTime, Reading, TypeInv
<1>2. /\ Slot \in Ordinals /\ Slot \in 0 .. pass.line /\ Slot \notin pass.affected
      /\ pass.line \in Ordinals
  BY <1>1, SlotType
<1>3. item \in Item /\ item.state = "live"
  <2>1. pass.line + 1 \in 1 .. Len(pass.body.sametime)
    BY <1>1, <1>2, SametimeIsSeq, ConstantsAssumption DEF Ordinals
  <2>2. pass.body.sametime[pass.line + 1] \in Contents
    BY <1>1, <2>1, SametimeIsSeq, ElementOfSeq
  <2> QED
    BY <2>2 DEF Item
<1>4. Slot \in Keys /\ rows[Slot] \in Row /\ rows[Slot].status # "released"
  BY <1>2 DEF Keys, TypeInv, TypeOK, SlotsKept
<1>5. pass \in Pass /\ rows \in [Keys -> Row]
  BY DEF TypeInv, TypeOK
<1> HIDE DEF item
<1>6. Sound(rows[Slot], item, out) /\ out.id = TRUE
  BY <1>3, <1>4, TopEventSound
<1> HIDE DEF out
<1>7. UNCHANGED <<feed, sub, client, planned, queue, request>>
  BY DEF IngestSameTime
<1>8. CASE /\ TakeIn(Slot, out)
           /\ pass' = [pass EXCEPT !.line = @ + 1,
                !.affected = IF out.id THEN @ \cup {Slot} ELSE @]
  <2>1. /\ pass'.pc = "read" /\ pass'.body = pass.body
        /\ pass'.left = pass.left /\ pass'.reading = pass.reading
        /\ pass'.failed = pass.failed
        /\ pass'.affected = IF out.id THEN pass.affected \cup {Slot} ELSE pass.affected
        /\ pass'.todo = pass.todo /\ pass'.line = pass.line + 1
    BY <1>1, <1>5, <1>8 DEF Pass
  <2>2. Took(Slot)
    BY <1>1, <1>4, <1>6, <1>7, <1>8, <2>1, TakeInTook DEF TypeInv
  <2>3. rows'[Slot] = out.row
    BY <1>4, <1>5, <1>8 DEF TakeIn
  <2>4. CASE \A k \in Ordinals : k < pass.line => k \in pass.affected
    <3>1. Slot = pass.line
      BY <1>2, <2>4, ConstantsAssumption DEF Ordinals
    <3> QED
      BY <1>2, <1>3, <1>6, <2>1, <2>2, <2>3, <2>4, <3>1 DEF Sound
  <2>5. CASE pass.failed = TRUE /\ Ordinals \subseteq adrift
    <3>1. adrift' = adrift \cup {Slot} \/ adrift' = adrift
      BY <1>2, <1>8, <2>5, Zenon DEF TakeIn
    <3> QED
      BY <1>2, <1>3, <1>6, <2>1, <2>2, <2>3, <2>5, <3>1 DEF Sound
  <2> QED
    BY <1>1, <2>4, <2>5 DEF Complete
<1>9. CASE /\ pass' = [pass EXCEPT !.line = @ + 1, !.failed = TRUE]
           /\ adrift' = adrift \cup Ordinals
           /\ UNCHANGED rows
  <2>1. /\ pass'.pc = "read" /\ pass'.body = pass.body
        /\ pass'.left = pass.left /\ pass'.reading = pass.reading
        /\ pass'.failed = TRUE /\ pass'.affected = pass.affected
        /\ pass'.todo = pass.todo /\ pass'.line = pass.line + 1
    BY <1>1, <1>5, <1>9 DEF Pass
  <2> QED
    BY <1>1, <1>2, <1>7, <1>9, <2>1 DEF Took
<1> QED
  BY <1>8, <1>9, Zenon DEF IngestSameTime, out, item

(* What reading an event keeps, whichever it is.                           *)
LEMMA TookKeeps ==
  ASSUME IInv, NEW x \in Keys, Took(x)
  PROVE  SlotsKept' /\ Locals' /\ Unplaced' /\ Unsubscribed' /\ OwedRecalled'
<1>1. SlotsKept'
  BY DEF IInv, SlotsKept, Took, Ordinals, Keys
<1>2. Locals'
  BY DEF IInv, Locals, Took
<1>3. Unplaced'
  BY DEF IInv, Unplaced, Took, Keys, Ordinals
<1>4. Unsubscribed'
  <2> SUFFICES ASSUME sub'.active = FALSE, NEW y \in Keys, Active(y)'
               PROVE  y \in adrift'
    BY DEF Unsubscribed, ActiveRows, Keys, Ordinals
  <2>1. sub.active = FALSE /\ adrift \cup {x} \subseteq adrift'
    BY DEF Took
  <2>2. y # x => Active(y)
    BY DEF Took, Active
  <2> QED
    BY <2>1, <2>2 DEF IInv, Unsubscribed, ActiveRows
<1>5. OwedRecalled'
  <2>1. Known \subseteq Known'
    BY DEF Known, Took
  <2>2. \A y \in Keys \ Known' : rows'[y] = rows[y]
    BY DEF Known, Took
  <2> QED
    BY <2>1, <2>2, RecalledKept DEF IInv, Took
<1> QED
  BY <1>1, <1>2, <1>3, <1>4, <1>5

(* The body under way does not change, nor what it lists.                  *)
LEMMA SameBody ==
  ASSUME pass'.body = pass.body
  PROVE  /\ Listed(pass'.body) = Listed(pass.body) /\ Gone(pass'.body) = Gone(pass.body)
         /\ IsEmpty(pass'.body) <=> IsEmpty(pass.body)
         /\ Len(pass'.body.sametime) = Len(pass.body.sametime)
  OBVIOUS

LEMMA EventSafe ==
  ASSUME IInv, NEW e \in Stable, IngestEvent(e)
  PROVE  IInv'
<1>1. TypeInv /\ TypeInv'
  BY PollType DEF IInv, Poll
<1>2. /\ Took(e)
      /\ e \in pass.todo /\ pass'.todo = pass.todo \ {e} /\ pass'.line = pass.line
      /\ e \notin Ordinals
      /\ Ordinals \subseteq adrift => Ordinals \subseteq adrift'
  BY <1>1, EventTook
<1>3. e \in Keys
  BY DEF Keys
<1>4. pass.pc = "read" /\ pass'.body = pass.body /\ e \in Listed(pass.body)
  BY <1>1, <1>2 DEF Took, TypeInv, Reading
<1>5. \A y \in Keys : Active(y)' => Active(y) \/ (y = e /\ Active(e)')
  BY <1>2 DEF Took, Active
<1>6. Complete'
  <2>1. ~IsEmpty(pass'.body)
    BY <1>4, SameBody DEF IsEmpty
  <2>2. pass'.failed = FALSE =>
          \A y \in Listed(pass'.body) \ pass'.todo : Active(y)' => y \in pass'.affected
    <3> SUFFICES ASSUME pass'.failed = FALSE, NEW y \in Listed(pass.body),
                        y \notin pass'.todo, Active(y)'
                 PROVE  y \in pass'.affected
      BY <1>4, SameBody
    <3>1. y \in Keys
      BY ListedType DEF Keys
    <3>2. CASE y = e
      BY <1>2, <3>2 DEF Took, Active
    <3>3. CASE y # e
      <4>1. Active(y) /\ y \notin pass.todo /\ pass.failed = FALSE
        BY <1>2, <1>5, <3>1, <3>3 DEF Took
      <4> QED
        BY <1>2, <1>4, <4>1 DEF IInv, Complete, Took
    <3> QED
      BY <3>2, <3>3
  <2>3. \/ \A k \in Ordinals : k < pass'.line => k \in pass'.affected
        \/ pass'.failed = TRUE /\ Ordinals \subseteq adrift'
    <3>1. CASE \A k \in Ordinals : k < pass.line => k \in pass.affected
      BY <1>2, <3>1 DEF Took
    <3>2. CASE pass.failed = TRUE /\ Ordinals \subseteq adrift
      <4>1. pass'.failed = TRUE
        BY <1>1, <1>2, <3>2 DEF Took, TypeInv, TypeOK, Pass
      <4> QED
        BY <1>2, <3>2, <4>1
    <3> QED
      BY <1>4, <3>1, <3>2 DEF IInv, Complete
  <2> QED
    BY <2>1, <2>2, <2>3 DEF Complete, Listed, IsEmpty, Ordinals
<1>7. Examined'
  <2> SUFFICES ASSUME NEW y \in Listed(pass.body), y \notin pass'.todo, Active(y)'
               PROVE  y \in pass'.affected \cup adrift'
    BY <1>2, <1>4, SameBody DEF Examined, Took
  <2>1. y \in Keys
    BY ListedType DEF Keys
  <2>2. CASE y = e
    BY <1>2, <2>2 DEF Took, Active
  <2>3. CASE y # e
    <3>1. Active(y) /\ y \notin pass.todo
      BY <1>2, <1>5, <2>1, <2>3
    <3> QED
      BY <1>2, <1>4, <3>1 DEF IInv, Examined, Took
  <2> QED
    BY <2>2, <2>3
<1> QED
  BY <1>1, <1>2, <1>3, <1>6, <1>7, TookKeeps DEF IInv

LEMMA SameTimeSafe ==
  ASSUME IInv, IngestSameTime
  PROVE  IInv'
<1>1. TypeInv /\ TypeInv'
  BY PollType DEF IInv, Poll
<1>2. /\ Took(Slot)
      /\ Slot \in Ordinals /\ pass'.todo = pass.todo
      /\ pass.line \in Ordinals /\ pass'.line = pass.line + 1
      /\ \/ Slot = pass.line /\ Slot \in pass'.affected
            /\ \A k \in Ordinals : k < pass.line => k \in pass.affected
         \/ pass'.failed = TRUE /\ Ordinals \subseteq adrift'
  BY <1>1, SameTimeTook DEF IInv
<1>3. Slot \in Keys
  BY <1>2 DEF Keys
<1>4. pass.pc = "read" /\ pass'.body = pass.body /\ pass.line < Len(pass.body.sametime)
  BY <1>2 DEF Took, IngestSameTime
<1>5. \A y \in Stable : Active(y)' <=> Active(y)
  BY <1>2, ConstantsAssumption DEF Took, Active, Keys
<1>6. Complete'
  <2>1. ~IsEmpty(pass'.body)
    <3>1. Len(pass.body.sametime) # 0
      BY <1>2, <1>4, SametimeIsSeq, ConstantsAssumption DEF Ordinals
    <3> QED
      BY <1>4, <3>1, SameBody DEF IsEmpty
  <2>2. pass'.failed = FALSE =>
          \A y \in Listed(pass'.body) \ pass'.todo : Active(y)' => y \in pass'.affected
    <3> SUFFICES ASSUME pass'.failed = FALSE, NEW y \in Listed(pass.body),
                        y \notin pass'.todo, Active(y)'
                 PROVE  y \in pass'.affected
      BY <1>4, SameBody
    <3>1. Active(y) /\ y \notin pass.todo /\ pass.failed = FALSE
      BY <1>2, <1>5, ListedType DEF Took
    <3> QED
      BY <1>2, <1>4, <3>1 DEF IInv, Complete, Took
  <2>3. \/ \A k \in Ordinals : k < pass'.line => k \in pass'.affected
        \/ pass'.failed = TRUE /\ Ordinals \subseteq adrift'
    <3>1. CASE /\ Slot = pass.line /\ Slot \in pass'.affected
               /\ \A k \in Ordinals : k < pass.line => k \in pass.affected
      <4>1. \A k \in Ordinals : k < pass'.line => k < pass.line \/ k = Slot
        BY <1>2, <3>1, ConstantsAssumption DEF Ordinals
      <4> QED
        BY <1>2, <3>1, <4>1 DEF Took
    <3> QED
      BY <1>2, <3>1
  <2> QED
    BY <2>1, <2>2, <2>3 DEF Complete, Listed, IsEmpty, Ordinals
<1>7. Examined'
  <2> SUFFICES ASSUME NEW y \in Listed(pass.body), y \notin pass'.todo, Active(y)'
               PROVE  y \in pass'.affected \cup adrift'
    BY <1>2, <1>4, SameBody DEF Examined, Took
  <2>1. Active(y) /\ y \notin pass.todo
    BY <1>2, <1>5, ListedType
  <2> QED
    BY <1>2, <1>4, <2>1 DEF IInv, Examined, Took
<1> QED
  BY <1>1, <1>2, <1>3, <1>6, <1>7, TookKeeps DEF IInv

-----------------------------------------------------------------------------
(* The rest of the poll.                                                   *)

(* What depends on nothing but rows and plans.                             *)
LEMMA RowsKept ==
  ASSUME IInv, UNCHANGED <<rows, planned>>
  PROVE  SlotsKept' /\ Unplaced'
  BY DEF IInv, SlotsKept, Unplaced, Keys, Ordinals

LEMMA UnsubscribedKept ==
  ASSUME IInv, UNCHANGED <<rows, sub>>, adrift \subseteq adrift'
  PROVE  Unsubscribed'
  BY DEF IInv, Unsubscribed, ActiveRows, Active, Keys, Ordinals

LEMMA StartPollSafe ==
  ASSUME IInv, StartPoll
  PROVE  IInv'
<1>1. TypeInv'
  BY PollType DEF IInv, Poll
<1>2. /\ pass.pc = "idle" /\ pass'.pc = "fetch" /\ pass'.asked = sub.etag
      /\ pass'.affected = {} /\ pass'.left = {} /\ pass'.reading = {}
      /\ UNCHANGED <<feed, sub, client, rows, planned, queue, request, adrift>>
  BY DEF StartPoll, Idle, ledger
<1>3. pass.affected = {} /\ pass.left = {}
  BY <1>2 DEF IInv, Locals
<1>4. Locals'
  BY <1>2 DEF IInv, Locals
<1>5. Complete' /\ Examined'
  BY <1>2 DEF Complete, Examined
<1>6. OwedRecalled'
  <2> SUFFICES ASSUME NEW e \in Keys, Owed(e)' PROVE Recalled(e)'
    BY DEF OwedRecalled, Keys, Ordinals
  <2>1. Known' = Known
    BY <1>2, <1>3 DEF Known
  <2>2. Placed' = Placed
    BY <1>2 DEF Placed
  <2>3. Owed(e)
    BY <1>2, <2>1, <2>2, StillOwed
  <2>4. Recalled(e)
    BY <2>3 DEF IInv, OwedRecalled
  <2>5. Lineage(e)' = Lineage(e) /\ ActiveRows' = ActiveRows /\ (Active(e)' <=> Active(e))
    BY <1>2 DEF Lineage, ActiveRows, Active, Keys, Ordinals
  <2> QED
    BY <1>2, <2>4, <2>5 DEF Recalled
<1> QED
  BY <1>1, <1>2, <1>4, <1>5, <1>6, RowsKept, UnsubscribedKept DEF IInv

(* A pass that ends its poll, and forgets nothing it knew.                 *)
LEMMA PollEnds ==
  ASSUME IInv, TypeInv', pass.pc = "fetch" \/ pass.pc = "success",
         pass' = [Idle EXCEPT !.pc = "plan"],
         UNCHANGED <<feed, client, rows, planned, queue, request>>,
         sub'.active = sub.active, sub'.placement = sub.placement,
         adrift \subseteq adrift',
         \A e \in Keys : /\ sub.active = TRUE /\ sub.etag # feed
                         /\ pass.pc = "fetch" => pass.asked # feed
                         /\ Lineage(e) \cap ActiveRows # {}
                         /\ Owed(e)
                         => sub'.etag # feed \/ Lineage(e) \cap adrift' # {}
  PROVE  IInv'
<1>1. /\ pass'.pc = "plan" /\ pass'.affected = {} /\ pass'.left = {} /\ pass'.reading = {}
      /\ pass.affected = {} /\ pass.left = {}
  BY DEF Idle, IInv, Locals
<1>2. Locals'
  BY <1>1 DEF IInv, Locals
<1>3. Complete' /\ Examined'
  BY <1>1 DEF Complete, Examined
<1>4. Unsubscribed'
  BY DEF IInv, Unsubscribed, ActiveRows, Active, Keys, Ordinals
<1>5. OwedRecalled'
  <2> SUFFICES ASSUME NEW e \in Keys, Owed(e)' PROVE Recalled(e)'
    BY DEF OwedRecalled, Keys, Ordinals
  <2>1. Known \subseteq Known' /\ adrift' \subseteq Known'
    BY <1>1 DEF Known
  <2>2. Placed' = Placed
    BY DEF Placed
  <2>3. Owed(e)
    BY <2>1, <2>2, StillOwed
  <2>4. Recalled(e)
    BY <2>3 DEF IInv, OwedRecalled
  <2>5. Lineage(e)' = Lineage(e) /\ ActiveRows' = ActiveRows /\ (Active(e)' <=> Active(e))
    BY DEF Lineage, ActiveRows, Active, Keys, Ordinals
  <2>6. Lineage(e) \cap adrift' = {}
    BY <2>1, <2>5 DEF Owed
  <2> QED
    BY <1>1, <2>3, <2>4, <2>5, <2>6 DEF Recalled
<1> QED
  BY <1>2, <1>3, <1>4, <1>5, RowsKept DEF IInv

(* What the body lacks and is active drifts, unless the body will be read  *)
(* again.                                                                  *)
LEMMA LingeringDrifts ==
  ASSUME NEW body, NEW e \in Keys, adrift' = adrift \cup Lingering(body),
         Lineage(e) \cap ActiveRows # {},
         \A x \in Lineage(e) : Active(x) => x \in Gone(body),
         tagged \/ IsEmpty(body)
  PROVE  Lineage(e) \cap adrift' # {}
<1>1. PICK x \in Lineage(e) : x \in ActiveRows
  OBVIOUS
<1>2. x \in Gone(body) \cap ActiveRows
  BY <1>1 DEF ActiveRows
<1>3. x \in adrift'
  BY <1>2 DEF Lingering
<1> QED
  BY <1>3

LEMMA NotModifiedSafe ==
  ASSUME IInv, NotModified
  PROVE  IInv'
<1>1. TypeInv'
  BY PollType DEF IInv, Poll
<1>2. /\ pass.pc = "fetch" /\ pass.asked = feed
      /\ pass' = [Idle EXCEPT !.pc = "plan"]
      /\ UNCHANGED <<feed, client, rows, planned, queue, request, adrift>>
      /\ sub'.active = sub.active /\ sub'.placement = sub.placement
  BY DEF NotModified, ledger, IInv, TypeInv, TypeOK
<1> QED
  BY <1>1, <1>2, PollEnds

LEMMA FetchFailsSafe ==
  ASSUME IInv, FetchFails
  PROVE  IInv'
<1>1. TypeInv'
  BY PollType DEF IInv
<1>2. /\ pass.pc = "fetch"
      /\ pass' = [Idle EXCEPT !.pc = "plan"]
      /\ UNCHANGED <<feed, sub, client, rows, planned, queue, request, adrift>>
  BY DEF FetchFails, ledger
<1> QED
  BY <1>1, <1>2, PollEnds

(* An eventless body lacks every event.                                    *)
LEMMA EmptyIsGone ==
  ASSUME NEW body \in Bodies, IsEmpty(body)
  PROVE  Gone(body) = Keys
<1>1. Listed(body) = {} /\ Len(body.sametime) = 0
  BY DEF IsEmpty
<1> QED
  BY <1>1, ConstantsAssumption DEF Gone, Keys, Ordinals

LEMMA FetchedSafe ==
  ASSUME IInv, Fetched
  PROVE  IInv'
<1>1. TypeInv /\ TypeInv' /\ pass \in Pass /\ feed \in Bodies
  BY PollType, FamilyType DEF IInv, Poll, TypeInv, TypeOK
<1>2. /\ pass.pc = "fetch" /\ pass.asked # feed /\ feed # NULL
      /\ UNCHANGED <<feed, client, rows, planned, queue, request>>
  BY <1>1, ConstantsAssumption DEF Fetched, ledger
<1>3. CASE EmptyFeedIsKept(feed)
  <2>1. /\ sub' = [sub EXCEPT !.etag = TagOf(feed)]
        /\ adrift' = adrift \cup Lingering(feed)
        /\ pass' = [Idle EXCEPT !.pc = "plan"]
    BY <1>3, Zenon DEF Fetched
  <2>2. sub'.active = sub.active /\ sub'.placement = sub.placement
    BY <1>1, <2>1 DEF TypeInv, TypeOK
  <2>3. \A e \in Keys : Lineage(e) \cap ActiveRows # {} => Lineage(e) \cap adrift' # {}
    <3>1. Gone(feed) = Keys /\ IsEmpty(feed)
      BY <1>1, <1>3, EmptyIsGone DEF EmptyFeedIsKept
    <3> QED
      BY <2>1, <3>1, LingeringDrifts DEF Lineage
  <2> QED
    BY <1>1, <1>2, <2>1, <2>2, <2>3, PollEnds
<1>4. CASE ~EmptyFeedIsKept(feed)
  <2>1. /\ pass' = [pass EXCEPT !.pc = "read", !.body = feed, !.todo = Listed(feed)]
        /\ UNCHANGED <<sub, adrift>>
    BY <1>4, Zenon DEF Fetched
  <2>2. /\ pass'.pc = "read" /\ pass'.body = feed /\ pass'.todo = Listed(feed)
        /\ pass'.line = 0 /\ pass'.affected = {} /\ pass.affected = {}
        /\ pass'.left = pass.left /\ pass'.reading = pass.reading
    BY <1>1, <1>2, <2>1 DEF Pass, TypeInv, Reading
  <2>3. Locals'
    BY <1>1, <1>2, <2>1, <2>2, ConstantsAssumption DEF IInv, Locals
  <2>4. Complete'
    <3>1. IsEmpty(feed) => ActiveRows' = {}
      BY <1>2, <1>4 DEF EmptyFeedIsKept, ActiveRows, Active, Keys, Ordinals
    <3>2. \A k \in Ordinals' : ~(k < 0)
      BY ConstantsAssumption DEF Ordinals
    <3> QED
      BY <2>2, <3>1, <3>2 DEF Complete, IsEmpty, Listed
  <2>5. Examined'
    BY <2>2 DEF Examined, Listed
  <2>6. OwedRecalled'
    <3>1. Known' = Known
      BY <1>2, <2>1, <2>2 DEF Known
    <3> QED
      BY <1>2, <2>1, <2>2, <3>1, RecalledKept DEF IInv
  <2> QED
    BY <1>1, <1>2, <2>1, <2>3, <2>4, <2>5, <2>6, RowsKept, UnsubscribedKept DEF IInv
<1> QED
  BY <1>3, <1>4

LEMMA CancelStaleSafe ==
  ASSUME IInv, CancelStale
  PROVE  IInv'
<1>1. TypeInv /\ TypeInv' /\ pass \in Pass /\ rows \in [Keys -> Row]
  BY PollType DEF IInv, Poll, TypeInv, TypeOK
<1>2. /\ pass.pc = "read" /\ pass.todo = {} /\ pass.line = Len(pass.body.sametime)
      /\ pass' = [pass EXCEPT !.pc = "record", !.affected = @ \cup Stale]
      /\ UNCHANGED <<feed, sub, client, planned, queue, request, adrift>>
  BY DEF CancelStale
<1>3. /\ pass'.pc = "record" /\ pass'.body = pass.body
      /\ pass'.affected = pass.affected \cup Stale
      /\ pass'.left = pass.left /\ pass'.reading = pass.reading
  BY <1>1, <1>2 DEF Pass
<1>4. \A e \in Keys : /\ e \notin Stale => rows'[e] = rows[e]
                      /\ e \in Stale => rows'[e].status = "cancelled"
  BY <1>1, CancelledType DEF CancelStale
<1>5. SlotsKept'
  BY <1>4 DEF IInv, SlotsKept, Keys, Ordinals
<1>6. Locals'
  BY <1>2, <1>3 DEF IInv, Locals
<1>7. \A e \in Keys : Active(e)' => Active(e)
  BY <1>4 DEF Active
<1>8. Examined'
  <2> SUFFICES ASSUME NEW e \in Keys, Active(e), e \notin Gone(pass.body)
               PROVE  e \in pass.affected \cup adrift
    BY <1>2, <1>3, <1>7, SameBody DEF Examined, ActiveRows, Keys, Ordinals
  <2>1. CASE e \in Stable
    BY <1>2, <2>1 DEF IInv, Examined, Gone
  <2>2. CASE e \in Ordinals
    <3>1. e < pass.line
      BY <1>1, <1>2, <2>2, SametimeIsSeq, ConstantsAssumption
         DEF Gone, Ordinals, TypeInv, Reading
    <3> QED
      BY <1>2, <2>2, <3>1 DEF IInv, Complete
  <2> QED
    BY <2>1, <2>2 DEF Keys
<1>9. Unplaced'
  BY <1>2, <1>4 DEF IInv, Unplaced, Keys, Ordinals
<1>10. Unsubscribed'
  BY <1>2, <1>7 DEF IInv, Unsubscribed, ActiveRows, Keys, Ordinals
<1>11. OwedRecalled'
  <2>1. Known \subseteq Known' /\ Stale \subseteq Known'
    BY <1>2, <1>3 DEF Known
  <2> QED
    BY <1>2, <1>3, <1>4, <2>1, RecalledKept DEF IInv
<1> QED
  BY <1>1, <1>3, <1>5, <1>6, <1>8, <1>9, <1>10, <1>11 DEF IInv, Complete

LEMMA RecordAffectedSafe ==
  ASSUME IInv, RecordAffected
  PROVE  IInv'
<1>1. TypeInv /\ TypeInv' /\ pass \in Pass
  BY PollType DEF IInv, Poll, TypeInv, TypeOK
<1>2. /\ pass.pc = "record" /\ queue' = queue \cup pass.affected
      /\ pass' = [pass EXCEPT !.pc = "success", !.affected = {}]
      /\ UNCHANGED <<feed, sub, client, rows, planned, request, adrift>>
  BY DEF RecordAffected
<1>3. /\ pass'.pc = "success" /\ pass'.body = pass.body /\ pass'.affected = {}
      /\ pass'.left = pass.left /\ pass'.reading = pass.reading
  BY <1>1, <1>2 DEF Pass
<1>4. Locals'
  BY <1>2, <1>3 DEF IInv, Locals
<1>5. Examined'
  BY <1>2, <1>3, SameBody DEF IInv, Examined, ActiveRows, Active, Keys, Ordinals
<1>6. OwedRecalled'
  <2>1. Known \subseteq Known'
    BY <1>2, <1>3 DEF Known
  <2> QED
    BY <1>2, <1>3, <2>1, RecalledKept DEF IInv
<1> QED
  BY <1>1, <1>2, <1>3, <1>4, <1>5, <1>6, RowsKept, UnsubscribedKept DEF IInv, Complete

LEMMA RecordFetchSuccessSafe ==
  ASSUME IInv, RecordFetchSuccess
  PROVE  IInv'
<1>1. TypeInv /\ TypeInv' /\ pass.pc = "success" /\ feed \in Bodies
  BY PollType, FamilyType DEF IInv, Poll, TypeInv, RecordFetchSuccess
<1>2. /\ pass' = [Idle EXCEPT !.pc = "plan"]
      /\ sub' = [sub EXCEPT !.etag = TagOf(pass.body)]
      /\ adrift' = adrift \cup Lingering(pass.body)
      /\ UNCHANGED <<feed, client, rows, planned, queue, request>>
  BY DEF RecordFetchSuccess, ledger
<1>3. /\ sub'.active = sub.active /\ sub'.placement = sub.placement
      /\ sub'.etag = TagOf(pass.body)
  BY <1>1, <1>2 DEF TypeInv, TypeOK
<1>4. ASSUME NEW e \in Keys, Owed(e), Lineage(e) \cap ActiveRows # {}
      PROVE  sub'.etag # feed \/ Lineage(e) \cap adrift' # {}
  <2>1. \A x \in Lineage(e) : Active(x) => x \in Gone(pass.body)
    <3>1. \A x \in Lineage(e) : x \in Keys /\ x \notin queue \cup adrift
      BY <1>4 DEF Owed, Known, Lineage
    <3> QED
      BY <1>1, <3>1 DEF IInv, Examined, ActiveRows
  <2>2. CASE tagged
    BY <1>2, <1>4, <2>1, <2>2, LingeringDrifts
  <2>3. CASE ~tagged
    BY <1>1, <1>3, <2>3, ConstantsAssumption DEF TagOf
  <2> QED
    BY <2>2, <2>3
<1> QED
  BY <1>1, <1>2, <1>3, <1>4, PollEnds

-----------------------------------------------------------------------------
(* The planner.                                                            *)
LEMMA PlanPassSafe ==
  ASSUME IInv, PlanPass
  PROVE  IInv'
<1>1. TypeInv /\ TypeInv' /\ pass \in Pass /\ planned \in [Keys -> Plan]
  BY PlanPassType DEF IInv, TypeInv, TypeOK
<1>2. UNCHANGED <<feed, sub, client, rows, request, adrift>>
  BY DEF PlanPass, StartPass, PlanReads, PlanRow, ClearAffected, ledger
<1>3. SlotsKept' /\ Unsubscribed'
  BY <1>2, UnsubscribedKept DEF IInv, SlotsKept, Ordinals
<1>4. CASE StartPass \/ ClearAffected
  <2>1. /\ UNCHANGED <<planned, queue>> /\ pass'.pc \in {"plan", "idle"}
        /\ pass'.affected = {} /\ pass'.left = {} /\ pass'.reading = {}
        /\ pass.affected = {} /\ pass.left = {}
    BY <1>4 DEF StartPass, ClearAffected, ledger, Idle, IInv, Locals
  <2>2. Locals'
    BY <1>2, <2>1 DEF IInv, Locals
  <2>3. OwedRecalled'
    <3>1. Known' = Known
      BY <1>2, <2>1 DEF Known
    <3> QED
      BY <1>2, <2>1, <3>1, RecalledKept DEF IInv
  <2> QED
    BY <1>1, <1>2, <1>3, <2>1, <2>2, <2>3, RowsKept DEF IInv, Complete, Examined
<1>5. CASE PlanReads
  <2>1. /\ UNCHANGED planned /\ queue' = {}
        /\ pass.pc = "plan" /\ pass'.pc = "planning"
        /\ pass'.left = queue /\ pass'.reading = queue
        /\ pass'.affected = {} /\ pass.affected = {} /\ pass.left = {}
    BY <1>1, <1>5 DEF PlanReads, Pass, IInv, Locals
  <2>2. Locals'
    BY <1>2, <2>1 DEF IInv, Locals
  <2>3. OwedRecalled'
    <3>1. Known' = Known
      BY <1>2, <2>1 DEF Known
    <3> QED
      BY <1>2, <2>1, <3>1, RecalledKept DEF IInv
  <2> QED
    BY <1>1, <1>2, <1>3, <2>1, <2>2, <2>3, RowsKept DEF IInv, Complete, Examined
<1>6. ASSUME NEW e \in Keys, PlanRow(e) PROVE IInv'
  <2>1. /\ UNCHANGED queue
        /\ pass.pc = "planning" /\ pass'.pc = "planning" /\ e \in pass.left
        /\ pass'.left = pass.left \ {e} /\ pass'.reading = pass.reading
        /\ pass'.affected = {} /\ pass.affected = {}
    BY <1>1, <1>6 DEF PlanRow, Pass, IInv, Locals
  <2>2. /\ \A x \in Keys : x = e \/ SeriesOf[x] = e => planned'[x] = Replanned(x)
        /\ \A x \in Keys : ~(x = e \/ SeriesOf[x] = e) => planned'[x] = planned[x]
    BY <1>6 DEF PlanRow
  <2>3. Locals'
    BY <1>2, <2>1 DEF IInv, Locals
  <2>4. Unplaced'
    <3> SUFFICES ASSUME NEW x \in Keys, rows[x].status = "none" PROVE planned'[x] = Nowhere
      BY <1>2 DEF Unplaced, Keys, Ordinals
    <3>1. Replanned(x) = Nowhere
      BY DEF Replanned, Wanted, Active
    <3> QED
      BY <2>2, <3>1 DEF IInv, Unplaced
  <2>5. OwedRecalled'
    <3> SUFFICES ASSUME NEW x \in Keys, Owed(x)' PROVE Recalled(x)'
      BY DEF OwedRecalled, Keys, Ordinals
    <3>1. CASE x = e \/ SeriesOf[x] = e
      <4>1. Replanned(x)' = IF rows[x].status = "released" THEN planned'[x] ELSE Wanted(x)
        BY <1>2 DEF Replanned, Wanted, Active, Placed
      <4>2. planned'[x] = Replanned(x)'
        BY <2>2, <3>1, <4>1 DEF Replanned
      <4> QED
        BY <4>2 DEF Owed
    <3>2. CASE ~(x = e \/ SeriesOf[x] = e)
      <4>1. planned'[x] = planned[x] /\ Placed' = Placed
        BY <1>2, <2>2, <3>2 DEF Placed
      <4>2. Replanned(x)' = Replanned(x) /\ Lineage(x)' = Lineage(x)
        BY <1>2, <4>1, SamePlan DEF Lineage, Keys, Ordinals
      <4>3. e \notin Lineage(x)
        BY <3>2, LineageType
      <4>4. Lineage(x) \cap Known = {}
        BY <1>2, <2>1, <4>2, <4>3 DEF Owed, Known
      <4>5. Owed(x)
        BY <4>1, <4>2, <4>4 DEF Owed
      <4>6. Recalled(x)
        BY <4>5 DEF IInv, OwedRecalled
      <4> QED
        BY <1>2, <2>1, <4>2, <4>6 DEF Recalled, ActiveRows, Active, Keys, Ordinals
    <3> QED
      BY <3>1, <3>2
  <2> QED
    BY <1>1, <1>3, <2>1, <2>3, <2>4, <2>5 DEF IInv, Complete, Examined
<1> QED
  BY <1>4, <1>5, <1>6 DEF PlanPass

-----------------------------------------------------------------------------
(* The owner.                                                              *)

(* Under a request the pass goes on with what it holds.                    *)
LEMMA PassKept ==
  ASSUME IInv, UNCHANGED <<feed, pass>>, queue \subseteq queue',
         adrift \subseteq adrift', ActiveRows' \subseteq ActiveRows
  PROVE  Complete' /\ Examined'
<1>1. \A e \in Keys : Active(e)' => Active(e)
  BY DEF ActiveRows, Keys, Ordinals
<1>2. /\ Listed(pass'.body) = Listed(pass.body) /\ Gone(pass'.body) = Gone(pass.body)
      /\ IsEmpty(pass'.body) <=> IsEmpty(pass.body)
  BY SameBody
<1>3. Listed(pass.body) \subseteq Keys
  BY ListedType DEF Keys
<1>4. Complete'
  BY <1>1, <1>2, <1>3 DEF IInv, Complete, Ordinals, Listed, IsEmpty
<1>5. Examined'
  BY <1>1, <1>2, <1>3 DEF IInv, Examined, Listed, Gone, Ordinals
<1> QED
  BY <1>4, <1>5

(* What the owner's requests do to the tag: nothing, or it is forgotten.   *)
LEMMA LocalsKept ==
  ASSUME IInv, TypeInv, UNCHANGED <<feed, pass>>, sub'.etag \in {sub.etag, NULL},
         request'.pc \notin {"end", "append", "queue"} => request'.ids = {}
  PROVE  Locals'
<1>1. feed # NULL
  BY FamilyType, ConstantsAssumption DEF TypeInv
<1> QED
  BY <1>1 DEF IInv, Locals

LEMMA UnsubscribeSafe ==
  ASSUME IInv, Unsubscribe
  PROVE  IInv'
<1>1. TypeInv /\ TypeInv'
  BY OwnerType DEF IInv, Owner
<1>2. /\ request.pc = "idle" /\ request'.pc = "end" /\ request'.ids = ActiveRows
      /\ sub.active = TRUE /\ adrift \subseteq adrift'
      /\ UNCHANGED <<feed, sub, client, planned, queue, pass>>
  BY <1>1 DEF Unsubscribe, Click, TypeInv, TypeOK
<1>3. \A e \in Keys : /\ Active(e) => rows'[e].status = "cancelled"
                      /\ ~Active(e) => rows'[e] = rows[e]
  <2>1. \A e \in Keys : rows[e] \in Row
    BY <1>1 DEF TypeInv, TypeOK
  <2> QED
    BY <2>1 DEF Unsubscribe, Row
<1>4. ActiveRows' = {}
  BY <1>3 DEF ActiveRows, Active, Keys, Ordinals
<1>5. SlotsKept' /\ Unplaced'
  BY <1>2, <1>3 DEF IInv, SlotsKept, Unplaced, Active, Keys, Ordinals
<1>6. Locals'
  BY <1>1, <1>2, LocalsKept
<1>7. Complete' /\ Examined'
  BY <1>2, <1>4, PassKept
<1>8. OwedRecalled'
  <2> SUFFICES ASSUME NEW e \in Keys, Owed(e)' PROVE FALSE
    BY DEF OwedRecalled, Keys, Ordinals
  <2>1. Known \subseteq Known' /\ ActiveRows \subseteq Known'
    <3>1. request.ids = {}
      BY <1>2 DEF IInv, Locals
    <3> QED
      BY <1>2, <3>1 DEF Known
  <2>2. \A x \in Keys \ Known' : rows'[x] = rows[x] /\ ~Active(x)
    BY <1>3, <2>1 DEF ActiveRows
  <2>3. e \notin Known' => ~Active(e)
    BY <2>2
  <2>4. Owed(e)
    BY <1>2, <2>1, <2>2, <2>3, StillOwed
  <2>5. Lineage(e)' = Lineage(e) /\ Lineage(e) \subseteq Keys
    BY DEF Lineage, Keys, Ordinals
  <2>6. Lineage(e) \cap ActiveRows = {} /\ ~Active(e)
    BY <2>1, <2>5, LineageType DEF Owed, ActiveRows
  <2>7. Recalled(e)
    BY <2>4 DEF IInv, OwedRecalled
  <2> QED
    BY <2>6, <2>7 DEF Recalled
<1> QED
  BY <1>1, <1>4, <1>5, <1>6, <1>7, <1>8 DEF IInv, Unsubscribed

(* Whatever is active from now on is adrift.                               *)
LEMMA EndSubscriptionSafe ==
  ASSUME IInv, EndSubscription
  PROVE  IInv'
<1>1. TypeInv /\ TypeInv'
  BY OwnerType DEF IInv, Answer
<1>2. /\ request.pc = "end" /\ request'.pc = "append" /\ request'.ids = request.ids
      /\ sub'.active = FALSE /\ sub'.etag = sub.etag
      /\ adrift \ request.ids \subseteq adrift' /\ ActiveRows \subseteq adrift'
      /\ pass.failed = TRUE => (Ordinals \subseteq adrift => Ordinals \subseteq adrift')
      /\ UNCHANGED <<feed, client, rows, planned, queue, pass>>
  BY <1>1 DEF EndSubscription, TypeInv, TypeOK, Request
<1>3. /\ ActiveRows' = ActiveRows
      /\ \A e \in Keys : (Active(e)' <=> Active(e)) /\ (Active(e) => e \in adrift')
  BY <1>2 DEF ActiveRows, Active, Keys, Ordinals
<1>4. Complete' /\ Examined'
  <2>1. Complete'
    BY <1>2, <1>3 DEF IInv, Complete, Listed, Keys, Ordinals
  <2>2. Examined'
    BY <1>2, <1>3 DEF Examined, ActiveRows, Listed, Keys, Ordinals
  <2> QED
    BY <2>1, <2>2
<1>5. Locals'
  BY <1>1, <1>2, LocalsKept
<1>6. OwedRecalled'
  <2> SUFFICES ASSUME NEW e \in Keys, Owed(e)' PROVE FALSE
    BY DEF OwedRecalled, Keys, Ordinals
  <2>1. Known \subseteq Known' /\ ActiveRows \subseteq Known'
    BY <1>2 DEF Known
  <2>2. e \notin Known' => ~Active(e)
    BY <2>1 DEF ActiveRows
  <2>3. Owed(e)
    BY <1>2, <2>1, <2>2, StillOwed
  <2>4. Recalled(e)
    BY <2>3 DEF IInv, OwedRecalled
  <2>5. Lineage(e) \cap ActiveRows = {}
    BY <2>1 DEF Owed, Lineage, Keys, Ordinals
  <2> QED
    BY <1>2, <2>4, <2>5 DEF Recalled
<1> QED
  BY <1>1, <1>2, <1>3, <1>4, <1>5, <1>6, RowsKept DEF IInv, Unsubscribed

LEMMA AppendAffectedSafe ==
  ASSUME IInv, AppendAffected
  PROVE  IInv'
<1>1. TypeInv /\ TypeInv'
  BY OwnerType DEF IInv, Answer
<1>2. /\ request.pc = "append" /\ request'.pc = "idle" /\ request'.ids = {}
      /\ queue' = queue \cup request.ids
      /\ UNCHANGED <<feed, sub, client, rows, planned, pass, adrift>>
  BY DEF AppendAffected, NoRequest
<1>3. Complete' /\ Examined'
  <2>1. ActiveRows' = ActiveRows
    BY <1>2 DEF ActiveRows, Active, Keys, Ordinals
  <2> QED
    BY <1>2, <2>1, PassKept
<1>4. OwedRecalled'
  <2>1. Known \subseteq Known'
    BY <1>2 DEF Known
  <2> QED
    BY <1>2, <2>1, RecalledKept DEF IInv
<1> QED
  BY <1>1, <1>2, <1>3, <1>4, RowsKept, UnsubscribedKept, LocalsKept DEF IInv

LEMMA ResubscribeSafe ==
  ASSUME IInv, NEW p \in Placements, Resubscribe(p)
  PROVE  IInv'
<1>1. TypeInv /\ TypeInv'
  BY OwnerType DEF IInv, Owner
<1>2. /\ request.pc = "idle" /\ sub.active = FALSE
      /\ sub'.active = TRUE /\ sub'.etag = NULL
      /\ adrift \subseteq adrift'
      /\ UNCHANGED <<feed, client, rows, planned, queue, pass, request>>
  BY <1>1 DEF Resubscribe, Click, ledger, TypeInv, TypeOK
<1>3. request.ids = {} /\ ActiveRows \subseteq adrift /\ ActiveRows' = ActiveRows
  BY <1>2 DEF IInv, Locals, Unsubscribed, ActiveRows, Active, Keys, Ordinals
<1>4. Complete' /\ Examined'
  BY <1>2, <1>3, PassKept
<1>5. Locals'
  BY <1>1, <1>2, <1>3, LocalsKept
<1>6. OwedRecalled'
  <2> SUFFICES ASSUME NEW e \in Keys, Owed(e)' PROVE FALSE
    BY DEF OwedRecalled, Keys, Ordinals
  <2>1. Known \subseteq Known' /\ ActiveRows \subseteq Known'
    BY <1>2, <1>3 DEF Known
  <2>2. e \notin Known' => ~Active(e)
    BY <2>1 DEF ActiveRows
  <2>3. Owed(e)
    BY <1>2, <2>1, <2>2, StillOwed
  <2>4. Recalled(e)
    BY <2>3 DEF IInv, OwedRecalled
  <2> QED
    BY <1>2, <2>4 DEF Recalled
<1> QED
  BY <1>1, <1>2, <1>4, <1>5, <1>6, RowsKept DEF IInv, Unsubscribed

(* Every active row is queued: a new placement, a new prefix.              *)
LEMMA RequeueSafe ==
  ASSUME IInv, \/ ChangePrefix
               \/ \E p \in Placements : ChangePlacement(p)
  PROVE  IInv'
<1>1. TypeInv /\ TypeInv'
  BY OwnerType DEF IInv, Owner
<1>2. /\ request.pc = "idle" /\ sub.active = TRUE /\ sub'.active = TRUE
      /\ sub'.etag \in {sub.etag, NULL}
      /\ queue' = queue \cup ActiveRows
      /\ UNCHANGED <<feed, client, rows, planned, pass, request, adrift>>
  BY <1>1 DEF ChangePrefix, ChangePlacement, Click, TypeInv, TypeOK
<1>3. ActiveRows' = ActiveRows /\ request.ids = {}
  BY <1>2 DEF IInv, Locals, ActiveRows, Active, Keys, Ordinals
<1>4. Complete' /\ Examined'
  BY <1>2, <1>3, PassKept
<1>5. Locals'
  BY <1>1, <1>2, <1>3, LocalsKept
<1>6. OwedRecalled'
  <2> SUFFICES ASSUME NEW e \in Keys, Owed(e)' PROVE FALSE
    BY DEF OwedRecalled, Keys, Ordinals
  <2>1. Known \subseteq Known' /\ ActiveRows \subseteq Known'
    BY <1>2 DEF Known
  <2>2. e \notin Known' => ~Active(e)
    BY <2>1 DEF ActiveRows
  <2>3. Owed(e)
    BY <1>2, <2>1, <2>2, StillOwed
  <2>4. Recalled(e)
    BY <2>3 DEF IInv, OwedRecalled
  <2>5. Lineage(e) \cap ActiveRows = {}
    BY <2>1 DEF Owed, Lineage, Keys, Ordinals
  <2> QED
    BY <1>2, <2>4, <2>5 DEF Recalled
<1> QED
  BY <1>1, <1>2, <1>4, <1>5, <1>6, RowsKept DEF IInv, Unsubscribed

LEMMA DisconnectSafe ==
  ASSUME IInv, DisconnectTarget
  PROVE  IInv'
<1>1. TypeInv /\ TypeInv'
  BY OwnerType DEF IInv, Owner
<1>2. /\ request.pc = "idle" /\ request'.pc = "queue" /\ request'.ids = OnClient
      /\ UNCHANGED <<feed, sub, client, rows, queue, pass, adrift>>
  BY DEF DisconnectTarget, Click
<1>3. ActiveRows' = ActiveRows /\ request.ids = {}
  BY <1>2 DEF IInv, Locals, ActiveRows, Active, Keys, Ordinals
<1>4. Complete' /\ Examined'
  BY <1>2, <1>3, PassKept
<1>5. Locals'
  BY <1>1, <1>2, LocalsKept
<1>6. \A e \in Keys : e \notin OnClient => planned'[e] = planned[e]
  BY DEF DisconnectTarget
<1>7. Unplaced' /\ SlotsKept'
  <2>1. \A e \in Keys : rows[e].status = "none" => planned'[e] = Nowhere
    BY <1>6 DEF IInv, Unplaced, Nowhere, OnClient
  <2> QED
    BY <1>2, <2>1 DEF IInv, Unplaced, SlotsKept, Keys, Ordinals
<1>8. OwedRecalled'
  <2> SUFFICES ASSUME NEW e \in Keys, Owed(e)' PROVE Recalled(e)'
    BY DEF OwedRecalled, Keys, Ordinals
  <2>1. Known \subseteq Known' /\ OnClient \subseteq Known' /\ Lineage(e)' = Lineage(e)
    BY <1>2, <1>3 DEF Known, Lineage, Keys, Ordinals
  <2>2. Placed' = Placed
    BY <1>2 DEF Placed
  <2>3. planned'[e] = planned[e]
    BY <1>6, <2>1, LineageType DEF Owed
  <2>4. Owed(e)
    BY <1>2, <2>1, <2>2, <2>3, StillOwed
  <2>5. Recalled(e)
    BY <2>4 DEF IInv, OwedRecalled
  <2> QED
    BY <1>2, <1>3, <2>1, <2>5 DEF Recalled, Active
<1> QED
  BY <1>1, <1>2, <1>4, <1>5, <1>7, <1>8, UnsubscribedKept DEF IInv

(* What was never a row is planned nowhere; every other row is queued.     *)
LEMMA QueueEverythingSafe ==
  ASSUME IInv, QueueEverything
  PROVE  IInv'
<1>1. TypeInv /\ TypeInv'
  BY OwnerType DEF IInv, Answer
<1>2. /\ request'.pc = "deactivate" /\ request'.ids = {}
      /\ queue' = queue \cup {e \in Keys : rows[e].status # "none"}
      /\ UNCHANGED <<feed, sub, client, rows, planned, pass, adrift>>
  BY DEF QueueEverything
<1>3. ActiveRows' = ActiveRows
  BY <1>2 DEF ActiveRows, Active, Keys, Ordinals
<1>4. Complete' /\ Examined'
  BY <1>2, <1>3, PassKept
<1>5. Locals'
  BY <1>1, <1>2, LocalsKept
<1>6. OwedRecalled'
  <2> SUFFICES ASSUME NEW e \in Keys, Owed(e)' PROVE FALSE
    BY DEF OwedRecalled, Keys, Ordinals
  <2>1. \A x \in Lineage(e) : rows[x].status = "none"
    BY <1>2 DEF Owed, Known, Lineage, Keys, Ordinals
  <2>2. rows'[e].status = "none" /\ planned'[e] = Nowhere
    BY <1>2, <2>1, LineageType DEF IInv, Unplaced
  <2>3. Replanned(e)' = Nowhere
    BY <2>2 DEF Replanned, Wanted, Active
  <2> QED
    BY <2>2, <2>3 DEF Owed
<1> QED
  BY <1>1, <1>2, <1>4, <1>5, <1>6, RowsKept, UnsubscribedKept DEF IInv

LEMMA DeactivateSafe ==
  ASSUME IInv, Deactivate
  PROVE  IInv'
<1>1. TypeInv /\ TypeInv'
  BY OwnerType DEF IInv, Answer
<1>2. /\ request.pc = "deactivate" /\ request'.pc = "replan" /\ request'.ids = request.ids
      /\ UNCHANGED <<feed, sub, rows, planned, queue, pass, adrift>>
  BY <1>1 DEF Deactivate, ledger, TypeInv, TypeOK, Request
<1>3. ActiveRows' = ActiveRows /\ request.ids = {}
  BY <1>2 DEF IInv, Locals, ActiveRows, Active, Keys, Ordinals
<1>4. Complete' /\ Examined'
  BY <1>2, <1>3, PassKept
<1>5. Locals'
  BY <1>1, <1>2, <1>3, LocalsKept
<1>6. OwedRecalled'
  <2> SUFFICES ASSUME NEW e \in Keys, Owed(e)' PROVE Recalled(e)'
    BY DEF OwedRecalled, Keys, Ordinals
  <2>1. Known' = Known /\ Lineage(e)' = Lineage(e)
    BY <1>2 DEF Known, Lineage, Keys, Ordinals
  <2>2. CASE Active(e) => Placed' = Placed
    <3>1. Owed(e)
      BY <1>2, <2>1, <2>2, StillOwed
    <3>2. Recalled(e)
      BY <3>1 DEF IInv, OwedRecalled
    <3> QED
      BY <1>2, <1>3, <2>1, <3>2 DEF Recalled, Active
  <2>3. CASE Active(e) /\ Placed' # Placed
    <3>1. sub.placement = "client"
      BY <1>2, <2>3 DEF Placed
    <3>2. sub.active = TRUE
      <4>1. e \notin adrift
        BY <2>1, LineageType DEF Owed, Known
      <4>2. sub.active # FALSE
        BY <2>3, <4>1 DEF IInv, Unsubscribed, ActiveRows
      <4> QED
        BY <1>1, <4>2 DEF TypeInv, TypeOK
    <3> QED
      BY <1>2, <2>3, <3>1, <3>2 DEF Recalled, Active
  <2> QED
    BY <2>2, <2>3
<1> QED
  BY <1>1, <1>2, <1>4, <1>5, <1>6, RowsKept, UnsubscribedKept DEF IInv

LEMMA ReplanPlacedSafe ==
  ASSUME IInv, ReplanPlaced
  PROVE  IInv'
<1>1. TypeInv /\ TypeInv'
  BY OwnerType DEF IInv, Answer
<1>2. /\ request.pc = "replan" /\ request'.pc = "idle" /\ request'.ids = {}
      /\ UNCHANGED <<feed, sub, client, rows, planned, pass, adrift>>
  BY DEF ReplanPlaced, NoRequest
<1>3. /\ queue \subseteq queue'
      /\ sub.active = TRUE /\ sub.placement = "client" => ActiveRows \subseteq queue'
  BY DEF ReplanPlaced
<1>4. ActiveRows' = ActiveRows /\ request.ids = {}
  BY <1>2 DEF IInv, Locals, ActiveRows, Active, Keys, Ordinals
<1>5. Complete' /\ Examined'
  BY <1>2, <1>3, <1>4, PassKept
<1>6. Locals'
  BY <1>1, <1>2, LocalsKept
<1>7. OwedRecalled'
  <2> SUFFICES ASSUME NEW e \in Keys, Owed(e)' PROVE Recalled(e)'
    BY DEF OwedRecalled, Keys, Ordinals
  <2>1. Known \subseteq Known' /\ queue' \subseteq Known' /\ Lineage(e)' = Lineage(e)
    BY <1>2, <1>3, <1>4 DEF Known, Lineage, Keys, Ordinals
  <2>2. Placed' = Placed
    BY <1>2 DEF Placed
  <2>3. Owed(e)
    BY <1>2, <2>1, <2>2, StillOwed
  <2>4. Recalled(e)
    BY <2>3 DEF IInv, OwedRecalled
  <2>5. Active(e) => e \in ActiveRows /\ e \notin queue'
    BY <2>1, LineageType DEF Owed, ActiveRows
  <2> QED
    BY <1>2, <1>3, <1>4, <2>1, <2>4, <2>5 DEF Recalled
<1> QED
  BY <1>1, <1>2, <1>5, <1>6, <1>7, RowsKept, UnsubscribedKept DEF IInv

-----------------------------------------------------------------------------
(* What happens around them.                                               *)
LEMMA FeedChangesSafe ==
  ASSUME IInv, FeedChanges
  PROVE  IInv'
<1>1. TypeInv'
  BY WorldType DEF IInv
<1>2. /\ feed' \notin {sub.etag, pass.asked}
      /\ UNCHANGED <<sub, client, rows, planned, queue, pass, request, adrift>>
  BY DEF FeedChanges, ledger
<1>3. ActiveRows' = ActiveRows
  BY <1>2 DEF ActiveRows, Active, Keys, Ordinals
<1>4. Complete' /\ Examined'
  BY <1>2, <1>3 DEF IInv, Complete, Examined, Listed, Gone, IsEmpty, Active, Keys, Ordinals
<1>5. Locals'
  BY <1>2 DEF IInv, Locals
<1>6. OwedRecalled'
  <2> SUFFICES ASSUME NEW e \in Keys, Owed(e)' PROVE Recalled(e)'
    BY DEF OwedRecalled, Keys, Ordinals
  <2>1. Known' = Known /\ Lineage(e)' = Lineage(e) /\ Placed' = Placed
    BY <1>2 DEF Known, Lineage, Keys, Ordinals, Placed
  <2>2. Owed(e)
    BY <1>2, <2>1, StillOwed
  <2>3. Recalled(e)
    BY <2>2 DEF IInv, OwedRecalled
  <2> QED
    BY <1>2, <1>3, <2>1, <2>3 DEF Recalled, Active
<1> QED
  BY <1>1, <1>2, <1>4, <1>5, <1>6, RowsKept, UnsubscribedKept DEF IInv

LEMMA TimePassesSafe ==
  ASSUME IInv, TimePasses
  PROVE  IInv'
<1>1. TypeInv /\ TypeInv'
  BY WorldType DEF IInv
<1>2. /\ pass.pc = "idle"
      /\ UNCHANGED <<feed, sub, client, planned, queue, pass, request, adrift>>
  BY DEF TimePasses
<1>3. \A e \in Keys : /\ rows'[e].status = rows[e].status
                      /\ rows'[e].content = rows[e].content
  <2>1. \A e \in Keys : rows[e] \in Row
    BY <1>1 DEF TypeInv, TypeOK
  <2> QED
    BY <2>1 DEF TimePasses, Row
<1>4. ActiveRows' = ActiveRows
  BY <1>3 DEF ActiveRows, Active, Keys, Ordinals
<1>5. Complete' /\ Examined' /\ Locals'
  BY <1>2 DEF IInv, Complete, Examined, Locals
<1>6. SlotsKept' /\ Unplaced'
  BY <1>2, <1>3 DEF IInv, SlotsKept, Unplaced, Keys, Ordinals
<1>7. OwedRecalled'
  <2>1. Known' = Known
    BY <1>2 DEF Known
  <2> QED
    BY <1>2, <1>3, <2>1, RecalledKept DEF IInv
<1> QED
  BY <1>1, <1>2, <1>4, <1>5, <1>6, <1>7 DEF IInv, Unsubscribed

LEMMA ReleaseSafe ==
  ASSUME IInv, NEW r \in Stable, Release(r)
  PROVE  IInv'
<1>1. TypeInv /\ TypeInv' /\ r \in Keys /\ r \notin Ordinals
  BY WorldType, ConstantsAssumption DEF IInv, Keys
<1>2. /\ Active(r)
      /\ SeriesOf[r] = NULL /\ \A o \in Keys : SeriesOf[o] # r
      /\ UNCHANGED <<feed, sub, client, planned, queue, pass, request, adrift>>
  BY DEF Release
<1>3. /\ rows'[r].status = "released"
      /\ \A e \in Keys \ {r} : rows'[e] = rows[e]
  <2>1. rows[r] \in Row
    BY <1>1 DEF TypeInv, TypeOK
  <2> QED
    BY <1>1, <2>1 DEF Release, Row, TypeInv, TypeOK
<1>4. ActiveRows' \subseteq ActiveRows
  BY <1>3 DEF ActiveRows, Active, Keys, Ordinals
<1>5. Complete' /\ Examined' /\ Locals'
  <2>1. Complete' /\ Examined'
    BY <1>2, <1>4, PassKept
  <2> QED
    BY <1>2, <2>1 DEF IInv, Locals
<1>6. SlotsKept' /\ Unplaced'
  BY <1>1, <1>2, <1>3 DEF IInv, SlotsKept, Unplaced, Keys, Ordinals
<1>7. OwedRecalled'
  <2> SUFFICES ASSUME NEW e \in Keys, Owed(e)' PROVE Recalled(e)'
    BY DEF OwedRecalled, Keys, Ordinals
  <2>1. e # r
    BY <1>3 DEF Owed, Replanned
  <2>2. r \notin Lineage(e)
    BY <1>2, <2>1, LineageType
  <2>3. \A x \in Lineage(e) : rows'[x] = rows[x]
    BY <1>3, <2>2 DEF Lineage
  <2>4. Known' = Known /\ Lineage(e)' = Lineage(e) /\ Placed' = Placed
    BY <1>2 DEF Known, Lineage, Keys, Ordinals, Placed
  <2>5. Replanned(e)' = Replanned(e)
    BY <1>2, <2>3, <2>4, SamePlan
  <2>6. Owed(e)
    BY <1>2, <2>4, <2>5 DEF Owed
  <2>7. Recalled(e)
    BY <2>6 DEF IInv, OwedRecalled
  <2>8. Active(e)' <=> Active(e)
    BY <2>3, LineageType DEF Active
  <2>9. Lineage(e) \cap ActiveRows # {} => Lineage(e) \cap ActiveRows' # {}
    <3>1. \A x \in Lineage(e) : x \in ActiveRows => x \in ActiveRows'
      BY <2>3 DEF ActiveRows, Active, Keys, Ordinals
    <3> QED
      BY <3>1
  <2> QED
    BY <1>2, <2>4, <2>7, <2>8, <2>9 DEF Recalled
<1> QED
  BY <1>1, <1>2, <1>4, <1>5, <1>6, <1>7 DEF IInv, Unsubscribed

(* A cancellation that was not queued drifts; an active row is of a feed   *)
(* whose tag is not held yet.                                              *)
LEMMA CrashSafe ==
  ASSUME IInv, Crash
  PROVE  IInv'
<1>1. TypeInv /\ TypeInv'
  BY WorldType DEF IInv
<1>2. /\ pass' = Idle /\ request'.pc = "idle" /\ request'.ids = {}
      /\ queue' = queue \cup pass.reading
      /\ adrift' = adrift \cup {e \in pass.affected : ~Active(e)} \cup request.ids
                     \cup (IF request.pc = "replan" THEN Keys ELSE {})
      /\ UNCHANGED <<feed, sub, client, rows, planned>>
  BY DEF Crash, NoRequest
<1>3. /\ pass'.pc = "idle" /\ pass'.affected = {} /\ pass'.left = {} /\ pass'.reading = {}
  BY <1>2 DEF Idle
<1>4. Complete' /\ Examined' /\ Locals'
  BY <1>2, <1>3 DEF Complete, Examined, Locals
<1>5. OwedRecalled'
  <2> SUFFICES ASSUME NEW e \in Keys, Owed(e)' PROVE Recalled(e)'
    BY DEF OwedRecalled, Keys, Ordinals
  <2>1. Lineage(e)' = Lineage(e) /\ Placed' = Placed /\ e \in Lineage(e)
    BY <1>2, LineageType DEF Lineage, Keys, Ordinals, Placed
  <2>2. Replanned(e)' = Replanned(e) /\ ActiveRows' = ActiveRows
    BY <1>2, <2>1, SamePlan DEF ActiveRows, Active, Keys, Ordinals
  <2>3. request.pc # "replan"
    BY <1>2, <2>1 DEF Owed, Known, Lineage
  <2>4. Lineage(e) \cap Known \subseteq pass.affected \cap ActiveRows
    <3> SUFFICES ASSUME NEW x \in Lineage(e), x \in Known, x \notin Known'
                 PROVE  x \in pass.affected \cap ActiveRows
      BY <2>1 DEF Owed
    <3>1. x \notin pass.left /\ x \notin queue \cup request.ids \cup adrift
      BY <1>1, <1>2 DEF Known, IInv, Locals
    <3>2. x \in pass.affected /\ x \in Keys
      BY <3>1 DEF Known, Lineage
    <3>3. Active(x)
      BY <1>2, <3>2 DEF Known
    <3> QED
      BY <3>2, <3>3 DEF ActiveRows
  <2>5. CASE Lineage(e) \cap Known = {}
    <3>1. Owed(e)
      BY <1>2, <2>2, <2>5 DEF Owed
    <3>2. Recalled(e)
      BY <3>1 DEF IInv, OwedRecalled
    <3> QED
      BY <1>2, <1>3, <2>1, <2>2, <2>3, <3>2 DEF Recalled
  <2>6. CASE Lineage(e) \cap Known # {}
    <3>1. PICK x \in Lineage(e) : x \in pass.affected \cap ActiveRows
      BY <2>4, <2>6
    <3>2. sub.etag # feed
      BY <3>1 DEF IInv, Locals
    <3>3. sub.active = TRUE
      <4>1. x \notin adrift
        BY <1>2, <2>1, <3>1 DEF Owed, Known
      <4>2. sub.active # FALSE
        BY <3>1, <4>1 DEF IInv, Unsubscribed
      <4> QED
        BY <1>1, <4>2 DEF TypeInv, TypeOK
    <3> QED
      BY <1>2, <1>3, <2>1, <2>2, <3>1, <3>2, <3>3 DEF Recalled
  <2> QED
    BY <2>5, <2>6
<1>6. adrift \subseteq adrift'
  BY <1>2
<1> QED
  BY <1>1, <1>2, <1>4, <1>5, <1>6, RowsKept, UnsubscribedKept DEF IInv

-----------------------------------------------------------------------------
LEMMA StepSafe ==
  ASSUME IInv, [Next]_vars
  PROVE  IInv'
<1>1. CASE UNCHANGED vars
  <2>1. UNCHANGED <<feed, sub, client, rows, planned, queue, pass, request, adrift>>
    BY <1>1 DEF vars
  <2>2. TypeInv'
    BY <1>1, StepType DEF IInv
  <2>3. ActiveRows' = ActiveRows /\ Known' = Known
    BY <2>1 DEF ActiveRows, Active, Known, Keys, Ordinals
  <2>4. Locals'
    BY <2>1 DEF IInv, Locals
  <2>5. OwedRecalled'
    BY <2>1, <2>3, RecalledKept DEF IInv
  <2> QED
    BY <2>1, <2>2, <2>3, <2>4, <2>5, RowsKept, UnsubscribedKept, PassKept DEF IInv
<1>2. CASE Poll
  BY <1>2, StartPollSafe, NotModifiedSafe, FetchedSafe, SameTimeSafe, CancelStaleSafe,
     RecordAffectedSafe, RecordFetchSuccessSafe, EventSafe DEF Poll
<1>3. CASE Owner \/ Answer
  BY <1>3, UnsubscribeSafe, RequeueSafe, DisconnectSafe, ResubscribeSafe,
     EndSubscriptionSafe, AppendAffectedSafe, QueueEverythingSafe, DeactivateSafe,
     ReplanPlacedSafe DEF Owner, Answer
<1> QED
  BY <1>1, <1>2, <1>3, FetchFailsSafe, PlanPassSafe, FeedChangesSafe, TimePassesSafe,
     CrashSafe, ReleaseSafe DEF Next

LEMMA Safe == Spec => []IInv
<1>1. Init => IInv
  BY InitSafe
<1>2. IInv /\ [Next]_vars => IInv'
  BY StepSafe
<1> QED
  BY <1>1, <1>2, PTL DEF Spec

(* A plan out of date is known to be: whatever the provider, the owner, a  *)
(* failure or a crash do between the writes of a row and of its queue      *)
(* entry, there is a way back to it.                                       *)
THEOREM PlansAreRecalled == Spec => []NoPlanStranded
<1>1. IInv => NoPlanStranded
  <2> SUFFICES ASSUME IInv, NEW e \in Keys, planned[e] # Replanned(e)
               PROVE  \/ e \in queue \cup pass.left \cup pass.affected \cup request.ids
                      \/ /\ SeriesOf[e] # NULL
                         /\ SeriesOf[e] \in queue \cup pass.left \cup pass.affected
                                              \cup request.ids
                      \/ request.pc = "replan"
                      \/ sub.active /\ sub.etag # feed
                      \/ \/ e \in adrift
                         \/ SeriesOf[e] # NULL /\ SeriesOf[e] \in adrift
    BY DEF NoPlanStranded
  <2>1. CASE Owed(e)
    BY <2>1 DEF IInv, OwedRecalled, Recalled
  <2>2. CASE ~Owed(e)
    <3>1. PICK x \in Lineage(e) : x \in Known
      BY <2>2 DEF Owed
    <3> QED
      BY <3>1, LineageType DEF Known
  <2> QED
    BY <2>1, <2>2
<1> QED
  BY <1>1, Safe, PTL

(* A pass cancels only what its body cancels, or what a complete reading   *)
(* of a body with events did not find for two intervals.                   *)
THEOREM CancelsForCause == Spec => CancelledForCause
<1> DEFINE Cause(e) ==
      \/ e \in Stable /\ pass.body.stable[e].state = "cancelled"
      \/ /\ e \in Gone(pass.body) /\ rows[e].old
         /\ ~IsEmpty(pass.body) /\ ~pass.failed
<1>1. ASSUME IInv, [Next]_vars, NEW e \in Keys, Active(e), rows'[e].status = "cancelled",
             request' = request
      PROVE  Cause(e)
  <2>0. rows'[e] # rows[e] /\ TypeInv /\ rows[e].status = "active"
    BY <1>1 DEF Active, IInv
  <2>1. ASSUME NEW x \in Stable, IngestEvent(x) PROVE Cause(e)
    BY <1>1, <2>0, <2>1, EventTook DEF Took
  <2>2. CASE IngestSameTime
    BY <1>1, <2>0, <2>2, SameTimeTook DEF Took, IInv
  <2>3. CASE CancelStale
    <3>1. e \in Stale
      BY <1>1, <2>0, <2>3 DEF CancelStale
    <3>2. /\ rows[e].old /\ e \notin pass.affected /\ pass.failed = FALSE
      BY <2>0, <3>1 DEF Stale, TypeInv, TypeOK, Pass
    <3>3. /\ pass.pc = "read" /\ pass.todo = {} /\ pass.line = Len(pass.body.sametime)
          /\ pass.body \in Bodies
      BY <2>0, <2>3 DEF CancelStale, TypeInv, Reading
    <3>4. e \in Gone(pass.body)
      <4>1. CASE e \in Stable
        BY <1>1, <3>2, <3>3, <4>1 DEF IInv, Complete, Gone
      <4>2. CASE e \in Ordinals
        <5>1. ~(e < pass.line)
          BY <1>1, <3>2, <3>3, <4>2 DEF IInv, Complete
        <5> QED
          BY <3>3, <4>2, <5>1, SametimeIsSeq, ConstantsAssumption DEF Gone, Ordinals
      <4> QED
        BY <4>1, <4>2 DEF Keys
    <3>5. ~IsEmpty(pass.body)
      BY <1>1, <3>3 DEF IInv, Complete, ActiveRows
    <3> QED
      BY <3>2, <3>4, <3>5
  <2>4. CASE Unsubscribe
    BY <1>1, <2>4 DEF Unsubscribe, Click
  <2>5. CASE TimePasses
    <3>1. rows[e] \in Row
      BY <1>1, <2>0 DEF TypeInv, TypeOK
    <3> QED
      BY <1>1, <2>0, <2>5, <3>1 DEF TimePasses, Row
  <2>6. ASSUME NEW r \in Stable, Release(r) PROVE Cause(e)
    <3>1. rows[e] \in Row /\ rows \in [Keys -> Row]
      BY <1>1, <2>0 DEF TypeInv, TypeOK
    <3> QED
      BY <1>1, <2>0, <2>6, <3>1 DEF Release, Row
  <2>7. rows' # rows
    BY <2>0
  <2> HIDE DEF Cause
  <2>8. CASE Next
    BY <2>1, <2>2, <2>3, <2>4, <2>5, <2>6, <2>7, <2>8
       DEF Next, Poll, PlanPass, Owner, Answer, StartPoll, NotModified, Fetched, FetchFails,
           RecordAffected, RecordFetchSuccess, StartPass, PlanReads, PlanRow, ClearAffected,
           ChangePrefix, DisconnectTarget, Resubscribe, ChangePlacement, EndSubscription,
           AppendAffected, QueueEverything, Deactivate, ReplanPlaced, FeedChanges, Crash, ledger
  <2> QED
    BY <1>1, <2>7, <2>8 DEF vars
<1>2. IInv /\ [Next]_vars =>
        [\A e \in Keys :
           Active(e) /\ rows'[e].status = "cancelled" /\ request' = request => Cause(e)]_vars
  BY <1>1
<1> QED
  BY <1>2, Safe, PTL DEF Spec, CancelledForCause

-----------------------------------------------------------------------------
(* What makes the ETag honest.  A row shows what a body says of it, or     *)
(* drifts, or was cancelled with its subscription.                         *)
ItemIn(body, e) ==
  IF e \in Stable THEN body.stable[e]
  ELSE IF e < Len(body.sametime)
    THEN [state |-> "live", content |-> body.sametime[e + 1]]
    ELSE [state |-> "absent", content |-> NULL]

Fits(row, item) ==
  IF item.state = "live"
    THEN row.status = "released" \/ (row.status = "active" /\ row.content = item.content)
    ELSE row.status # "active"

Kept(item, e) ==
  \/ e \in adrift \/ Fits(rows[e], item)
  \/ sub.active = FALSE /\ rows[e].status = "cancelled"

(* Of the body whose tag is held, or asked about, every row is kept; of    *)
(* the one that is being read, the rows it has reached.                    *)
TagHeld == sub.etag = feed => \A e \in Keys : Kept(ItemIn(feed, e), e)
TagAsked ==
  pass.pc = "fetch" /\ pass.asked = feed => \A e \in Keys : Kept(ItemIn(feed, e), e)
Reached ==
  /\ pass.pc = "read" =>
       /\ \A e \in Listed(pass.body) \ pass.todo : Kept(ItemIn(pass.body, e), e)
       /\ \A k \in Ordinals : k < pass.line => Kept(ItemIn(pass.body, k), k)
  /\ pass.pc \in {"record", "success"} =>
       \A e \in Keys \ Gone(pass.body) : Kept(ItemIn(pass.body, e), e)

Honest == TagHeld /\ TagAsked /\ Reached

(* What a handler makes of an item shows it, or is a cancelled row that    *)
(* was skipped for its equal hash.                                         *)
Faithful(row, item, out) ==
  \/ Fits(out.row, item)
  \/ out.id = TRUE /\ out.row.status = "cancelled" /\ row.status = "cancelled"

LEMMA LiveFaithful ==
  ASSUME NEW row \in Row, NEW item \in Item, item.state = "live"
  PROVE  Faithful(row, item, Live(row, item.content))
<1>1. CASE row.status = "none" \/ row.content # item.content
  <2>1. Live(row, item.content) =
          [row |-> [status |-> "active", content |-> item.content, old |-> FALSE],
           id |-> TRUE]
    BY <1>1 DEF Live, Upserted, Outcome
  <2> QED
    BY <2>1 DEF Faithful, Fits
<1>2. CASE ~(row.status = "none" \/ row.content # item.content)
  <2> DEFINE seen == [row EXCEPT !.old = FALSE]
  <2>1. Live(row, item.content) = [row |-> seen, id |-> TRUE]
    BY <1>2 DEF Live, Seen, Outcome
  <2>2. seen.status = row.status /\ seen.content = row.content
    BY DEF Row
  <2> HIDE DEF seen
  <2> QED
    BY <1>2, <2>1, <2>2 DEF Faithful, Fits, Row
<1> QED
  BY <1>1, <1>2, Zenon

LEMMA TopEventFaithful ==
  ASSUME NEW row \in Row, NEW item \in Item, item.state # "absent"
  PROVE  Faithful(row, item, TopEvent(row, item))
<1>1. CASE item.state = "cancelled" /\ row.status = "active"
  <2>1. TopEvent(row, item) = [row |-> Cancelled(row), id |-> TRUE]
    BY <1>1 DEF TopEvent, Outcome
  <2> QED
    BY <1>1, <2>1, CancelledType DEF Faithful, Fits
<1>2. CASE \/ item.state = "cancelled" /\ row.status # "active"
           \/ item.state = "live" /\ row.status = "released"
  <2>1. TopEvent(row, item) = [row |-> row, id |-> FALSE]
    BY <1>2 DEF TopEvent, Ignored, Outcome
  <2> QED
    BY <1>2, <2>1 DEF Faithful, Fits
<1>3. CASE item.state = "live" /\ row.status # "released"
  <2>1. TopEvent(row, item) = Live(row, item.content)
    BY <1>3 DEF TopEvent
  <2> QED
    BY <1>3, <2>1, LiveFaithful
<1> QED
  BY <1>1, <1>2, <1>3 DEF Item

LEMMA OverrideFaithful ==
  ASSUME NEW row \in Row, NEW item \in Item, item.state # "absent"
  PROVE  Faithful(row, item, Override(row, item))
<1>1. CASE item.state = "live"
  <2>1. Override(row, item) = Live(row, item.content)
    BY <1>1 DEF Override
  <2> QED
    BY <1>1, <2>1, LiveFaithful
<1>2. CASE item.state = "cancelled" /\ row.status = "cancelled"
  <2>1. Override(row, item) = [row |-> row, id |-> TRUE]
    BY <1>2 DEF Override, Outcome
  <2> QED
    BY <1>2, <2>1 DEF Faithful, Fits
<1>3. CASE item.state = "cancelled" /\ row.status # "cancelled"
  <2>1. Override(row, item) = [row |-> Cancelled(row), id |-> TRUE]
    BY <1>3 DEF Override, Outcome
  <2> QED
    BY <1>3, <2>1, CancelledType DEF Faithful, Fits
<1> QED
  BY <1>1, <1>2, <1>3 DEF Item

(* A row that is taken in is kept, and only its own drift ends.            *)
LEMMA TakeInKeeps ==
  ASSUME TypeOK, NEW e \in Keys, NEW item, NEW out,
         Faithful(rows[e], item, out), TakeIn(e, out)
  PROVE  /\ e \in adrift' \/ Fits(rows'[e], item)
         /\ adrift \ {e} \subseteq adrift'
         /\ \A y \in Keys \ {e} : rows'[y] = rows[y]
<1>1. rows'[e] = out.row /\ \A y \in Keys \ {e} : rows'[y] = rows[y]
  BY DEF TakeIn, TypeOK
<1>2. adrift' = adrift \cup {e} \/ adrift' = adrift \ {e} \/ adrift' = adrift
  BY Zenon DEF TakeIn
<1>3. out.id = TRUE /\ out.row.status = "cancelled" /\ rows[e].status = "cancelled"
        => adrift' = adrift \cup {e}
  BY Zenon DEF TakeIn
<1> QED
  BY <1>1, <1>2, <1>3 DEF Faithful

(* Items and rows.                                                         *)
LEMMA ItemType ==
  ASSUME NEW body \in Bodies, NEW e \in Keys
  PROVE  /\ ItemIn(body, e) \in Item
         /\ e \in Gone(body) <=> ItemIn(body, e).state = "absent"
         /\ e \in Stable => ItemIn(body, e) = body.stable[e]
<1>1. /\ body.sametime \in Seq(Contents) /\ Len(body.sametime) \in 0 .. MaxSame
      /\ body.stable \in [Stable -> Item]
  BY SametimeIsSeq
<1>2. CASE e \in Stable
  BY <1>1, <1>2, ConstantsAssumption DEF ItemIn, Gone, Listed
<1>3. CASE e \in Ordinals
  <2>1. e \notin Stable /\ e \in Nat /\ MaxSame \in Nat
    BY <1>3, ConstantsAssumption DEF Ordinals
  <2>2. CASE e < Len(body.sametime)
    <3>1. e + 1 \in 1 .. Len(body.sametime)
      BY <1>1, <2>1, <2>2
    <3>2. body.sametime[e + 1] \in Contents
      BY <1>1, <3>1, ElementOfSeq
    <3>3. ItemIn(body, e) = [state |-> "live", content |-> body.sametime[e + 1]]
      BY <2>1, <2>2 DEF ItemIn
    <3>4. e \notin Gone(body)
      BY <1>1, <2>1, <2>2 DEF Gone
    <3> QED
      BY <2>1, <3>2, <3>3, <3>4 DEF Item
  <2>3. CASE ~(e < Len(body.sametime))
    <3>1. ItemIn(body, e) = [state |-> "absent", content |-> NULL]
      BY <2>1, <2>3 DEF ItemIn
    <3>2. e \in Gone(body)
      BY <1>1, <1>3, <2>1, <2>3 DEF Gone
    <3> QED
      BY <2>1, <3>1, <3>2 DEF Item
  <2> QED
    BY <2>2, <2>3
<1> QED
  BY <1>2, <1>3 DEF Keys

(* What leaves a row's status and content alone, and its drift, keeps it.  *)
Untouched(e) ==
  /\ rows'[e].status = rows[e].status /\ rows'[e].content = rows[e].content
  /\ e \in adrift => e \in adrift'

LEMMA KeptStays ==
  ASSUME NEW e, Untouched(e), sub'.active = sub.active
  PROVE  \A item : Kept(item, e) =>
           \/ e \in adrift' \/ Fits(rows'[e], item)
           \/ sub'.active = FALSE /\ rows'[e].status = "cancelled"
  BY DEF Untouched, Kept, Fits

(* A step that leaves the feed, the coroutine and the rows as they are     *)
(* and gets hold of no tag keeps all that was honest.                      *)
LEMMA HonestKept ==
  ASSUME IInv, Honest, UNCHANGED <<feed, pass>>, sub'.etag \in {sub.etag, NULL},
         \A e \in Keys : \A item : Kept(item, e) =>
           \/ e \in adrift' \/ Fits(rows'[e], item)
           \/ sub'.active = FALSE /\ rows'[e].status = "cancelled"
  PROVE  Honest'
<1>1. feed # NULL
  BY FamilyType, ConstantsAssumption DEF IInv, TypeInv
<1>2. TagHeld'
  BY <1>1 DEF Honest, TagHeld, Kept, Keys, Ordinals, ItemIn
<1>3. TagAsked'
  BY DEF Honest, TagAsked, Kept, Keys, Ordinals, ItemIn
<1>4. Reached'
  <2>1. Listed(pass.body) \subseteq Keys /\ Ordinals \subseteq Keys
    BY ListedType DEF Keys
  <2>2. Listed(pass.body)' = Listed(pass.body) /\ Gone(pass.body)' = Gone(pass.body)
    BY SameBody
  <2> QED
    BY <2>1, <2>2 DEF Honest, Reached, Kept, Keys, Ordinals, ItemIn
<1> QED
  BY <1>2, <1>3, <1>4 DEF Honest

(* The poll: before it reads.                                              *)
LEMMA AskHonest ==
  ASSUME IInv, Honest, StartPoll \/ StartPass \/ NotModified \/ FetchFails
  PROVE  Honest'
<1>1. pass \in Pass
  BY DEF IInv, TypeInv, TypeOK
<1>2. /\ UNCHANGED <<feed, rows, adrift>> /\ sub'.active = sub.active
      /\ pass'.pc \in {"fetch", "plan"}
  <2>1. sub'.active = sub.active
    BY DEF StartPoll, StartPass, NotModified, FetchFails, IInv, TypeInv, TypeOK
  <2> QED
    BY <1>1, <2>1, IdleType DEF StartPoll, StartPass, NotModified, FetchFails, ledger, Pass
<1>3. \A e : \A item : Kept(item, e) =>
        \/ e \in adrift' \/ Fits(rows'[e], item)
        \/ sub'.active = FALSE /\ rows'[e].status = "cancelled"
  BY <1>2 DEF Kept
<1>4. Reached'
  BY <1>2 DEF Reached
<1>5. TagHeld'
  <2>1. sub'.etag = feed => sub.etag = feed \/ (pass.pc = "fetch" /\ pass.asked = feed)
    BY DEF StartPoll, StartPass, NotModified, FetchFails, IInv, TypeInv, TypeOK
  <2> QED
    BY <1>2, <1>3, <2>1 DEF Honest, TagHeld, TagAsked, Kept, Keys, Ordinals, ItemIn
<1>6. TagAsked'
  <2>1. pass'.pc = "fetch" => pass'.asked = sub.etag
    BY <1>1, IdleType DEF StartPoll, StartPass, NotModified, FetchFails, Idle
  <2> QED
    BY <1>2, <1>3, <2>1 DEF Honest, TagHeld, TagAsked, Kept, Keys, Ordinals, ItemIn
<1> QED
  BY <1>4, <1>5, <1>6 DEF Honest

(* What left the feed and lingers drifts; the rest of it is not active.    *)
LEMMA GoneFits ==
  ASSUME NEW body \in Bodies, NEW e \in Keys, e \in Gone(body), e \notin ActiveRows
  PROVE  Fits(rows[e], ItemIn(body, e))
  BY ItemType DEF ActiveRows, Active, Fits

LEMMA FetchedHonest ==
  ASSUME IInv, Honest, Fetched
  PROVE  Honest'
<1>1. pass \in Pass /\ feed \in Bodies /\ feed # NULL
  BY FamilyType, ConstantsAssumption DEF IInv, TypeInv, TypeOK
<1>2. pass.pc = "fetch" /\ pass.asked # feed /\ UNCHANGED <<feed, rows>>
  BY <1>1 DEF Fetched, ledger
<1>3. CASE EmptyFeedIsKept(feed)
  <2>1. /\ adrift' = adrift \cup Lingering(feed)
        /\ pass' = [Idle EXCEPT !.pc = "plan"]
    BY <1>3, Zenon DEF Fetched
  <2>2. Gone(feed) = Keys /\ Lingering(feed) = ActiveRows
    <3>1. Gone(feed) = Keys /\ IsEmpty(feed)
      BY <1>1, <1>3, EmptyIsGone DEF EmptyFeedIsKept
    <3> QED
      BY <3>1 DEF Lingering, ActiveRows
  <2>3. \A e \in Keys : e \in adrift' \/ Fits(rows[e], ItemIn(feed, e))
    BY <1>1, <2>1, <2>2, GoneFits
  <2>4. TagHeld'
    BY <1>2, <2>3 DEF TagHeld, Kept, Keys, Ordinals, ItemIn
  <2> QED
    BY <2>1, <2>4, IdleType DEF Honest, TagAsked, Reached
<1>4. CASE ~EmptyFeedIsKept(feed)
  <2>1. /\ pass' = [pass EXCEPT !.pc = "read", !.body = feed, !.todo = Listed(feed)]
        /\ UNCHANGED <<sub, adrift>>
    BY <1>4, Zenon DEF Fetched
  <2>2. /\ pass'.pc = "read" /\ pass'.body = feed /\ pass'.todo = Listed(feed)
        /\ pass'.line = 0
    BY <1>1, <1>2, <2>1 DEF Pass, IInv, TypeInv, Reading
  <2>3. TagHeld'
    BY <1>1, <1>2, <2>1 DEF IInv, Locals, TagHeld
  <2>4. \A k \in Ordinals' : ~(k < 0)
    BY ConstantsAssumption DEF Ordinals
  <2>5. Reached'
    BY <2>2, <2>4 DEF Reached, Listed
  <2> QED
    BY <2>2, <2>3, <2>5 DEF Honest, TagAsked
<1> QED
  BY <1>3, <1>4

(* While a body is read, the tag held is of another.                       *)
LEMMA ReadingHonest ==
  ASSUME IInv, pass'.pc \in {"read", "record", "success"}, pass.pc \in {"read", "record", "success"},
         UNCHANGED <<feed, sub>>, Reached'
  PROVE  Honest'
<1>1. sub.etag # feed
  BY DEF IInv, Locals
<1> QED
  BY <1>1 DEF Honest, TagHeld, TagAsked

LEMMA EventHonest ==
  ASSUME IInv, Honest, NEW e \in Stable, IngestEvent(e)
  PROVE  Honest'
<1>1. /\ TypeInv /\ Took(e) /\ e \in pass.todo /\ pass'.todo = pass.todo \ {e}
      /\ pass'.line = pass.line /\ e \notin Ordinals /\ e \in Keys
  BY EventTook DEF IInv, Keys
<1>2. pass.pc = "read" /\ pass'.pc = "read" /\ pass'.body = pass.body /\ pass.body \in Bodies
      /\ UNCHANGED <<feed, sub>> /\ e \in Listed(pass.body)
  BY <1>1 DEF Took, TypeInv, Reading
<1> DEFINE item == pass.body.stable[e]
           out == Handled(e, item)
<1>3. item \in Item /\ item.state # "absent" /\ ItemIn(pass.body, e) = item
  BY <1>1, <1>2, SametimeIsSeq, ItemType DEF Listed
<1>4. rows[e] \in Row
  BY <1>1 DEF TypeInv, TypeOK
<1>5. Faithful(rows[e], item, out)
  <2> HIDE DEF item
  <2> QED
    BY <1>3, <1>4, TopEventFaithful, OverrideFaithful DEF Handled
<1> HIDE DEF item, out
<1>6. /\ e \in adrift' \/ Fits(rows'[e], item)
      /\ adrift \ {e} \subseteq adrift'
      /\ \A y \in Keys \ {e} : rows'[y] = rows[y]
  <2>1. CASE TakeIn(e, out)
    BY <1>1, <1>5, <2>1, TakeInKeeps DEF TypeInv
  <2>2. CASE adrift' = adrift \cup {e} /\ UNCHANGED rows
    BY <2>2
  <2> QED
    BY <2>1, <2>2 DEF IngestEvent, out, item
<1>7. \A y \in Keys \ {e} : Untouched(y)
  BY <1>6 DEF Untouched
<1>8. \A y \in Keys \ {e} : \A i : Kept(i, y) =>
        \/ y \in adrift' \/ Fits(rows'[y], i)
        \/ sub'.active = FALSE /\ rows'[y].status = "cancelled"
  BY <1>2, <1>7, KeptStays
<1>9. Reached'
  <2>1. \A y \in Listed(pass.body) \ pass'.todo :
          \/ y \in adrift' \/ Fits(rows'[y], ItemIn(pass.body, y))
          \/ sub'.active = FALSE /\ rows'[y].status = "cancelled"
    <3> SUFFICES ASSUME NEW y \in Listed(pass.body) \ pass'.todo
                 PROVE  \/ y \in adrift' \/ Fits(rows'[y], ItemIn(pass.body, y))
                        \/ sub'.active = FALSE /\ rows'[y].status = "cancelled"
      OBVIOUS
    <3>1. CASE y = e
      BY <1>3, <1>6, <3>1
    <3>2. CASE y # e
      <4>1. y \in Keys /\ Kept(ItemIn(pass.body, y), y)
        BY <1>1, <1>2, <3>2, ListedType DEF Honest, Reached, Keys
      <4> QED
        BY <1>8, <3>2, <4>1
    <3> QED
      BY <3>1, <3>2
  <2>2. \A k \in Ordinals : k < pass.line =>
          \/ k \in adrift' \/ Fits(rows'[k], ItemIn(pass.body, k))
          \/ sub'.active = FALSE /\ rows'[k].status = "cancelled"
    BY <1>1, <1>2, <1>8 DEF Honest, Reached, Keys
  <2> QED
    BY <1>1, <1>2, <2>1, <2>2, SameBody DEF Reached, Kept, Ordinals, ItemIn
<1> QED
  BY <1>2, <1>9, ReadingHonest

LEMMA SameTimeHonest ==
  ASSUME IInv, Honest, IngestSameTime
  PROVE  Honest'
<1>1. /\ TypeInv /\ Took(Slot) /\ Slot \in Ordinals /\ pass'.todo = pass.todo
      /\ pass.line \in Ordinals /\ pass'.line = pass.line + 1
      /\ \/ Slot = pass.line
         \/ pass'.failed = TRUE /\ Ordinals \subseteq adrift'
  BY SameTimeTook DEF IInv
<1>2. /\ pass.pc = "read" /\ pass'.pc = "read" /\ pass'.body = pass.body
      /\ pass.body \in Bodies /\ UNCHANGED <<feed, sub>>
      /\ pass.line < Len(pass.body.sametime)
  BY <1>1 DEF Took, TypeInv, Reading, IngestSameTime
<1>3. Slot \in Keys /\ Slot \notin Stable /\ pass.line \in Nat
  BY <1>1, ConstantsAssumption DEF Keys, Ordinals
<1> DEFINE item == [state |-> "live", content |-> pass.body.sametime[pass.line + 1]]
           out == TopEvent(rows[Slot], item)
<1>4. /\ item = ItemIn(pass.body, pass.line) /\ item \in Item /\ item.state # "absent"
  <2>1. pass.line \in Keys /\ pass.line \notin Stable
    BY <1>1, ConstantsAssumption DEF Keys
  <2>2. item = ItemIn(pass.body, pass.line)
    BY <1>2, <2>1 DEF ItemIn
  <2>3. ItemIn(pass.body, pass.line) \in Item
    BY <1>2, <2>1, ItemType
  <2> QED
    BY <2>2, <2>3
<1>5. rows[Slot] \in Row
  BY <1>1, <1>3 DEF TypeInv, TypeOK
<1> HIDE DEF item
<1>6. Faithful(rows[Slot], item, out)
  BY <1>4, <1>5, TopEventFaithful
<1> HIDE DEF out
<1>7. /\ Slot \in adrift' \/ Fits(rows'[Slot], item)
      /\ adrift \ {Slot} \subseteq adrift'
      /\ \A y \in Keys \ {Slot} : rows'[y] = rows[y]
  <2>1. CASE TakeIn(Slot, out)
    BY <1>1, <1>3, <1>6, <2>1, TakeInKeeps DEF TypeInv
  <2>2. CASE adrift' = adrift \cup Ordinals /\ UNCHANGED rows
    BY <1>1, <2>2
  <2> QED
    BY <2>1, <2>2 DEF IngestSameTime, out, item
<1>8. \A y \in Keys \ {Slot} : Untouched(y)
  BY <1>7 DEF Untouched
<1>9. \A y \in Keys \ {Slot} : \A i : Kept(i, y) =>
        \/ y \in adrift' \/ Fits(rows'[y], i)
        \/ sub'.active = FALSE /\ rows'[y].status = "cancelled"
  BY <1>2, <1>8, KeptStays
<1>10. Reached'
  <2>1. \A y \in Listed(pass.body) \ pass'.todo :
          \/ y \in adrift' \/ Fits(rows'[y], ItemIn(pass.body, y))
          \/ sub'.active = FALSE /\ rows'[y].status = "cancelled"
    BY <1>1, <1>2, <1>3, <1>9, ListedType DEF Honest, Reached, Keys
  <2>2. \A k \in Ordinals : k < pass.line + 1 =>
          \/ k \in adrift' \/ Fits(rows'[k], ItemIn(pass.body, k))
          \/ sub'.active = FALSE /\ rows'[k].status = "cancelled"
    <3> SUFFICES ASSUME NEW k \in Ordinals, k < pass.line + 1, k \notin adrift'
                 PROVE  \/ Fits(rows'[k], ItemIn(pass.body, k))
                        \/ sub'.active = FALSE /\ rows'[k].status = "cancelled"
      OBVIOUS
    <3>1. Slot = pass.line
      BY <1>1
    <3>2. CASE k = pass.line
      BY <1>4, <1>7, <3>1, <3>2
    <3>3. CASE k # pass.line
      <4>1. k < pass.line
        BY <1>3, <3>3, ConstantsAssumption DEF Ordinals
      <4>2. k \in Keys \ {Slot} /\ Kept(ItemIn(pass.body, k), k)
        BY <1>2, <3>1, <3>3, <4>1 DEF Honest, Reached, Keys
      <4> QED
        BY <1>9, <4>2
    <3> QED
      BY <3>2, <3>3
  <2> QED
    BY <1>1, <1>2, <2>1, <2>2, SameBody DEF Reached, Kept, Ordinals, ItemIn
<1> QED
  BY <1>2, <1>10, ReadingHonest

(* Stale-detection cancels only what the body does not have.               *)
LEMMA CancelStaleHonest ==
  ASSUME IInv, Honest, CancelStale
  PROVE  Honest'
<1>1. TypeInv /\ pass \in Pass /\ rows \in [Keys -> Row]
  BY DEF IInv, TypeInv, TypeOK
<1>2. /\ pass.pc = "read" /\ pass.todo = {} /\ pass.line = Len(pass.body.sametime)
      /\ pass' = [pass EXCEPT !.pc = "record", !.affected = @ \cup Stale]
      /\ UNCHANGED <<feed, sub, adrift>> /\ pass.body \in Bodies
  BY <1>1 DEF CancelStale, TypeInv, Reading
<1>3. pass'.pc = "record" /\ pass'.body = pass.body
  BY <1>1, <1>2 DEF Pass
<1>4. \A e \in Keys : e \notin Stale => rows'[e] = rows[e]
  BY DEF CancelStale
<1>5. ASSUME NEW e \in Keys, e \notin Gone(pass.body)
      PROVE  Kept(ItemIn(pass.body, e), e) /\ e \notin Stale
  <2>1. CASE e \in Stable
    <3>1. e \in Listed(pass.body) \ pass.todo
      BY <1>2, <1>5, <2>1 DEF Gone
    <3>2. e \in Stale => pass.failed = FALSE /\ Active(e) /\ e \notin pass.affected
      BY <1>1 DEF Stale, ActiveRows, Pass
    <3> QED
      BY <1>2, <3>1, <3>2 DEF Honest, Reached, IInv, Complete
  <2>2. CASE e \in Ordinals
    <3>1. e < pass.line
      BY <1>1, <1>2, <1>5, <2>2, SametimeIsSeq, ConstantsAssumption DEF Gone, Ordinals
    <3>2. e \in Stale => pass.failed = FALSE /\ e \notin pass.affected
      BY <1>1 DEF Stale, ActiveRows, Pass
    <3> QED
      BY <1>2, <2>2, <3>1, <3>2 DEF Honest, Reached, IInv, Complete
  <2> QED
    BY <2>1, <2>2 DEF Keys
<1>6. Reached'
  BY <1>2, <1>3, <1>4, <1>5, SameBody DEF Reached, Kept, Keys, Ordinals, ItemIn
<1> QED
  BY <1>2, <1>3, <1>6, ReadingHonest

LEMMA RecordAffectedHonest ==
  ASSUME IInv, Honest, RecordAffected
  PROVE  Honest'
<1>1. pass \in Pass
  BY DEF IInv, TypeInv, TypeOK
<1>2. /\ pass.pc = "record" /\ pass'.pc = "success" /\ pass'.body = pass.body
      /\ UNCHANGED <<feed, sub, rows, adrift>>
  BY <1>1 DEF RecordAffected, Pass
<1>3. Reached'
  BY <1>2, SameBody DEF Honest, Reached, Kept, Keys, Ordinals, ItemIn
<1> QED
  BY <1>2, <1>3, ReadingHonest

(* The ETag is stored when every row of the body is kept, and what left it *)
(* drifts or is not active.                                                *)
LEMMA RecordFetchSuccessHonest ==
  ASSUME IInv, Honest, RecordFetchSuccess
  PROVE  Honest'
<1>1. TypeInv /\ pass \in Pass /\ feed \in Bodies /\ feed # NULL
  BY FamilyType, ConstantsAssumption DEF IInv, TypeInv, TypeOK
<1>2. /\ pass.pc = "success" /\ pass.body \in Bodies
      /\ sub' = [sub EXCEPT !.etag = TagOf(pass.body)]
      /\ adrift' = adrift \cup Lingering(pass.body)
      /\ pass' = [Idle EXCEPT !.pc = "plan"]
      /\ UNCHANGED <<feed, rows>>
  BY <1>1 DEF RecordFetchSuccess, TypeInv, Reading, ledger
<1>3. sub'.etag = TagOf(pass.body) /\ sub'.active = sub.active
  BY <1>1, <1>2 DEF TypeInv, TypeOK
<1>4. TagHeld'
  <2> SUFFICES ASSUME sub'.etag = feed, NEW e \in Keys
               PROVE  \/ e \in adrift' \/ Fits(rows'[e], ItemIn(feed, e))
                      \/ sub'.active = FALSE /\ rows'[e].status = "cancelled"
    BY <1>2 DEF TagHeld, Kept, Keys, Ordinals, ItemIn
  <2>1. tagged /\ pass.body = feed
    BY <1>1, <1>3 DEF TagOf
  <2>2. CASE e \in Gone(feed)
    <3>1. e \in ActiveRows => e \in adrift'
      BY <1>2, <2>1, <2>2 DEF Lingering
    <3> QED
      BY <1>1, <1>2, <2>2, <3>1, GoneFits
  <2>3. CASE e \notin Gone(feed)
    <3>1. Kept(ItemIn(feed, e), e)
      BY <1>2, <2>1, <2>3 DEF Honest, Reached
    <3> QED
      BY <1>2, <1>3, <3>1 DEF Kept
  <2> QED
    BY <2>2, <2>3
<1> QED
  BY <1>2, <1>4, IdleType DEF Honest, TagAsked, Reached

(* Planning touches no row.                                                *)
LEMMA PlanHonest ==
  ASSUME IInv, Honest, PlanReads \/ ClearAffected \/ (\E e \in Keys : PlanRow(e))
  PROVE  Honest'
<1>1. pass \in Pass
  BY DEF IInv, TypeInv, TypeOK
<1>2. UNCHANGED <<feed, sub, rows, adrift>>
  BY DEF PlanReads, ClearAffected, PlanRow, ledger
<1>3. pass'.pc \in {"planning", "idle"}
  BY <1>1, IdleType DEF PlanReads, ClearAffected, PlanRow, Pass
<1>4. TagHeld'
  BY <1>2 DEF Honest, TagHeld, Kept, Keys, Ordinals, ItemIn
<1> QED
  BY <1>3, <1>4 DEF Honest, TagAsked, Reached

(* The owner: what is cancelled is cancelled with the subscription, and    *)
(* drifts when that is taken up again.                                     *)
LEMMA OwnerHonest ==
  ASSUME IInv, Honest, Owner \/ Answer
  PROVE  Honest'
<1>1. TypeInv /\ rows \in [Keys -> Row] /\ sub.active \in BOOLEAN
  BY DEF IInv, TypeInv, TypeOK
<1>2. UNCHANGED <<feed, pass>> /\ sub'.etag \in {sub.etag, NULL}
  BY <1>1 DEF Owner, Answer, Unsubscribe, ChangePrefix, DisconnectTarget, Resubscribe,
     ChangePlacement, EndSubscription, AppendAffected, QueueEverything, Deactivate,
     ReplanPlaced, TypeInv, TypeOK
<1>3. CASE Unsubscribe
  <2>1. UNCHANGED sub /\ adrift' = adrift \cup ActiveRows
    BY <1>3 DEF Unsubscribe
  <2>2. \A e \in Keys : IF Active(e) THEN rows'[e].status = "cancelled"
                                     ELSE rows'[e] = rows[e]
    BY <1>1, <1>3 DEF Unsubscribe, Row
  <2>3. \A e \in Keys : \A item : Kept(item, e) =>
          \/ e \in adrift' \/ Fits(rows'[e], item)
          \/ sub'.active = FALSE /\ rows'[e].status = "cancelled"
    BY <2>1, <2>2 DEF Kept, ActiveRows
  <2> QED
    BY <1>2, <2>3, HonestKept
<1>6. CASE EndSubscription
  <2>1. /\ UNCHANGED rows /\ sub'.active = FALSE
        /\ \A e \in adrift : e \in adrift' \/ rows[e].status = "cancelled"
    BY <1>1, <1>6 DEF EndSubscription, IInv, TypeInv, TypeOK
  <2>2. \A e \in Keys : \A item : Kept(item, e) =>
          \/ e \in adrift' \/ Fits(rows'[e], item)
          \/ sub'.active = FALSE /\ rows'[e].status = "cancelled"
    BY <2>1 DEF Kept
  <2> QED
    BY <1>2, <2>2, HonestKept
<1>4. ASSUME NEW p \in Placements, Resubscribe(p) PROVE Honest'
  <2>1. /\ UNCHANGED rows
        /\ adrift' = adrift \cup {e \in Keys : rows[e].status = "cancelled"}
    BY <1>4 DEF Resubscribe, ledger
  <2>2. \A e \in Keys : \A item : Kept(item, e) =>
          \/ e \in adrift' \/ Fits(rows'[e], item)
          \/ sub'.active = FALSE /\ rows'[e].status = "cancelled"
    BY <2>1 DEF Kept
  <2> QED
    BY <1>2, <2>2, HonestKept
<1>5. CASE \/ ChangePrefix \/ DisconnectTarget
           \/ AppendAffected \/ QueueEverything \/ Deactivate \/ ReplanPlaced
           \/ \E p \in Placements : ChangePlacement(p)
  <2>1. UNCHANGED <<rows, adrift>> /\ sub'.active = sub.active
    BY <1>1, <1>5 DEF ChangePrefix, DisconnectTarget, ChangePlacement,
       AppendAffected, QueueEverything, Deactivate, ReplanPlaced, ledger, TypeInv, TypeOK
  <2>2. \A e \in Keys : \A item : Kept(item, e) =>
          \/ e \in adrift' \/ Fits(rows'[e], item)
          \/ sub'.active = FALSE /\ rows'[e].status = "cancelled"
    BY <2>1 DEF Kept
  <2> QED
    BY <1>2, <2>2, HonestKept
<1> QED
  BY <1>3, <1>4, <1>5, <1>6 DEF Owner, Answer

(* A body that is served anew has no tag that is held or asked about.      *)
LEMMA FeedChangesHonest ==
  ASSUME IInv, Honest, FeedChanges
  PROVE  Honest'
<1>1. /\ feed' # sub.etag /\ feed' # pass.asked
      /\ UNCHANGED <<sub, rows, pass, adrift>>
  BY DEF FeedChanges, ledger
<1>2. Reached'
  BY <1>1, SameBody DEF Honest, Reached, Kept, Keys, Ordinals, ItemIn
<1> QED
  BY <1>1, <1>2 DEF Honest, TagHeld, TagAsked

(* Time, retention and a crash.                                            *)
LEMMA WorldHonest ==
  ASSUME IInv, Honest, TimePasses \/ (\E e \in Stable : Release(e)) \/ Crash
  PROVE  Honest'
<1>1. rows \in [Keys -> Row]
  BY DEF IInv, TypeInv, TypeOK
<1>2. CASE TimePasses
  <2>1. UNCHANGED <<feed, sub, pass, adrift>>
    BY <1>2 DEF TimePasses
  <2>2. \A e \in Keys : Untouched(e)
    BY <1>1, <1>2, <2>1 DEF TimePasses, Untouched, Row
  <2> QED
    BY <2>1, <2>2, KeptStays, HonestKept
<1>3. ASSUME NEW r \in Stable, Release(r) PROVE Honest'
  <2>1. UNCHANGED <<feed, sub, pass, adrift>> /\ Active(r) /\ r \in Keys
    BY <1>3 DEF Release, Keys
  <2>2. rows'[r].status = "released" /\ \A e \in Keys \ {r} : rows'[e] = rows[e]
    BY <1>1, <1>3, <2>1 DEF Release, Row
  <2>3. \A item : Kept(item, r) => r \in adrift \/ Fits(rows'[r], item)
    BY <2>1, <2>2 DEF Kept, Fits, Active
  <2>4. \A e \in Keys : \A item : Kept(item, e) =>
          \/ e \in adrift' \/ Fits(rows'[e], item)
          \/ sub'.active = FALSE /\ rows'[e].status = "cancelled"
    BY <2>1, <2>2, <2>3 DEF Kept
  <2> QED
    BY <2>1, <2>4, HonestKept
<1>4. CASE Crash
  <2>1. UNCHANGED <<feed, sub, rows>> /\ adrift \subseteq adrift' /\ pass' = Idle
    BY <1>4 DEF Crash
  <2>2. TagHeld'
    BY <2>1 DEF Honest, TagHeld, Kept, Keys, Ordinals, ItemIn
  <2> QED
    BY <2>1, <2>2, IdleType DEF Honest, TagAsked, Reached
<1> QED
  BY <1>2, <1>3, <1>4

LEMMA InitHonest == Init => Honest
<1> SUFFICES ASSUME Init PROVE Honest
  OBVIOUS
<1>1. feed \in Bodies /\ feed # NULL
  BY ConstantsAssumption DEF Init, Bodies
<1>2. sub.etag = NULL /\ pass = Idle
  BY DEF Init
<1> QED
  BY <1>1, <1>2, IdleType DEF Honest, TagHeld, TagAsked, Reached

LEMMA StepHonest ==
  ASSUME IInv, Honest, [Next]_vars
  PROVE  Honest'
<1>1. CASE UNCHANGED vars
  <2>1. UNCHANGED <<feed, sub, rows, pass, adrift>>
    BY <1>1 DEF vars
  <2>2. \A e \in Keys : Untouched(e)
    BY <2>1 DEF Untouched
  <2> QED
    BY <2>1, <2>2, KeptStays, HonestKept
<1>2. CASE Poll
  BY <1>2, AskHonest, FetchedHonest, EventHonest, SameTimeHonest, CancelStaleHonest,
     RecordAffectedHonest, RecordFetchSuccessHonest DEF Poll
<1>3. CASE PlanPass
  BY <1>3, AskHonest, PlanHonest DEF PlanPass
<1> QED
  BY <1>1, <1>2, <1>3, AskHonest, OwnerHonest, FeedChangesHonest, WorldHonest DEF Next

(* The ETag never gets ahead of the ledger: while the server would answer  *)
(* 304, what it serves is what the rows show, whatever failed, crashed or  *)
(* was clicked before.                                                     *)
THEOREM TagNeverAhead == Spec => []ETagIsHonest
<1>1. IInv /\ Honest => ETagIsHonest
  <2> SUFFICES ASSUME IInv, Honest, sub.active, sub.etag = feed, NEW e \in Keys,
                      e \notin adrift
               PROVE  Agrees(e)
    BY DEF ETagIsHonest
  <2>1. Fits(rows[e], ItemIn(feed, e))
    BY DEF Honest, TagHeld, Kept
  <2>2. ItemIn(feed, e) \in Item /\ ItemIn(feed, e) = ItemOf(e)
    BY FamilyType, ItemType DEF IInv, TypeInv, ItemIn, ItemOf
  <2>3. \A item \in Item : Fits(rows[e], item) => Shows(e, item)
    BY DEF Fits, Shows, Active, Item
  <2> QED
    BY <2>1, <2>2, <2>3 DEF Agrees
<1>2. Init => IInv /\ Honest
  BY InitSafe, InitHonest
<1>3. IInv /\ Honest /\ [Next]_vars => (IInv /\ Honest)'
  BY StepSafe, StepHonest
<1> QED
  BY <1>1, <1>2, <1>3, PTL DEF Spec

=============================================================================
