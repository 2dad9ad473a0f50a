---------------------------- MODULE IngestProofs -----------------------------
(***************************************************************************)
(* Proofs about Ingest, for any calendar, any events and series, and any   *)
(* number of edits and mishaps.                                            *)
(***************************************************************************)
EXTENDS Ingest, TLAPS

-----------------------------------------------------------------------------
(* The handlers.  A handler of one of the three kinds runs.                *)
LEMMA Kinded ==
  ASSUME kind \in Kinds
  PROVE  kind \in {"client", "personal", "main_native"}
  BY ConstantsAssumption

(* What _resolve_conference leaves is a room and a candidate.              *)
LEMMA ConferenceType ==
  ASSUME NEW row \in Row, NEW room \in Rooms \cup {NULL}
  PROVE  LET c == ResolveConference(row, room) IN
         /\ c.room \in {row.room, room}
         /\ c.candidate \in {NULL, IF room = NULL THEN GONE ELSE room}
         /\ c.moved \in BOOLEAN
  BY DEF ResolveConference, Conference, Row

(* An outcome is a row and what the pass is told of it.                    *)
OutcomeType == [row : Row, id : BOOLEAN, bumped : BOOLEAN]

LEMMA BasicOutcomes ==
  ASSUME NEW row \in Row, NEW r \in Revision
  PROVE  /\ Skipped(row) \in OutcomeType /\ Ignored(row) \in OutcomeType
         /\ Written(row) \in OutcomeType
         /\ Inserted(r) \in OutcomeType /\ Cancelled(row) \in OutcomeType
<1>1. Skipped(row) \in OutcomeType /\ Ignored(row) \in OutcomeType
        /\ Written(row) \in OutcomeType
  BY DEF Skipped, Ignored, Written, Outcome, OutcomeType
<1>2. [status |-> "active", content |-> r.content, room |-> r.room,
       candidate |-> NULL, stamp |-> r.stamp] \in Row
  BY DEF Row, Revision
<1>3. [row EXCEPT !.status = "cancelled"] \in Row
  BY DEF Row
<1> QED
  BY <1>1, <1>2, <1>3 DEF Inserted, Cancelled, Written, Outcome, OutcomeType

(* Each part of the handlers leaves an outcome.                            *)
LEMMA ReadOutcomes ==
  ASSUME NEW row \in Row, NEW r \in Revision, NEW audit \in BOOLEAN
  PROVE  /\ Applied(row, r, audit) \in OutcomeType
         /\ Overwritten(row, r) \in OutcomeType
         /\ CancelledInstance(row) \in OutcomeType
         /\ LiveInstance(row, r, audit) \in OutcomeType
         /\ Instance(row, r, audit) \in OutcomeType
         /\ TopCancelled(row) \in OutcomeType
<1> DEFINE c == ResolveConference(row, r.room)
<1>1. c.room \in Rooms \cup {NULL} /\ c.candidate \in Rooms \cup {GONE, NULL}
  BY ConferenceType DEF Row, Revision
<1> HIDE DEF c
<1>2. Settled(row, r, c) \in Row
  BY <1>1 DEF Settled, Row, Revision
<1>3. [row EXCEPT !.candidate = c.candidate] \in Row
  BY <1>1 DEF Row
<1>4. [row EXCEPT !.status = "active", !.content = r.content,
                  !.room = r.room, !.stamp = r.stamp] \in Row
  BY DEF Row, Revision
<1>5. Written(Settled(row, r, c)) \in OutcomeType
      /\ Skipped([row EXCEPT !.candidate = c.candidate]) \in OutcomeType
      /\ Written([row EXCEPT !.status = "active", !.content = r.content,
                             !.room = r.room, !.stamp = r.stamp]) \in OutcomeType
  BY <1>2, <1>3, <1>4, BasicOutcomes
<1>6. Applied(row, r, audit) \in OutcomeType
  BY <1>5, BasicOutcomes DEF Applied, c
<1>7. Overwritten(row, r) \in OutcomeType
  BY <1>5, BasicOutcomes DEF Overwritten
<1>8. CancelledInstance(row) \in OutcomeType /\ TopCancelled(row) \in OutcomeType
  BY BasicOutcomes DEF CancelledInstance, TopCancelled
<1>9. LiveInstance(row, r, audit) \in OutcomeType
  BY <1>5, BasicOutcomes DEF LiveInstance, c
<1> QED
  BY <1>6, <1>7, <1>8, <1>9, BasicOutcomes DEF Instance

LEMMA HandlerType ==
  ASSUME NEW row \in Row, NEW e \in Events, NEW r \in Revision,
         NEW detached \in BOOLEAN, NEW audit \in BOOLEAN, kind \in Kinds
  PROVE  Handler(row, e, r, detached, audit) \in OutcomeType
<1>2. Detached(row, e, r) \in OutcomeType
  BY ReadOutcomes, BasicOutcomes DEF Detached
<1>3. ForeignEvent(row, e, r, detached, audit) \in OutcomeType
  BY <1>2, ReadOutcomes, BasicOutcomes DEF ForeignEvent
<1>4. PersonalTop(row, r) \in OutcomeType
  BY ReadOutcomes, BasicOutcomes DEF PersonalTop
<1>5. ClientEvent(row, e, r, detached, audit) \in OutcomeType
  BY <1>3, BasicOutcomes DEF ClientEvent
<1>6. /\ PersonalEvent(row, e, r, detached) \in OutcomeType
      /\ NativeEvent(row, e, r, detached) \in OutcomeType
  BY <1>2, <1>4, ReadOutcomes DEF PersonalEvent, NativeEvent, NativeTop
<1> QED
  BY <1>5, <1>6, Kinded DEF Handler

(* The row in hand differs from the one in the table by a release at most. *)
LEMMA HandType ==
  ASSUME TypeOK, NEW e \in Events
  PROVE  /\ InHand(e) \in Row
         /\ InHand(e).content = rows[e].content /\ InHand(e).room = rows[e].room
         /\ InHand(e).stamp = rows[e].stamp
         /\ InHand(e).candidate = rows[e].candidate
         /\ rows[e].status # "released" => InHand(e) = rows[e]
         /\ rows[e].status = "released" =>
              IF e = worker.hand THEN InHand(e).status = "active"
                                 ELSE InHand(e) = rows[e]
<1>1. rows[e] \in Row
  BY DEF TypeOK
<1> QED
  BY <1>1 DEF InHand, Row

LEMMA HandledIs ==
  ASSUME TypeOK, NEW e \in Events, NEW r \in Revision,
         NEW detached \in BOOLEAN, NEW audit \in BOOLEAN
  PROVE  LET out == Handler(InHand(e), e, r, detached, audit)
             left == Handled(e, r, detached, audit)
         IN  /\ out \in OutcomeType /\ left \in OutcomeType
             /\ left.id = out.id /\ left.bumped = out.bumped
             /\ out.bumped => left = out
             /\ left.row.content = out.row.content
             /\ left.row.room = out.row.room
             /\ left.row.candidate = out.row.candidate
             /\ left.row.stamp = out.row.stamp
             /\ ~out.bumped => left.row.status = rows[e].status
             /\ ~out.bumped /\ out.row.status = rows[e].status => left = out
<1> DEFINE out == Handler(InHand(e), e, r, detached, audit)
<1>1. out \in OutcomeType
  BY HandlerType, HandType DEF TypeOK
<1>2. Handled(e, r, detached, audit)
        = IF out.bumped THEN out ELSE [out EXCEPT !.row.status = rows[e].status]
  BY DEF Handled
<1>3. rows[e] \in Row
  BY DEF TypeOK
<1> HIDE DEF out
<1> QED
  BY <1>1, <1>2, <1>3 DEF OutcomeType, Row, out

LEMMA HandledType ==
  ASSUME TypeOK, NEW e \in Events, NEW r \in Revision,
         NEW detached \in BOOLEAN, NEW audit \in BOOLEAN
  PROVE  Handled(e, r, detached, audit) \in OutcomeType
  BY HandledIs

-----------------------------------------------------------------------------
(* What every handler keeps to, whatever it reads.                         *)
Careful(row, r, out) ==
  /\ row.status = "released" => out.row = row
  /\ out.row.status = "none" => out.row = row
  /\ out.row.stamp \in {row.stamp, r.stamp}
  /\ ~out.bumped => /\ out.row.status = row.status
                    /\ out.row.content = row.content
                    /\ out.row.room = row.room /\ out.row.stamp = row.stamp
  /\ out.bumped => out.id /\ out.row.status \in {"active", "cancelled"}
  /\ out.bumped /\ r.state # "cancelled" => out.row.status = "active"

(* The parts of the handlers are careful with rows that are not released.  *)
LEMMA CarefulParts ==
  ASSUME NEW row \in Row, NEW r \in Revision, NEW audit \in BOOLEAN
  PROVE  /\ Careful(row, r, Ignored(row))
         /\ row.status # "released" =>
              /\ row.status # "none" => Careful(row, r, Applied(row, r, audit))
              /\ row.status # "none" => Careful(row, r, Overwritten(row, r))
              /\ r.state = "cancelled" => Careful(row, r, CancelledInstance(row))
              /\ Careful(row, r, LiveInstance(row, r, audit))
              /\ r.state = "cancelled" => Careful(row, r, TopCancelled(row))
              /\ Careful(row, r, Skipped(row))
              /\ Careful(row, r, Inserted(r))
<1>1. Careful(row, r, Ignored(row))
  BY DEF Careful, Ignored, Outcome
<1>2. ASSUME row.status # "released" PROVE Careful(row, r, Skipped(row))
  BY DEF Careful, Skipped, Outcome
<1>3. Careful(row, r, Inserted(r)) \/ row.status = "released"
  BY DEF Careful, Inserted, Written, Outcome, Row
<1>4. r.state = "cancelled" =>
        Careful(row, r, Cancelled(row)) \/ row.status = "released"
  BY DEF Careful, Cancelled, Written, Outcome, Row
<1> DEFINE c == ResolveConference(row, r.room)
<1> HIDE DEF c
<1>5. Careful(row, r, Written(Settled(row, r, c))) \/ row.status = "released"
  BY DEF Careful, Written, Settled, Outcome
<1>6. \/ Careful(row, r, Skipped([row EXCEPT !.candidate = c.candidate]))
      \/ row.status \in {"none", "released"}
  BY DEF Careful, Skipped, Outcome, Row
<1>7. \/ Careful(row, r, Written([row EXCEPT !.status = "active",
            !.content = r.content, !.room = r.room, !.stamp = r.stamp]))
      \/ row.status = "released"
  BY DEF Careful, Written, Outcome, Row
<1> QED
  BY <1>1, <1>2, <1>3, <1>4, <1>5, <1>6, <1>7
     DEF Applied, Overwritten, CancelledInstance, LiveInstance, TopCancelled, c

LEMMA HandlerCareful ==
  ASSUME NEW row \in Row, NEW e \in Events, NEW r \in Revision,
         NEW detached \in BOOLEAN, NEW audit \in BOOLEAN, kind \in Kinds
  PROVE  Careful(row, r, Handler(row, e, r, detached, audit))
<1>2. Careful(row, r, Instance(row, r, audit))
      /\ Careful(row, r, Instance(row, r, FALSE))
  BY CarefulParts DEF Instance
<1>3. Careful(row, r, Detached(row, e, r))
  BY <1>2, CarefulParts DEF Detached
<1>4. Careful(row, r, PersonalTop(row, r))
  BY CarefulParts DEF PersonalTop
<1>5. Careful(row, r, ForeignEvent(row, e, r, detached, audit))
  BY <1>2, <1>3, CarefulParts DEF ForeignEvent
<1>6. Careful(row, r, ClientEvent(row, e, r, detached, audit))
  BY <1>5, CarefulParts DEF ClientEvent
<1>7. Careful(row, r, PersonalEvent(row, e, r, detached))
      /\ Careful(row, r, NativeEvent(row, e, r, detached))
  BY <1>2, <1>3, <1>4 DEF PersonalEvent, NativeEvent, NativeTop
<1> QED
  BY <1>6, <1>7, Kinded DEF Handler

(* What is left in the table: a handler that had read the row before it    *)
(* was released takes it back only with a new version.                     *)
Leaves(e, r, out) ==
  /\ rows[e].status = "released" =>
       \/ out.row = rows[e]
       \/ e = worker.hand /\ (out.row.status = "released" \/ out.bumped)
  /\ out.row.status = "none" => out.row = rows[e]
  /\ out.row.stamp \in {rows[e].stamp, r.stamp}
  /\ ~out.bumped => /\ out.row.status = rows[e].status
                    /\ out.row.content = rows[e].content
                    /\ out.row.room = rows[e].room
                    /\ out.row.stamp = rows[e].stamp
  /\ out.bumped => out.id /\ out.row.status \in {"active", "cancelled"}
  /\ out.bumped /\ r.state # "cancelled" => out.row.status = "active"

LEMMA HandledCareful ==
  ASSUME TypeOK, NEW e \in Events, NEW r \in Revision,
         NEW detached \in BOOLEAN, NEW audit \in BOOLEAN
  PROVE  Leaves(e, r, Handled(e, r, detached, audit))
<1> DEFINE out == Handler(InHand(e), e, r, detached, audit)
           left == Handled(e, r, detached, audit)
<1>1. Careful(InHand(e), r, out)
  BY HandlerCareful, HandType DEF TypeOK
<1>2. /\ out \in OutcomeType /\ left \in OutcomeType
      /\ left.id = out.id /\ left.bumped = out.bumped
      /\ out.bumped => left = out
      /\ left.row.content = out.row.content /\ left.row.room = out.row.room
      /\ left.row.stamp = out.row.stamp
      /\ ~out.bumped => left.row.status = rows[e].status
      /\ ~out.bumped /\ out.row.status = rows[e].status => left = out
  BY HandledIs
<1>3. /\ InHand(e).content = rows[e].content /\ InHand(e).room = rows[e].room
      /\ InHand(e).stamp = rows[e].stamp
      /\ rows[e].status # "released" => InHand(e) = rows[e]
      /\ rows[e].status = "released" =>
           IF e = worker.hand THEN InHand(e).status = "active"
                              ELSE InHand(e) = rows[e]
  BY HandType
<1> HIDE DEF out, left
<1>4. CASE InHand(e) = rows[e]
  <2>1. ~out.bumped => left = out
    BY <1>1, <1>2, <1>4 DEF Careful
  <2>2. left = out
    BY <1>2, <2>1 DEF OutcomeType
  <2> QED
    BY <1>1, <1>4, <2>2 DEF Careful, Leaves, left
<1>5. CASE rows[e].status = "released" /\ e = worker.hand /\ InHand(e).status = "active"
  <2>1. left.bumped => left.id /\ left.row.status \in {"active", "cancelled"}
    BY <1>1, <1>2 DEF Careful
  <2>2. ~left.bumped => left.row.status = "released"
    BY <1>2, <1>5
  <2>3. left.bumped \in BOOLEAN
    BY <1>2 DEF OutcomeType
  <2>4. left.row.stamp \in {rows[e].stamp, r.stamp}
    BY <1>1, <1>2, <1>3 DEF Careful
  <2>5. ~left.bumped => /\ left.row.status = rows[e].status
                        /\ left.row.content = rows[e].content
                        /\ left.row.room = rows[e].room
                        /\ left.row.stamp = rows[e].stamp
    BY <1>1, <1>2, <1>3 DEF Careful
  <2>6. left.bumped /\ r.state # "cancelled" => left.row.status = "active"
    BY <1>1, <1>2 DEF Careful
  <2> QED
    BY <1>5, <2>1, <2>2, <2>3, <2>4, <2>5, <2>6 DEF Leaves, left
<1> QED
  BY <1>3, <1>4, <1>5

(* The read of a client event that is older than the row leaves its date.  *)
LEMMA StaleKeepsStamp ==
  ASSUME TypeOK, NEW e \in Events, NEW r \in Revision, kind = "client",
         r.stamp < rows[e].stamp, rows[e].status # "none", r.state = "live"
  PROVE  Handled(e, r, FALSE, TRUE).row.stamp = rows[e].stamp
<1> DEFINE row == InHand(e)
<1>1. row \in Row /\ row.stamp = rows[e].stamp /\ row.status # "none"
  <2>1. rows[e].status = "released" \/ InHand(e) = rows[e]
    BY HandType
  <2>2. InHand(e).status \in {"active", rows[e].status}
    BY <2>1, HandType
  <2> QED
    BY <2>2, HandType
<1> HIDE DEF row
<1>2. Applied(row, r, TRUE).row.stamp = rows[e].stamp
  BY <1>1 DEF Applied, ReadIsStale, Skipped, Outcome
<1>3. Instance(row, r, TRUE).row.stamp = rows[e].stamp
  BY <1>1 DEF Instance, LiveInstance, ReadIsStale, Skipped, Ignored, Outcome
<1>4. Handler(row, e, r, FALSE, TRUE).row.stamp = rows[e].stamp
  BY <1>1, <1>2, <1>3 DEF Handler, ClientEvent, ForeignEvent, Ignored, Outcome
<1> QED
  BY <1>4, HandledIs DEF row

-----------------------------------------------------------------------------
(* What a handler makes of the revision it is given, when it is heard: the *)
(* calendar is not our own, and a detached occurrence has a series.        *)
Heeds(e, r, old, out) ==
  /\ old.status \in {"active", "cancelled"} => out.id
  /\ r.state = "cancelled" =>
       IF IsOccurrence(e) THEN out.row.status \in {"cancelled", "released"}
                          ELSE out.row.status # "active"
  /\ r.state = "live" =>
       \/ out.row.status = "released"
       \/ out.row.status = "active" /\ out.row.content = r.content

(* It is not older than the row, and not one the handler would not revive. *)
Revived(e, row, r) ==
  r.state = "live" /\ row.status = "cancelled"
    => \/ row.content # r.content
       \/ kind = "client" /\ ~IsOccurrence(e)

LEMMA InstanceHeeds ==
  ASSUME NEW row \in Row, NEW e \in Events, NEW r \in Revision, NEW audit \in BOOLEAN,
         r.state \in {"live", "cancelled"}, IsOccurrence(e), Revived(e, row, r),
         audit => ~ReadIsStale(row, r)
  PROVE  LET out == Instance(row, r, audit) IN Heeds(e, r, row, out)
<1>1. row \in Row
  OBVIOUS
<1> DEFINE c == ResolveConference(row, r.room)
<1> HIDE DEF c
<1>2. ASSUME r.state = "cancelled", row.status # "released"
      PROVE  LET out == CancelledInstance(row) IN Heeds(e, r, row, out)
  BY <1>1, <1>2 DEF CancelledInstance, Cancelled, Skipped, Written, Outcome, Heeds, Row
<1>3. ASSUME r.state = "live", row.status # "released"
      PROVE  LET out == LiveInstance(row, r, audit) IN Heeds(e, r, row, out)
  <2>1. CASE row.status = "none"
    BY <1>1, <1>3, <2>1 DEF LiveInstance, Inserted, Written, Outcome, Heeds
  <2>2. CASE row.status # "none" /\ (Differs(row, r) \/ c.moved)
    <3>1. LiveInstance(row, r, audit) = Written(Settled(row, r, c))
      BY <2>2 DEF LiveInstance, c
    <3> QED
      BY <1>3, <3>1 DEF Written, Settled, Outcome, Heeds
  <2>3. CASE row.status # "none" /\ ~(Differs(row, r) \/ c.moved)
    <3>1. LiveInstance(row, r, audit)
            = Skipped([row EXCEPT !.candidate = c.candidate])
      BY <2>3 DEF LiveInstance, c
    <3>2. row.status = "active" /\ row.content = r.content
      BY <1>1, <1>3, <2>3 DEF Revived, Differs, Row
    <3> QED
      BY <1>1, <1>3, <3>1, <3>2 DEF Skipped, Outcome, Heeds, Row
  <2> QED
    BY <2>1, <2>2, <2>3
<1>4. CASE row.status = "released"
  BY <1>1, <1>4 DEF Instance, Ignored, Outcome, Heeds
<1> QED
  BY <1>2, <1>3, <1>4 DEF Instance

LEMMA TopHeeds ==
  ASSUME NEW row \in Row, NEW e \in Events, NEW r \in Revision, NEW audit \in BOOLEAN,
         r.state \in {"live", "cancelled"}, ~IsOccurrence(e), Revived(e, row, r),
         audit => ~ReadIsStale(row, r), row.status # "released"
  PROVE  /\ r.state = "cancelled" =>
              LET out == TopCancelled(row) IN Heeds(e, r, row, out)
         /\ r.state = "live" /\ row.status = "none" =>
              LET out == Inserted(r) IN Heeds(e, r, row, out)
         /\ r.state = "live" /\ row.status # "none" /\ kind = "client" =>
              LET out == Applied(row, r, audit) IN Heeds(e, r, row, out)
         /\ r.state = "live" /\ row.status # "none" /\ kind # "client" =>
              LET out == Overwritten(row, r) IN Heeds(e, r, row, out)
<1>1. row \in Row
  OBVIOUS
<1> DEFINE c == ResolveConference(row, r.room)
<1> HIDE DEF c
<1>2. r.state = "cancelled" =>
        LET out == TopCancelled(row) IN Heeds(e, r, row, out)
  BY <1>1 DEF TopCancelled, Cancelled, Skipped, Ignored, Written, Outcome, Heeds, Row
<1>3. r.state = "live" /\ row.status = "none" =>
        LET out == Inserted(r) IN Heeds(e, r, row, out)
  BY <1>1 DEF Inserted, Written, Outcome, Heeds
<1>4. ASSUME r.state = "live", row.status # "none"
      PROVE  LET out == Applied(row, r, audit) IN Heeds(e, r, row, out)
  <2>1. CASE \/ Differs(row, r) \/ row.status = "cancelled" \/ c.moved
    <3>1. Applied(row, r, audit) = Written(Settled(row, r, c))
      BY <2>1 DEF Applied, c
    <3> QED
      BY <1>4, <3>1 DEF Written, Settled, Outcome, Heeds
  <2>2. CASE ~(Differs(row, r) \/ row.status = "cancelled" \/ c.moved)
    <3>1. Applied(row, r, audit)
            = Skipped([row EXCEPT !.candidate = c.candidate])
      BY <2>2 DEF Applied, c
    <3>2. row.status = "active" /\ row.content = r.content
      BY <1>1, <1>4, <2>2 DEF Differs, Row
    <3> QED
      BY <1>1, <1>4, <3>1, <3>2 DEF Skipped, Outcome, Heeds, Row
  <2> QED
    BY <2>1, <2>2
<1>5. ASSUME r.state = "live", row.status # "none", kind # "client"
      PROVE  LET out == Overwritten(row, r) IN Heeds(e, r, row, out)
  BY <1>1, <1>5 DEF Overwritten, Differs, Revived, Skipped, Written, Outcome, Heeds, Row
<1> QED
  BY <1>2, <1>3, <1>4, <1>5

LEMMA HandlerHeeds ==
  ASSUME NEW row \in Row, NEW e \in Events, NEW r \in Revision,
         NEW detached \in BOOLEAN, NEW audit \in BOOLEAN, kind \in Kinds,
         ~(ours /\ kind = "client"), r.state \in {"live", "cancelled"},
         Revived(e, row, r), audit => ~ReadIsStale(row, r),
         detached => IsOccurrence(e) /\ ~NoSeries(e)
  PROVE  LET out == Handler(row, e, r, detached, audit) IN Heeds(e, r, row, out)
<1>2. ASSUME IsOccurrence(e)
      PROVE  /\ LET out == Instance(row, r, audit) IN Heeds(e, r, row, out)
             /\ LET out == Instance(row, r, FALSE) IN Heeds(e, r, row, out)
  BY <1>2, InstanceHeeds
<1>3. ASSUME detached
      PROVE  LET out == Detached(row, e, r) IN Heeds(e, r, row, out)
  BY <1>2, <1>3 DEF Detached
<1>4. ASSUME row.status = "released"
      PROVE  LET out == Ignored(row) IN Heeds(e, r, row, out)
  BY <1>4 DEF Ignored, Outcome, Heeds
<1>5. ASSUME ~IsOccurrence(e), kind # "client"
      PROVE  LET out == PersonalTop(row, r) IN Heeds(e, r, row, out)
  BY <1>4, <1>5, TopHeeds DEF PersonalTop
<1>6. ASSUME kind = "client"
      PROVE  LET out == ClientEvent(row, e, r, detached, audit)
             IN  Heeds(e, r, row, out)
  <2>1. CASE ~IsOccurrence(e)
    BY <1>4, <1>6, <2>1, TopHeeds DEF ClientEvent, ForeignEvent
  <2>2. CASE IsOccurrence(e)
    BY <1>2, <1>3, <1>6, <2>2 DEF ClientEvent, ForeignEvent
  <2> QED
    BY <2>1, <2>2
<1>7. ASSUME kind # "client"
      PROVE  /\ LET out == PersonalEvent(row, e, r, detached) IN Heeds(e, r, row, out)
             /\ LET out == NativeEvent(row, e, r, detached) IN Heeds(e, r, row, out)
  BY <1>2, <1>3, <1>5, <1>7 DEF PersonalEvent, NativeEvent, NativeTop
<1> QED
  BY <1>6, <1>7, Kinded DEF Handler

LEMMA HandledHeeds ==
  ASSUME TypeOK, NEW e \in Events, NEW r \in Revision,
         NEW detached \in BOOLEAN, NEW audit \in BOOLEAN,
         ~(ours /\ kind = "client"), r.state \in {"live", "cancelled"},
         Revived(e, rows[e], r), audit => ~ReadIsStale(rows[e], r),
         detached => IsOccurrence(e) /\ ~NoSeries(e)
  PROVE  LET out == Handled(e, r, detached, audit) IN Heeds(e, r, rows[e], out)
<1> DEFINE row == InHand(e)
           out == Handler(row, e, r, detached, audit)
           left == Handled(e, r, detached, audit)
<1>1. /\ row \in Row /\ row.content = rows[e].content /\ row.stamp = rows[e].stamp
      /\ rows[e].status # "released" => row = rows[e]
      /\ row.status \in {"active", rows[e].status}
  <2>1. rows[e].status = "released" \/ InHand(e) = rows[e]
    BY HandType
  <2>2. InHand(e).status \in {"active", rows[e].status}
    BY <2>1, HandType
  <2> QED
    BY <2>2, HandType
<1>2. /\ left.id = out.id /\ (out.bumped => left = out)
      /\ left.row.content = out.row.content
      /\ ~out.bumped => left.row.status = rows[e].status
      /\ ~out.bumped /\ out.row.status = rows[e].status => left = out
      /\ out.bumped \in BOOLEAN
  <2>1. out \in OutcomeType
    BY HandledIs
  <2> QED
    BY <2>1, HandledIs DEF OutcomeType
<1>3. Revived(e, row, r) /\ (audit => ~ReadIsStale(row, r))
  BY <1>1 DEF Revived, ReadIsStale
<1> HIDE DEF row
<1>4. Heeds(e, r, row, out) /\ Careful(row, r, out)
  BY <1>1, <1>3, HandlerHeeds, HandlerCareful DEF TypeOK
<1> HIDE DEF out, left
<1>5. CASE rows[e].status = "released"
  <2>1. out.bumped => Heeds(e, r, rows[e], left)
    BY <1>2, <1>4, <1>5 DEF Heeds
  <2>2. ~out.bumped => Heeds(e, r, rows[e], left)
    BY <1>2, <1>5 DEF Heeds
  <2>3. QED
    BY <1>2, <2>1, <2>2 DEF left
<1>6. CASE rows[e].status # "released"
  <2>1. left = out
    BY <1>1, <1>2, <1>4, <1>6 DEF Careful
  <2> QED
    BY <1>1, <1>4, <1>6, <2>1 DEF left
<1> QED
  BY <1>5, <1>6

-----------------------------------------------------------------------------
(* Types.  Stamps grow with the edits that are spent; a row and a lagging  *)
(* replica are never ahead of the source.                                  *)
Dated ==
  /\ budget.edits <= MaxEdits
  /\ \A e \in Events :
       /\ source[e].stamp + budget.edits <= MaxEdits + 1
       /\ before[e].stamp <= source[e].stamp
       /\ rows[e].stamp <= source[e].stamp
       /\ source[e].state = "none" => source[e].stamp = 0

TypeInv == TypeOK /\ Dated

LEMMA InitType == Init => TypeInv
<1> SUFFICES ASSUME Init PROVE TypeInv
  OBVIOUS
<1>1. Unborn \in Revision /\ NoRow \in Row /\ Idle \in Worker
  BY ConstantsAssumption DEF Unborn, NoRow, Idle, Revision, Row, Worker
<1>2. source \in [Events -> Revision] /\ before \in [Events -> Revision]
      /\ rows \in [Events -> Row] /\ worker \in Worker
  BY <1>1 DEF Init
<1>3. Dated
  BY ConstantsAssumption DEF Init, Dated, Unborn, NoRow
<1> QED
  BY <1>2, <1>3, ConstantsAssumption DEF Init, TypeInv, TypeOK

(* A mishap or an edit is paid for.                                        *)
LEMMA SpendType ==
  ASSUME TypeInv, NEW fault, Spend(fault)
  PROVE  /\ budget' \in [faults : Nat, edits : Nat]
         /\ budget'.edits = budget.edits /\ budget'.faults = budget.faults - 1
  BY DEF TypeInv, TypeOK, Spend

LEMMA EditType ==
  ASSUME TypeInv, Edit
  PROVE  /\ budget' \in [faults : Nat, edits : Nat]
         /\ budget'.edits = budget.edits - 1 /\ budget.edits > 0
         /\ budget'.faults = budget.faults
  BY DEF TypeInv, TypeOK, Edit

(* A revision is read and taken in.                                        *)
LEMMA TakeInType ==
  ASSUME TypeInv, NEW e \in Events, NEW r \in Revision,
         r.stamp <= source[e].stamp,
         NEW detached \in BOOLEAN, NEW audit \in BOOLEAN,
         TakeIn(e, r, detached, audit)
  PROVE  /\ rows' \in [Events -> Row] /\ unplanned' \subseteq Events
         /\ \A x \in Events : rows'[x].stamp <= source[x].stamp
         /\ Handled(e, r, detached, audit) \in OutcomeType
         /\ Leaves(e, r, Handled(e, r, detached, audit))
         /\ rows'[e] = Handled(e, r, detached, audit).row
         /\ \A x \in Events \ {e} : rows'[x] = rows[x]
         /\ unplanned \subseteq unplanned' /\ unplanned' \subseteq unplanned \cup {e}
         /\ e \in unplanned' => e \in unplanned \/ Handled(e, r, detached, audit).bumped
         /\ Handled(e, r, detached, audit).bumped => e \in unplanned'
<1> DEFINE out == Handled(e, r, detached, audit)
<1>1. out \in OutcomeType /\ Leaves(e, r, out)
  BY HandledType, HandledCareful DEF TypeInv
<1>2. /\ rows' = [rows EXCEPT ![e] = out.row]
      /\ unplanned' = IF out.bumped THEN unplanned \cup {e} ELSE unplanned
  BY DEF TakeIn
<1> HIDE DEF out
<1>3. rows' \in [Events -> Row] /\ unplanned' \subseteq Events
  BY <1>1, <1>2 DEF TypeInv, TypeOK, OutcomeType
<1>4. rows'[e] = out.row /\ \A x \in Events \ {e} : rows'[x] = rows[x]
  BY <1>2 DEF TypeInv, TypeOK
<1>5. \A x \in Events : rows'[x].stamp <= source[x].stamp
  BY <1>1, <1>4 DEF TypeInv, Dated, Leaves
<1> QED
  BY <1>1, <1>2, <1>3, <1>4, <1>5 DEF out

(* A race shows the revision with another content, a wrong link with       *)
(* another room.                                                           *)
LEMMA OddReads ==
  ASSUME TypeInv, NEW e \in Events
  PROVE  /\ source[e] \in Revision /\ before[e] \in Revision
         /\ \A s \in OlderRead(source[e]) :
              /\ s \in Revision /\ s.stamp = source[e].stamp
              /\ s.state = source[e].state /\ s.room = source[e].room
         /\ \A room \in RoomsOf(e) :
              LET s == [source[e] EXCEPT !.room = room] IN
              /\ s \in Revision /\ s.stamp = source[e].stamp
              /\ s.state = source[e].state /\ s.content = source[e].content
              /\ s.room = room
<1>1. source[e] \in Revision /\ before[e] \in Revision
  BY DEF TypeInv, TypeOK
<1> QED
  BY <1>1 DEF Revision, OlderRead, RoomsOf

(* The steps of a pass that read.  s is the revision the handler sees.     *)
ReadsAs(e, s, detached) ==
  /\ TakeIn(e, s, detached, FALSE)
  /\ worker' = [worker EXCEPT
       !.todo = @ \ {e},
       !.affected = IF Handled(e, s, detached, FALSE).id THEN @ \cup {e} ELSE @,
       !.parents = IF IsRecurringParent(e) THEN @ \cup {e} ELSE @,
       !.hand = NULL]

LEMMA IngestEventCases ==
  ASSUME TypeInv, NEW e \in Events, IngestEvent(e)
  PROVE  /\ worker.pc = "list" /\ e \in worker.todo
         /\ worker.full \/ token # "expired"
         /\ changed' = [changed EXCEPT ![e] = {"listed"}]
         /\ UNCHANGED <<kind, cast, ours, google, token, queue>>
         /\ \/ /\ ReadsAs(e, source[e], FALSE)
               /\ missed' = missed \ {e} /\ UNCHANGED budget
            \/ /\ Spend("race") /\ source[e].state = "live"
               /\ \E s \in OlderRead(source[e]) : ReadsAs(e, s, FALSE)
               /\ missed' = missed \cup {e}
            \/ /\ Spend("link") /\ source[e].state = "live"
               /\ \E room \in RoomsOf(e) :
                    ReadsAs(e, [source[e] EXCEPT !.room = room], FALSE)
               /\ missed' = missed \ {e}
            \/ /\ Spend("detached") /\ IsOccurrence(e) /\ source[e].state = "cancelled"
               /\ ReadsAs(e, source[e], TRUE)
               /\ missed' = IF NoSeries(e) THEN missed \cup {e} ELSE missed \ {e}
            \/ /\ Spend("poison") /\ UNCHANGED <<rows, unplanned>>
               /\ worker' = [worker EXCEPT
                    !.todo = @ \ {e},
                    !.parents = IF IsRecurringParent(e) THEN @ \cup {e} ELSE @,
                    !.hand = NULL]
               /\ missed' = missed \cup {e}
<1>1. Ignored(rows[e]).id = FALSE
  BY DEF Ignored, Outcome
<1>2. ASSUME worker' = [worker EXCEPT
               !.todo = @ \ {e},
               !.affected = IF Ignored(rows[e]).id THEN @ \cup {e} ELSE @,
               !.parents = IF IsRecurringParent(e) THEN @ \cup {e} ELSE @,
               !.hand = NULL]
      PROVE  worker' = [worker EXCEPT
               !.todo = @ \ {e},
               !.parents = IF IsRecurringParent(e) THEN @ \cup {e} ELSE @,
               !.hand = NULL]
  BY <1>1, <1>2 DEF TypeInv, TypeOK, Worker
<1> QED
  BY <1>2 DEF IngestEvent, ReadsAs

(* What reading the events S does, in whatever listing: the other rows     *)
(* stay, a row that is read moves on, and the pass is told of its version. *)
Moves(e) ==
  /\ rows'[e].stamp >= rows[e].stamp /\ rows'[e].stamp <= source[e].stamp
  /\ rows[e].status = "released" =>
       \/ rows'[e] = rows[e]
       \/ e = worker.hand /\ (rows'[e].status = "released" \/ e \in unplanned')
  /\ rows'[e].status = "none" => rows'[e] = rows[e]
  /\ rows[e].status \in {"active", "cancelled"}
       => rows'[e].status \in {"active", "cancelled"}
  /\ e \in unplanned' \ unplanned
       => e \in worker'.affected /\ rows'[e].status \in {"active", "cancelled"}
  /\ source[e].state # "cancelled" /\ rows'[e].status = "cancelled"
       => rows[e].status = "cancelled" /\ rows'[e].content = rows[e].content
  /\ ours => rows'[e] = rows[e] /\ e \notin unplanned' \ unplanned

RowsRead(S) ==
  /\ rows' \in [Events -> Row] /\ unplanned' \subseteq Events
  /\ worker' \in Worker
  /\ \A x \in Events \ S : rows'[x] = rows[x]
  /\ \A x \in S : Moves(x)
  /\ unplanned \subseteq unplanned' /\ unplanned' \subseteq unplanned \cup S

(* The row is what was read, or the event counts as misread.               *)
RowSettles(e) ==
  /\ source[e].state = "cancelled" =>
       IF IsOccurrence(e) THEN rows'[e].status \in {"cancelled", "released"}
                          ELSE rows'[e].status # "active"
  /\ source[e].state = "live" =>
       \/ rows'[e].status = "released"
       \/ rows'[e].status = "active" /\ rows'[e].content = source[e].content

Echoless == ours => kind = "client" /\ \A e \in Events : rows[e].status = "none"

Taken(e) == source[e].state = "live" => Revived(e, rows[e], source[e])

LEMMA OursIgnored ==
  ASSUME TypeInv, Echoless, ours, NEW e \in Events, NEW r \in Revision,
         NEW detached \in BOOLEAN, NEW audit \in BOOLEAN
  PROVE  Handled(e, r, detached, audit) = Ignored(rows[e])
<1>1. rows[e].status = "none" /\ kind = "client" /\ rows[e] \in Row
  BY DEF Echoless, TypeInv, TypeOK
<1>2. InHand(e) = rows[e]
  BY <1>1, HandType DEF TypeInv
<1>3. Handler(InHand(e), e, r, detached, audit) = Ignored(rows[e])
  BY <1>1, <1>2 DEF Handler, ClientEvent
<1>4. ~Ignored(rows[e]).bumped /\ Ignored(rows[e]).row.status = rows[e].status
  BY DEF Ignored, Outcome
<1> QED
  BY <1>3, <1>4, HandledIs DEF TypeInv

LEMMA ReadsAsFacts ==
  ASSUME TypeInv, Echoless, NEW e \in Events, NEW s \in Revision,
         NEW detached \in BOOLEAN, ReadsAs(e, s, detached),
         s.stamp = source[e].stamp, s.state = source[e].state
  PROVE  /\ RowsRead({e})
         /\ worker'.affected \subseteq worker.affected \cup {e}
         /\ worker.affected \subseteq worker'.affected
         /\ worker'.todo = worker.todo \ {e}
         /\ worker'.parents = IF IsRecurringParent(e) THEN worker.parents \cup {e}
                                                      ELSE worker.parents
         /\ UNCHANGED <<worker.pc, worker.full, worker.held>>
         /\ ( /\ ~ours /\ source[e].state # "none" /\ Taken(e)
              /\ s.content = source[e].content
              /\ detached => IsOccurrence(e) /\ ~NoSeries(e) )
            => /\ RowSettles(e)
               /\ rows[e].status \in {"active", "cancelled"} => e \in worker'.affected
<1> DEFINE out == Handled(e, s, detached, FALSE)
<1>1. /\ rows' \in [Events -> Row] /\ unplanned' \subseteq Events
      /\ \A x \in Events : rows'[x].stamp <= source[x].stamp
      /\ out \in OutcomeType /\ Leaves(e, s, out)
      /\ rows'[e] = out.row
      /\ \A x \in Events \ {e} : rows'[x] = rows[x]
      /\ unplanned \subseteq unplanned' /\ unplanned' \subseteq unplanned \cup {e}
      /\ e \in unplanned' => e \in unplanned \/ out.bumped
      /\ out.bumped => e \in unplanned'
  <2>1. s.stamp <= source[e].stamp
    BY DEF Revision
  <2>2. TakeIn(e, s, detached, FALSE)
    BY DEF ReadsAs
  <2> QED
    BY <2>1, <2>2, TakeInType
<1>2. ours => out = Ignored(rows[e])
  BY OursIgnored
<1>3. ( /\ ~ours /\ source[e].state # "none" /\ Taken(e)
        /\ s.content = source[e].content
        /\ detached => IsOccurrence(e) /\ ~NoSeries(e) )
      => Heeds(e, s, rows[e], out)
  <2> SUFFICES ASSUME ~ours, source[e].state # "none", Taken(e),
                      s.content = source[e].content,
                      detached => IsOccurrence(e) /\ ~NoSeries(e)
               PROVE  Heeds(e, s, rows[e], out)
    OBVIOUS
  <2>1. s.state \in {"live", "cancelled"}
    BY DEF Revision
  <2>2. Revived(e, rows[e], s)
    BY <2>1 DEF Taken, Revived
  <2> QED
    BY <2>1, <2>2, HandledHeeds DEF TypeInv
<1>4. worker' = [worker EXCEPT
       !.todo = @ \ {e},
       !.affected = IF out.id THEN @ \cup {e} ELSE @,
       !.parents = IF IsRecurringParent(e) THEN @ \cup {e} ELSE @,
       !.hand = NULL]
  BY DEF ReadsAs
<1> HIDE DEF out
<1>5. worker \in Worker /\ rows[e] \in Row
  BY DEF TypeInv, TypeOK
<1>6. /\ worker'.affected = IF out.id THEN worker.affected \cup {e} ELSE worker.affected
      /\ worker'.todo = worker.todo \ {e}
      /\ worker'.parents = IF IsRecurringParent(e) THEN worker.parents \cup {e}
                                                   ELSE worker.parents
      /\ UNCHANGED <<worker.pc, worker.full, worker.held>>
      /\ worker' \in Worker
  BY <1>4, <1>5 DEF Worker
<1>7. rows'[e].stamp >= rows[e].stamp
  BY <1>1, <1>5 DEF Leaves, TypeInv, TypeOK, Dated, Row, Revision
<1>8. ours => rows'[e] = rows[e] /\ e \notin unplanned' \ unplanned
  BY <1>1, <1>2 DEF Ignored, Outcome
<1>9. RowsRead({e})
  <2>1. Moves(e)
    BY <1>1, <1>5, <1>6, <1>7, <1>8 DEF Moves, Leaves, OutcomeType
  <2> QED
    BY <1>1, <1>6, <2>1 DEF RowsRead
<1>10. Heeds(e, s, rows[e], out) /\ s.content = source[e].content
       => RowSettles(e)
  BY <1>1 DEF Heeds, RowSettles
<1>11. Heeds(e, s, rows[e], out) /\ rows[e].status \in {"active", "cancelled"}
       => e \in worker'.affected
  <2>1. Heeds(e, s, rows[e], out) /\ rows[e].status \in {"active", "cancelled"}
        => out.id
    BY DEF Heeds
  <2> QED
    BY <1>6, <2>1
<1> QED
  BY <1>3, <1>6, <1>8, <1>9, <1>10, <1>11

(* One event of a listing.                                                 *)
LEMMA IngestEventFacts ==
  ASSUME TypeInv, Echoless, NEW e \in Events, source[e].state # "none",
         Taken(e), IngestEvent(e)
  PROVE  /\ RowsRead({e})
         /\ budget' \in [faults : Nat, edits : Nat] /\ budget'.edits = budget.edits
         /\ missed' \subseteq Events /\ missed' \ {e} = missed \ {e}
         /\ worker'.affected \subseteq worker.affected \cup {e}
         /\ worker.affected \subseteq worker'.affected
         /\ worker'.todo = worker.todo \ {e}
         /\ worker'.parents = IF IsRecurringParent(e) THEN worker.parents \cup {e}
                                                      ELSE worker.parents
         /\ UNCHANGED <<worker.pc, worker.full, worker.held>>
         /\ ~ours =>
              \/ e \in missed'
              \/ /\ RowSettles(e)
                 /\ rows[e].status \in {"active", "cancelled"} => e \in worker'.affected
<1>0. source[e] \in Revision /\ e \in Events /\ missed \subseteq Events
  BY DEF TypeInv, TypeOK
<1>1. CASE ReadsAs(e, source[e], FALSE) /\ missed' = missed \ {e} /\ UNCHANGED budget
  <2>1. budget' \in [faults : Nat, edits : Nat] /\ budget'.edits = budget.edits
    BY <1>1 DEF TypeInv, TypeOK
  <2> QED
    BY <1>0, <1>1, <2>1, ReadsAsFacts
<1>2. CASE /\ Spend("race")
           /\ \E s \in OlderRead(source[e]) : ReadsAs(e, s, FALSE)
           /\ missed' = missed \cup {e}
  <2>1. PICK s \in OlderRead(source[e]) : ReadsAs(e, s, FALSE)
    BY <1>2
  <2>2. s \in Revision /\ s.stamp = source[e].stamp /\ s.state = source[e].state
    BY OddReads
  <2>3. RowsRead({e})
        /\ worker'.affected \subseteq worker.affected \cup {e}
        /\ worker.affected \subseteq worker'.affected
        /\ worker'.todo = worker.todo \ {e}
        /\ worker'.parents = (IF IsRecurringParent(e) THEN worker.parents \cup {e}
                                                      ELSE worker.parents)
        /\ UNCHANGED <<worker.pc, worker.full, worker.held>>
    BY <2>1, <2>2, ReadsAsFacts
  <2> QED
    BY <1>0, <1>2, <2>3, SpendType
<1>3. CASE /\ Spend("link")
           /\ \E room \in RoomsOf(e) :
                ReadsAs(e, [source[e] EXCEPT !.room = room], FALSE)
           /\ missed' = missed \ {e}
  <2>1. PICK room \in RoomsOf(e) :
          ReadsAs(e, [source[e] EXCEPT !.room = room], FALSE)
    BY <1>3
  <2> DEFINE s == [source[e] EXCEPT !.room = room]
  <2>2. s \in Revision /\ s.stamp = source[e].stamp /\ s.state = source[e].state
        /\ s.content = source[e].content
    BY OddReads
  <2>3. ReadsAs(e, s, FALSE)
    BY <2>1
  <2> HIDE DEF s
  <2> QED
    BY <1>0, <1>3, <2>2, <2>3, ReadsAsFacts, SpendType
<1>4. CASE /\ Spend("detached") /\ IsOccurrence(e)
           /\ ReadsAs(e, source[e], TRUE)
           /\ missed' = IF NoSeries(e) THEN missed \cup {e} ELSE missed \ {e}
  BY <1>0, <1>4, ReadsAsFacts, SpendType
<1>5. CASE /\ Spend("poison") /\ UNCHANGED <<rows, unplanned>>
           /\ worker' = [worker EXCEPT
                !.todo = @ \ {e},
                !.parents = IF IsRecurringParent(e) THEN @ \cup {e} ELSE @,
                !.hand = NULL]
           /\ missed' = missed \cup {e}
  <2>1. worker \in Worker /\ rows \in [Events -> Row] /\ unplanned \subseteq Events
        /\ rows[e] \in Row
    BY DEF TypeInv, TypeOK
  <2>2. /\ worker'.affected = worker.affected
        /\ worker'.todo = worker.todo \ {e}
        /\ worker'.parents = IF IsRecurringParent(e) THEN worker.parents \cup {e}
                                                     ELSE worker.parents
        /\ UNCHANGED <<worker.pc, worker.full, worker.held>>
        /\ worker' \in Worker
    BY <1>5, <2>1 DEF Worker
  <2>3. Moves(e)
    BY <1>5, <2>1 DEF Moves, TypeInv, Dated, Row
  <2>4. RowsRead({e})
    BY <1>5, <2>1, <2>2, <2>3 DEF RowsRead
  <2> QED
    BY <1>0, <1>5, <2>2, <2>4, SpendType
<1> QED
  BY <1>1, <1>2, <1>3, <1>4, <1>5, IngestEventCases

(* One event of the audit's window.                                        *)
AuditReads(e, r) ==
  /\ TakeIn(e, r, FALSE, TRUE)
  /\ worker' = [worker EXCEPT
       !.todo = @ \ {e}, !.hand = NULL,
       !.affected = IF Handled(e, r, FALSE, TRUE).bumped THEN @ \cup {e} ELSE @]

LEMMA AuditReadsFacts ==
  ASSUME TypeInv, Echoless, kind = "client", NEW e \in Events, NEW r \in Revision,
         rows[e].status = "none" => rows[e] = NoRow,
         AuditReads(e, r), r.stamp <= source[e].stamp, r.state = "live"
  PROVE  /\ RowsRead({e})
         /\ worker'.affected \subseteq worker.affected \cup {e}
         /\ worker.affected \subseteq worker'.affected
         /\ UNCHANGED <<worker.pc, worker.full, worker.held>>
         /\ \/ e \in worker'.affected
            \/ /\ rows'[e].status = rows[e].status
               /\ rows'[e].content = rows[e].content
         /\ ~ours /\ r = source[e] /\ Taken(e) => RowSettles(e)
<1> DEFINE out == Handled(e, r, FALSE, TRUE)
<1>1. /\ rows' \in [Events -> Row] /\ unplanned' \subseteq Events
      /\ \A x \in Events : rows'[x].stamp <= source[x].stamp
      /\ out \in OutcomeType /\ Leaves(e, r, out)
      /\ rows'[e] = out.row
      /\ \A x \in Events \ {e} : rows'[x] = rows[x]
      /\ unplanned \subseteq unplanned' /\ unplanned' \subseteq unplanned \cup {e}
      /\ e \in unplanned' => e \in unplanned \/ out.bumped
      /\ out.bumped => e \in unplanned'
  BY TakeInType DEF AuditReads
<1>2. ours => out = Ignored(rows[e])
  BY OursIgnored
<1>3. ~ours /\ r = source[e] /\ Taken(e) => Heeds(e, r, rows[e], out)
  <2> SUFFICES ASSUME ~ours, r = source[e], Taken(e) PROVE Heeds(e, r, rows[e], out)
    OBVIOUS
  <2>1. ~ReadIsStale(rows[e], r)
    BY DEF ReadIsStale, TypeInv, TypeOK, Dated, Row, Revision
  <2> QED
    BY <2>1, HandledHeeds DEF TypeInv, Taken
<1>4. rows[e].status # "none" /\ r.stamp < rows[e].stamp
        => out.row.stamp = rows[e].stamp
  BY StaleKeepsStamp DEF TypeInv
<1>5. worker' = [worker EXCEPT
       !.todo = @ \ {e}, !.hand = NULL,
       !.affected = IF out.bumped THEN @ \cup {e} ELSE @]
  BY DEF AuditReads
<1> HIDE DEF out
<1>6. worker \in Worker /\ rows[e] \in Row
  BY DEF TypeInv, TypeOK
<1>7. /\ worker'.affected = IF out.bumped THEN worker.affected \cup {e}
                                          ELSE worker.affected
      /\ UNCHANGED <<worker.pc, worker.full, worker.held>>
      /\ worker' \in Worker
  BY <1>5, <1>6 DEF Worker
<1>8. rows'[e].stamp >= rows[e].stamp
  BY <1>1, <1>4, <1>6 DEF Leaves, TypeInv, TypeOK, Row, Revision, NoRow
<1>9. ours => rows'[e] = rows[e] /\ e \notin unplanned' \ unplanned
  BY <1>1, <1>2 DEF Ignored, Outcome
<1>10. RowsRead({e})
  <2>1. Moves(e)
    BY <1>1, <1>6, <1>7, <1>8, <1>9 DEF Moves, Leaves, OutcomeType
  <2> QED
    BY <1>1, <1>7, <2>1 DEF RowsRead
<1>11. \/ e \in worker'.affected
       \/ /\ rows'[e].status = rows[e].status
          /\ rows'[e].content = rows[e].content
  BY <1>1, <1>7 DEF Leaves
<1>12. Heeds(e, r, rows[e], out) /\ r = source[e] => RowSettles(e)
  BY <1>1 DEF Heeds, RowSettles
<1> QED
  BY <1>3, <1>7, <1>10, <1>11, <1>12

LEMMA AuditEventFacts ==
  ASSUME TypeInv, Echoless, kind = "client", NEW e \in Events, Taken(e),
         rows[e].status = "none" => rows[e] = NoRow, AuditEvent(e)
  PROVE  /\ RowsRead({e})
         /\ budget' \in [faults : Nat, edits : Nat] /\ budget'.edits = budget.edits
         /\ missed' \subseteq Events /\ missed' \ {e} = missed \ {e}
         /\ worker'.affected \subseteq worker.affected \cup {e}
         /\ worker.affected \subseteq worker'.affected
         /\ UNCHANGED <<worker.pc, worker.full, worker.held>>
         /\ \/ e \in missed'
            \/ /\ rows'[e].status = rows[e].status
               /\ rows'[e].content = rows[e].content /\ missed' = missed
            \/ /\ source[e].state = "live" /\ ~ours => RowSettles(e)
               /\ source[e].state = "live"
               /\ \/ missed' = missed
                  \/ e \notin unplanned' \/ e \in worker'.affected
<1>0. /\ source[e] \in Revision /\ before[e] \in Revision /\ missed \subseteq Events
      /\ source[e].stamp <= source[e].stamp /\ before[e].stamp <= source[e].stamp
  BY DEF TypeInv, TypeOK, Dated, Revision
<1>1. CASE /\ source[e].state = "live"
           /\ AuditReads(e, source[e]) /\ UNCHANGED budget
           /\ missed' = IF e \in unplanned' \ worker'.affected THEN missed
                                                              ELSE missed \ {e}
  <2>1. budget' \in [faults : Nat, edits : Nat] /\ budget'.edits = budget.edits
    BY <1>1 DEF TypeInv, TypeOK
  <2>2. /\ RowsRead({e})
        /\ worker'.affected \subseteq worker.affected \cup {e}
        /\ worker.affected \subseteq worker'.affected
        /\ UNCHANGED <<worker.pc, worker.full, worker.held>>
        /\ ~ours => RowSettles(e)
    BY <1>0, <1>1, AuditReadsFacts
  <2> QED
    BY <1>0, <1>1, <2>1, <2>2
<1>2. CASE /\ worker' = [worker EXCEPT !.todo = @ \ {e}, !.hand = NULL]
           /\ UNCHANGED <<rows, unplanned, missed, budget>>
  <2>1. worker \in Worker /\ rows \in [Events -> Row] /\ unplanned \subseteq Events
        /\ rows[e] \in Row
    BY DEF TypeInv, TypeOK
  <2>2. /\ worker'.affected = worker.affected
        /\ UNCHANGED <<worker.pc, worker.full, worker.held>>
        /\ worker' \in Worker
    BY <1>2, <2>1 DEF Worker
  <2>3. Moves(e)
    BY <1>2, <2>1 DEF Moves, TypeInv, Dated, Row
  <2>4. RowsRead({e})
    BY <1>2, <2>1, <2>2, <2>3 DEF RowsRead
  <2>5. budget' \in [faults : Nat, edits : Nat] /\ budget'.edits = budget.edits
    BY <1>2 DEF TypeInv, TypeOK
  <2> QED
    BY <1>0, <1>2, <2>2, <2>4, <2>5
<1>3. CASE /\ Spend("stale") /\ before[e].state = "live"
           /\ AuditReads(e, before[e])
           /\ missed' = IF e \in worker'.affected THEN missed \cup {e} ELSE missed
  <2>1. /\ RowsRead({e})
        /\ worker'.affected \subseteq worker.affected \cup {e}
        /\ worker.affected \subseteq worker'.affected
        /\ UNCHANGED <<worker.pc, worker.full, worker.held>>
        /\ \/ e \in worker'.affected
           \/ /\ rows'[e].status = rows[e].status
              /\ rows'[e].content = rows[e].content
    BY <1>0, <1>3, AuditReadsFacts
  <2>2. budget' \in [faults : Nat, edits : Nat] /\ budget'.edits = budget.edits
    BY <1>3, SpendType
  <2> QED
    BY <1>0, <1>3, <2>1, <2>2
<1> QED
  BY <1>1, <1>2, <1>3, Zenon DEF AuditEvent, AuditReads

(* The occurrences of one series that a full listing left out.             *)
Lost(s) == {o \in OccurrencesOf(s) : source[o].state = "cancelled"}

Scans(s) ==
  LET out(o) == Handled(o, source[o], FALSE, FALSE) IN
  /\ rows' = [e \in Events |-> IF e \in Lost(s) THEN out(e).row ELSE rows[e]]
  /\ unplanned' = unplanned \cup {o \in Lost(s) : out(o).bumped}
  /\ worker' = [worker EXCEPT
       !.affected = @ \cup {o \in Lost(s) : out(o).id},
       !.parents = @ \ {s}, !.hand = NULL,
       !.pc = IF worker.parents = {s} THEN "record" ELSE @]

LEMMA ScanCases ==
  ASSUME TypeInv, NEW s \in Events, ScanInstances(s)
  PROVE  /\ worker.pc = "scan" /\ s \in worker.parents
         /\ UNCHANGED <<kind, cast, ours, google, token, queue>>
         /\ \/ /\ Scans(s) /\ UNCHANGED budget
               /\ missed' = missed \ Lost(s)
               /\ changed' = [e \in Events |->
                    IF e \in Lost(s) THEN {"listed"} ELSE changed[e]]
            \/ /\ Spend("scan")
               /\ worker' = [worker EXCEPT !.held = TRUE, !.parents = @ \ {s}, !.hand = NULL,
                    !.pc = IF worker.parents = {s} THEN "record" ELSE @]
               /\ UNCHANGED <<rows, unplanned, missed, changed>>
<1>1. worker \in Worker
  BY DEF TypeInv, TypeOK
<1> DEFINE out(o) == Handled(o, source[o], FALSE, FALSE)
           more == {o \in Lost(s) : out(o).id}
           w1 == [worker EXCEPT !.affected = @ \cup more]
           w2 == [worker EXCEPT !.held = TRUE]
<1> HIDE DEF out
<1>2. [w1 EXCEPT !.parents = @ \ {s}, !.hand = NULL, !.pc = IF w1.parents = {s} THEN "record" ELSE @]
      = [worker EXCEPT !.affected = @ \cup more, !.parents = @ \ {s}, !.hand = NULL,
                       !.pc = IF worker.parents = {s} THEN "record" ELSE @]
  <2> HIDE DEF more
  <2> QED
    BY <1>1 DEF Worker
<1>3. [w2 EXCEPT !.parents = @ \ {s}, !.hand = NULL, !.pc = IF w2.parents = {s} THEN "record" ELSE @]
      = [worker EXCEPT !.held = TRUE, !.parents = @ \ {s}, !.hand = NULL,
                       !.pc = IF worker.parents = {s} THEN "record" ELSE @]
  BY <1>1 DEF Worker
<1> QED
  BY <1>2, <1>3 DEF ScanInstances, Scans, Lost, out

LEMMA ScanFacts ==
  ASSUME TypeInv, Echoless, NEW s \in Events, Scans(s)
  PROVE  /\ RowsRead(Lost(s))
         /\ worker'.affected \subseteq worker.affected \cup Lost(s)
         /\ worker.affected \subseteq worker'.affected
         /\ worker'.parents = worker.parents \ {s}
         /\ worker'.pc = (IF worker.parents = {s} THEN "record" ELSE worker.pc)
         /\ UNCHANGED <<worker.full, worker.held, worker.todo>>
         /\ \A o \in Lost(s) :
              /\ ~ours => RowSettles(o)
              /\ ~ours /\ rows[o].status \in {"active", "cancelled"}
                   => o \in worker'.affected
<1> DEFINE out(o) == Handled(o, source[o], FALSE, FALSE)
           more == {o \in Lost(s) : out(o).id}
<1>1. ASSUME NEW o \in Lost(s)
      PROVE  /\ out(o) \in OutcomeType /\ Leaves(o, source[o], out(o))
             /\ ours => out(o) = Ignored(rows[o])
             /\ ~ours => Heeds(o, source[o], rows[o], out(o))
             /\ o \in Events /\ source[o].state = "cancelled"
             /\ rows[o] \in Row /\ source[o] \in Revision
  <2>1. o \in Events /\ source[o].state = "cancelled"
        /\ rows[o] \in Row /\ source[o] \in Revision
    BY DEF Lost, OccurrencesOf, TypeInv, TypeOK
  <2>2. ours => out(o) = Ignored(rows[o])
    BY <2>1, OursIgnored
  <2>3. Revived(o, rows[o], source[o])
    BY <2>1 DEF Revived
  <2> QED
    BY <2>1, <2>2, <2>3, HandledType, HandledCareful, HandledHeeds DEF TypeInv
<1> HIDE DEF out
<1>2. /\ rows' = [e \in Events |-> IF e \in Lost(s) THEN out(e).row ELSE rows[e]]
      /\ unplanned' = unplanned \cup {o \in Lost(s) : out(o).bumped}
      /\ worker' = [worker EXCEPT
           !.affected = @ \cup more,
           !.parents = @ \ {s}, !.hand = NULL,
           !.pc = IF worker.parents = {s} THEN "record" ELSE @]
  BY DEF Scans, out
<1>3. worker \in Worker /\ rows \in [Events -> Row] /\ unplanned \subseteq Events
      /\ Lost(s) \subseteq Events /\ more \subseteq Events
  BY DEF TypeInv, TypeOK, Lost, OccurrencesOf
<1>4. rows' \in [Events -> Row] /\ unplanned' \subseteq Events
      /\ \A e \in Events : rows'[e] = IF e \in Lost(s) THEN out(e).row ELSE rows[e]
  BY <1>1, <1>2, <1>3 DEF OutcomeType
<1>5. /\ worker'.affected = worker.affected \cup more
      /\ worker'.parents = worker.parents \ {s}
      /\ worker'.pc = (IF worker.parents = {s} THEN "record" ELSE worker.pc)
      /\ UNCHANGED <<worker.full, worker.held, worker.todo>>
      /\ worker' \in Worker
  <2> HIDE DEF more
  <2> QED
    BY <1>2, <1>3 DEF Worker
<1>6. ASSUME NEW o \in Lost(s)
      PROVE  /\ Moves(o)
             /\ ~ours => RowSettles(o)
             /\ ~ours /\ rows[o].status \in {"active", "cancelled"}
                  => o \in worker'.affected
  <2>1. rows'[o] = out(o).row
    BY <1>4, <1>1
  <2>2. /\ o \in unplanned' \ unplanned => out(o).bumped
        /\ out(o).bumped => o \in unplanned'
    BY <1>2
  <2>3. out(o).id => o \in worker'.affected
    BY <1>5
  <2>4. ours => rows'[o] = rows[o] /\ o \notin unplanned' \ unplanned
    BY <1>1, <2>1, <2>2 DEF Ignored, Outcome
  <2>5. rows'[o].stamp >= rows[o].stamp /\ rows'[o].stamp <= source[o].stamp
    BY <1>1, <2>1 DEF Leaves, TypeInv, Dated, Row, Revision
  <2>6. Moves(o)
    BY <1>1, <2>1, <2>2, <2>3, <2>4, <2>5 DEF Moves, Leaves, OutcomeType
  <2>7. ~ours => RowSettles(o)
    BY <1>1, <2>1 DEF Heeds, RowSettles
  <2>8. ~ours /\ rows[o].status \in {"active", "cancelled"} => out(o).id
    BY <1>1 DEF Heeds
  <2> QED
    BY <2>3, <2>6, <2>7, <2>8
<1>7. RowsRead(Lost(s))
  <2>1. \A o \in Lost(s) : Moves(o)
    BY <1>6
  <2>2. unplanned \subseteq unplanned' /\ unplanned' \subseteq unplanned \cup Lost(s)
    BY <1>2
  <2>3. \A x \in Events \ Lost(s) : rows'[x] = rows[x]
    BY <1>4
  <2> QED
    BY <1>4, <1>5, <2>1, <2>2, <2>3, Zenon DEF RowsRead
<1>8. \A o \in Lost(s) :
        /\ ~ours => RowSettles(o)
        /\ ~ours /\ rows[o].status \in {"active", "cancelled"}
             => o \in worker'.affected
  BY <1>6, Zenon
<1> QED
  BY <1>5, <1>7, <1>8, <1>3

-----------------------------------------------------------------------------
(* The invariant's base.  What is not there has left no trace anywhere.    *)
Born ==
  \A e \in Events :
    /\ rows[e].status = "none" => rows[e] = NoRow
    /\ source[e].state = "none" =>
         /\ before[e].state # "live" /\ rows[e].status = "none"
         /\ changed[e] = {} /\ e \notin worker.todo
    /\ source[e].state # "none" /\ IsOccurrence(e)
         => source[SeriesOf[e]].state # "none"

(* The locals of a pass, at each of its steps.                             *)
Reading == worker.pc \in {"list", "scan", "record", "token"}

InStep ==
  /\ worker.pc \in {"idle", "plan"} => worker.affected = {}
  /\ worker.pc = "audit" => kind = "client"
  /\ worker.pc = "scan" => worker.full
  /\ Reading /\ worker.full => token # "good"
  /\ Reading /\ ~worker.full =>
       \A e \in worker.affected \cup worker.todo : changed[e] # {}
  /\ worker.pc \in {"scan", "record", "token"} => worker.todo = {}
  /\ worker.pc \in {"record", "token"} /\ worker.full => worker.parents = {}
  /\ worker.pc = "token" => worker.affected \subseteq queue

(* No event waits to be taken back by a handler that would not do it.      *)
Revivable ==
  \A e \in Events :
    source[e].state = "live" /\ rows[e].status = "cancelled"
      => \/ rows[e].content # source[e].content
         \/ <<kind, e>> \in RestoredAsWas

Base == TypeInv /\ Born /\ Echoless /\ InStep /\ Revivable

LEMMA InitBase == Init => Base
<1> SUFFICES ASSUME Init PROVE Base
  OBVIOUS
<1>1. TypeInv
  BY InitType
<1>2. Born
  BY DEF Init, Born, Unborn, NoRow, Idle
<1>3. Echoless
  BY DEF Init, Echoless, NoRow
<1>4. InStep
  BY DEF Init, InStep, Reading, Idle
<1>5. Revivable
  BY DEF Init, Revivable, Unborn
<1> QED
  BY <1>1, <1>2, <1>3, <1>4, <1>5 DEF Base

(* A series has no series, and an occurrence is one of its series'.        *)
LEMMA SeriesFacts ==
  ASSUME NEW e \in Events
  PROVE  /\ IsOccurrence(e) => /\ SeriesOf[e] \in Events /\ e # SeriesOf[e]
                               /\ ~IsOccurrence(SeriesOf[e])
                               /\ e \in OccurrencesOf(SeriesOf[e])
         /\ \A o \in OccurrencesOf(e) : /\ o \in Events /\ IsOccurrence(o)
                                        /\ SeriesOf[o] = e /\ o # e
         /\ IsOccurrence(e) => OccurrencesOf(e) = {}
  BY ConstantsAssumption DEF IsOccurrence, OccurrencesOf

LEMMA TakenFromRevivable ==
  ASSUME Base, NEW e \in Events
  PROVE  Taken(e)
<1>1. <<kind, e>> \in RestoredAsWas => kind = "client" /\ ~IsOccurrence(e)
  <2>1. RestoredAsWas \subseteq {"client"} \X {x \in Events : SeriesOf[x] = NULL}
    BY ConstantsAssumption
  <2> QED
    BY <2>1 DEF IsOccurrence
<1> QED
  BY <1>1 DEF Base, Revivable, Taken, Revived

(* Steps that read leave the base but for their own locals.                *)
LEMMA ReadKeepsBase ==
  ASSUME Base, NEW S, S \subseteq Events, RowsRead(S),
         \A e \in S : source[e].state # "none",
         UNCHANGED <<kind, cast, ours, google, token, queue>>,
         changed' \in [Events -> SUBSET {"listed", "new"}],
         \A e \in Events : source[e].state = "none" => changed'[e] = {},
         worker'.todo \subseteq worker.todo, missed' \subseteq Events,
         budget' \in [faults : Nat, edits : Nat], budget'.edits = budget.edits,
         InStep'
  PROVE  Base'
<1>1. TypeOK'
  BY DEF Base, TypeInv, TypeOK, RowsRead, google
<1>2. ASSUME NEW e \in Events PROVE e \in S => Moves(e)
  BY DEF RowsRead
<1>3. ASSUME NEW e \in Events, e \notin S PROVE rows'[e] = rows[e]
  BY <1>3 DEF RowsRead
<1>4. Dated'
  BY <1>2, <1>3 DEF Base, TypeInv, Dated, Moves, google
<1>5. Born'
  <2> SUFFICES ASSUME NEW e \in Events
               PROVE  /\ rows'[e].status = "none" => rows'[e] = NoRow
                      /\ source[e].state = "none" =>
                           /\ before[e].state # "live" /\ rows'[e].status = "none"
                           /\ changed'[e] = {} /\ e \notin worker'.todo
                      /\ source[e].state # "none" /\ IsOccurrence(e)
                           => source[SeriesOf[e]].state # "none"
    BY Zenon DEF Born, google, IsOccurrence, NoRow
  <2>1. rows'[e].status = "none" => rows'[e] = rows[e] /\ rows[e] = NoRow
    BY <1>2, <1>3 DEF Base, Born, Moves
  <2>2. source[e].state = "none" => rows[e].status = "none" /\ rows[e] = NoRow
    BY DEF Base, Born
  <2>3. source[e].state = "none" => rows'[e].status = "none"
    BY <2>2, <1>3
  <2> QED
    BY <2>1, <2>3 DEF Base, Born
<1>6. Echoless'
  BY <1>2, <1>3 DEF Base, Echoless, Moves
<1>7. Revivable'
  BY <1>2, <1>3 DEF Base, Revivable, Moves, google
<1> QED
  BY <1>1, <1>4, <1>5, <1>6, <1>7 DEF Base, TypeInv

(* So do steps that touch neither rows nor the source.                     *)
LEMMA QuietBase ==
  ASSUME Base, UNCHANGED <<kind, cast, ours, google, rows>>,
         changed' \in [Events -> SUBSET {"listed", "new"}],
         \A e \in Events : source[e].state = "none" => changed'[e] = {},
         worker' \in Worker,
         \A e \in Events : source[e].state = "none" => e \notin worker'.todo,
         token' \in {NULL, "good", "expired"},
         queue' \subseteq Events, unplanned' \subseteq Events, missed' \subseteq Events,
         budget' \in [faults : Nat, edits : Nat], budget'.edits = budget.edits,
         InStep'
  PROVE  Base'
<1>1. TypeOK'
  BY DEF Base, TypeInv, TypeOK, google
<1>2. Dated' /\ Echoless' /\ Revivable'
  BY DEF Base, TypeInv, Dated, Echoless, Revivable, google
<1>3. Born'
  BY DEF Base, Born, google, NoRow, IsOccurrence
<1> QED
  BY <1>1, <1>2, <1>3 DEF Base, TypeInv

LEMMA IngestEventBase ==
  ASSUME Base, NEW e \in Events, IngestEvent(e)
  PROVE  Base'
<1>1. /\ worker.pc = "list" /\ e \in worker.todo
      /\ worker.full \/ token # "expired"
      /\ changed' = [changed EXCEPT ![e] = {"listed"}]
      /\ UNCHANGED <<kind, cast, ours, google, token, queue>>
  BY IngestEventCases DEF Base
<1>2. source[e].state # "none"
  BY <1>1 DEF Base, Born
<1>3. Taken(e)
  BY TakenFromRevivable
<1>4. /\ RowsRead({e})
      /\ budget' \in [faults : Nat, edits : Nat] /\ budget'.edits = budget.edits
      /\ missed' \subseteq Events
      /\ worker'.affected \subseteq worker.affected \cup {e}
      /\ worker'.todo = worker.todo \ {e}
      /\ UNCHANGED <<worker.pc, worker.full, worker.held>>
  BY <1>2, <1>3, IngestEventFacts DEF Base
<1>5. changed' \in [Events -> SUBSET {"listed", "new"}]
      /\ \A x \in Events : changed'[x] = IF x = e THEN {"listed"} ELSE changed[x]
  BY <1>1 DEF Base, TypeInv, TypeOK
<1>6. \A x \in Events : source[x].state = "none" => changed'[x] = {}
  BY <1>2, <1>5 DEF Base, Born
<1>7. worker.affected \subseteq Events /\ worker.todo \subseteq Events
  BY DEF Base, TypeInv, TypeOK, Worker
<1>8. InStep'
  BY <1>1, <1>4, <1>5, <1>7 DEF Base, InStep, Reading
<1> QED
  BY <1>1, <1>2, <1>4, <1>5, <1>6, <1>8, ReadKeepsBase

LEMMA ScanBase ==
  ASSUME Base, NEW s \in Events, ScanInstances(s)
  PROVE  Base'
<1>1. /\ worker.pc = "scan" /\ s \in worker.parents
      /\ UNCHANGED <<kind, cast, ours, google, token, queue>>
  BY ScanCases DEF Base
<1>0. worker.full /\ worker.todo = {} /\ token # "good"
  BY <1>1 DEF Base, InStep, Reading
<1>2. CASE /\ Scans(s) /\ UNCHANGED budget
           /\ missed' = missed \ Lost(s)
           /\ changed' = [e \in Events |->
                IF e \in Lost(s) THEN {"listed"} ELSE changed[e]]
  <2>1. /\ RowsRead(Lost(s))
        /\ worker'.parents = worker.parents \ {s}
        /\ worker'.pc = (IF worker.parents = {s} THEN "record" ELSE worker.pc)
        /\ UNCHANGED <<worker.full, worker.held, worker.todo>>
    BY <1>2, ScanFacts DEF Base
  <2>2. changed' \in [Events -> SUBSET {"listed", "new"}]
        /\ \A x \in Events : source[x].state = "none" => changed'[x] = {}
    BY <1>2 DEF Base, TypeInv, TypeOK, Born, Lost
  <2>3. InStep'
    BY <1>0, <1>1, <2>1 DEF InStep, Reading
  <2>4. budget' \in [faults : Nat, edits : Nat] /\ budget'.edits = budget.edits
        /\ missed' \subseteq Events /\ Lost(s) \subseteq Events
        /\ \A x \in Lost(s) : source[x].state # "none"
    BY <1>2 DEF Base, TypeInv, TypeOK, Lost, OccurrencesOf
  <2> QED
    BY <1>1, <2>1, <2>2, <2>3, <2>4, ReadKeepsBase
<1>3. CASE /\ Spend("scan")
           /\ worker' = [worker EXCEPT !.held = TRUE, !.parents = @ \ {s}, !.hand = NULL,
                !.pc = IF worker.parents = {s} THEN "record" ELSE @]
           /\ UNCHANGED <<rows, unplanned, missed, changed>>
  <2>1. worker \in Worker
    BY DEF Base, TypeInv, TypeOK
  <2>2. /\ worker'.parents = worker.parents \ {s}
        /\ worker'.pc = (IF worker.parents = {s} THEN "record" ELSE worker.pc)
        /\ UNCHANGED <<worker.full, worker.affected, worker.todo>>
        /\ worker' \in Worker
    BY <1>3, <2>1 DEF Worker
  <2>3. /\ \A x \in Events : source[x].state = "none" => x \notin worker'.todo
        /\ queue' \subseteq Events /\ unplanned' \subseteq Events
        /\ token' \in {NULL, "good", "expired"}
    BY <1>1, <1>3, <2>2 DEF Base, TypeInv, TypeOK, Born
  <2>4. InStep'
    BY <1>0, <1>1, <2>2 DEF InStep, Reading
  <2>5. /\ changed' \in [Events -> SUBSET {"listed", "new"}]
        /\ \A x \in Events : source[x].state = "none" => changed'[x] = {}
        /\ missed' \subseteq Events
    BY <1>3 DEF Base, TypeInv, TypeOK, Born
  <2>6. budget' \in [faults : Nat, edits : Nat] /\ budget'.edits = budget.edits
    BY <1>3, SpendType DEF Base
  <2> QED
    BY <1>1, <1>3, <2>2, <2>3, <2>4, <2>5, <2>6, QuietBase
<1> QED
  BY <1>2, <1>3, ScanCases DEF Base

LEMMA AuditEventBase ==
  ASSUME Base, NEW e \in Events, AuditEvent(e)
  PROVE  Base'
<1>1. /\ worker.pc = "audit" /\ e \in worker.todo
      /\ UNCHANGED <<kind, cast, ours, google, changed, token, queue>>
  BY DEF AuditEvent
<1>2. kind = "client" /\ Taken(e) /\ (rows[e].status = "none" => rows[e] = NoRow)
  BY <1>1, TakenFromRevivable DEF Base, InStep, Born
<1>3. /\ RowsRead({e})
      /\ budget' \in [faults : Nat, edits : Nat] /\ budget'.edits = budget.edits
      /\ missed' \subseteq Events
      /\ UNCHANGED <<worker.pc, worker.full, worker.held>>
  BY <1>2, AuditEventFacts DEF Base
<1>4. worker'.todo = worker.todo \ {e}
  BY DEF AuditEvent, Base, TypeInv, TypeOK, Worker
<1>5. InStep'
  BY <1>1, <1>3 DEF Base, InStep, Reading
<1>6. changed' \in [Events -> SUBSET {"listed", "new"}]
      /\ \A x \in Events : source[x].state = "none" => changed'[x] = {}
  BY <1>1 DEF Base, TypeInv, TypeOK, Born
<1>7. source[e].state # "none"
  BY <1>1 DEF Base, Born
<1> QED
  BY <1>1, <1>3, <1>4, <1>5, <1>6, <1>7, ReadKeepsBase

(* The steps of a pass that read nothing.                                  *)
LEMMA PassBase ==
  ASSUME Base, StartPass \/ SyncTokenExpired \/ ListingEnds \/ RecordAffected
                 \/ AdvanceToken \/ IngestFails
  PROVE  Base'
<1>0. /\ worker \in Worker /\ Idle \in Worker /\ TypeOK
      /\ \A full \in BOOLEAN : Listing(full) \subseteq Events
      /\ budget \in [faults : Nat, edits : Nat]
  BY DEF Base, TypeInv, TypeOK, Idle, Worker, Listing, FullListing
<1>1. CASE StartPass
  <2>1. /\ worker' = [Idle EXCEPT !.pc = "list", !.full = token = NULL,
                                   !.todo = Listing(token = NULL)]
        /\ changed' = IF token = NULL THEN [e \in Events |-> {}] ELSE changed
        /\ UNCHANGED <<kind, cast, ours, google, token, rows, queue, unplanned,
                       missed, budget>>
    BY <1>1 DEF StartPass
  <2> DEFINE full == token = NULL
  <2>2. full \in BOOLEAN
    OBVIOUS
  <2>3. worker' = [Idle EXCEPT !.pc = "list", !.full = full, !.todo = Listing(full)]
    BY <2>1
  <2>4. /\ worker'.pc = "list" /\ worker'.full = full /\ worker'.todo = Listing(full)
        /\ worker'.affected = {} /\ worker' \in Worker
    <3> HIDE DEF full
    <3> QED
      BY <1>0, <2>2, <2>3 DEF Idle, Worker
  <2>5. \A e \in Events : source[e].state = "none" => e \notin worker'.todo
    BY <2>4 DEF Listing, FullListing, Base, Born
  <2>6. InStep'
    <3>1. CASE token = NULL
      <4>1. worker'.full = TRUE /\ token' # "good"
        BY <2>1, <2>4, <3>1, ConstantsAssumption
      <4> QED
        BY <2>4, <4>1 DEF InStep, Reading
    <3>2. CASE token # NULL
      <4>1. worker'.full = FALSE /\ changed' = changed
            /\ worker'.todo = {e \in Events : changed[e] # {}}
        BY <2>1, <2>4, <3>2 DEF Listing
      <4> QED
        BY <2>4, <4>1 DEF InStep, Reading
    <3> QED
      BY <3>1, <3>2
  <2>7. changed' \in [Events -> SUBSET {"listed", "new"}]
        /\ \A e \in Events : source[e].state = "none" => changed'[e] = {}
    BY <1>0, <2>1 DEF TypeOK, Base, Born
  <2> QED
    BY <1>0, <2>1, <2>4, <2>5, <2>6, <2>7, QuietBase DEF TypeOK
<1>2. CASE SyncTokenExpired
  <2>1. /\ worker' = [worker EXCEPT !.full = TRUE, !.todo = Listing(TRUE),
                                     !.parents = {}, !.hand = NULL]
        /\ changed' = [e \in Events |-> {}] /\ token = "expired" /\ worker.pc = "list"
        /\ UNCHANGED <<kind, cast, ours, google, token, rows, queue, unplanned,
                       missed, budget>>
    BY <1>2 DEF SyncTokenExpired
  <2>2. /\ worker'.pc = "list" /\ worker'.full = TRUE /\ worker'.todo = Listing(TRUE)
        /\ worker' \in Worker
    BY <1>0, <2>1 DEF Worker
  <2>3. \A e \in Events : source[e].state = "none" => e \notin worker'.todo
    BY <2>2 DEF Listing, FullListing
  <2>4. InStep'
    BY <2>1, <2>2 DEF InStep, Reading
  <2> QED
    BY <1>0, <2>1, <2>2, <2>3, <2>4, QuietBase DEF TypeOK
<1>3. CASE ListingEnds
  <2>1. /\ worker.pc = "list" /\ worker.todo = {}
        /\ UNCHANGED <<kind, cast, ours, google, changed, token, rows, queue,
                       unplanned, missed, budget>>
        /\ worker' = [worker EXCEPT
             !.pc = IF worker.full /\ worker.parents # {} THEN "scan" ELSE "record"]
    BY <1>3 DEF ListingEnds
  <2>2. /\ worker'.pc = IF worker.full /\ worker.parents # {} THEN "scan" ELSE "record"
        /\ UNCHANGED <<worker.todo, worker.parents, worker.affected, worker.full>>
        /\ worker' \in Worker
    BY <1>0, <2>1 DEF Worker
  <2>3. InStep'
    BY <2>1, <2>2 DEF InStep, Reading, Base
  <2>4. /\ \A e \in Events : source[e].state = "none" => e \notin worker'.todo
        /\ \A e \in Events : source[e].state = "none" => changed'[e] = {}
    BY <2>1, <2>2 DEF Base, Born
  <2> QED
    BY <1>0, <2>1, <2>2, <2>3, <2>4, QuietBase DEF TypeOK
<1>4. CASE RecordAffected
  <2>1. /\ worker.pc = "record" /\ queue' = queue \cup worker.affected
        /\ worker' = [worker EXCEPT !.pc = "token"]
        /\ UNCHANGED <<kind, cast, ours, google, changed, token, rows, unplanned,
                       missed, budget>>
    BY <1>4 DEF RecordAffected
  <2>2. /\ worker'.pc = "token" /\ queue' \subseteq Events
        /\ UNCHANGED <<worker.todo, worker.parents, worker.affected, worker.full>>
        /\ worker' \in Worker
    BY <1>0, <2>1 DEF Worker, TypeOK
  <2>3. InStep'
    BY <2>1, <2>2 DEF InStep, Reading, Base
  <2>4. /\ \A e \in Events : source[e].state = "none" => e \notin worker'.todo
        /\ \A e \in Events : source[e].state = "none" => changed'[e] = {}
    BY <2>1, <2>2 DEF Base, Born
  <2> QED
    BY <1>0, <2>1, <2>2, <2>3, <2>4, QuietBase DEF TypeOK
<1>5. CASE AdvanceToken
  <2>1. /\ worker' = [Idle EXCEPT !.pc = "plan"]
        /\ changed' = [e \in Events |-> changed[e] \ {"listed"}]
        /\ token' = IF worker.held THEN NULL ELSE "good"
        /\ UNCHANGED <<kind, cast, ours, google, rows, queue, unplanned, missed,
                       budget>>
    BY <1>5 DEF AdvanceToken
  <2>2. /\ worker'.pc = "plan" /\ worker'.todo = {} /\ worker'.affected = {}
        /\ worker' \in Worker
    BY <1>0, <2>1 DEF Worker, Idle
  <2>3. InStep'
    BY <2>1, <2>2 DEF InStep, Reading
  <2>4. /\ \A e \in Events : source[e].state = "none" => e \notin worker'.todo
        /\ \A e \in Events : source[e].state = "none" => changed'[e] = {}
        /\ changed' \in [Events -> SUBSET {"listed", "new"}]
    BY <1>0, <2>1, <2>2 DEF Base, Born, TypeOK
  <2> QED
    BY <1>0, <2>1, <2>2, <2>3, <2>4, QuietBase DEF TypeOK
<1>6. CASE IngestFails
  <2>1. /\ worker' = [Idle EXCEPT !.pc = "plan"] /\ Spend("ingest")
        /\ UNCHANGED <<kind, cast, ours, google, changed, token, rows, queue,
                       unplanned, missed>>
    BY <1>6 DEF IngestFails
  <2>2. /\ worker'.pc = "plan" /\ worker'.todo = {} /\ worker'.affected = {}
        /\ worker' \in Worker
    BY <1>0, <2>1 DEF Worker, Idle
  <2>3. InStep'
    BY <2>1, <2>2 DEF InStep, Reading
  <2>4. /\ \A e \in Events : source[e].state = "none" => e \notin worker'.todo
        /\ \A e \in Events : source[e].state = "none" => changed'[e] = {}
    BY <2>1, <2>2 DEF Base, Born
  <2>5. budget' \in [faults : Nat, edits : Nat] /\ budget'.edits = budget.edits
    BY <2>1, SpendType DEF Base
  <2> QED
    BY <1>0, <2>1, <2>2, <2>3, <2>4, <2>5, QuietBase DEF TypeOK
<1> QED
  BY <1>1, <1>2, <1>3, <1>4, <1>5, <1>6

(* The audit's other steps, planning, and what interrupts them.            *)
LEMMA OtherBase ==
  ASSUME Base, StartAudit \/ AuditRecords \/ AuditFails \/ PlanAffected
                 \/ TokenExpires \/ Crash
  PROVE  Base'
<1>0. /\ worker \in Worker /\ Idle \in Worker /\ TypeOK
      /\ budget \in [faults : Nat, edits : Nat]
      /\ \A e \in Events : source[e].state = "none" => changed[e] = {}
      /\ \A e \in Events : source[e].state = "none" => e \notin worker.todo
  BY DEF Base, TypeInv, TypeOK, Idle, Worker, Born
<1>1. CASE StartAudit
  <2> DEFINE there == {e \in Events : "live" \in {source[e].state, before[e].state}}
  <2>1. /\ worker' = [Idle EXCEPT !.pc = "audit", !.todo = there] /\ kind = "client"
        /\ UNCHANGED <<kind, cast, ours, google, changed, token, rows, queue,
                       unplanned, missed, budget>>
    BY <1>1 DEF StartAudit
  <2>2. there \subseteq Events
        /\ \A e \in Events : source[e].state = "none" => e \notin there
    BY DEF Base, Born
  <2>3. worker'.pc = "audit" /\ worker'.todo = there /\ worker' \in Worker
    <3> HIDE DEF there
    <3> QED
      BY <1>0, <2>1, <2>2 DEF Worker, Idle
  <2>4. InStep'
    BY <2>1, <2>3 DEF InStep, Reading
  <2> HIDE DEF there
  <2> QED
    BY <1>0, <2>1, <2>2, <2>3, <2>4, QuietBase DEF TypeOK
<1>2. CASE AuditRecords
  <2>1. /\ worker' = [Idle EXCEPT !.pc = "plan"] /\ queue' = queue \cup worker.affected
        /\ UNCHANGED <<kind, cast, ours, google, changed, token, rows, unplanned,
                       missed, budget>>
    BY <1>2 DEF AuditRecords
  <2>2. /\ worker'.pc = "plan" /\ worker'.todo = {} /\ worker'.affected = {}
        /\ worker' \in Worker /\ queue' \subseteq Events
    BY <1>0, <2>1 DEF Worker, Idle, TypeOK
  <2>3. InStep'
    BY <2>1, <2>2 DEF InStep, Reading
  <2> QED
    BY <1>0, <2>1, <2>2, <2>3, QuietBase DEF TypeOK
<1>3. CASE AuditFails
  <2>1. /\ worker' = [Idle EXCEPT !.pc = "plan"]
        /\ Spend(IF worker.affected = {} THEN "ingest" ELSE "audit")
        /\ UNCHANGED <<kind, cast, ours, google, changed, token, rows, queue,
                       unplanned, missed>>
    BY <1>3 DEF AuditFails
  <2>2. /\ worker'.pc = "plan" /\ worker'.todo = {} /\ worker'.affected = {}
        /\ worker' \in Worker
    BY <1>0, <2>1 DEF Worker, Idle
  <2>3. InStep'
    BY <2>1, <2>2 DEF InStep, Reading
  <2>4. budget' \in [faults : Nat, edits : Nat] /\ budget'.edits = budget.edits
    BY <2>1, SpendType DEF Base
  <2> QED
    BY <1>0, <2>1, <2>2, <2>3, <2>4, QuietBase DEF TypeOK
<1>4. CASE PlanAffected
  <2>1. /\ worker' = Idle /\ queue' = {} /\ unplanned' \subseteq unplanned
        /\ UNCHANGED <<kind, cast, ours, google, changed, token, rows, missed, budget>>
    BY <1>4 DEF PlanAffected
  <2>2. worker'.pc = "idle" /\ worker'.todo = {} /\ worker'.affected = {}
    BY <2>1 DEF Idle
  <2>3. InStep'
    BY <2>1, <2>2 DEF InStep, Reading
  <2> QED
    BY <1>0, <2>1, <2>2, <2>3, QuietBase DEF TypeOK
<1>5. CASE TokenExpires
  <2>1. /\ token = "good" /\ token' \in {"expired", NULL} /\ Spend("expiry")
        /\ UNCHANGED <<kind, cast, ours, google, changed, rows, queue, unplanned,
                       missed, worker>>
    BY <1>5 DEF TokenExpires
  <2>2. InStep'
    BY <2>1, ConstantsAssumption DEF Base, InStep, Reading
  <2>3. budget' \in [faults : Nat, edits : Nat] /\ budget'.edits = budget.edits
    BY <2>1, SpendType DEF Base
  <2> QED
    BY <1>0, <2>1, <2>2, <2>3, QuietBase DEF TypeOK
<1>6. CASE Crash
  <2>1. /\ worker' = Idle /\ Spend("crash")
        /\ UNCHANGED <<kind, cast, ours, google, changed, token, rows, queue,
                       unplanned, missed>>
    BY <1>6 DEF Crash
  <2>2. worker'.pc = "idle" /\ worker'.todo = {} /\ worker'.affected = {}
    BY <2>1 DEF Idle
  <2>3. InStep'
    BY <2>1, <2>2 DEF InStep, Reading
  <2>4. budget' \in [faults : Nat, edits : Nat] /\ budget'.edits = budget.edits
    BY <2>1, SpendType DEF Base
  <2> QED
    BY <1>0, <2>1, <2>2, <2>3, <2>4, QuietBase DEF TypeOK
<1> QED
  BY <1>1, <1>2, <1>3, <1>4, <1>5, <1>6

LEMMA ReleaseBase ==
  ASSUME Base, NEW e \in Events, Release(e)
  PROVE  Base'
<1>1. /\ rows[e].status = "active" /\ Edit
      /\ rows' = [rows EXCEPT ![e].status = "released"]
      /\ unplanned' = unplanned \ {e}
      /\ worker' = worker \/ worker' = [worker EXCEPT !.hand = e]
      /\ UNCHANGED <<kind, cast, ours, google, changed, token, queue, missed>>
  BY DEF Release
<1>0. /\ worker' \in Worker
      /\ UNCHANGED <<worker.pc, worker.todo, worker.parents, worker.affected,
                     worker.full, worker.held>>
  BY <1>1 DEF Base, TypeInv, TypeOK, Worker
<1>2. /\ budget' \in [faults : Nat, edits : Nat] /\ budget'.edits = budget.edits - 1
      /\ budget.edits > 0
  BY <1>1, EditType DEF Base
<1>3. [rows[e] EXCEPT !.status = "released"] \in Row
  BY DEF Base, TypeInv, TypeOK, Row
<1>4. /\ rows' \in [Events -> Row]
      /\ rows'[e].status = "released" /\ rows'[e].stamp = rows[e].stamp
      /\ \A x \in Events \ {e} : rows'[x] = rows[x]
  BY <1>1, <1>3 DEF Base, TypeInv, TypeOK, Row
<1>5. TypeOK'
  BY <1>0, <1>1, <1>2, <1>4 DEF Base, TypeInv, TypeOK, google
<1>6. Dated'
  <2>1. /\ MaxEdits \in Nat /\ budget.edits \in Nat /\ budget.edits <= MaxEdits
        /\ \A x \in Events :
             /\ source[x].stamp \in Int /\ rows[x].stamp \in Int
             /\ source[x].stamp + budget.edits <= MaxEdits + 1
    BY ConstantsAssumption DEF Base, TypeInv, TypeOK, Dated, Revision, Row
  <2>2. /\ budget'.edits <= MaxEdits
        /\ \A x \in Events : source[x].stamp + budget'.edits <= MaxEdits + 1
    BY <1>2, <2>1
  <2>3. \A x \in Events : rows'[x].stamp = rows[x].stamp
    BY <1>4
  <2> QED
    BY <1>1, <2>2, <2>3 DEF Base, TypeInv, Dated, google
<1>7. Born'
  BY <1>0, <1>1, <1>4 DEF Base, Born, google, NoRow, IsOccurrence
<1>8. Echoless'
  BY <1>1, <1>4 DEF Base, Echoless
<1>9. InStep'
  BY <1>0, <1>1 DEF Base, InStep, Reading
<1>10. Revivable'
  BY <1>1, <1>4 DEF Base, Revivable, google
<1> QED
  BY <1>5, <1>6, <1>7, <1>8, <1>9, <1>10 DEF Base, TypeInv

-----------------------------------------------------------------------------
(* People change the source: what was there stays there, in some revision, *)
(* and its change is to be listed.                                         *)
SourceMoves ==
  /\ UNCHANGED <<kind, cast, ours, token, rows, queue, unplanned, missed, worker>>
  /\ source' \in [Events -> Revision] /\ before' \in [Events -> Revision]
  /\ had' \in [Events -> SUBSET (Rooms \cup {NULL})]
  /\ changed' \in [Events -> SUBSET {"listed", "new"}]
  /\ budget' \in [faults : Nat, edits : Nat] /\ budget'.edits <= budget.edits
  /\ budget'.faults = budget.faults
  /\ \A x \in Events :
       /\ changed[x] \subseteq changed'[x]
       /\ source'[x].stamp >= source[x].stamp
       /\ source'[x].stamp + budget'.edits <= MaxEdits + 1
       /\ source'[x] # source[x] => source'[x].state # "none"
       /\ source'[x] = source[x]
            => before'[x] = before[x] /\ changed'[x] = changed[x]
       /\ source'[x] # source[x] => before'[x] = source[x]
       /\ source'[x].state # "none" /\ IsOccurrence(x)
            => source'[SeriesOf[x]].state # "none"
       /\ source'[x].state = "live" /\ rows[x].status = "cancelled"
            => \/ rows[x].content # source'[x].content
               \/ <<kind, x>> \in RestoredAsWas

LEMMA SourceBase ==
  ASSUME Base, SourceMoves
  PROVE  Base'
<1>1. TypeOK'
  BY DEF SourceMoves, Base, TypeInv, TypeOK
<1>2. Dated'
  <2>1. /\ MaxEdits \in Nat /\ budget.edits \in Nat /\ budget'.edits \in Nat
        /\ budget'.edits <= budget.edits /\ budget.edits <= MaxEdits
    BY ConstantsAssumption DEF SourceMoves, Base, TypeInv, TypeOK, Dated
  <2>2. ASSUME NEW x \in Events
        PROVE  /\ source'[x].stamp + budget'.edits <= MaxEdits + 1
               /\ before'[x].stamp <= source'[x].stamp
               /\ rows'[x].stamp <= source'[x].stamp
               /\ source'[x].state = "none" => source'[x].stamp = 0
    <3>1. /\ source[x].stamp \in Int /\ source'[x].stamp \in Int
          /\ rows[x].stamp \in Int /\ before[x].stamp \in Int
      BY DEF SourceMoves, Base, TypeInv, TypeOK, Revision, Row
    <3>2. /\ before[x].stamp <= source[x].stamp /\ rows[x].stamp <= source[x].stamp
          /\ source[x].state = "none" => source[x].stamp = 0
      BY DEF Base, TypeInv, Dated
    <3>3. /\ source'[x].stamp >= source[x].stamp /\ rows' = rows
          /\ source'[x].stamp + budget'.edits <= MaxEdits + 1
          /\ source'[x] # source[x] => source'[x].state # "none"
          /\ \/ before'[x] = before[x] \/ before'[x] = source[x]
      BY DEF SourceMoves
    <3> QED
      BY <3>1, <3>2, <3>3
  <2> QED
    BY <2>1, <2>2 DEF Dated
<1>3. Born'
  <2> SUFFICES ASSUME NEW x \in Events
               PROVE  /\ rows[x].status = "none" => rows[x] = NoRow
                      /\ source'[x].state = "none" =>
                           /\ before'[x].state # "live" /\ rows[x].status = "none"
                           /\ changed'[x] = {} /\ x \notin worker.todo
                      /\ source'[x].state # "none" /\ IsOccurrence(x)
                           => source'[SeriesOf[x]].state # "none"
    BY DEF SourceMoves, Born, NoRow, IsOccurrence
  <2> QED
    BY DEF SourceMoves, Base, Born
<1>4. Echoless' /\ Revivable'
  BY DEF SourceMoves, Base, Echoless, Revivable
<1>5. InStep'
  <2>1. UNCHANGED <<kind, token, queue, worker>>
    BY DEF SourceMoves
  <2>2. worker.affected \subseteq Events /\ worker.todo \subseteq Events
    BY DEF Base, TypeInv, TypeOK, Worker
  <2>3. \A x \in Events : changed[x] # {} => changed'[x] # {}
    BY DEF SourceMoves
  <2> QED
    BY <2>1, <2>2, <2>3 DEF Base, InStep, Reading
<1> QED
  BY <1>1, <1>2, <1>3, <1>4, <1>5 DEF Base, TypeInv

(* One event gets a new revision.                                          *)
LEMMA ReviseMoves ==
  ASSUME Base, NEW e \in Events, NEW r \in Revision, Revise(e, r),
         UNCHANGED <<kind, cast, ours, token, rows, queue, unplanned, missed, worker>>,
         budget' \in [faults : Nat, edits : Nat], budget'.edits <= budget.edits,
         budget'.faults = budget.faults,
         r.state # "none", r.stamp > source[e].stamp,
         r.stamp + budget'.edits <= MaxEdits + 1,
         IsOccurrence(e) => source[SeriesOf[e]].state # "none",
         r.state = "live" /\ rows[e].status = "cancelled"
           => rows[e].content # r.content \/ <<kind, e>> \in RestoredAsWas
  PROVE  /\ SourceMoves
         /\ source'[e] = r /\ "new" \in changed'[e]
         /\ \A x \in Events \ {e} : source'[x] = source[x] /\ had'[x] = had[x]
         /\ had'[e] = had[e] \cup {r.room}
<1>1. /\ source' = [source EXCEPT ![e] = r]
      /\ before' = [before EXCEPT ![e] = source[e]]
      /\ had' = [had EXCEPT ![e] = @ \cup {r.room}]
      /\ changed' = [changed EXCEPT ![e] = @ \cup {"new"}]
  BY DEF Revise
<1>2. TypeOK /\ Dated /\ Born /\ Revivable
  BY DEF Base, TypeInv
<1>3. /\ source' \in [Events -> Revision] /\ before' \in [Events -> Revision]
      /\ had' \in [Events -> SUBSET (Rooms \cup {NULL})]
      /\ changed' \in [Events -> SUBSET {"listed", "new"}]
  BY <1>1, <1>2 DEF TypeOK, Revision
<1>4. /\ source'[e] = r /\ before'[e] = source[e]
      /\ changed'[e] = changed[e] \cup {"new"} /\ had'[e] = had[e] \cup {r.room}
      /\ \A x \in Events \ {e} : /\ source'[x] = source[x] /\ before'[x] = before[x]
                                  /\ changed'[x] = changed[x] /\ had'[x] = had[x]
  BY <1>1, <1>2 DEF TypeOK
<1>5. ASSUME NEW x \in Events
      PROVE  /\ changed[x] \subseteq changed'[x]
             /\ source'[x].stamp >= source[x].stamp
             /\ source'[x].stamp + budget'.edits <= MaxEdits + 1
             /\ source'[x] # source[x] => source'[x].state # "none"
             /\ source'[x] = source[x]
                  => before'[x] = before[x] /\ changed'[x] = changed[x]
             /\ source'[x] # source[x] => before'[x] = source[x]
             /\ source'[x].state # "none" /\ IsOccurrence(x)
                  => source'[SeriesOf[x]].state # "none"
             /\ source'[x].state = "live" /\ rows[x].status = "cancelled"
                  => \/ rows[x].content # source'[x].content
                     \/ <<kind, x>> \in RestoredAsWas
  <2>1. CASE x = e
    <3>1. r # source[e]
      BY <1>2 DEF TypeOK, Revision
    <3>2. r.stamp >= source[e].stamp
      BY <1>2 DEF TypeOK, Revision
    <3>3. IsOccurrence(e) => source'[SeriesOf[e]].state # "none"
      BY <1>4, SeriesFacts
    <3> QED
      BY <1>4, <2>1, <3>1, <3>2, <3>3
  <2>2. CASE x # e
    <3>1. source'[x] = source[x] /\ before'[x] = before[x] /\ changed'[x] = changed[x]
      BY <1>4, <2>2
    <3>2. source[x].stamp >= source[x].stamp
          /\ source[x].stamp + budget'.edits <= MaxEdits + 1
      BY <1>2, ConstantsAssumption DEF TypeOK, Dated, Revision
    <3>3. source'[x].state # "none" /\ IsOccurrence(x)
                  => source'[SeriesOf[x]].state # "none"
      BY <1>2, <1>4, <3>1, SeriesFacts DEF Born
    <3> QED
      BY <1>2, <3>1, <3>2, <3>3 DEF Revivable
  <2> QED
    BY <2>1, <2>2
<1>6. SourceMoves
  BY <1>3, <1>5, Zenon DEF SourceMoves
<1> QED
  BY <1>4, <1>6

LEMMA PeopleMove ==
  ASSUME Base, People
  PROVE  SourceMoves
<1>0. TypeOK /\ Dated /\ Born /\ Revivable
  BY DEF Base, TypeInv
<1> SUFFICES ASSUME NEW e \in Events,
                    \/ SomebodyAdds(e) \/ SomebodyEdits(e) \/ SomebodyDeletes(e)
                    \/ SomebodySkips(e) \/ SomebodyRestores(e)
             PROVE  SourceMoves
  BY DEF People
<1>1. /\ MaxEdits \in Nat /\ budget.edits \in Nat /\ budget.edits <= MaxEdits
      /\ source[e] \in Revision /\ source[e].stamp \in 0 .. MaxEdits + 1
      /\ source[e].stamp + budget.edits <= MaxEdits + 1
      /\ source[e].state = "none" => source[e].stamp = 0
      /\ rows[e].status = "cancelled" => source[e].state # "none"
  BY <1>0, ConstantsAssumption DEF TypeOK, Dated, Revision, Born
<1>2. ASSUME Edit
      PROVE  /\ budget.edits > 0 /\ budget' \in [faults : Nat, edits : Nat]
             /\ budget'.edits = budget.edits - 1 /\ budget'.faults = budget.faults
             /\ budget'.edits \in Nat /\ budget'.edits <= budget.edits
             /\ source[e].stamp + 1 + budget'.edits <= MaxEdits + 1
             /\ source[e].stamp + 1 \in 0 .. MaxEdits + 1
  <2>1. /\ budget.edits > 0 /\ budget' \in [faults : Nat, edits : Nat]
        /\ budget'.edits = budget.edits - 1 /\ budget'.faults = budget.faults
    BY <1>2, <1>0, EditType DEF Edit, TypeOK
  <2> QED
    BY <1>1, <2>1
<1>3. \A c \in Contents, r \in RoomsOf(e), n \in 0 .. MaxEdits + 1 :
        /\ Present(c, r, n) \in Revision /\ Present(c, r, n).state = "live"
        /\ Present(c, r, n).stamp = n /\ Present(c, r, n).content = c
  BY DEF Present, Revision, RoomsOf
<1>4. \A s \in Events : IsOccurrence(e) /\ s = SeriesOf[e]
                         /\ source[s].state = "live" => source[s].state # "none"
  OBVIOUS
<1>5. source[e].state # "none" /\ IsOccurrence(e)
        => source[SeriesOf[e]].state # "none"
  BY <1>0 DEF Born
<1>6. CASE SomebodyAdds(e)
  <2>1. PICK c \in NewContents, r \in RoomsOf(e) : Revise(e, Present(c, r, 1))
    BY <1>6 DEF SomebodyAdds
  <2>2. c \in Contents /\ 1 \in 0 .. MaxEdits + 1
    BY <1>1, ConstantsAssumption
  <2>3. Present(c, r, 1) \in Revision /\ Present(c, r, 1).state = "live"
        /\ Present(c, r, 1).stamp = 1
    BY <1>3, <2>2
  <2>4. /\ source[e].state = "none" /\ UNCHANGED budget
        /\ IsOccurrence(e) => source[SeriesOf[e]].state # "none"
        /\ UNCHANGED <<kind, cast, ours, token, rows, queue, unplanned, missed, worker>>
    BY <1>6 DEF SomebodyAdds, SeriesIsLive
  <2>5. /\ budget' \in [faults : Nat, edits : Nat] /\ budget'.edits <= budget.edits
        /\ budget'.faults = budget.faults /\ 1 + budget'.edits <= MaxEdits + 1
        /\ 1 > source[e].stamp
    BY <1>0, <1>1, <2>4 DEF TypeOK
  <2>6. rows[e].status # "cancelled"
    BY <1>1, <2>4
  <2> QED
    BY <2>1, <2>3, <2>4, <2>5, <2>6, ReviseMoves
<1>7. CASE SomebodyEdits(e) \/ SomebodyRestores(e)
  <2>1. PICK c \in Contents, r \in RoomsOf(e) :
          TakenBack(e, c) /\ Revise(e, Present(c, r, source[e].stamp + 1))
    BY <1>7 DEF SomebodyEdits, SomebodyRestores
  <2>2. Edit /\ source[e].state # "none"
        /\ UNCHANGED <<kind, cast, ours, token, rows, queue, unplanned, missed, worker>>
    BY <1>7 DEF SomebodyEdits, SomebodyRestores
  <2> DEFINE p == Present(c, r, source[e].stamp + 1)
  <2>3. p \in Revision /\ p.state = "live" /\ p.stamp = source[e].stamp + 1
        /\ p.content = c
    BY <1>2, <1>3, <2>2
  <2>4. p.stamp > source[e].stamp
    BY <1>1, <2>3
  <2>5. rows[e].status = "cancelled"
          => rows[e].content # p.content \/ <<kind, e>> \in RestoredAsWas
    BY <2>1, <2>3 DEF TakenBack
  <2>6. Revise(e, p)
    BY <2>1
  <2> HIDE DEF p
  <2> QED
    BY <1>2, <1>5, <2>2, <2>3, <2>4, <2>5, <2>6, ReviseMoves
<1>8. CASE SomebodySkips(e)
  <2> DEFINE p == [Unborn EXCEPT !.state = "cancelled", !.stamp = 1]
  <2>1. /\ Edit /\ source[e].state = "none" /\ Revise(e, p)
        /\ IsOccurrence(e) => source[SeriesOf[e]].state # "none"
        /\ UNCHANGED <<kind, cast, ours, token, rows, queue, unplanned, missed, worker>>
    BY <1>8 DEF SomebodySkips, SeriesIsLive
  <2>2. p \in Revision /\ p.state = "cancelled" /\ p.stamp = 1
    <3>1. 1 \in 0 .. MaxEdits + 1
      BY <1>1
    <3>2. Unborn \in Revision
      BY <1>1 DEF Unborn, Revision
    <3> QED
      BY <3>1, <3>2 DEF Revision
  <2>3. p.stamp > source[e].stamp /\ p.stamp + budget'.edits <= MaxEdits + 1
    BY <1>1, <1>2, <2>1, <2>2
  <2> HIDE DEF p
  <2> QED
    BY <1>2, <2>1, <2>2, <2>3, ReviseMoves
<1>9. CASE SomebodyDeletes(e)
  <2> DEFINE gone == {e} \cup {o \in OccurrencesOf(e) : source[o].state = "live"}
             fallen(x) == [source[x] EXCEPT !.state = "cancelled", !.stamp = @ + 1]
  <2>1. /\ Edit /\ source[e].state = "live"
        /\ source' = [x \in Events |-> IF x \in gone THEN fallen(x) ELSE source[x]]
        /\ before' = [x \in Events |-> IF x \in gone THEN source[x] ELSE before[x]]
        /\ UNCHANGED <<kind, cast, ours, had, token, rows, queue, unplanned, missed,
                       worker>>
    BY <1>9 DEF SomebodyDeletes
  <2>2. PICK listed \in {{e}, gone} :
          changed' = [x \in Events |->
            IF x \in listed THEN changed[x] \cup {"new"} ELSE changed[x]]
    BY <1>9 DEF SomebodyDeletes
  <2>3. \A x \in gone : x \in Events /\ source[x].state = "live"
    BY <2>1 DEF OccurrencesOf
  <2>4. listed \subseteq gone
    OBVIOUS
  <2> HIDE DEF gone
  <2>5. ASSUME NEW x \in gone
        PROVE  /\ fallen(x) \in Revision /\ fallen(x).state = "cancelled"
               /\ fallen(x).stamp >= source[x].stamp /\ fallen(x) # source[x]
               /\ fallen(x).stamp + budget'.edits <= MaxEdits + 1
    <3>1. x \in Events /\ source[x].state = "live" /\ source[x] \in Revision
          /\ source[x].stamp \in Int /\ source[x].stamp >= 0
          /\ source[x].stamp + budget.edits <= MaxEdits + 1
      BY <1>0, <2>3 DEF TypeOK, Dated, Revision
    <3>2. fallen(x).state = "cancelled" /\ fallen(x).stamp = source[x].stamp + 1
      BY <3>1 DEF Revision
    <3>3. source[x].stamp + 1 \in 0 .. MaxEdits + 1
          /\ source[x].stamp + 1 + budget'.edits <= MaxEdits + 1
      <4>1. /\ MaxEdits \in Nat /\ budget.edits \in Nat /\ budget'.edits \in Nat
            /\ budget'.edits = budget.edits - 1
        BY <1>1, <1>2, <2>1
      <4> QED
        BY <3>1, <4>1
    <3>4. fallen(x) \in Revision
      BY <3>1, <3>3 DEF Revision
    <3> HIDE DEF fallen
    <3>5. fallen(x).stamp >= source[x].stamp /\ fallen(x) # source[x]
      BY <3>1, <3>2
    <3>6. fallen(x).stamp + budget'.edits <= MaxEdits + 1
      BY <3>2, <3>3
    <3> QED
      BY <3>2, <3>4, <3>5, <3>6
  <2> HIDE DEF fallen
  <2>6. /\ source' \in [Events -> Revision] /\ before' \in [Events -> Revision]
        /\ had' \in [Events -> SUBSET (Rooms \cup {NULL})]
        /\ changed' \in [Events -> SUBSET {"listed", "new"}]
    BY <1>0, <2>1, <2>2, <2>3, <2>5 DEF TypeOK
  <2>7. ASSUME NEW x \in Events
        PROVE  /\ changed[x] \subseteq changed'[x]
               /\ source'[x].stamp >= source[x].stamp
               /\ source'[x].stamp + budget'.edits <= MaxEdits + 1
               /\ source'[x] # source[x] => source'[x].state # "none"
               /\ source'[x] = source[x]
                    => before'[x] = before[x] /\ changed'[x] = changed[x]
               /\ source'[x] # source[x] => before'[x] = source[x]
               /\ source'[x].state # "none" /\ IsOccurrence(x)
                    => source'[SeriesOf[x]].state # "none"
               /\ source'[x].state = "live" /\ rows[x].status = "cancelled"
                    => \/ rows[x].content # source'[x].content
                       \/ <<kind, x>> \in RestoredAsWas
    <3>1. source'[x].state # "none" /\ IsOccurrence(x)
            => source'[SeriesOf[x]].state # "none"
      <4>1. \A y \in Events : source'[y].state = "none" <=> source[y].state = "none"
        BY <2>1, <2>3, <2>5
      <4> QED
        BY <4>1, <1>0, SeriesFacts DEF Born
    <3>2. CASE x \in gone
      BY <2>1, <2>2, <2>5, <3>1, <3>2
    <3>3. CASE x \notin gone
      <4>1. source'[x] = source[x] /\ before'[x] = before[x] /\ changed'[x] = changed[x]
        BY <2>1, <2>2, <2>4, <3>3
      <4>2. source[x].stamp >= source[x].stamp
            /\ source[x].stamp + budget'.edits <= MaxEdits + 1
        <5>1. source[x].stamp \in Int /\ source[x].stamp + budget.edits <= MaxEdits + 1
          BY <1>0 DEF TypeOK, Dated, Revision
        <5> QED
          BY <1>1, <1>2, <2>1, <5>1
      <4> QED
        BY <1>0, <3>1, <4>1, <4>2 DEF Revivable
    <3> QED
      BY <3>2, <3>3
  <2> QED
    BY <1>2, <2>1, <2>6, <2>7 DEF SourceMoves
<1> QED
  BY <1>6, <1>7, <1>8, <1>9

(* Every step keeps the base.                                              *)
LEMMA NextBase == Base /\ [Next]_vars => Base'
<1> SUFFICES ASSUME Base, [Next]_vars PROVE Base'
  OBVIOUS
<1>1. CASE IngestPass
  <2>1. CASE StartPass \/ SyncTokenExpired \/ ListingEnds \/ RecordAffected
               \/ AdvanceToken
    BY <2>1, PassBase
  <2>2. ASSUME NEW e \in Events, IngestEvent(e) \/ ScanInstances(e) PROVE Base'
    BY <2>2, IngestEventBase, ScanBase
  <2> QED
    BY <1>1, <2>1, <2>2 DEF IngestPass
<1>2. CASE IngestFails
  BY <1>2, PassBase
<1>3. CASE StartAudit \/ AuditRecords \/ AuditFails \/ PlanAffected
             \/ TokenExpires \/ Crash
  BY <1>3, OtherBase
<1>4. ASSUME NEW e \in Events, AuditEvent(e) \/ Release(e) PROVE Base'
  BY <1>4, AuditEventBase, ReleaseBase
<1>5. CASE People
  BY <1>5, PeopleMove, SourceBase
<1>6. CASE UNCHANGED vars
  <2>1. TypeOK' /\ Dated'
    BY <1>6 DEF Base, TypeInv, TypeOK, Dated, vars, google
  <2>2. Born' /\ Echoless' /\ InStep' /\ Revivable'
    BY <1>6 DEF Base, Born, Echoless, InStep, Reading, Revivable, vars, google,
                NoRow, IsOccurrence
  <2> QED
    BY <2>1, <2>2 DEF Base, TypeInv
<1> QED
  BY <1>1, <1>2, <1>3, <1>4, <1>5, <1>6
     DEF Next, ClientPass, PersonalPass, MainPass, AuditPass

LEMMA BaseHolds == Spec => []Base
<1>1. Init => Base
  BY InitBase
<1>2. Base /\ [Next]_vars => Base'
  BY NextBase
<1> QED
  BY <1>1, <1>2, PTL DEF Spec

(* Type correctness of a pass, the audit, and the people around them.      *)
THEOREM TypeCorrect == Spec => []TypeOK
<1>1. Base => TypeOK
  BY DEF Base, TypeInv
<1> QED
  BY <1>1, BaseHolds, PTL

(* Whatever is listed, a calendar of BusyBridge's own copies gets no rows. *)
THEOREM OwnCopiesMintNothing == Spec => []NoEcho
<1>1. Base => NoEcho
  BY DEF Base, Echoless, NoEcho
<1> QED
  BY <1>1, BaseHolds, PTL

-----------------------------------------------------------------------------
(* What a step does to a row: nothing, what reading its event does, or     *)
(* retention releases it.                                                  *)
Retired(e) == rows[e].status = "active" /\ rows'[e].stamp = rows[e].stamp

RowStep(e) ==
  /\ rows'[e] = rows[e] \/ Moves(e) \/ Retired(e)
  /\ ours /\ e \in unplanned' => e \in unplanned

LEMMA RowsMove ==
  ASSUME Base, [Next]_vars
  PROVE  \A e \in Events : RowStep(e)
<1>1. ASSUME NEW x \in Events, IngestEvent(x)
      PROVE  \A e \in Events : RowStep(e)
  <2>1. x \in worker.todo
    BY <1>1, IngestEventCases DEF Base
  <2>2. source[x].state # "none" /\ Taken(x)
    BY <2>1, TakenFromRevivable DEF Base, Born
  <2>3. RowsRead({x})
    BY <1>1, <2>2, IngestEventFacts DEF Base
  <2> QED
    BY <2>3 DEF RowsRead, RowStep, Moves
<1>2. ASSUME NEW s \in Events, ScanInstances(s)
      PROVE  \A e \in Events : RowStep(e)
  <2>1. Scans(s) \/ UNCHANGED <<rows, unplanned>>
    BY <1>2, ScanCases DEF Base
  <2>2. CASE Scans(s)
    BY <2>2, ScanFacts DEF Base, RowsRead, RowStep, Moves
  <2> QED
    BY <2>1, <2>2 DEF RowStep
<1>3. ASSUME NEW x \in Events, AuditEvent(x)
      PROVE  \A e \in Events : RowStep(e)
  <2>1. worker.pc = "audit"
    BY <1>3 DEF AuditEvent
  <2>2. kind = "client" /\ Taken(x) /\ (rows[x].status = "none" => rows[x] = NoRow)
    BY <2>1, TakenFromRevivable DEF Base, InStep, Born
  <2> QED
    BY <1>3, <2>2, AuditEventFacts DEF Base, RowsRead, RowStep, Moves
<1>4. ASSUME NEW x \in Events, Release(x)
      PROVE  \A e \in Events : RowStep(e)
  <2>1. rows[x].status = "active" /\ rows' = [rows EXCEPT ![x].status = "released"]
        /\ rows \in [Events -> Row] /\ unplanned' = unplanned \ {x}
    BY <1>4 DEF Release, Base, TypeInv, TypeOK
  <2> QED
    BY <2>1 DEF Retired, Row, RowStep
<1>5. CASE StartPass \/ SyncTokenExpired \/ ListingEnds \/ RecordAffected
             \/ AdvanceToken \/ IngestFails \/ StartAudit \/ AuditRecords
             \/ AuditFails \/ PlanAffected \/ TokenExpires \/ Crash
  BY <1>5 DEF StartPass, SyncTokenExpired, ListingEnds, RecordAffected, AdvanceToken,
              IngestFails, StartAudit, AuditRecords, AuditFails, PlanAffected,
              TokenExpires, Crash, RowStep
<1>6. CASE People
  BY <1>6, PeopleMove DEF SourceMoves, RowStep
<1>7. CASE UNCHANGED vars
  BY <1>7 DEF vars, RowStep
<1> QED
  BY <1>1, <1>2, <1>3, <1>4, <1>5, <1>6, <1>7
     DEF Next, ClientPass, PersonalPass, MainPass, IngestPass, AuditPass

(* No listing, lagging replica or audit takes a row back in Google's time,  *)
(* and retention's mark stays, whichever handler reads the event again, but *)
(* for the one that was between its SELECT and its UPDATE when retention    *)
(* came: what that one takes back has a version the planner will see.       *)
THEOREM RowsNeverGoBack == Spec => RowsGoForward
<1> DEFINE Forward(e) ==
             /\ rows'[e].stamp >= rows[e].stamp
             /\ rows[e].status = "released" =>
                  \/ rows'[e] = rows[e]
                  \/ /\ e = worker.hand
                     /\ rows'[e].status = "released" \/ e \in unplanned'
<1>1. Base /\ [Next]_vars => [\A e \in Events : Forward(e)]_vars
  <2> SUFFICES ASSUME Base, [Next]_vars, NEW e \in Events PROVE Forward(e)
    OBVIOUS
  <2>1. rows[e].stamp \in Int
    BY DEF Base, TypeInv, TypeOK, Row
  <2>2. rows'[e].stamp >= rows[e].stamp
    BY <2>1, RowsMove DEF RowStep, Moves, Retired
  <2>3. rows[e].status = "released" =>
          \/ rows'[e] = rows[e]
          \/ /\ e = worker.hand
             /\ rows'[e].status = "released" \/ e \in unplanned'
    BY RowsMove DEF RowStep, Moves, Retired
  <2> QED
    BY <2>2, <2>3
<1> QED
  BY <1>1, BaseHolds, PTL DEF Spec, RowsGoForward

-----------------------------------------------------------------------------
(* Why the token is honest.  The row is what the source has ...            *)
Right(e) ==
  /\ source[e].state = "none" => rows[e].status = "none"
  /\ source[e].state = "live" =>
       \/ rows[e].status = "released"
       \/ rows[e].status = "active" /\ rows[e].content = source[e].content
  /\ source[e].state = "cancelled" /\ ~IsOccurrence(e) => rows[e].status # "active"
  /\ source[e].state = "cancelled" /\ IsOccurrence(e) =>
       \/ rows[e].status \in {"cancelled", "released"}
       \/ source[SeriesOf[e]].state = "cancelled"

(* ... or the pass will come to the event before it advances the token, or *)
(* will not advance it ...                                                 *)
Ahead(e) ==
  \/ "new" \in changed[e]
  \/ worker.pc = "list" /\ e \in worker.todo
  \/ worker.full /\ worker.held
  \/ /\ worker.full /\ IsOccurrence(e) /\ source[e].state = "cancelled"
     /\ \/ SeriesOf[e] \in worker.parents
        \/ worker.pc = "list" /\ SeriesOf[e] \in worker.todo

(* (a pass whose token is refused is about to start again)                 *)
Refused == worker.pc = "list" /\ ~worker.full /\ token = "expired"

(* ... or a later pass will, or it was misread.                            *)
Pending(e) ==
  \/ e \in missed
  \/ Reading /\ ~Refused /\ Ahead(e)
  \/ (~Reading \/ Refused) /\ (token # "good" \/ changed[e] # {})

Honest == ~ours => \A e \in Events : Right(e) \/ Pending(e)

(* Why no change is stranded.  An occurrence whose series is to be planned *)
(* is planned with it, and one whose series is gone has no copies.         *)
WithSeries(e) ==
  /\ IsOccurrence(e)
  /\ \/ SeriesOf[e] \in unplanned
     \/ /\ source[SeriesOf[e]].state = "cancelled"
        /\ rows[SeriesOf[e]].status # "active" \/ SeriesOf[e] \in missed

Recalled(e) ==
  e \in queue \/ e \in worker.affected \/ Pending(e) \/ WithSeries(e)

Minded(e) == rows[e].status \in {"active", "cancelled"} /\ Recalled(e)

Remembered == \A e \in unplanned : Minded(e)

(* What a step owes each event.                                            *)
Kept(e) ==
  /\ Right(e) \/ Pending(e) => Right(e)' \/ Pending(e)'
  /\ e \in unplanned' /\ (e \in unplanned => Minded(e)) => Minded(e)'

LEMMA ListedAgain ==
  ASSUME Base, NEW e \in Events
  PROVE  /\ Pending(e) => e \in missed \/ token # "good" \/ changed[e] # {}
         /\ Reading /\ e \in worker.affected => token # "good" \/ changed[e] # {}
  BY DEF Pending, Ahead, Base, InStep

(* A pass that starts a full listing comes to everything there is.         *)
LEMMA FullSees ==
  ASSUME Base, NEW e \in Events, source[e].state # "none", UNCHANGED source,
         worker'.pc = "list", worker'.full, worker'.todo = Listing(TRUE)
  PROVE  Pending(e)'
<1>1. Reading' /\ ~Refused'
  BY DEF Reading, Refused
<1>2. CASE IsOccurrence(e) /\ source[e].state = "cancelled"
  <2>1. SeriesOf[e] \in Events /\ ~IsOccurrence(SeriesOf[e])
        /\ source[SeriesOf[e]].state # "none"
    BY <1>2, SeriesFacts DEF Base, Born
  <2>2. SeriesOf[e] \in worker'.todo
    BY <2>1 DEF Listing, FullListing
  <2>3. Ahead(e)'
    BY <1>2, <2>2 DEF Ahead, IsOccurrence
  <2> QED
    BY <1>1, <2>3 DEF Pending
<1>3. CASE ~(IsOccurrence(e) /\ source[e].state = "cancelled")
  <2>1. e \in worker'.todo
    BY <1>3 DEF Listing, FullListing
  <2>2. Ahead(e)'
    BY <2>1 DEF Ahead
  <2> QED
    BY <1>1, <2>2 DEF Pending
<1> QED
  BY <1>2, <1>3

(* A step that leaves the pass, or is not of one.                          *)
LEMMA LeavesPass ==
  ASSUME Base, UNCHANGED <<source, rows, missed, token, changed>>,
         worker'.pc \in {"idle", "audit", "plan"}, NEW e \in Events
  PROVE  /\ Right(e) => Right(e)'
         /\ Pending(e) => Pending(e)'
         /\ Reading /\ e \in worker.affected => Pending(e)'
<1>1. ~Reading'
  BY DEF Reading
<1>2. Right(e) => Right(e)'
  BY DEF Right, IsOccurrence
<1>3. e \in missed \/ token # "good" \/ changed[e] # {} => Pending(e)'
  BY <1>1 DEF Pending
<1> QED
  BY <1>2, <1>3, ListedAgain

LEMMA StartPassKeeps ==
  ASSUME Base, StartPass, NEW e \in Events
  PROVE  Kept(e)
<1>1. /\ worker.pc = "idle" /\ worker.affected = {} /\ ~Reading
      /\ UNCHANGED <<source, token, rows, queue, unplanned, missed>>
  BY DEF StartPass, google, Base, InStep, Reading
<1>2. /\ worker'.pc = "list" /\ worker'.full = (token = NULL)
      /\ worker'.todo = Listing(token = NULL)
      /\ token # NULL => changed' = changed
  BY DEF StartPass, Idle
<1>3. Right(e) => Right(e)'
  BY <1>1 DEF Right, IsOccurrence
<1>4. source[e].state # "none" /\ Pending(e) => Pending(e)'
  <2> SUFFICES ASSUME source[e].state # "none", Pending(e) PROVE Pending(e)'
    OBVIOUS
  <2>1. CASE token = NULL
    <3>1. worker'.full /\ worker'.todo = Listing(TRUE)
      BY <1>2, <2>1
    <3> QED
      BY <1>1, <1>2, <3>1, FullSees
  <2>2. CASE token # NULL
    <3>1. ~worker'.full /\ worker'.todo = {x \in Events : changed[x] # {}}
      BY <1>2, <2>2 DEF Listing
    <3>2. e \in missed \/ token # "good" \/ changed[e] # {}
      BY ListedAgain
    <3>3. token # "good" => Refused'
      <4>1. token \in {NULL, "good", "expired"}
        BY DEF Base, TypeInv, TypeOK
      <4> QED
        BY <1>1, <1>2, <2>2, <3>1, <4>1 DEF Refused
    <3> QED
      BY <1>1, <1>2, <3>1, <3>2, <3>3 DEF Pending, Reading, Ahead, Refused
  <2> QED
    BY <2>1, <2>2
<1>5. source[e].state = "none" => Right(e)' /\ rows[e].status = "none"
  BY <1>1 DEF Base, Born, Right
<1>6. WithSeries(e) => WithSeries(e)'
  BY <1>1 DEF WithSeries, IsOccurrence
<1> QED
  BY <1>1, <1>3, <1>4, <1>5, <1>6 DEF Kept, Minded, Recalled

LEMMA ExpiredKeeps ==
  ASSUME Base, SyncTokenExpired, NEW e \in Events
  PROVE  Kept(e)
<1>0. worker \in Worker
  BY DEF Base, TypeInv, TypeOK
<1>1. /\ worker.pc = "list"
      /\ UNCHANGED <<source, token, rows, queue, unplanned, missed>>
  BY DEF SyncTokenExpired, google
<1>2. /\ worker'.pc = "list" /\ worker'.full /\ worker'.todo = Listing(TRUE)
      /\ worker'.affected = worker.affected
  BY <1>0 DEF SyncTokenExpired, Worker
<1>3. source[e].state # "none" => Pending(e)'
  BY <1>1, <1>2, FullSees
<1>4. source[e].state = "none" => Right(e)' /\ rows[e].status = "none"
  BY <1>1 DEF Base, Born, Right
<1> QED
  BY <1>1, <1>3, <1>4 DEF Kept, Minded, Recalled

LEMMA IngestEventKeeps ==
  ASSUME Base, ~ours, NEW x \in Events, IngestEvent(x), NEW e \in Events
  PROVE  Kept(e)
<1>1. /\ worker.pc = "list" /\ x \in worker.todo
      /\ worker.full \/ token # "expired"
      /\ changed' = [changed EXCEPT ![x] = {"listed"}]
      /\ UNCHANGED <<source, token, queue>>
  BY IngestEventCases DEF Base, google
<1>2. source[x].state # "none" /\ Taken(x)
  BY <1>1, TakenFromRevivable DEF Base, Born
<1>3. /\ RowsRead({x}) /\ missed' \subseteq Events /\ missed' \ {x} = missed \ {x}
      /\ worker.affected \subseteq worker'.affected
      /\ worker'.todo = worker.todo \ {x}
      /\ worker'.parents = IF IsRecurringParent(x) THEN worker.parents \cup {x}
                                                   ELSE worker.parents
      /\ UNCHANGED <<worker.pc, worker.full, worker.held>>
      /\ \/ x \in missed'
         \/ /\ RowSettles(x)
            /\ rows[x].status \in {"active", "cancelled"} => x \in worker'.affected
  BY <1>2, IngestEventFacts DEF Base
<1>4. /\ \A y \in Events \ {x} : rows'[y] = rows[y] /\ changed'[y] = changed[y]
      /\ Moves(x) /\ unplanned \subseteq unplanned' /\ unplanned' \subseteq unplanned \cup {x}
  BY <1>1, <1>3 DEF RowsRead, Base, TypeInv, TypeOK
<1>5. Reading /\ ~Refused /\ Reading' /\ ~Refused'
  BY <1>1, <1>3 DEF Reading, Refused
<1>6. source[x].state = "cancelled" /\ ~IsOccurrence(x)
        => x \in missed' \/ rows'[x].status # "active"
  BY <1>3 DEF RowSettles
<1>7. x \in missed' \/ Right(x)'
  <2>1. RowSettles(x) => Right(x)'
    BY <1>1, <1>2 DEF RowSettles, Right, IsOccurrence
  <2> QED
    BY <1>3, <2>1
<1>8. CASE e = x
  <2>1. x \in missed' => Pending(x)'
    BY DEF Pending
  <2>2. x \in unplanned => \/ rows[x].status \notin {"active", "cancelled"}
                           \/ Recalled(x)'
    BY <1>3, <2>1 DEF Recalled
  <2>3. x \in unplanned' \ unplanned => Recalled(x)'
    BY <1>4 DEF Moves, Recalled
  <2> QED
    BY <1>4, <1>7, <1>8, <2>1, <2>2, <2>3 DEF Kept, Minded, Moves
<1>9. CASE e # x
  <2>1. Right(e) => Right(e)'
    BY <1>1, <1>4, <1>9 DEF Right, IsOccurrence
  <2>2. Pending(e) => \/ Pending(e)'
                      \/ /\ IsOccurrence(e) /\ source[e].state = "cancelled"
                         /\ SeriesOf[e] = x /\ ~IsRecurringParent(x)
    <3>1. e \in missed => e \in missed'
      BY <1>3, <1>9
    <3>2. Ahead(e) => \/ Ahead(e)'
                      \/ /\ IsOccurrence(e) /\ source[e].state = "cancelled"
                         /\ SeriesOf[e] = x /\ ~IsRecurringParent(x)
      BY <1>1, <1>3, <1>4, <1>9 DEF Ahead, IsOccurrence
    <3> QED
      BY <1>5, <3>1, <3>2 DEF Pending
  <2>3. IsOccurrence(e) /\ SeriesOf[e] = x /\ ~IsRecurringParent(x)
          => source[x].state = "cancelled" /\ ~IsOccurrence(x)
    <3>1. source[x].state \in {"none", "live", "cancelled"}
      BY DEF Base, TypeInv, TypeOK, Revision
    <3> QED
      BY <1>2, <3>1, SeriesFacts DEF IsRecurringParent
  <2>4. IsOccurrence(e) /\ source[e].state = "cancelled" /\ SeriesOf[e] = x
          /\ ~IsRecurringParent(x) => Right(e)' /\ WithSeries(e)'
    BY <1>1, <1>6, <2>3 DEF Right, WithSeries, IsOccurrence
  <2>5. WithSeries(e) => WithSeries(e)'
    <3>1. CASE SeriesOf[e] = x
      BY <1>1, <1>4, <1>6, <3>1, SeriesFacts DEF WithSeries, IsOccurrence
    <3>2. CASE SeriesOf[e] # x
      BY <1>1, <1>3, <1>4, <3>2, SeriesFacts DEF WithSeries, IsOccurrence
    <3> QED
      BY <3>1, <3>2
  <2>6. e \in unplanned' => e \in unplanned /\ rows'[e].status = rows[e].status
    BY <1>4, <1>9
  <2> QED
    BY <1>1, <1>3, <2>1, <2>2, <2>4, <2>5, <2>6 DEF Kept, Minded, Recalled
<1> QED
  BY <1>8, <1>9

LEMMA ScanKeeps ==
  ASSUME Base, ~ours, NEW s \in Events, ScanInstances(s), NEW e \in Events
  PROVE  Kept(e)
<1>1. /\ worker.pc = "scan" /\ s \in worker.parents
      /\ UNCHANGED <<source, token, queue>>
  BY ScanCases DEF Base, google
<1>2. worker.full /\ worker.todo = {} /\ Reading /\ ~Refused
  BY <1>1 DEF Base, InStep, Reading, Refused
<1>3. CASE /\ Scans(s) /\ missed' = missed \ Lost(s)
           /\ changed' = [x \in Events |->
                IF x \in Lost(s) THEN {"listed"} ELSE changed[x]]
  <2>1. /\ RowsRead(Lost(s)) /\ worker.affected \subseteq worker'.affected
        /\ worker'.parents = worker.parents \ {s}
        /\ worker'.pc = (IF worker.parents = {s} THEN "record" ELSE worker.pc)
        /\ UNCHANGED <<worker.full, worker.held, worker.todo>>
        /\ \A o \in Lost(s) :
             /\ RowSettles(o)
             /\ rows[o].status \in {"active", "cancelled"} => o \in worker'.affected
    BY <1>3, ScanFacts DEF Base
  <2>2. Reading' /\ ~Refused'
    BY <1>1, <2>1 DEF Reading, Refused
  <2>3. unplanned \subseteq unplanned' /\ unplanned' \subseteq unplanned \cup Lost(s)
    BY <2>1 DEF RowsRead
  <2>4. CASE e \in Lost(s)
    <3>1. Right(e)'
      <4>1. source[e].state = "cancelled" /\ IsOccurrence(e)
        BY <2>4, SeriesFacts DEF Lost
      <4> QED
        BY <1>1, <2>1, <2>4, <4>1 DEF Right, RowSettles, IsOccurrence
    <3>2. Moves(e)
      BY <2>1, <2>4 DEF RowsRead
    <3> QED
      BY <2>1, <2>4, <3>1, <3>2 DEF Kept, Minded, Recalled, Moves
  <2>5. CASE e \notin Lost(s)
    <3>1. rows'[e] = rows[e] /\ changed'[e] = changed[e]
          /\ (e \in missed => e \in missed')
      BY <1>3, <2>1, <2>5 DEF RowsRead
    <3>2. Right(e) => Right(e)'
      BY <1>1, <3>1 DEF Right, IsOccurrence
    <3>3. IsOccurrence(e) /\ source[e].state = "cancelled" => SeriesOf[e] # s
      BY <2>5, SeriesFacts DEF Lost
    <3>4. Pending(e) => Pending(e)'
      BY <1>1, <1>2, <2>1, <2>2, <3>1, <3>3 DEF Pending, Ahead, IsOccurrence
    <3>5. WithSeries(e) => WithSeries(e)'
      <4>1. IsOccurrence(e) => SeriesOf[e] \in Events \ Lost(s)
        BY SeriesFacts DEF Lost
      <4> QED
        BY <1>1, <1>3, <2>1, <2>3, <4>1 DEF WithSeries, IsOccurrence, RowsRead
    <3> QED
      BY <1>1, <2>1, <2>3, <2>5, <3>1, <3>2, <3>4, <3>5 DEF Kept, Minded, Recalled
  <2> QED
    BY <2>4, <2>5
<1>4. CASE /\ worker' = [worker EXCEPT !.held = TRUE, !.parents = @ \ {s}, !.hand = NULL,
                !.pc = IF worker.parents = {s} THEN "record" ELSE @]
           /\ UNCHANGED <<rows, unplanned, missed, changed>>
  <2>1. worker \in Worker
    BY DEF Base, TypeInv, TypeOK
  <2>2. worker'.full /\ worker'.held /\ worker'.pc \in {"scan", "record"}
    BY <1>1, <1>2, <1>4, <2>1 DEF Worker
  <2>3. Pending(e)'
    BY <2>2 DEF Pending, Reading, Refused, Ahead
  <2> QED
    BY <1>4, <2>3 DEF Kept, Minded, Recalled
<1> QED
  BY <1>3, <1>4, ScanCases DEF Base

(* The last page, and the two durable writes after it.                     *)
LEMMA DurableKeeps ==
  ASSUME Base, ListingEnds \/ RecordAffected \/ AdvanceToken, NEW e \in Events
  PROVE  Kept(e)
<1>0. worker \in Worker
  BY DEF Base, TypeInv, TypeOK
<1>1. CASE ListingEnds
  <2>1. /\ worker.pc = "list" /\ worker.todo = {} /\ Reading /\ ~Refused
        /\ UNCHANGED <<source, changed, token, rows, queue, unplanned, missed>>
    BY <1>1 DEF ListingEnds, google, Reading, Refused
  <2>2. /\ worker'.pc \in {"scan", "record"}
        /\ UNCHANGED <<worker.parents, worker.affected, worker.full, worker.held>>
    BY <1>0, <1>1 DEF ListingEnds, Worker
  <2>3. Pending(e) => Pending(e)'
    BY <2>1, <2>2 DEF Pending, Ahead, Reading, Refused, IsOccurrence
  <2>4. Right(e) => Right(e)'
    BY <2>1 DEF Right, IsOccurrence
  <2>5. WithSeries(e) => WithSeries(e)'
    BY <2>1 DEF WithSeries, IsOccurrence
  <2> QED
    BY <2>1, <2>2, <2>3, <2>4, <2>5 DEF Kept, Minded, Recalled
<1>2. CASE RecordAffected
  <2>1. /\ worker.pc = "record" /\ Reading /\ ~Refused
        /\ queue' = queue \cup worker.affected
        /\ UNCHANGED <<source, changed, token, rows, unplanned, missed>>
    BY <1>2 DEF RecordAffected, google, Reading, Refused
  <2>2. /\ worker'.pc = "token"
        /\ UNCHANGED <<worker.parents, worker.full, worker.held>>
    BY <1>0, <1>2 DEF RecordAffected, Worker
  <2>3. Pending(e) => Pending(e)'
    BY <2>1, <2>2 DEF Pending, Ahead, Reading, Refused, IsOccurrence
  <2>4. Right(e) => Right(e)'
    BY <2>1 DEF Right, IsOccurrence
  <2>5. WithSeries(e) => WithSeries(e)'
    BY <2>1 DEF WithSeries, IsOccurrence
  <2> QED
    BY <2>1, <2>3, <2>4, <2>5 DEF Kept, Minded, Recalled
<1>3. CASE AdvanceToken
  <2>1. /\ worker.pc = "token" /\ Reading /\ ~Refused
        /\ token' = IF worker.held THEN NULL ELSE "good"
        /\ changed' = [x \in Events |-> changed[x] \ {"listed"}]
        /\ UNCHANGED <<source, rows, queue, unplanned, missed>>
    BY <1>3 DEF AdvanceToken, google, Reading, Refused
  <2>2. worker'.pc = "plan" /\ ~Reading'
    BY <1>3 DEF AdvanceToken, Idle, Reading
  <2>3. worker.full => worker.parents = {}
    BY <2>1 DEF Base, InStep
  <2>4. Ahead(e) => token' # "good" \/ changed'[e] # {}
    <3>1. "new" \in changed[e] => "new" \in changed'[e]
      BY <2>1
    <3>2. worker.held => token' # "good"
      BY <2>1, ConstantsAssumption
    <3> QED
      BY <2>1, <2>3, <3>1, <3>2 DEF Ahead
  <2>5. Pending(e) => Pending(e)'
    BY <2>1, <2>2, <2>4 DEF Pending
  <2>6. Right(e) => Right(e)'
    BY <2>1 DEF Right, IsOccurrence
  <2>7. WithSeries(e) => WithSeries(e)'
    BY <2>1 DEF WithSeries, IsOccurrence
  <2>8. worker.affected \subseteq queue
    BY <2>1 DEF Base, InStep
  <2> QED
    BY <2>1, <2>5, <2>6, <2>7, <2>8 DEF Kept, Minded, Recalled
<1> QED
  BY <1>1, <1>2, <1>3

(* The pass fails or the process ends: the affected ids go, the token      *)
(* stays.                                                                  *)
LEMMA BreakKeeps ==
  ASSUME Base, IngestFails \/ Crash, NEW e \in Events
  PROVE  Kept(e)
<1>0. /\ worker.pc \notin {"idle", "audit"}
      /\ UNCHANGED <<source, changed, token, rows, queue, unplanned, missed>>
      /\ worker'.pc \in {"idle", "plan"}
  BY DEF IngestFails, Crash, google, Idle
<1>1. e \in worker.affected => Reading
  BY <1>0 DEF Base, InStep, Reading, TypeInv, TypeOK, Worker
<1>2. WithSeries(e) => WithSeries(e)'
  BY <1>0 DEF WithSeries, IsOccurrence
<1> QED
  BY <1>0, <1>1, <1>2, LeavesPass DEF Kept, Minded, Recalled

(* The audit, but for what it reads, and the planner.  An audit that fails *)
(* keeps nothing of its own.                                               *)
LEMMA AsideKeeps ==
  ASSUME Base, StartAudit \/ AuditRecords \/ AuditFails \/ PlanAffected,
         NEW e \in Events
  PROVE  /\ Right(e) \/ Pending(e) => Right(e)' \/ Pending(e)'
         /\ worker.affected = {} \/ ~AuditFails => Kept(e)
<1>0. /\ UNCHANGED <<source, changed, token, rows, missed>>
      /\ worker'.pc \in {"idle", "audit", "plan"}
  <2>1. StartAudit => worker'.pc = "audit"
    BY DEF StartAudit, Idle
  <2>2. AuditRecords \/ AuditFails \/ PlanAffected => worker'.pc \in {"idle", "plan"}
    BY DEF AuditRecords, AuditFails, PlanAffected, Idle
  <2>3. UNCHANGED <<source, changed, token, rows, missed>>
    BY DEF StartAudit, AuditRecords, AuditFails, PlanAffected, google
  <2> QED
    BY <2>1, <2>2, <2>3
<1>1. (Right(e) => Right(e)') /\ (Pending(e) => Pending(e)')
  BY <1>0, LeavesPass
<1>2. CASE StartAudit \/ AuditFails
  <2>1. UNCHANGED <<queue, unplanned>>
    BY <1>2 DEF StartAudit, AuditFails
  <2>2. WithSeries(e) => WithSeries(e)'
    BY <1>0, <2>1 DEF WithSeries, IsOccurrence
  <2>3. StartAudit => worker.affected = {}
    BY DEF StartAudit, Base, InStep
  <2>4. worker.affected = {} => Kept(e)
    BY <1>0, <1>1, <2>1, <2>2 DEF Kept, Minded, Recalled
  <2>5. ~(StartAudit /\ AuditFails)
    BY DEF StartAudit, AuditFails
  <2> QED
    BY <1>1, <1>2, <2>3, <2>4, <2>5
<1>3. CASE AuditRecords
  <2>1. queue' = queue \cup worker.affected /\ unplanned' = unplanned
    BY <1>3 DEF AuditRecords
  <2>2. WithSeries(e) => WithSeries(e)'
    BY <1>0, <2>1 DEF WithSeries, IsOccurrence
  <2> QED
    BY <1>0, <1>1, <2>1, <2>2 DEF Kept, Minded, Recalled
<1>4. CASE PlanAffected
  <2>1. /\ unplanned' = unplanned \ (queue \cup {o \in Events : SeriesOf[o] \in queue})
        /\ worker.affected = {} /\ queue \subseteq Events
    BY <1>4 DEF PlanAffected, Base, InStep, TypeInv, TypeOK
  <2>2. e \in unplanned' /\ WithSeries(e) => WithSeries(e)'
    <3>1. IsOccurrence(e) => SeriesOf[SeriesOf[e]] \notin queue
      BY <2>1, SeriesFacts, ConstantsAssumption DEF IsOccurrence
    <3> QED
      BY <1>0, <2>1, <3>1 DEF WithSeries, IsOccurrence
  <2> QED
    BY <1>0, <1>1, <2>1, <2>2 DEF Kept, Minded, Recalled
<1> QED
  BY <1>1, <1>2, <1>3, <1>4

LEMMA AuditEventKeeps ==
  ASSUME Base, ~ours, NEW x \in Events, AuditEvent(x), NEW e \in Events
  PROVE  Kept(e)
<1>1. /\ worker.pc = "audit" /\ ~Reading
      /\ UNCHANGED <<source, changed, token, queue>>
  BY DEF AuditEvent, Reading, google
<1>2. kind = "client" /\ Taken(x) /\ (rows[x].status = "none" => rows[x] = NoRow)
  BY <1>1, TakenFromRevivable DEF Base, InStep, Born
<1>3. /\ RowsRead({x}) /\ missed' \ {x} = missed \ {x} /\ missed' \subseteq Events
      /\ worker.affected \subseteq worker'.affected
      /\ UNCHANGED worker.pc
      /\ \/ x \in missed'
         \/ /\ rows'[x].status = rows[x].status
            /\ rows'[x].content = rows[x].content /\ missed' = missed
         \/ /\ source[x].state = "live" /\ RowSettles(x)
            /\ \/ missed' = missed
               \/ x \notin unplanned' \/ x \in worker'.affected
  BY <1>2, AuditEventFacts DEF Base
<1>4. /\ \A y \in Events \ {x} : rows'[y] = rows[y]
      /\ Moves(x) /\ unplanned \subseteq unplanned' /\ unplanned' \subseteq unplanned \cup {x}
      /\ ~Reading'
  BY <1>1, <1>3 DEF RowsRead, Reading
<1>5. WithSeries(e) => WithSeries(e)'
  <2>1. CASE SeriesOf[e] = x
    BY <1>1, <1>3, <1>4, <2>1 DEF WithSeries, IsOccurrence
  <2>2. CASE SeriesOf[e] # x
    BY <1>1, <1>3, <1>4, <2>2, SeriesFacts DEF WithSeries, IsOccurrence
  <2> QED
    BY <2>1, <2>2
<1>6. CASE e # x
  <2>1. Right(e) => Right(e)'
    BY <1>1, <1>4, <1>6 DEF Right, IsOccurrence
  <2>2. Pending(e) => Pending(e)'
    BY <1>1, <1>3, <1>4, <1>6 DEF Pending
  <2> QED
    BY <1>1, <1>3, <1>4, <1>5, <1>6, <2>1, <2>2 DEF Kept, Minded, Recalled
<1>7. CASE e = x
  <2>1. Right(e) \/ Pending(e) => Right(e)' \/ Pending(e)'
    <3>1. x \in missed' => Pending(x)'
      BY DEF Pending
    <3>2. source[x].state = "live" /\ RowSettles(x) => Right(x)'
      BY <1>1 DEF RowSettles, Right, IsOccurrence
    <3>3. rows'[x].status = rows[x].status /\ rows'[x].content = rows[x].content
            => (Right(x) => Right(x)')
      BY <1>1 DEF Right, IsOccurrence
    <3>4. missed' = missed => (Pending(x) => Pending(x)')
      BY <1>1, <1>4 DEF Pending
    <3> QED
      BY <1>3, <1>7, <3>1, <3>2, <3>3, <3>4
  <2>2. x \in unplanned' /\ Pending(x) => Pending(x)' \/ x \in worker'.affected
    BY <1>1, <1>3, <1>4 DEF Pending
  <2> QED
    BY <1>1, <1>3, <1>4, <1>5, <1>7, <2>1, <2>2 DEF Kept, Minded, Recalled, Moves
<1> QED
  BY <1>6, <1>7

LEMMA TokenExpiresKeeps ==
  ASSUME Base, TokenExpires, NEW e \in Events
  PROVE  Kept(e)
<1>1. /\ token = "good" /\ token' \in {"expired", NULL} /\ token' # "good"
      /\ UNCHANGED <<source, changed, rows, queue, unplanned, missed, worker>>
  BY ConstantsAssumption DEF TokenExpires, google
<1>2. Reading => ~worker.full
  BY <1>1 DEF Base, InStep
<1>3. ~Refused
  BY <1>1 DEF Refused
<1>4. Ahead(e) => Ahead(e)'
  BY <1>1 DEF Ahead, IsOccurrence
<1>5. Pending(e) => Pending(e)'
  BY <1>1, <1>3, <1>4 DEF Pending, Reading
<1>6. Right(e) => Right(e)'
  BY <1>1 DEF Right, IsOccurrence
<1>7. WithSeries(e) => WithSeries(e)'
  BY <1>1 DEF WithSeries, IsOccurrence
<1> QED
  BY <1>1, <1>5, <1>6, <1>7 DEF Kept, Minded, Recalled

LEMMA ReleaseKeeps ==
  ASSUME Base, NEW x \in Events, Release(x), NEW e \in Events
  PROVE  Kept(e)
<1>1. /\ rows[x].status = "active" /\ OccurrencesOf(x) = {}
      /\ rows' = [rows EXCEPT ![x].status = "released"]
      /\ unplanned' = unplanned \ {x}
      /\ worker' = worker \/ worker' = [worker EXCEPT !.hand = x]
      /\ UNCHANGED <<source, changed, token, queue, missed>>
  BY DEF Release, google
<1>0. UNCHANGED <<worker.pc, worker.todo, worker.parents, worker.affected,
                  worker.full, worker.held>>
  BY <1>1 DEF Base, TypeInv, TypeOK, Worker
<1>2. /\ rows'[x].status = "released" /\ \A y \in Events \ {x} : rows'[y] = rows[y]
      /\ source[x].state # "none"
  BY <1>1 DEF Base, TypeInv, TypeOK, Row, Born
<1>3. Pending(e) => Pending(e)'
  BY <1>0, <1>1 DEF Pending, Ahead, Reading, Refused, IsOccurrence
<1>4. Right(x)'
  BY <1>1, <1>2 DEF Right, IsOccurrence
<1>5. e # x /\ Right(e) => Right(e)'
  BY <1>1, <1>2 DEF Right, IsOccurrence
<1>6. IsOccurrence(e) => SeriesOf[e] \in Events \ {x}
  BY <1>1, SeriesFacts
<1>7. WithSeries(e) => WithSeries(e)'
  BY <1>1, <1>2, <1>6 DEF WithSeries, IsOccurrence
<1> QED
  BY <1>0, <1>1, <1>2, <1>3, <1>4, <1>5, <1>7 DEF Kept, Minded, Recalled

(* What people do is listed, but for the exceptions that go with a series; *)
(* and a series that is gone stays gone.                                   *)
LEMMA PeopleAreListed ==
  ASSUME Base, People, NEW x \in Events
  PROVE  /\ \/ source'[x] = source[x] \/ "new" \in changed'[x]
            \/ /\ IsOccurrence(x) /\ source'[x].state = "cancelled"
               /\ source'[SeriesOf[x]].state = "cancelled"
         /\ OccurrencesOf(x) # {} /\ source[x].state = "cancelled"
              => source'[x].state = "cancelled"
<1>0. source \in [Events -> Revision] /\ changed \in [Events -> SUBSET {"listed", "new"}]
  BY DEF Base, TypeInv, TypeOK
<1>1. ASSUME NEW e \in Events, NEW r, Revise(e, r),
             OccurrencesOf(e) = {} \/ source[e].state # "cancelled"
      PROVE  /\ source'[x] = source[x] \/ "new" \in changed'[x]
             /\ OccurrencesOf(x) # {} /\ source[x].state = "cancelled"
                  => source'[x].state = "cancelled"
  BY <1>0, <1>1 DEF Revise
<1>2. ASSUME NEW e \in Events, SomebodyAdds(e) \/ SomebodyEdits(e) \/ SomebodySkips(e)
                                 \/ SomebodyRestores(e)
      PROVE  /\ source'[x] = source[x] \/ "new" \in changed'[x]
             /\ OccurrencesOf(x) # {} /\ source[x].state = "cancelled"
                  => source'[x].state = "cancelled"
  <2>1. OccurrencesOf(e) = {} \/ source[e].state # "cancelled"
    BY <1>2 DEF SomebodyAdds, SomebodyEdits, SomebodySkips, SomebodyRestores
  <2>2. \E r : Revise(e, r)
    BY <1>2 DEF SomebodyAdds, SomebodyEdits, SomebodySkips, SomebodyRestores
  <2> QED
    BY <1>1, <2>1, <2>2
<1>3. ASSUME NEW e \in Events, SomebodyDeletes(e)
      PROVE  /\ \/ source'[x] = source[x] \/ "new" \in changed'[x]
                \/ /\ IsOccurrence(x) /\ source'[x].state = "cancelled"
                   /\ source'[SeriesOf[x]].state = "cancelled"
             /\ OccurrencesOf(x) # {} /\ source[x].state = "cancelled"
                  => source'[x].state = "cancelled"
  <2> DEFINE gone == {e} \cup {o \in OccurrencesOf(e) : source[o].state = "live"}
             fallen(y) == [source[y] EXCEPT !.state = "cancelled", !.stamp = @ + 1]
  <2>1. /\ source' = [y \in Events |-> IF y \in gone THEN fallen(y) ELSE source[y]]
        /\ \E listed \in {{e}, gone} :
             changed' = [y \in Events |->
               IF y \in listed THEN changed[y] \cup {"new"} ELSE changed[y]]
    BY <1>3 DEF SomebodyDeletes
  <2>2. \A y \in Events : fallen(y).state = "cancelled"
    BY <1>0 DEF Revision
  <2>3. x \in gone /\ x # e => IsOccurrence(x) /\ SeriesOf[x] = e
    BY SeriesFacts
  <2>4. e \in gone
    OBVIOUS
  <2> HIDE DEF gone, fallen
  <2>5. "new" \in changed'[e]
    BY <2>1, <2>4
  <2>6. source'[e].state = "cancelled"
    BY <2>1, <2>2, <2>4
  <2> QED
    BY <2>1, <2>2, <2>3, <2>5, <2>6
<1> QED
  BY <1>2, <1>3 DEF People

LEMMA PeopleKeep ==
  ASSUME Base, People, NEW e \in Events
  PROVE  Kept(e)
<1>1. /\ UNCHANGED <<token, rows, queue, unplanned, missed, worker>>
      /\ changed[e] \subseteq changed'[e]
      /\ source'[e] # source[e] => source'[e].state # "none"
  BY PeopleMove DEF SourceMoves
<1>2. \/ source'[e] = source[e] \/ "new" \in changed'[e]
      \/ /\ IsOccurrence(e) /\ source'[e].state = "cancelled"
         /\ source'[SeriesOf[e]].state = "cancelled"
  BY PeopleAreListed
<1>3. IsOccurrence(e) /\ source[SeriesOf[e]].state = "cancelled"
        => source'[SeriesOf[e]].state = "cancelled"
  BY PeopleAreListed, SeriesFacts
<1>4. "new" \in changed'[e] => Pending(e)'
  BY <1>1 DEF Pending, Ahead, Reading, Refused
<1>5. Pending(e) => Pending(e)'
  <2>1. changed[e] # {} => changed'[e] # {}
    BY <1>1
  <2>2. Ahead(e) => Ahead(e)' \/ "new" \in changed'[e]
    BY <1>1, <1>2 DEF Ahead, IsOccurrence
  <2> QED
    BY <1>1, <1>4, <2>1, <2>2 DEF Pending, Reading, Refused
<1>6. Right(e) => Right(e)' \/ Pending(e)'
  <2>1. source'[e] = source[e] /\ Right(e) => Right(e)'
    BY <1>1, <1>3 DEF Right, IsOccurrence
  <2>2. IsOccurrence(e) /\ source'[e].state = "cancelled"
          /\ source'[SeriesOf[e]].state = "cancelled" => Right(e)'
    BY DEF Right, IsOccurrence
  <2> QED
    BY <1>2, <1>4, <2>1, <2>2
<1>7. WithSeries(e) => WithSeries(e)'
  BY <1>1, <1>3 DEF WithSeries, IsOccurrence
<1> QED
  BY <1>1, <1>5, <1>6, <1>7 DEF Kept, Minded, Recalled

-----------------------------------------------------------------------------
LEMMA OursStays == Base /\ [Next]_vars => ours' = ours
<1> SUFFICES ASSUME Base, [Next]_vars PROVE ours' = ours
  OBVIOUS
<1>1. \A e \in Events : IngestEvent(e) \/ ScanInstances(e) \/ AuditEvent(e) \/ Release(e)
        => ours' = ours
  BY DEF IngestEvent, ScanInstances, AuditEvent, Release
<1>2. StartPass \/ SyncTokenExpired \/ ListingEnds \/ RecordAffected
        \/ AdvanceToken \/ IngestFails \/ StartAudit \/ AuditRecords
        \/ AuditFails \/ PlanAffected \/ TokenExpires \/ Crash => ours' = ours
  BY DEF StartPass, SyncTokenExpired, ListingEnds, RecordAffected, AdvanceToken,
         IngestFails, StartAudit, AuditRecords, AuditFails, PlanAffected,
         TokenExpires, Crash
<1>3. People => ours' = ours
  BY PeopleMove DEF SourceMoves
<1> QED
  BY <1>1, <1>2, <1>3
     DEF Next, ClientPass, PersonalPass, MainPass, IngestPass, AuditPass, vars

(* Every step but an audit that breaks off keeps what it owes.             *)
LEMMA NextKeeps ==
  ASSUME Base, ~ours, [Next]_vars, NEW e \in Events
  PROVE  /\ Right(e) \/ Pending(e) => Right(e)' \/ Pending(e)'
         /\ worker.affected = {} \/ ~AuditFails => Kept(e)
<1>1. CASE IngestPass
  <2>1. ASSUME NEW x \in Events, IngestEvent(x) \/ ScanInstances(x) PROVE Kept(e)
    BY <2>1, IngestEventKeeps, ScanKeeps
  <2>2. StartPass \/ SyncTokenExpired => Kept(e)
    BY StartPassKeeps, ExpiredKeeps
  <2>3. ListingEnds \/ RecordAffected \/ AdvanceToken => Kept(e)
    BY DurableKeeps
  <2>4. Kept(e)
    BY <1>1, <2>1, <2>2, <2>3 DEF IngestPass
  <2> QED
    BY <2>4 DEF Kept
<1>2. CASE IngestFails \/ Crash
  BY <1>2, BreakKeeps DEF Kept
<1>3. CASE StartAudit \/ AuditRecords \/ AuditFails \/ PlanAffected
  BY <1>3, AsideKeeps
<1>4. ASSUME NEW x \in Events, AuditEvent(x) \/ Release(x) PROVE Kept(e)
  BY <1>4, AuditEventKeeps, ReleaseKeeps
<1>5. CASE \E x \in Events : AuditEvent(x) \/ Release(x)
  BY <1>4, <1>5 DEF Kept
<1>6. CASE TokenExpires
  BY <1>6, TokenExpiresKeeps DEF Kept
<1>7. CASE People
  BY <1>7, PeopleKeep DEF Kept
<1>8. CASE UNCHANGED vars
  <2>1. (Right(e) => Right(e)') /\ (Pending(e) => Pending(e)')
        /\ (WithSeries(e) => WithSeries(e)')
    BY <1>8 DEF vars, google, Right, Pending, Ahead, Reading, Refused, WithSeries,
                IsOccurrence
  <2>2. Minded(e) => Minded(e)'
    BY <1>8, <2>1 DEF vars, google, Minded, Recalled
  <2> QED
    BY <1>8, <2>1, <2>2 DEF Kept, vars
<1> QED
  BY <1>1, <1>2, <1>3, <1>5, <1>6, <1>7, <1>8
     DEF Next, ClientPass, PersonalPass, MainPass, AuditPass

LEMMA HonestHolds == Spec => []Honest
<1>1. Init => Honest
  <2> SUFFICES ASSUME Init, NEW e \in Events PROVE Right(e)
    BY DEF Honest
  <2>1. source[e].state = "none" /\ rows[e].status = "none"
    BY DEF Init, Unborn, NoRow
  <2> QED
    BY <2>1 DEF Right
<1>2. Base /\ Honest /\ [Next]_vars => Honest'
  <2> SUFFICES ASSUME Base, Honest, [Next]_vars, ~ours', NEW e \in Events
               PROVE  Right(e)' \/ Pending(e)'
    BY DEF Honest
  <2>1. ~ours
    BY OursStays
  <2> QED
    BY <2>1, NextKeeps DEF Honest
<1> QED
  BY <1>1, <1>2, BaseHolds, PTL DEF Spec

(* Whatever the calendar, and whatever interrupts a pass: what the token   *)
(* says is read agrees with the ledger, or was misread.                    *)
THEOREM TokenNeverAhead == Spec => []TokenIsHonest
<1>1. Base /\ Honest => TokenIsHonest
  <2> SUFFICES ASSUME Base, Honest, NEW e \in Events, ~ours, ~WillBeListed(e),
                      ~Misread(e)
               PROVE  Agrees(e)
    BY DEF TokenIsHonest
  <2>1. Right(e)
    BY ListedAgain DEF Honest, WillBeListed, Misread
  <2>2. IsOccurrence(e) => Right(SeriesOf[e]) /\ ~IsOccurrence(SeriesOf[e])
    BY ListedAgain, SeriesFacts DEF Honest, WillBeListed, Misread
  <2>3. source[e].state \in {"none", "live", "cancelled"}
    BY DEF Base, TypeInv, TypeOK, Revision
  <2>4. CASE source[e].state = "cancelled" /\ ~IsOccurrence(e)
    BY <2>1, <2>4 DEF Right, Agrees, Effective, Hidden
  <2>5. CASE /\ source[e].state = "cancelled" /\ IsOccurrence(e)
             /\ rows[e].status \in {"cancelled", "released"}
    BY <2>5 DEF Agrees, Effective, Hidden
  <2>6. CASE /\ source[e].state = "cancelled" /\ IsOccurrence(e)
             /\ source[SeriesOf[e]].state = "cancelled"
    <3>1. rows[SeriesOf[e]].status # "active"
      BY <2>2, <2>6 DEF Right
    <3> QED
      BY <2>6, <3>1 DEF Agrees, Effective, Hidden, HasCopies
  <2>7. CASE source[e].state \in {"none", "live"}
    BY <2>1, <2>7 DEF Right, Agrees
  <2> QED
    BY <2>1, <2>3, <2>4, <2>5, <2>6, <2>7 DEF Right
<1> QED
  BY <1>1, BaseHolds, HonestHolds, PTL

(* With no audit that breaks off in the middle of a page, nothing a pass   *)
(* wrote is forgotten.                                                     *)
LEMMA RememberedHolds ==
  ASSUME "audit" \notin FaultKinds
  PROVE  Spec => []Remembered
<1>1. Init => Remembered
  BY DEF Init, Remembered
<1>2. Base /\ Remembered /\ [Next]_vars => Remembered'
  <2> SUFFICES ASSUME Base, Remembered, [Next]_vars, Base', NEW e \in Events,
                      e \in unplanned'
               PROVE  Minded(e)'
    BY NextBase DEF Remembered, Base, TypeInv, TypeOK
  <2>1. CASE ours
    <3>1. e \in unplanned /\ e \in Events
      BY <2>1, RowsMove DEF RowStep
    <3>2. rows[e].status = "none"
      BY <2>1, <3>1 DEF Base, Echoless
    <3> QED
      BY <3>1, <3>2 DEF Remembered, Minded
  <2>2. CASE ~ours
    <3>1. AuditFails => worker.affected = {}
      BY DEF AuditFails, Spend
    <3> QED
      BY <2>2, <3>1, NextKeeps DEF Kept, Remembered
  <2> QED
    BY <2>1, <2>2
<1> QED
  BY <1>1, <1>2, BaseHolds, PTL DEF Spec

THEOREM NothingStranded ==
  ASSUME "audit" \notin FaultKinds
  PROVE  Spec => []NoChangeStranded
<1>1. Base /\ Remembered => NoChangeStranded
  <2> SUFFICES ASSUME Base, Remembered, NEW e \in unplanned, HasCopies(e),
                      e \notin queue, SeriesOf[e] \notin queue,
                      ~WillBeListed(e), ~Misread(e)
               PROVE  worker.pc = "audit" /\ {e, SeriesOf[e]} \cap worker.affected # {}
    BY DEF NoChangeStranded
  <2>1. e \in Events /\ unplanned \subseteq Events
    BY DEF Base, TypeInv, TypeOK
  <2>2. \A x \in Events : x \in worker.affected /\ token = "good" /\ changed[x] = {}
                           => worker.pc = "audit"
    BY ListedAgain DEF Base, InStep, Reading, TypeInv, TypeOK, Worker
  <2>3. token = "good" /\ changed[e] = {} /\ e \notin missed /\ SeriesOf[e] \notin missed
    BY DEF WillBeListed, Misread
  <2>4. ~Pending(e)
    BY <2>1, <2>3, ListedAgain
  <2>5. CASE e \in worker.affected
    BY <2>1, <2>2, <2>3, <2>5
  <2>6. CASE WithSeries(e)
    <3>1. /\ SeriesOf[e] \in Events /\ ~IsOccurrence(SeriesOf[e])
          /\ changed[SeriesOf[e]] = {} /\ rows[SeriesOf[e]].status = "active"
      BY <2>1, <2>6, SeriesFacts DEF WithSeries, WillBeListed, HasCopies
    <3>2. SeriesOf[e] \in unplanned
      BY <2>3, <2>6, <3>1 DEF WithSeries
    <3>3. ~Pending(SeriesOf[e])
      BY <2>3, <3>1, ListedAgain
    <3>4. SeriesOf[e] \in worker.affected
      BY <3>1, <3>2, <3>3 DEF Remembered, Minded, Recalled, WithSeries
    <3> QED
      BY <2>2, <2>3, <3>1, <3>4
  <2> QED
    BY <2>4, <2>5, <2>6 DEF Remembered, Minded, Recalled
<1> QED
  BY <1>1, BaseHolds, RememberedHolds, PTL

-----------------------------------------------------------------------------
(* Conference rooms.  What a read leaves as a candidate is what it read,   *)
(* and only the candidate of the read before becomes the room.             *)
Mark(room) == IF room = NULL THEN GONE ELSE room

Credits(row, r, out) ==
  /\ out.row.candidate \in {row.candidate, NULL, Mark(r.room)}
  /\ kind = "client" /\ row.status \in {"active", "released"}
     /\ out.row.room # row.room
       => out.row.room = r.room /\ row.candidate = Mark(r.room)

LEMMA CreditParts ==
  ASSUME NEW row \in Row, NEW r \in Revision, NEW audit \in BOOLEAN
  PROVE  /\ Credits(row, r, Ignored(row)) /\ Credits(row, r, Skipped(row))
         /\ Credits(row, r, Applied(row, r, audit))
         /\ kind # "client" => Credits(row, r, Overwritten(row, r))
         /\ Credits(row, r, CancelledInstance(row))
         /\ Credits(row, r, LiveInstance(row, r, audit))
         /\ Credits(row, r, TopCancelled(row))
         /\ row.status = "none" => Credits(row, r, Inserted(r))
<1>1. Credits(row, r, Ignored(row)) /\ Credits(row, r, Skipped(row))
  BY DEF Credits, Ignored, Skipped, Outcome
<1>2. row.status = "none" => Credits(row, r, Inserted(r))
  BY DEF Credits, Inserted, Written, Outcome
<1>3. Credits(row, r, Cancelled(row))
  BY DEF Credits, Cancelled, Written, Outcome, Row
<1> DEFINE c == ResolveConference(row, r.room)
<1>4. /\ c.candidate \in {NULL, Mark(r.room)}
      /\ c.room # row.room => c.room = r.room /\ row.candidate = Mark(r.room)
  BY DEF ResolveConference, Conference, Mark
<1> HIDE DEF c
<1>5. Credits(row, r, Written(Settled(row, r, c)))
  BY <1>4 DEF Credits, Written, Settled, Outcome
<1>6. Credits(row, r, Skipped([row EXCEPT !.candidate = c.candidate]))
  BY <1>4 DEF Credits, Skipped, Outcome, Row
<1>7. kind # "client" => Credits(row, r, Written([row EXCEPT !.status = "active",
            !.content = r.content, !.room = r.room, !.stamp = r.stamp]))
  BY DEF Credits, Written, Outcome, Row
<1> QED
  BY <1>1, <1>2, <1>3, <1>5, <1>6, <1>7
     DEF Applied, Overwritten, CancelledInstance, LiveInstance, TopCancelled, c

LEMMA HandlerCredits ==
  ASSUME NEW row \in Row, NEW e \in Events, NEW r \in Revision,
         NEW detached \in BOOLEAN, NEW audit \in BOOLEAN, kind \in Kinds
  PROVE  Credits(row, r, Handler(row, e, r, detached, audit))
<1>2. Credits(row, r, Instance(row, r, audit))
      /\ Credits(row, r, Instance(row, r, FALSE))
  BY CreditParts DEF Instance
<1>3. Credits(row, r, Detached(row, e, r))
  BY <1>2, CreditParts DEF Detached
<1>4. kind # "client" => Credits(row, r, PersonalTop(row, r))
  BY CreditParts DEF PersonalTop
<1>5. Credits(row, r, ForeignEvent(row, e, r, detached, audit))
  BY <1>2, <1>3, CreditParts DEF ForeignEvent
<1>6. Credits(row, r, ClientEvent(row, e, r, detached, audit))
  BY <1>5, CreditParts DEF ClientEvent
<1>7. kind # "client" => /\ Credits(row, r, PersonalEvent(row, e, r, detached))
                         /\ Credits(row, r, NativeEvent(row, e, r, detached))
  BY <1>2, <1>3, <1>4 DEF PersonalEvent, NativeEvent, NativeTop
<1> QED
  BY <1>6, <1>7, Kinded DEF Handler

LEMMA HandledCredits ==
  ASSUME TypeOK, NEW e \in Events, NEW r \in Revision,
         NEW detached \in BOOLEAN, NEW audit \in BOOLEAN
  PROVE  Credits(rows[e], r, Handled(e, r, detached, audit))
<1> DEFINE out == Handler(InHand(e), e, r, detached, audit)
           left == Handled(e, r, detached, audit)
<1>1. Credits(InHand(e), r, out)
  BY HandlerCredits, HandType DEF TypeOK
<1>2. left.row.room = out.row.room /\ left.row.candidate = out.row.candidate
  BY HandledIs
<1>3. /\ InHand(e).room = rows[e].room /\ InHand(e).candidate = rows[e].candidate
      /\ rows[e].status \in {"active", "released"}
           => InHand(e).status \in {"active", "released"}
  BY HandType
<1> HIDE DEF out, left
<1> QED
  BY <1>1, <1>2, <1>3 DEF Credits, left

(* A candidate is a room the event has had, or none, unless the one odd    *)
(* read is spent.                                                          *)
Seen(e) == {Mark(room) : room \in had[e]}

Candid(e) ==
  /\ source[e].state # "none" => source[e].room \in had[e]
  /\ before[e].state # "none" => before[e].room \in had[e]
  /\ budget.faults = 0 \/ rows[e].candidate \in Seen(e) \cup {NULL}

Credible(e) ==
  /\ kind = "client" /\ rows[e].status \in {"active", "released"}
  /\ rows'[e].room # rows[e].room
  => rows'[e].room \in had[e]

LEMMA ReadsCredibly ==
  ASSUME TypeInv, NEW e \in Events, NEW r \in Revision,
         NEW detached \in BOOLEAN, NEW audit \in BOOLEAN,
         rows'[e] = Handled(e, r, detached, audit).row,
         UNCHANGED google, Candid(e), r.room \in had[e] \/ budget.faults > 0,
         (r.room \in had[e] /\ budget' = budget) \/ budget'.faults = 0
  PROVE  Candid(e)' /\ Credible(e)
<1> DEFINE out == Handled(e, r, detached, audit)
<1>1. Credits(rows[e], r, out) /\ rows'[e] = out.row
  BY HandledCredits DEF TypeInv
<1> HIDE DEF out
<1>2. r.room \in Rooms \cup {NULL} /\ \A room \in had[e] : room \in Rooms \cup {NULL}
      /\ budget.faults \in Nat
  BY DEF TypeInv, TypeOK, Revision
<1>3. Mark(r.room) # NULL
  BY <1>2, ConstantsAssumption DEF Mark
<1>4. Mark(r.room) \in Seen(e) <=> r.room \in had[e]
  BY <1>2, ConstantsAssumption DEF Mark, Seen
<1>5. Credible(e)
  BY <1>1, <1>2, <1>3, <1>4 DEF Credible, Credits, Candid
<1>6. r.room \in had[e] => rows'[e].candidate \in {rows[e].candidate, NULL} \cup Seen(e)
  BY <1>1, <1>4 DEF Credits
<1>7. Candid(e)'
  BY <1>6 DEF Candid, Seen, google
<1> QED
  BY <1>5, <1>7

Frugal == \A e \in Events : budget.faults <= 1 /\ Candid(e)

(* The one mishap is spent now, or nothing is.                             *)
Thrift == budget'.faults = budget.faults \/ budget'.faults = 0

LEMMA Spent ==
  ASSUME TypeInv, budget.faults <= 1, NEW fault, Spend(fault)
  PROVE  budget.faults > 0 /\ budget'.faults = 0
  BY DEF Spend, TypeInv, TypeOK

LEMMA Untouched ==
  ASSUME NEW e \in Events, Candid(e), UNCHANGED google, Thrift,
         rows'[e].candidate = rows[e].candidate, rows'[e].room = rows[e].room
  PROVE  Candid(e)' /\ Credible(e)
  BY DEF Candid, Credible, Seen, google, Thrift

LEMMA IngestEventCredible ==
  ASSUME Base, Frugal, NEW x \in Events, IngestEvent(x), NEW e \in Events
  PROVE  Thrift /\ Candid(e)' /\ Credible(e)
<1>1. /\ x \in worker.todo /\ UNCHANGED google
      /\ source[x] \in Revision /\ TypeInv /\ budget.faults <= 1
  BY IngestEventCases DEF Base, Frugal, google, TypeInv, TypeOK
<1>2. source[x].state # "none" /\ Candid(x) /\ Candid(e)
  BY <1>1 DEF Base, Born, Frugal
<1>3. source[x].room \in had[x]
  BY <1>2 DEF Candid
<1>4. ASSUME NEW r \in Revision, NEW detached \in BOOLEAN, ReadsAs(x, r, detached)
      PROVE  /\ rows'[x] = Handled(x, r, detached, FALSE).row
             /\ e # x => rows'[e] = rows[e]
  BY <1>1, <1>4 DEF ReadsAs, TakeIn, TypeInv, TypeOK
<1>5. CASE ReadsAs(x, source[x], FALSE) /\ UNCHANGED budget
  <2>1. Thrift
    BY <1>5 DEF Thrift
  <2>2. CASE e = x
    BY <1>1, <1>2, <1>3, <1>4, <1>5, <2>1, <2>2, ReadsCredibly
  <2>3. CASE e # x
    BY <1>1, <1>2, <1>4, <1>5, <2>1, <2>3, Untouched
  <2> QED
    BY <2>1, <2>2, <2>3
<1>6. ASSUME NEW fault, Spend(fault), NEW r \in Revision, NEW detached \in BOOLEAN,
             ReadsAs(x, r, detached)
      PROVE  Thrift /\ Candid(e)' /\ Credible(e)
  <2>1. Thrift /\ budget.faults > 0 /\ budget'.faults = 0
    BY <1>1, <1>6, Spent DEF Thrift
  <2>2. CASE e = x
    BY <1>1, <1>2, <1>4, <1>6, <2>1, <2>2, ReadsCredibly
  <2>3. CASE e # x
    BY <1>1, <1>2, <1>4, <1>6, <2>1, <2>3, Untouched
  <2> QED
    BY <2>1, <2>2, <2>3
<1>7. CASE Spend("poison") /\ UNCHANGED rows
  <2>1. Thrift
    BY <1>1, <1>7, Spent DEF Thrift
  <2> QED
    BY <1>1, <1>2, <1>7, <2>1, Untouched
<1>8. CASE Spend("race") /\ \E s \in OlderRead(source[x]) : ReadsAs(x, s, FALSE)
  <2>1. \E s \in Revision : ReadsAs(x, s, FALSE)
    BY <1>1, <1>8, OddReads
  <2> QED
    BY <1>6, <1>8, <2>1
<1>9. CASE Spend("link") /\ \E room \in RoomsOf(x) :
                    ReadsAs(x, [source[x] EXCEPT !.room = room], FALSE)
  <2>1. \E s \in Revision : ReadsAs(x, s, FALSE)
    BY <1>1, <1>9, OddReads
  <2> QED
    BY <1>6, <1>9, <2>1
<1>10. CASE Spend("detached") /\ ReadsAs(x, source[x], TRUE)
  BY <1>1, <1>6, <1>10
<1> QED
  BY <1>1, <1>5, <1>7, <1>8, <1>9, <1>10, IngestEventCases

LEMMA ScanCredible ==
  ASSUME Base, Frugal, NEW s \in Events, ScanInstances(s), NEW e \in Events
  PROVE  Thrift /\ Candid(e)' /\ Credible(e)
<1>1. UNCHANGED google /\ TypeInv /\ budget.faults <= 1 /\ Candid(e)
      /\ rows \in [Events -> Row] /\ source[e] \in Revision
  BY ScanCases DEF Base, Frugal, google, TypeInv, TypeOK
<1>2. CASE Scans(s) /\ UNCHANGED budget
  <2>1. Thrift
    BY <1>2 DEF Thrift
  <2>2. CASE e \in Lost(s)
    <3>1. rows'[e] = Handled(e, source[e], FALSE, FALSE).row
      BY <1>2, <2>2 DEF Scans
    <3>2. source[e].room \in had[e]
      BY <1>1, <2>2 DEF Candid, Lost
    <3> QED
      BY <1>1, <1>2, <2>1, <3>1, <3>2, ReadsCredibly
  <2>3. CASE e \notin Lost(s)
    <3>1. rows'[e] = rows[e]
      BY <1>2, <2>3 DEF Scans
    <3> QED
      BY <1>1, <2>1, <3>1, Untouched
  <2> QED
    BY <2>2, <2>3, <2>1
<1>3. CASE Spend("scan") /\ UNCHANGED rows
  <2>1. Thrift
    BY <1>1, <1>3, Spent DEF Thrift
  <2> QED
    BY <1>1, <1>3, <2>1, Untouched
<1> QED
  BY <1>2, <1>3, ScanCases DEF Base

LEMMA AuditEventCredible ==
  ASSUME Base, Frugal, NEW x \in Events, AuditEvent(x), NEW e \in Events
  PROVE  Thrift /\ Candid(e)' /\ Credible(e)
<1>1. /\ UNCHANGED google /\ TypeInv /\ budget.faults <= 1 /\ Candid(x) /\ Candid(e)
      /\ source[x] \in Revision /\ before[x] \in Revision
  BY DEF Base, Frugal, google, TypeInv, TypeOK, AuditEvent
<1>2. ASSUME NEW r \in Revision, AuditReads(x, r)
      PROVE  /\ rows'[x] = Handled(x, r, FALSE, TRUE).row
             /\ e # x => rows'[e] = rows[e]
  BY <1>1, <1>2 DEF AuditReads, TakeIn, TypeInv, TypeOK
<1>3. ASSUME NEW r \in Revision, AuditReads(x, r), r.room \in had[x],
             budget' = budget \/ budget'.faults = 0
      PROVE  Thrift /\ Candid(e)' /\ Credible(e)
  <2>1. Thrift
    BY <1>3 DEF Thrift
  <2>2. CASE e = x
    BY <1>1, <1>2, <1>3, <2>2, ReadsCredibly, <2>1
  <2>3. CASE e # x
    BY <1>1, <1>2, <1>3, <2>1, <2>3, Untouched
  <2> QED
    BY <2>2, <2>3, <2>1
<1>4. CASE source[x].state = "live" /\ AuditReads(x, source[x]) /\ UNCHANGED budget
  BY <1>1, <1>3, <1>4 DEF Candid
<1>5. CASE Spend("stale") /\ before[x].state = "live" /\ AuditReads(x, before[x])
  <2>1. budget'.faults = 0
    BY <1>1, <1>5, Spent
  <2> QED
    BY <1>1, <1>3, <1>5, <2>1 DEF Candid
<1>6. CASE UNCHANGED <<rows, budget>>
  <2>1. Thrift
    BY <1>6 DEF Thrift
  <2> QED
    BY <1>1, <1>6, <2>1, Untouched
<1> QED
  BY <1>4, <1>5, <1>6 DEF AuditEvent, AuditReads

LEMMA PeopleCredible ==
  ASSUME Base, Frugal, People, NEW e \in Events
  PROVE  Thrift /\ Candid(e)' /\ Credible(e)
<1>1. UNCHANGED rows /\ budget'.faults = budget.faults
  BY PeopleMove DEF SourceMoves
<1>2. TypeOK /\ Candid(e)
  BY DEF Base, TypeInv, Frugal
<1>3. /\ had[e] \subseteq had'[e]
      /\ source'[e].state # "none" => source'[e].room \in had'[e]
      /\ before'[e].state # "none" => before'[e].room \in had'[e]
  <2>1. ASSUME NEW x \in Events, NEW r, Revise(x, r)
        PROVE  /\ had[e] \subseteq had'[e]
               /\ source'[e].state # "none" => source'[e].room \in had'[e]
               /\ before'[e].state # "none" => before'[e].room \in had'[e]
    BY <1>2, <2>1 DEF Revise, TypeOK, Candid
  <2>2. ASSUME NEW x \in Events, SomebodyDeletes(x)
        PROVE  /\ had[e] \subseteq had'[e]
               /\ source'[e].state # "none" => source'[e].room \in had'[e]
               /\ before'[e].state # "none" => before'[e].room \in had'[e]
    <3>1. had' = had /\ source[e] \in Revision
      BY <1>2, <2>2 DEF SomebodyDeletes, TypeOK
    <3> DEFINE fallen == [source[e] EXCEPT !.state = "cancelled", !.stamp = @ + 1]
               gone == {x} \cup {o \in OccurrencesOf(x) : source[o].state = "live"}
    <3>2. fallen.room = source[e].room
      BY <3>1 DEF Revision
    <3>3. \A y \in gone : source[y].state = "live"
      BY <2>2 DEF SomebodyDeletes
    <3>4. \/ e \in gone /\ source'[e] = fallen /\ before'[e] = source[e]
          \/ source'[e] = source[e] /\ before'[e] = before[e]
      BY <2>2 DEF SomebodyDeletes
    <3> HIDE DEF fallen, gone
    <3> QED
      BY <1>2, <3>1, <3>2, <3>3, <3>4 DEF Candid
  <2>3. \A x \in Events : SomebodyAdds(x) \/ SomebodyEdits(x) \/ SomebodySkips(x)
                            \/ SomebodyRestores(x) => \E r : Revise(x, r)
    BY DEF SomebodyAdds, SomebodyEdits, SomebodySkips, SomebodyRestores
  <2> QED
    BY <2>1, <2>2, <2>3 DEF People
<1> QED
  BY <1>1, <1>2, <1>3 DEF Candid, Credible, Thrift, Seen

LEMMA NextCredible ==
  ASSUME Base, Frugal, [Next]_vars, NEW e \in Events
  PROVE  Thrift /\ Candid(e)' /\ Credible(e)
<1>0. TypeInv /\ Candid(e) /\ budget.faults <= 1
  BY DEF Base, Frugal
<1>1. ASSUME UNCHANGED <<google, rows>>,
             UNCHANGED budget \/ \E fault : Spend(fault)
      PROVE  Thrift /\ Candid(e)' /\ Credible(e)
  <2>1. Thrift
    BY <1>0, <1>1, Spent DEF Thrift
  <2> QED
    BY <1>0, <1>1, <2>1, Untouched
<1>2. CASE StartPass \/ SyncTokenExpired \/ ListingEnds \/ RecordAffected
             \/ AdvanceToken \/ StartAudit \/ AuditRecords \/ PlanAffected
             \/ UNCHANGED vars
  <2>1. UNCHANGED <<google, rows>> /\ UNCHANGED budget
    BY <1>2 DEF StartPass, SyncTokenExpired, ListingEnds, RecordAffected,
                    AdvanceToken, StartAudit, AuditRecords, PlanAffected, vars, google
  <2> QED
    BY <1>1, <2>1
<1>3. CASE IngestFails \/ AuditFails \/ TokenExpires \/ Crash
  <2>1. UNCHANGED <<google, rows>> /\ \E fault : Spend(fault)
    BY <1>3 DEF IngestFails, AuditFails, TokenExpires, Crash
  <2> QED
    BY <1>1, <2>1
<1>4. ASSUME NEW x \in Events, Release(x)
      PROVE  Thrift /\ Candid(e)' /\ Credible(e)
  <2>1. /\ rows' = [rows EXCEPT ![x].status = "released"] /\ UNCHANGED google
        /\ budget'.faults = budget.faults /\ rows \in [Events -> Row]
    BY <1>0, <1>4, EditType DEF Release, TypeInv, TypeOK
  <2>2. rows'[e].candidate = rows[e].candidate /\ rows'[e].room = rows[e].room
    BY <2>1 DEF Row
  <2> QED
    BY <1>0, <2>1, <2>2, Untouched DEF Thrift
<1>5. ASSUME NEW x \in Events, IngestEvent(x) \/ ScanInstances(x) \/ AuditEvent(x)
      PROVE  Thrift /\ Candid(e)' /\ Credible(e)
  BY <1>5, IngestEventCredible, ScanCredible, AuditEventCredible
<1>6. CASE People
  BY <1>6, PeopleCredible
<1> QED
  BY <1>2, <1>3, <1>4, <1>5, <1>6
     DEF Next, ClientPass, PersonalPass, MainPass, IngestPass, AuditPass

(* With one mishap at most, no single odd read gives an event of a client  *)
(* calendar a conference room it never had.                                *)
THEOREM RoomsAreCredible ==
  ASSUME MaxFaults <= 1
  PROVE  Spec => NoRoomFromOneRead
<1>1. Init => Frugal
  <2> SUFFICES ASSUME Init, NEW e \in Events PROVE budget.faults <= 1 /\ Candid(e)
    BY DEF Frugal
  <2>1. budget.faults = MaxFaults /\ source[e] = Unborn /\ before[e] = Unborn
        /\ rows[e] = NoRow
    BY DEF Init
  <2> QED
    BY <2>1 DEF Candid, Unborn, NoRow
<1>2. Base /\ Frugal /\ [Next]_vars => Frugal'
  <2> SUFFICES ASSUME Base, Frugal, [Next]_vars PROVE Frugal'
    OBVIOUS
  <2>1. \A e \in Events : Thrift /\ Candid(e)'
    BY NextCredible
  <2> QED
    BY <2>1 DEF Frugal, Thrift
<1>3. Base /\ Frugal /\ [Next]_vars
        => [\A e \in Events :
              /\ kind = "client" /\ rows[e].status \in {"active", "released"}
              /\ rows'[e].room # rows[e].room
              => rows'[e].room \in had[e]]_vars
  <2> SUFFICES ASSUME Base, Frugal, [Next]_vars
               PROVE  \A e \in Events :
                        /\ kind = "client" /\ rows[e].status \in {"active", "released"}
                        /\ rows'[e].room # rows[e].room
                        => rows'[e].room \in had[e]
    OBVIOUS
  <2> QED
    BY NextCredible DEF Credible
<1> QED
  BY <1>1, <1>2, <1>3, BaseHolds, PTL DEF Spec, NoRoomFromOneRead

=============================================================================
