------------------------------ MODULE MCWebcal ------------------------------
(* Instances of Webcal: a feed with one event; a series with an override;  *)
(* two events at the same time without lasting UIDs.                       *)
EXTENDS Webcal

CONSTANTS meeting, series, moved, a, b

MCSeriesOf == [e \in Keys |-> IF e = moved THEN series ELSE NULL]

Off == [state |-> "absent", content |-> NULL]
On(c) == [state |-> "live", content |-> c]
Void == [state |-> "cancelled", content |-> a]

Feed(items, sametime) ==
  [stable |-> [e \in Stable |-> IF e \in DOMAIN items THEN items[e] ELSE Off],
   sametime |-> sametime]

NoItems == [e \in {} |-> Off]
Empty == Feed(NoItems, <<>>)

Meetings == {Empty} \cup {Feed([e \in {meeting} |-> i], <<>>) : i \in {On(a), On(b), Void}}
Twins == {Feed(NoItems, s) : s \in {<<a>>, <<a, b>>, <<b, a>>}}
SeriesFeeds == {Feed([e \in {series} |-> On(a)], <<>>)}
  \cup {Feed([e \in {series, moved} |-> IF e = series THEN On(a) ELSE i], <<>>) : i \in {On(b), Void}}
  \cup {Feed([e \in {moved} |-> On(b)], <<>>)}

AllFamilies == {Meetings, Twins, SeriesFeeds}
MeetingOnly == {Meetings}
=============================================================================
