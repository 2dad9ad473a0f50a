------------------------------ MODULE MCIngest ------------------------------
(***************************************************************************)
(* A calendar with one single event x, or with one series s and one of its *)
(* occurrences o.  Two contents and one room: enough to tell a row that is *)
(* right from one that is not, and a room from no room.                    *)
(***************************************************************************)
EXTENDS Ingest

CONSTANTS x, s, o, c1, c2, r1

AllEvents  == {x, s, o}
Series     == [e \in AllEvents |-> IF e = o THEN s ELSE NULL]
Calendars  == {{x}, {s, o}}
TwoHashes  == {c1, c2}
OneHash    == {c1}
Singles    == {x}
OneRoom    == {r1}
EveryKind  == {"client", "personal", "main_native"}

Mishaps    == {"race", "link", "detached", "poison", "scan", "ingest",
               "stale", "expiry", "crash", "release"}

(* An event the code does take back: a top-level one of a client calendar. *)
ClientSingles == {<<"client", x>>}

=============================================================================
