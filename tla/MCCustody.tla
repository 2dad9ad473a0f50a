----------------------------- MODULE MCCustody ------------------------------
(***************************************************************************)
(* The event comes from client calendar a, or from none of them; b is a    *)
(* second client, connected from the start or later.                       *)
(***************************************************************************)
EXTENDS Custody

CONSTANTS a, b

OneClient  == {b}
TwoClients == {a, b}

From(source, connected, release, changes, faults, moves) ==
  [source |-> source, connected |-> connected, release |-> release,
   changes |-> changes, faults |-> faults, moves |-> moves]

AnySetup == {From(NULL, {a}, TRUE, 2, 1, 1), From(a, {a, b}, FALSE, 1, 1, 1)}
Newcomer == {From(NULL, {}, TRUE, 0, 0, 1)}
=============================================================================
