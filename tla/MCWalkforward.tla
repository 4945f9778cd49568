--------------------------- MODULE MCWalkforward ---------------------------
(* Values of the constants of Walkforward for TLC. *)
EXTENDS Walkforward

CONSTANTS a1, a2

BothModes == {"standard", "development_only"}
\* On time, delivered exactly at the next open, and at the next close.
SomeDelays == {0, 2, 4}
\* After a close and before what is delivered late, and at a close.
SomeCutoffs == {Close(5) + 1, Close(7)}
\* Between close and open, and at an open.
SomeTexts == {Close(2) + 1, Open(4)}
=============================================================================
