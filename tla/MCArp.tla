------------------------------- MODULE MCArp -------------------------------
(* Small instances of Arp for TLC.                                         *)
EXTENDS Arp, TLC

CONSTANTS h1, h2, h3, m1, m2, m3

\* Three neighbours, each with a hardware address of its own.
Neighbours == {h1, h2, h3}
Cards == {m1, m2, m3}
CardOf == (h1 :> m1 @@ h2 :> m2 @@ h3 :> m3)
=============================================================================
