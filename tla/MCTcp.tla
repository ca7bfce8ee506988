------------------------------- MODULE MCTcp -------------------------------
(* One server and one client for TLC.                                      *)
EXTENDS Tcp

\* Three bytes at most pass through a connection, in both directions together.
Few == \A i \in Sock : sock[i].remote # None => sock[i].wrote + peer[sock[i].remote].sent <= 3
=============================================================================
