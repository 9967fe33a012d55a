------------------------------ MODULE MCSockets ------------------------------
(***************************************************************************)
(* The TLC instance of Sockets: two address families, as most hosts have,  *)
(* and room for two connections beside the standard descriptors.           *)
(***************************************************************************)
EXTENDS Sockets

CONSTANTS s1, s2, r1, v4, v6

TheClients == {s1, s2, r1}
TheSenders == {s1, s2}
TheAddrs == {v4, v6}
Lists == { << >>, <<v6, v4>> }
===============================================================================
