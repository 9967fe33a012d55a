---------------------------- MODULE MCChatServer ----------------------------
(***************************************************************************)
(* TLC instances of ChatServer.  Clients are model values; the user names  *)
(* are "u" for s1 and for r2, where a run has them, and "v", "w" for the   *)
(* others: a user who speaks and listens under one name is the normal use. *)
(***************************************************************************)
EXTENDS ChatServer, TLC

CONSTANTS s1, r2

Name == [c \in Clients |-> IF c \in {s1, r2} THEN "u"
                           ELSE IF c \in Senders THEN "v" ELSE "w"]

(* Nothing tells one room name from another: their permutations.           *)
RoomSymmetry == Permutations(RoomNames)
==============================================================================
