------------------------------ MODULE GroupChat ------------------------------
(***************************************************************************)
(* What the server promises its clients, without threads, locks, Room      *)
(* objects or queues: a client is in at most one room; a message posted by *)
(* a member reaches, in one step, the mailbox of every other member of the *)
(* room whose user name differs from the sender's; a mailbox is read in    *)
(* the order it was filled.  Module ChatServer implements it.              *)
(***************************************************************************)
EXTENDS Sequences

CONSTANTS
  Clients,
  RoomNames,
  UserName,  \* the name each client logs in with
  Texts,
  Nowhere    \* the room of a client that is in no room

VARIABLES
  where,  \* the room each client is in, or Nowhere
  mail    \* the messages posted to each client and not yet taken, oldest first

gvars == <<where, mail>>

GInit ==
  /\ where = [c \in Clients |-> Nowhere]
  /\ mail = [c \in Clients |-> << >>]

Enter(c, n) ==
  /\ where[c] = Nowhere
  /\ where' = [where EXCEPT ![c] = n]
  /\ UNCHANGED mail

Exit(c) ==
  /\ where[c] # Nowhere
  /\ where' = [where EXCEPT ![c] = Nowhere]
  /\ UNCHANGED mail

Post(c, t) ==
  LET m == [room |-> where[c], sender |-> UserName[c], text |-> t] IN
  /\ where[c] # Nowhere
  /\ mail' = [d \in Clients |->
                IF where[d] = where[c] /\ UserName[d] # UserName[c]
                THEN Append(mail[d], m)
                ELSE mail[d]]
  /\ UNCHANGED where

Read(c) ==
  /\ mail[c] # << >>
  /\ mail' = [mail EXCEPT ![c] = Tail(@)]
  /\ UNCHANGED where

GNext == \E c \in Clients :
  \/ \E n \in RoomNames : Enter(c, n)
  \/ Exit(c)
  \/ \E t \in Texts : Post(c, t)
  \/ Read(c)

GSpec == GInit /\ [][GNext]_gvars
==============================================================================
