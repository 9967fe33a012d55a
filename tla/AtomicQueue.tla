----------------------------- MODULE AtomicQueue -----------------------------
(***************************************************************************)
(* What the rest of the server relies on when it calls a MessageQueue: the *)
(* queue holds the messages a consumer may take, a producer adds one in a  *)
(* single step that never waits, and a consumer takes one in a single      *)
(* step.  A dequeue may fail before it looks at the queue; one that finds  *)
(* the queue empty waits, and gives up only after having found it empty.   *)
(* Room and Server are modelled against this queue (module ChatServer);    *)
(* MessageQueue implements it.                                             *)
(***************************************************************************)
EXTENDS Sequences

CONSTANTS Consumers, Messages

VARIABLES
  available,  \* the messages that a dequeue may take, oldest first
  mode        \* what each consumer's dequeue is doing

avars == <<available, mode>>

Modes == {"out", "called", "entered", "waiting", "got"}

AInit ==
  /\ available = << >>
  /\ mode = [c \in Consumers |-> "out"]

Put(m) ==
  /\ available' = Append(available, m)
  /\ UNCHANGED mode

Call(c) ==
  /\ mode[c] = "out"
  /\ mode' = [mode EXCEPT ![c] = "called"]
  /\ UNCHANGED available

Enter(c) ==
  /\ mode[c] = "called"
  /\ mode' = [mode EXCEPT ![c] = "entered"]
  /\ UNCHANGED available

Fail(c) ==
  /\ mode[c] = "called"
  /\ mode' = [mode EXCEPT ![c] = "out"]
  /\ UNCHANGED available

Take(c) ==
  /\ mode[c] \in {"entered", "waiting"}
  /\ available # << >>
  /\ available' = Tail(available)
  /\ mode' = [mode EXCEPT ![c] = "got"]

FindEmpty(c) ==
  /\ mode[c] = "entered"
  /\ available = << >>
  /\ mode' = [mode EXCEPT ![c] = "waiting"]
  /\ UNCHANGED available

GiveUp(c) ==
  /\ mode[c] = "waiting"
  /\ mode' = [mode EXCEPT ![c] = "out"]
  /\ UNCHANGED available

Return(c) ==
  /\ mode[c] = "got"
  /\ mode' = [mode EXCEPT ![c] = "out"]
  /\ UNCHANGED available

ANext ==
  \/ \E m \in Messages : Put(m)
  \/ \E c \in Consumers :
        \/ Call(c) \/ Enter(c) \/ Fail(c)
        \/ Take(c) \/ FindEmpty(c) \/ GiveUp(c) \/ Return(c)

ASpec == AInit /\ [][ANext]_avars
==============================================================================
