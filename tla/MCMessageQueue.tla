---------------------------- MODULE MCMessageQueue ----------------------------
(***************************************************************************)
(* The TLC instance of MessageQueue: threads and messages are model        *)
(* values.  They are symmetric, but the run also checks liveness, for      *)
(* which TLC's symmetry reduction is not sound.                            *)
(***************************************************************************)
EXTENDS MessageQueue
===============================================================================
