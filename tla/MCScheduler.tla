---------------------------- MODULE MCScheduler ----------------------------
(***************************************************************************)
(* Scheduler for TLC: a loop of five iterations, measured (which leaves    *)
(* four to fork, so that a deque is emptied and filled again), in halves   *)
(* with the conservative wait, or run inline.                              *)
(***************************************************************************)
EXTENDS Scheduler

SomeModes == {<<0, FALSE>>, <<3, TRUE>>, <<5, FALSE>>}
=============================================================================
