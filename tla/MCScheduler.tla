----------------------------- MODULE MCScheduler -----------------------------
(***************************************************************************)
(* Two threads in serviceQueue, as the scheduler's interface allows and    *)
(* its unit tests have them.                                               *)
(***************************************************************************)
EXTENDS Scheduler

MCThread == {"s1", "s2"}
MCAdder  == {"rpc", "net"}

=============================================================================
