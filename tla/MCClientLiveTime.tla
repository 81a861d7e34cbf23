-------------------------- MODULE MCClientLiveTime -------------------------
(* Two goroutines, quicker than the waiting time of three seconds.         *)
EXTENDS ClientLiveTime
============================================================================
