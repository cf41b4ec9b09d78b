---------------------------- MODULE MCSupervisor ----------------------------
(* Small instances of Supervisor for TLC.                                  *)
EXTENDS Supervisor

CONSTANTS w1, w2, d

\* The persistence pool and the delay propagation worker, in the order
\* shutdown() stops them.
TwoPools == <<<<w1, w2>>, <<d>>>>

\* One supervisor only.
OnePool == <<<<w1, w2>>>>
=============================================================================
