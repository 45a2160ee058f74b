---------------------------- MODULE MCRateLimiter ----------------------------
(* Instances of RateLimiter for TLC. *)
EXTENDS RateLimiter, TLC

CONSTANT Horizon    \* bound on the clock and on the last slot reserved

Bounded == now <= Horizon /\ next <= Horizon + Interval
=============================================================================
