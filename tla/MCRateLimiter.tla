--------------------------- MODULE MCRateLimiter ----------------------------
(* cratelimiter for TLC: two producers offer three jobs, max_queue is one.   *)
EXTENDS RateLimiter, TLC
=============================================================================
