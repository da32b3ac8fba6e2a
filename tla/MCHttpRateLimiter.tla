-------------------------- MODULE MCHttpRateLimiter --------------------------
(* A small instance of the limiter with its logs for TLC. *)
EXTENDS HttpRateLimiterLog, TLC

\* Tracked requests are interchangeable, and so are partition keys.
Symmetry == Permutations(Requests \ Untracked) \cup Permutations(Keys)
=============================================================================
