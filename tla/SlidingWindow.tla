--------------------------- MODULE SlidingWindow ---------------------------
(***************************************************************************)
(* The queue of time stamps both limiters keep: the quotas of the market   *)
(* data providers (backend/market_data/providers/base.py) and the request  *)
(* rate limit (backend/security/rate_limit.py).  New stamps go to its end, *)
(* expired ones are taken from its front, up to the first that is not.     *)
(***************************************************************************)
EXTENDS Integers, Sequences

\* How many stamps the loop takes from the front.
Dropped(stamps, cutoff) ==
  CHOOSE n \in 0..Len(stamps) :
    /\ \A i \in 1..n : stamps[i] <= cutoff
    /\ n < Len(stamps) => stamps[n + 1] > cutoff

Remaining(stamps, cutoff) ==
  SubSeq(stamps, Dropped(stamps, cutoff) + 1, Len(stamps))
=============================================================================
