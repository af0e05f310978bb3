--------------------------- MODULE MCRateLimited ---------------------------
(***************************************************************************)
(* Small instances of RateLimited for TLC.                                 *)
(***************************************************************************)
EXTENDS RateLimited

(* The longest sleep after the k-th attempt.                               *)
LongestSleep(k) ==
  Max({Backoff * 2 ^ k} \cup
      IF k = MaxRetries - 1 THEN {} ELSE {RateLimitBackoff * 2 ^ k} \cup (RetryAfters \ {None}))

LeastBudget ==
  [k \in 0 .. MaxRetries |->
     k * Timeout + MapThenSumSet(LongestSleep, 0 .. k - 1)]
=============================================================================
