--------------------------- MODULE MCHttpGetJson ---------------------------
(***************************************************************************)
(* Small instances of HttpGetJson for TLC.                                 *)
(***************************************************************************)
EXTENDS HttpGetJson

(* The longest sleep after the k-th attempt.                               *)
LongestSleep(k) ==
  Max({Backoff * 2 ^ k} \cup
      IF k = MaxRetries - 1 THEN {} ELSE {RateLimitBackoff * 2 ^ k} \cup (RetryAfters \ {None}))

(* The least budget: a timeout and the longest sleep for each attempt.     *)
LeastBudget ==
  [k \in 0 .. MaxRetries |->
     k * Timeout + MapThenSumSet(LongestSleep, 0 .. k - 1)]
=============================================================================
