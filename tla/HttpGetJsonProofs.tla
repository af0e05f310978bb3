------------------------- MODULE HttpGetJsonProofs -------------------------
(***************************************************************************)
(* What holds of every call of http_get_json, whatever the number of       *)
(* callers, the attempts, the backoffs and the latencies: TLAPS proofs     *)
(* about HttpGetJson.                                                      *)
(***************************************************************************)
EXTENDS HttpGetJson, TLAPS

(* The sleeps are naturals, and a budget that dominates the parts of       *)
(* RetryDelay dominates RetryDelay.                                        *)
LEMMA DelayTyped ==
  ASSUME NEW k \in Attempts
  PROVE  /\ TransientDelay(k) \in Nat
         /\ RateLimitBackoff * 2 ^ k \in Nat
         /\ \A status : \A r \in RetryAfters : RetryDelay(k, status, r) \in Nat
<1>1. k \in 0 .. MaxRetries - 1 /\ 2 ^ k \in Nat
  BY PowerAssumption DEF Attempts
<1>2. \A m \in Nat : m * 2 ^ k \in Nat
  BY <1>1
<1>3. TransientDelay(k) \in Nat /\ RateLimitBackoff * 2 ^ k \in Nat
  BY <1>2, HttpAssumption DEF TransientDelay
<1>4. ASSUME NEW status, NEW r \in RetryAfters
      PROVE  RetryDelay(k, status, r) \in Nat
  BY <1>3, HttpAssumption DEF RetryDelay, Greater
<1> QED BY <1>3, <1>4

(* One attempt and the sleep after it fit between two entries of the       *)
(* budget.                                                                 *)
LEMMA DelayWithinBudget ==
  ASSUME NEW k \in Attempts
  PROVE  /\ Budget[k] \in Nat /\ Budget[k + 1] \in Nat
         /\ Budget[k] + Timeout + TransientDelay(k) <= Budget[k + 1]
         /\ k < MaxRetries - 1 => \A status : \A r \in RetryAfters :
              Budget[k] + Timeout + RetryDelay(k, status, r) <= Budget[k + 1]
         /\ Budget[k + 1] <= Budget[MaxRetries]
<1>1. k \in 0 .. MaxRetries - 1 /\ k \in 0 .. MaxRetries /\ k + 1 \in 0 .. MaxRetries
  BY HttpAssumption DEF Attempts
<1>2. /\ Budget[k] \in Nat /\ Budget[k + 1] \in Nat
      /\ Budget[k] + Timeout + TransientDelay(k) <= Budget[k + 1]
      /\ Budget[k + 1] <= Budget[MaxRetries]
  BY <1>1, BudgetAssumption DEF TransientDelay
<1>3. ASSUME k < MaxRetries - 1, NEW status, NEW r \in RetryAfters
      PROVE  Budget[k] + Timeout + RetryDelay(k, status, r) <= Budget[k + 1]
  <2>1. Budget[k] + Timeout + RateLimitBackoff * 2 ^ k <= Budget[k + 1]
    BY <1>1, <1>3, BudgetAssumption
  <2>2. r # None => r \in Nat /\ Budget[k] + Timeout + r <= Budget[k + 1]
    BY <1>1, <1>3, BudgetAssumption, HttpAssumption
  <2>3. /\ TransientDelay(k) \in Nat /\ RateLimitBackoff * 2 ^ k \in Nat
        /\ Timeout \in Nat
    BY DelayTyped, HttpAssumption
  <2> HIDE DEF Attempts
  <2> QED BY <1>2, <2>1, <2>2, <2>3 DEF RetryDelay, Greater
<1> QED BY <1>2, <1>3

-----------------------------------------------------------------------------
(* The invariant                                                           *)

(* An open call counts its requests, has no result yet, and once it sleeps *)
(* with no attempt left holds the failure of the last one.                 *)
OpenCall(c) == pc[c] # "idle" =>
  /\ sent[c] = attempt[c] + 1
  /\ result[c] = None
  /\ pc[c] = "sleeping" /\ ~TriesLeft(c) => last_exc[c] = Failure(c)

(* A call that ended reports its last attempt.                             *)
EndedCall(c) == /\ sent[c] <= MaxRetries
                /\ result[c] # None => /\ result[c].attempt = sent[c] - 1
                                       /\ result[c].cause # "fallback"

(* What an open call waits for lies ahead, and within the budget of the    *)
(* attempts made so far.                                                   *)
OnTime(c) == /\ pc[c] # "idle" => now <= due[c]
             /\ pc[c] = "asking" => due[c] <= began[c] + Budget[attempt[c]] + Timeout
             /\ pc[c] = "sleeping" => due[c] <= began[c] + Budget[attempt[c] + 1]

IInv == /\ TypeOK
        /\ \A c \in Callers : OpenCall(c) /\ EndedCall(c) /\ OnTime(c)

(* No call is open at first.                                               *)
LEMMA InitIInv == Init => IInv
<1> SUFFICES ASSUME Init PROVE IInv
  OBVIOUS
<1>1. 0 \in Attempts
  BY HttpAssumption DEF Attempts
<1> QED BY <1>1, HttpAssumption DEF Init, IInv, TypeOK, OpenCall, EndedCall, OnTime

(* A step of one caller leaves what is said of the others alone.           *)
LEMMA OthersKeep ==
  ASSUME IInv, NEW c \in Callers, NEW d \in Callers, d # c,
         Start(c) \/ Step(c)
  PROVE  (OpenCall(d) /\ EndedCall(d) /\ OnTime(d))'
<1>1. /\ now' = now /\ pc'[d] = pc[d] /\ attempt'[d] = attempt[d] /\ due'[d] = due[d]
      /\ last_exc'[d] = last_exc[d] /\ began'[d] = began[d] /\ sent'[d] = sent[d]
      /\ result'[d] = result[d]
  BY DEF IInv, TypeOK, Start, Step, Answer, TransportFailure, RetryLater, ErrorStatus,
         Body, Retry, GiveUp, Request, SleepFor, End
<1> QED BY <1>1 DEF IInv, OpenCall, EndedCall, OnTime, TriesLeft, Failure

(* The types a sleep, a request and an end leave behind.                   *)
LEMMA StartKeeps ==
  ASSUME IInv, NEW c \in Callers, Start(c)
  PROVE  TypeOK' /\ (OpenCall(c) /\ EndedCall(c) /\ OnTime(c))'
<1>1. PICK latency \in Latencies : due' = [due EXCEPT ![c] = now + latency]
  BY DEF Start, Request
<1>2. latency \in Nat /\ latency <= Timeout /\ Timeout \in Nat /\ 0 \in Attempts
  BY HttpAssumption DEF Attempts
<1>3. /\ now' = now /\ calls' = calls
      /\ pc' = [pc EXCEPT ![c] = "asking"]
      /\ attempt' = [attempt EXCEPT ![c] = 0]
      /\ last_exc' = [last_exc EXCEPT ![c] = None]
      /\ began' = [began EXCEPT ![c] = now]
      /\ sent' = [sent EXCEPT ![c] = 1]
      /\ result' = [result EXCEPT ![c] = None]
  BY DEF Start, Request
<1>4. TypeOK'
  BY <1>1, <1>2, <1>3 DEF IInv, TypeOK
<1>5. OpenCall(c)' /\ EndedCall(c)'
  BY <1>3, HttpAssumption DEF IInv, TypeOK, OpenCall, EndedCall
<1>6. Budget[0] \in Nat
  BY <1>2, DelayWithinBudget
<1>7. OnTime(c)'
  BY <1>1, <1>2, <1>3, <1>6 DEF IInv, TypeOK, OnTime
<1> QED BY <1>4, <1>5, <1>7

(* A sleep that the budget of the attempt allows for.                      *)
LEMMA SleepKeeps ==
  ASSUME IInv, NEW c \in Callers, Answered(c), NEW delay \in Nat,
         SleepFor(c, delay),
         Budget[attempt[c]] + Timeout + delay <= Budget[attempt[c] + 1],
         UNCHANGED <<now, attempt, began, sent, calls, result>>,
         \/ last_exc' = [last_exc EXCEPT ![c] = Failure(c)]
         \/ last_exc' = last_exc /\ TriesLeft(c)
  PROVE  TypeOK' /\ (OpenCall(c) /\ EndedCall(c) /\ OnTime(c))'
<1>1. /\ pc[c] = "asking" /\ due[c] = now /\ attempt[c] \in Attempts
      /\ now \in Nat /\ began[c] \in Nat
      /\ due' = [due EXCEPT ![c] = now + delay]
      /\ pc' = [pc EXCEPT ![c] = "sleeping"]
  BY DEF Answered, IInv, TypeOK, SleepFor
<1>2. Failure(c) \in Exceptions
  BY <1>1 DEF Failure, Exceptions
<1>3. TypeOK'
  BY <1>1, <1>2 DEF IInv, TypeOK
<1>4. OpenCall(c)' /\ EndedCall(c)'
  BY <1>1 DEF IInv, TypeOK, OpenCall, EndedCall, TriesLeft, Failure
<1>5. /\ Budget[attempt[c]] \in Nat /\ Budget[attempt[c] + 1] \in Nat
      /\ Timeout \in Nat
  BY <1>1, DelayWithinBudget, HttpAssumption
<1>6. now <= began[c] + Budget[attempt[c]] + Timeout
  BY <1>1 DEF IInv, OnTime
<1>7. now + delay <= began[c] + Budget[attempt[c] + 1]
  BY <1>1, <1>5, <1>6
<1>8. now' = now /\ attempt' = attempt /\ began' = began /\ due'[c] = now + delay
      /\ pc'[c] = "sleeping"
  BY <1>1 DEF IInv, TypeOK
<1>9. OnTime(c)'
  BY <1>1, <1>7, <1>8 DEF OnTime
<1> QED BY <1>3, <1>4, <1>9

(* An open call that ends with an outcome of its last attempt.             *)
LEMMA EndKeeps ==
  ASSUME IInv, NEW c \in Callers, pc[c] # "idle",
         NEW outcome \in Results, outcome.attempt = attempt[c], outcome.cause # "fallback",
         End(c, outcome), UNCHANGED <<now, attempt, last_exc, due, began, sent>>
  PROVE  TypeOK' /\ (OpenCall(c) /\ EndedCall(c) /\ OnTime(c))'
<1>1. /\ pc' = [pc EXCEPT ![c] = "idle"]
      /\ result' = [result EXCEPT ![c] = outcome]
      /\ calls' = [calls EXCEPT ![c] = @ + 1]
  BY DEF End
<1>2. TypeOK'
  BY <1>1 DEF IInv, TypeOK
<1>3. sent[c] = attempt[c] + 1 /\ attempt[c] \in Int
  BY DEF IInv, OpenCall, TypeOK, Attempts
<1>4. OpenCall(c)' /\ EndedCall(c)' /\ OnTime(c)'
  BY <1>1, <1>3 DEF IInv, TypeOK, OpenCall, EndedCall, OnTime
<1> QED BY <1>2, <1>4

(* Each branch of the loop body sleeps within the budget or ends the call. *)
LEMMA AnswerKeeps ==
  ASSUME IInv, NEW c \in Callers, Answer(c)
  PROVE  TypeOK' /\ (OpenCall(c) /\ EndedCall(c) /\ OnTime(c))'
<1>1. attempt[c] \in Attempts
  BY DEF IInv, TypeOK
<1>2. CASE TransportFailure(c)
  <2> DEFINE delay == TransientDelay(attempt[c])
  <2>1. delay \in Nat /\ Budget[attempt[c]] + Timeout + delay <= Budget[attempt[c] + 1]
    BY <1>1, DelayTyped, DelayWithinBudget
  <2> HIDE DEF delay
  <2>2. SleepFor(c, delay)
    BY <1>2 DEF TransportFailure, delay
  <2> QED BY <1>2, <2>1, <2>2, SleepKeeps DEF TransportFailure
<1>3. ASSUME NEW status \in RetryStatus, NEW r \in RetryAfters, RetryLater(c, status, r)
      PROVE  TypeOK' /\ (OpenCall(c) /\ EndedCall(c) /\ OnTime(c))'
  <2> DEFINE delay == RetryDelay(attempt[c], status, r)
  <2>1. attempt[c] < MaxRetries - 1
    BY <1>3 DEF RetryLater, TriesLeft
  <2>2. delay \in Nat /\ Budget[attempt[c]] + Timeout + delay <= Budget[attempt[c] + 1]
    BY <1>1, <2>1, DelayTyped, DelayWithinBudget
  <2> HIDE DEF delay
  <2>3. SleepFor(c, delay)
    BY <1>3 DEF RetryLater, delay
  <2> QED BY <1>3, <2>2, <2>3, SleepKeeps DEF RetryLater
<1>4. ASSUME NEW status \in RetryStatus \cup FinalStatus, ErrorStatus(c, status)
      PROVE  TypeOK' /\ (OpenCall(c) /\ EndedCall(c) /\ OnTime(c))'
  <2> DEFINE outcome == [cause |-> status, attempt |-> attempt[c]]
  <2>1. outcome \in Results /\ outcome.attempt = attempt[c] /\ outcome.cause # "fallback"
    BY <1>1 DEF Results, RetryStatus, FinalStatus
  <2>2. pc[c] # "idle" /\ End(c, outcome)
    BY <1>4 DEF ErrorStatus, Answered
  <2> HIDE DEF outcome
  <2> QED BY <1>4, <2>1, <2>2, EndKeeps DEF ErrorStatus
<1>5. ASSUME NEW cause \in {"json", "not_json"}, Body(c, cause)
      PROVE  TypeOK' /\ (OpenCall(c) /\ EndedCall(c) /\ OnTime(c))'
  <2> DEFINE outcome == [cause |-> cause, attempt |-> attempt[c]]
  <2>1. outcome \in Results /\ outcome.attempt = attempt[c] /\ outcome.cause # "fallback"
    BY <1>1 DEF Results
  <2>2. pc[c] # "idle" /\ End(c, outcome)
    BY <1>5 DEF Body, Answered
  <2> HIDE DEF outcome
  <2> QED BY <1>5, <2>1, <2>2, EndKeeps DEF Body
<1> QED BY <1>2, <1>3, <1>4, <1>5 DEF Answer

(* The next attempt begins where the sleep ended, within the budget.       *)
LEMMA RetryKeeps ==
  ASSUME IInv, NEW c \in Callers, Retry(c)
  PROVE  TypeOK' /\ (OpenCall(c) /\ EndedCall(c) /\ OnTime(c))'
<1>1. PICK latency \in Latencies : due' = [due EXCEPT ![c] = now + latency]
  BY DEF Retry, Request
<1>2. /\ pc[c] = "sleeping" /\ due[c] = now /\ TriesLeft(c)
      /\ pc' = [pc EXCEPT ![c] = "asking"]
      /\ attempt' = [attempt EXCEPT ![c] = attempt[c] + 1]
      /\ sent' = [sent EXCEPT ![c] = @ + 1]
      /\ UNCHANGED <<now, last_exc, began, calls, result>>
  BY DEF Retry, Awake, Request
<1>3. /\ attempt[c] \in Attempts /\ attempt[c] + 1 \in Attempts
      /\ attempt[c] \in Nat /\ attempt[c] + 1 < MaxRetries
  BY <1>2, HttpAssumption DEF IInv, TypeOK, TriesLeft, Attempts
<1>4. latency \in Nat /\ latency <= Timeout /\ Timeout \in Nat
  BY HttpAssumption
<1>5. TypeOK'
  BY <1>1, <1>2, <1>3, <1>4 DEF IInv, TypeOK
<1>6. sent[c] = attempt[c] + 1
  BY <1>2 DEF IInv, OpenCall
<1>7. OpenCall(c)' /\ EndedCall(c)'
  BY <1>2, <1>3, <1>6, HttpAssumption DEF IInv, TypeOK, OpenCall, EndedCall
<1>8. now <= began[c] + Budget[attempt[c] + 1]
  BY <1>2 DEF IInv, OnTime
<1>9. Budget[attempt[c] + 1] \in Nat
  BY <1>3, DelayWithinBudget
<1>10. /\ now \in Nat /\ began[c] \in Nat /\ now' = now /\ began' = began
       /\ due'[c] = now + latency /\ pc'[c] = "asking" /\ attempt'[c] = attempt[c] + 1
  BY <1>1, <1>2 DEF IInv, TypeOK
<1>11. OnTime(c)'
  BY <1>4, <1>8, <1>9, <1>10 DEF OnTime
<1> QED BY <1>5, <1>7, <1>11

(* A loop that has run out has the last attempt's exception to raise.      *)
LEMMA GiveUpKeeps ==
  ASSUME IInv, NEW c \in Callers, GiveUp(c)
  PROVE  TypeOK' /\ (OpenCall(c) /\ EndedCall(c) /\ OnTime(c))'
<1>1. pc[c] = "sleeping" /\ ~TriesLeft(c)
  BY DEF GiveUp, Awake
<1>2. last_exc[c] = Failure(c) /\ attempt[c] \in Attempts
  BY <1>1 DEF IInv, OpenCall, TypeOK
<1>3. /\ Failure(c) \in Results /\ Failure(c).attempt = attempt[c]
      /\ Failure(c).cause # "fallback"
  BY <1>2 DEF Failure, Results
<1>4. last_exc[c] # None
  <2>1. \A e \in Exceptions : e # None
    BY NoneAssumption
  <2> QED BY <1>2, <2>1 DEF Failure, Exceptions
<1>5. End(c, Failure(c))
  BY <1>2, <1>4 DEF GiveUp
<1> QED BY <1>1, <1>3, <1>5, EndKeeps DEF GiveUp

(* Time never jumps past an instant something is due at.                   *)
LEMMA AdvanceKeeps == IInv /\ Advance => IInv'
<1> SUFFICES ASSUME IInv, Advance PROVE IInv'
  OBVIOUS
<1>1. /\ now' \in {due[c] : c \in Busy}
      /\ \A c \in Busy : now' <= due[c]
      /\ UNCHANGED <<pc, attempt, last_exc, due, began, sent, calls, result>>
  BY DEF Advance
<1>2. TypeOK'
  BY <1>1 DEF IInv, TypeOK, Busy
<1>3. ASSUME NEW c \in Callers PROVE OpenCall(c)' /\ EndedCall(c)' /\ OnTime(c)'
  BY <1>1 DEF IInv, OpenCall, EndedCall, OnTime, Busy, TriesLeft, Failure
<1> QED BY <1>2, <1>3 DEF IInv

(* Every step of every caller preserves the invariant.                     *)
LEMMA StepKeepsIInv == IInv /\ [Next]_vars => IInv'
<1> SUFFICES ASSUME IInv, [Next]_vars PROVE IInv'
  OBVIOUS
<1>1. CASE Advance
  BY <1>1, AdvanceKeeps
<1>2. ASSUME NEW c \in Callers, Start(c) \/ Step(c) PROVE IInv'
  <2>1. TypeOK' /\ (OpenCall(c) /\ EndedCall(c) /\ OnTime(c))'
    BY <1>2, StartKeeps, AnswerKeeps, RetryKeeps, GiveUpKeeps DEF Step
  <2>2. \A d \in Callers : d # c => (OpenCall(d) /\ EndedCall(d) /\ OnTime(d))'
    BY <1>2, OthersKeep
  <2> QED BY <2>1, <2>2 DEF IInv
<1>3. CASE UNCHANGED vars
  BY <1>3 DEF vars, IInv, TypeOK, OpenCall, EndedCall, OnTime, TriesLeft, Failure
<1> QED BY <1>1, <1>2, <1>3 DEF Next

(* The invariant holds throughout.                                         *)
THEOREM Invariance == Spec => []IInv
<1> QED BY InitIInv, StepKeepsIInv, PTL DEF Spec

-----------------------------------------------------------------------------
(* What follows                                                            *)

(* Every state of the calls has its type.                                  *)
THEOREM TypeCorrect == Spec => []TypeOK
<1>1. IInv => TypeOK
  BY DEF IInv
<1> QED BY <1>1, Invariance, PTL

(* A call never sends more than MaxRetries requests.                       *)
LEMMA BoundedByIInv == IInv => AttemptsBounded
BY DEF IInv, OpenCall, EndedCall, AttemptsBounded

(* For any number of callers and any mixture of failures, max_retries      *)
(* holds.                                                                  *)
THEOREM AttemptsAreBounded == Spec => []AttemptsBounded
<1> QED BY BoundedByIInv, Invariance, PTL

(* Whatever mixture of failures a call met, it reports the last of them,   *)
(* and never the message for "no failure at all".                          *)
LEMMA ReportedByIInv == IInv => ReportsLastAttempt
BY DEF IInv, EndedCall, ReportsLastAttempt

(* What http_get_json raises or returns is of its own last attempt.        *)
THEOREM LastAttemptIsReported == Spec => []ReportsLastAttempt
<1> QED BY ReportedByIInv, Invariance, PTL

(* An open call has always been open for at most its budget.               *)
LEMMA BudgetByIInv == IInv => WithinBudget
<1> SUFFICES ASSUME IInv, NEW c \in Callers, pc[c] # "idle"
             PROVE  now <= began[c] + Budget[MaxRetries]
  BY DEF WithinBudget, Busy
<1>1. /\ now \in Nat /\ due[c] \in Nat /\ began[c] \in Nat /\ attempt[c] \in Attempts
      /\ pc[c] \in {"asking", "sleeping"} /\ now <= due[c]
  BY DEF IInv, TypeOK, OnTime
<1> DEFINE k == attempt[c]
<1>2. /\ Budget[k] \in Nat /\ Budget[k + 1] \in Nat
      /\ Budget[k] + Timeout + TransientDelay(k) <= Budget[k + 1]
      /\ Budget[k + 1] <= Budget[MaxRetries]
      /\ TransientDelay(k) \in Nat /\ Timeout \in Nat
  BY <1>1, DelayTyped, DelayWithinBudget, HttpAssumption
<1>3. Budget[MaxRetries] \in Nat
  BY BudgetAssumption, HttpAssumption
<1>4. CASE pc[c] = "asking"
  <2>1. due[c] <= began[c] + Budget[k] + Timeout
    BY <1>4 DEF IInv, OnTime
  <2> QED BY <1>1, <1>2, <1>3, <2>1
<1>5. CASE pc[c] = "sleeping"
  <2>1. due[c] <= began[c] + Budget[k + 1]
    BY <1>5 DEF IInv, OnTime
  <2> QED BY <1>1, <1>2, <1>3, <2>1
<1> QED BY <1>1, <1>4, <1>5

(* No call outlasts what its timeouts, backoffs and Retry-After waits add  *)
(* up to, whichever of them it meets and whoever else is calling.          *)
THEOREM CallsKeepToBudget == Spec => []WithinBudget
<1> QED BY BudgetByIInv, Invariance, PTL
=============================================================================
