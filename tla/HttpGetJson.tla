---------------------------- MODULE HttpGetJson ----------------------------
(***************************************************************************)
(* http_get_json of src/vgi_news/providers/base.py: a GET with a bounded   *)
(* number of attempts, a backoff that doubles after each, and a longer     *)
(* wait after HTTP 429.  Several scans of one worker may be in it at once, *)
(* each in a call of its own; they share nothing here but the clock.       *)
(*                                                                         *)
(* Time is counted in half seconds and jumps to the next instant at which  *)
(* an answer or the end of a sleep is due.                                 *)
(***************************************************************************)
EXTENDS Integers, FiniteSetsExt

CONSTANTS Callers,
          MaxRetries,       \* attempts of one call (3)
          Backoff,          \* base of the exponential backoff (0.5 s)
          RateLimitBackoff, \* base of the wait after 429 (5 s)
          Timeout,          \* the longest an attempt takes (20 s)
          Latencies,        \* how long attempts take
          RetryAfters,      \* the Retry-After values a 429 may carry
          MaxCalls,         \* bound: calls one caller makes
          Budget,           \* Budget[k]: time enough for k attempts and sleeps
          None              \* no error, no result, no header

ASSUME HttpAssumption == /\ MaxRetries \in Nat \ {0}
                         /\ Backoff \in Nat
                         /\ RateLimitBackoff \in Nat
                         /\ Timeout \in Nat
                         /\ Latencies \subseteq 0 .. Timeout
                         /\ RetryAfters \subseteq Nat \cup {None}
                         /\ MaxCalls \in Nat

(* A fact of arithmetic the provers need to be told.                       *)
ASSUME PowerAssumption == \A k \in 0 .. MaxRetries - 1 : 2 ^ k \in Nat \ {0}

(* Budget dominates the time attempts and sleeps take: attempt k, counted  *)
(* from 0, ends its sleep within Budget[k + 1] of the call's beginning.    *)
ASSUME BudgetAssumption ==
  /\ Budget \in [0 .. MaxRetries -> Nat]
  /\ \A k \in 0 .. MaxRetries - 1 :
       /\ Budget[k] + Timeout + Backoff * 2 ^ k <= Budget[k + 1]
       /\ k < MaxRetries - 1 =>
            /\ Budget[k] + Timeout + RateLimitBackoff * 2 ^ k <= Budget[k + 1]
            /\ \A r \in RetryAfters \ {None} : Budget[k] + Timeout + r <= Budget[k + 1]
  /\ \A k \in 0 .. MaxRetries : Budget[k] <= Budget[MaxRetries]

VARIABLES now,      \* the clock
          pc,       \* "idle" outside a call, "asking" in httpx.get, "sleeping"
          attempt,  \* the loop variable of the caller's call
          last_exc, \* the transport failure kept for the end of the loop
          due,      \* when the answer arrives or the sleep is over
          began,    \* history: when the call began
          sent,     \* history: requests the call has sent
          calls,    \* calls made
          result    \* how the caller's last call ended

vars == <<now, pc, attempt, last_exc, due, began, sent, calls, result>>

RetryStatus == {"429", "5xx"}
FinalStatus == {"4xx"}

Attempts   == 0 .. MaxRetries - 1
Exceptions == [cause : {"transport", "fallback"}, attempt : Attempts]
Results    == [cause : {"json", "not_json", "transport", "fallback"}
                         \cup RetryStatus \cup FinalStatus,
               attempt : Attempts]

ASSUME NoneAssumption == None \notin Int \cup Exceptions \cup Results

TypeOK == /\ now \in Nat
          /\ pc \in [Callers -> {"idle", "asking", "sleeping"}]
          /\ attempt \in [Callers -> Attempts]
          /\ last_exc \in [Callers -> Exceptions \cup {None}]
          /\ due \in [Callers -> Nat]
          /\ began \in [Callers -> Nat]
          /\ sent \in [Callers -> Nat]
          /\ calls \in [Callers -> Nat]
          /\ result \in [Callers -> Results \cup {None}]

Init == /\ now = 0
        /\ pc = [c \in Callers |-> "idle"]
        /\ attempt = [c \in Callers |-> 0]
        /\ last_exc = [c \in Callers |-> None]
        /\ due = [c \in Callers |-> 0]
        /\ began = [c \in Callers |-> 0]
        /\ sent = [c \in Callers |-> 0]
        /\ calls = [c \in Callers |-> 0]
        /\ result = [c \in Callers |-> None]

-----------------------------------------------------------------------------

Greater(i, j) == IF i >= j THEN i ELSE j

TransientDelay(n) == Backoff * 2 ^ n

(* Slips in the loop, for the runs' mutants.                               *)
QuickDelay(n, status, retry_after) == TransientDelay(n)

AddedDelay(n, status, retry_after) ==
  TransientDelay(n) + RateLimitBackoff * 2 ^ n
                    + (IF retry_after = None THEN 0 ELSE retry_after)

FirstFailure(c) == IF last_exc[c] = None
                   THEN [cause |-> "transport", attempt |-> attempt[c]]
                   ELSE last_exc[c]

OneMoreTry(c) == attempt[c] < MaxRetries

(* How long the n-th attempt's retried status makes the caller sleep.      *)
RetryDelay(n, status, retry_after) ==
  IF status # "429" THEN TransientDelay(n)
  ELSE Greater(Greater(TransientDelay(n), RateLimitBackoff * 2 ^ n),
               IF retry_after = None THEN 0 ELSE retry_after)

(* What a transport failure leaves in last_exc.                            *)
Failure(c) == [cause |-> "transport", attempt |-> attempt[c]]

TriesLeft(c) == attempt[c] < MaxRetries - 1

(* httpx.get is called for the n-th attempt.                               *)
Request(c, n) == /\ pc' = [pc EXCEPT ![c] = "asking"]
                 /\ attempt' = [attempt EXCEPT ![c] = n]
                 /\ \E latency \in Latencies : due' = [due EXCEPT ![c] = now + latency]

SleepFor(c, delay) == /\ pc' = [pc EXCEPT ![c] = "sleeping"]
                      /\ due' = [due EXCEPT ![c] = now + delay]

(* The call returns or raises, and the caller goes on.                     *)
End(c, outcome) == /\ pc' = [pc EXCEPT ![c] = "idle"]
                   /\ result' = [result EXCEPT ![c] = outcome]
                   /\ calls' = [calls EXCEPT ![c] = @ + 1]

Start(c) == /\ pc[c] = "idle"
            /\ calls[c] < MaxCalls
            /\ Request(c, 0)
            /\ last_exc' = [last_exc EXCEPT ![c] = None]
            /\ began' = [began EXCEPT ![c] = now]
            /\ sent' = [sent EXCEPT ![c] = 1]
            /\ result' = [result EXCEPT ![c] = None]
            /\ UNCHANGED <<now, calls>>

Answered(c) == pc[c] = "asking" /\ due[c] = now

(* httpx.HTTPError: remember it, sleep, also after the last attempt.       *)
TransportFailure(c) ==
  /\ Answered(c)
  /\ last_exc' = [last_exc EXCEPT ![c] = Failure(c)]
  /\ SleepFor(c, TransientDelay(attempt[c]))
  /\ UNCHANGED <<now, attempt, began, sent, calls, result>>

RetryLater(c, status, retry_after) ==
  /\ Answered(c)
  /\ TriesLeft(c)
  /\ SleepFor(c, RetryDelay(attempt[c], status, retry_after))
  /\ UNCHANGED <<now, attempt, last_exc, began, sent, calls, result>>

(* A slip, for a run's mutant: a retried status is never raised.           *)
OnlyFinalRaises(c, status) ==
  /\ Answered(c)
  /\ status \in FinalStatus
  /\ End(c, [cause |-> status, attempt |-> attempt[c]])
  /\ UNCHANGED <<now, attempt, last_exc, due, began, sent>>

(* A status that is not retried, or not any more: raise at once.           *)
ErrorStatus(c, status) ==
  /\ Answered(c)
  /\ status \in RetryStatus => ~TriesLeft(c)
  /\ End(c, [cause |-> status, attempt |-> attempt[c]])
  /\ UNCHANGED <<now, attempt, last_exc, due, began, sent>>

(* A body arrives: return its JSON, or raise if it is none.                *)
Body(c, cause) ==
  /\ Answered(c)
  /\ End(c, [cause |-> cause, attempt |-> attempt[c]])
  /\ UNCHANGED <<now, attempt, last_exc, due, began, sent>>

Awake(c) == pc[c] = "sleeping" /\ due[c] = now

(* The next turn of the loop.                                              *)
Retry(c) == /\ Awake(c)
            /\ TriesLeft(c)
            /\ Request(c, attempt[c] + 1)
            /\ sent' = [sent EXCEPT ![c] = @ + 1]
            /\ UNCHANGED <<now, last_exc, began, calls, result>>

(* The loop has run out: raise last_exc, or the fallback if there is none. *)
GiveUp(c) == /\ Awake(c)
             /\ ~TriesLeft(c)
             /\ End(c, IF last_exc[c] # None THEN last_exc[c]
                       ELSE [cause |-> "fallback", attempt |-> attempt[c]])
             /\ UNCHANGED <<now, attempt, last_exc, due, began, sent>>

Answer(c) ==
  \/ TransportFailure(c)
  \/ \E status \in RetryStatus, retry_after \in RetryAfters :
       RetryLater(c, status, retry_after)
  \/ \E status \in RetryStatus \cup FinalStatus : ErrorStatus(c, status)
  \/ \E cause \in {"json", "not_json"} : Body(c, cause)

Step(c) == Answer(c) \/ Retry(c) \/ GiveUp(c)

Busy == {c \in Callers : pc[c] # "idle"}

(* Nothing is due now: time moves to the first thing that will be.         *)
Advance == /\ Busy # {}
           /\ \A c \in Busy : due[c] > now
           /\ \E next \in {due[c] : c \in Busy} :
                /\ \A c \in Busy : next <= due[c]
                /\ now' = next
           /\ UNCHANGED <<pc, attempt, last_exc, due, began, sent, calls, result>>

Next == Advance \/ \E c \in Callers : Start(c) \/ Step(c)

(* Time passes, answers come and sleeps end; whether a scan makes another  *)
(* call is its own affair.                                                 *)
Spec == Init /\ [][Next]_vars /\ WF_vars(Advance)
                              /\ \A c \in Callers : WF_vars(Step(c))

-----------------------------------------------------------------------------

(* A call sends at most MaxRetries requests, and while it lasts the loop   *)
(* variable counts them: range(max_retries) is not restarted by a failure. *)
AttemptsBounded == \A c \in Callers :
  /\ sent[c] <= MaxRetries
  /\ pc[c] # "idle" => sent[c] = attempt[c] + 1

(* However it ends, a call reports what its last request met, though the   *)
(* error of a failed transport is kept across iterations; the message      *)
(* "failed after ... attempts" is never the one raised.                    *)
ReportsLastAttempt == \A c \in Callers : result[c] # None =>
  /\ result[c].attempt = sent[c] - 1
  /\ result[c].cause # "fallback"

(* No call lasts longer than its attempts' timeouts and the sleeps after   *)
(* them, the sleep after the last transport failure included.              *)
WithinBudget == \A c \in Busy : now <= began[c] + Budget[MaxRetries]

(* Every call comes back to its scan, with rows or with an error.          *)
EveryCallEnds == \A c \in Callers : pc[c] # "idle" ~> pc[c] = "idle"

(* What the documents say and the code does not do.                        *)

(* vgi-lint.toml: "Worst case 3x20s + 5s + 10s = 75s", in half seconds.    *)
DocumentedWorstCase ==
  \A c \in Busy : now <= began[c] + 3 * Timeout + 3 * RateLimitBackoff
=============================================================================
