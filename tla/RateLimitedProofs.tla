------------------------- MODULE RateLimitedProofs -------------------------
(***************************************************************************)
(* One scan alone, and two of one page each, against a rate-limited        *)
(* service, for every choice of the constants: TLAPS proofs about          *)
(* RateLimited, on top of those about HttpGetJson.                         *)
(**************************************************************************)
EXTENDS RateLimited, HttpGetJsonProofs

(* Every step here is a step of http_get_json.                             *)
LEMMA LimitedStepIsStep == [LimitedNext]_limitedVars => [Next]_vars
<1> SUFFICES ASSUME [LimitedNext]_limitedVars PROVE [Next]_vars
  OBVIOUS
<1>1. CASE LimitedAdvance
  BY <1>1 DEF LimitedAdvance, Next
<1>2. ASSUME NEW c \in Callers, LimitedStart(c) \/ LimitedStep(c) PROVE Next
  <2>1. Start(c) \/ Step(c)
    BY <1>2 DEF LimitedStart, LimitedStep, LimitedRetry, Refused, Served, Lost,
                LimitedGiveUp, Step, Answer, RetryStatus, FinalStatus
  <2> QED BY <2>1 DEF Next
<1>3. CASE UNCHANGED limitedVars
  BY <1>3 DEF limitedVars
<1> QED BY <1>1, <1>2, <1>3 DEF LimitedNext

(* The invariant of the calls holds with the service's rate limit, too.    *)
THEOREM LimitedInvariance == LimitedSpec => []IInv
<1>1. LimitedInit => IInv
  BY InitIInv DEF LimitedInit
<1>2. IInv /\ [LimitedNext]_limitedVars => IInv'
  BY StepKeepsIInv, LimitedStepIsStep
<1> QED BY <1>1, <1>2, PTL DEF LimitedSpec

(* The service's side has its type.                                        *)
LEMMA LimitedTypeStep ==
  IInv /\ LimitedTypeOK /\ [LimitedNext]_limitedVars => LimitedTypeOK'
<1> SUFFICES ASSUME IInv, LimitedTypeOK, [LimitedNext]_limitedVars
             PROVE  LimitedTypeOK'
  OBVIOUS
<1>1. TypeOK'
  BY StepKeepsIInv, LimitedStepIsStep DEF IInv
<1>2. last' \in Nat \cup {None} /\ limited' \in [Callers -> BOOLEAN] /\ lost' \in Nat
  <2>1. CASE LimitedAdvance
    BY <2>1 DEF LimitedAdvance, LimitedTypeOK
  <2>2. ASSUME NEW c \in Callers, LimitedStart(c) \/ LimitedRetry(c)
        PROVE  last' \in Nat \cup {None} /\ limited' \in [Callers -> BOOLEAN] /\ lost' \in Nat
    <3>1. InWindow \in BOOLEAN /\ now \in Nat
      BY DEF InWindow, LimitedTypeOK, TypeOK
    <3> QED BY <2>2, <3>1 DEF LimitedStart, LimitedRetry, Arrive, LimitedTypeOK
  <2>3. ASSUME NEW c \in Callers, Refused(c) \/ Served(c) \/ Lost(c) \/ LimitedGiveUp(c)
        PROVE  last' \in Nat \cup {None} /\ limited' \in [Callers -> BOOLEAN] /\ lost' \in Nat
    BY <2>3 DEF Refused, Served, Lost, LimitedGiveUp, LimitedTypeOK
  <2>4. CASE UNCHANGED limitedVars
    BY <2>4 DEF limitedVars, LimitedTypeOK
  <2> QED BY <2>1, <2>2, <2>3, <2>4 DEF LimitedNext, LimitedStep
<1> QED BY <1>1, <1>2 DEF LimitedTypeOK

(* Every state has its type.                                               *)
THEOREM LimitedTypeCorrect == LimitedSpec => []LimitedTypeOK
<1>1. LimitedInit => LimitedTypeOK
  BY InitIInv DEF LimitedInit, LimitedTypeOK, IInv
<1> QED BY <1>1, LimitedTypeStep, LimitedInvariance, PTL DEF LimitedSpec

(* While nothing is lost, a lone scan's request that is refused is the     *)
(* first of its call, and the sleep that follows ends after the window.    *)
LoneCall(c) ==
  /\ last # None => last <= now
  /\ pc[c] = "asking" => /\ attempt[c] \in {0, 1}
                         /\ attempt[c] = 1 => ~limited[c]
                         /\ last # None
  /\ pc[c] = "sleeping" => attempt[c] = 0 /\ last # None /\ last + Window <= due[c]
  /\ sent[c] <= 2
  /\ MaxRetries > 1 /\ result[c] # None => result[c].cause # "429"

LoneInv == Reliable => \A c \in Callers : Alone(c) => LoneCall(c)

(* A lone scan's request after a 429 waits out the window.                 *)
LEMMA WaitIsLong ==
  ASSUME Window <= RateLimitBackoff, NEW r \in RetryAfters
  PROVE  RetryDelay(0, "429", r) \in Nat /\ Window <= RetryDelay(0, "429", r)
<1>1. 0 \in Attempts
  BY HttpAssumption DEF Attempts
<1>2. RateLimitBackoff * 2 ^ 0 = RateLimitBackoff
  BY HttpAssumption
<1>3. TransientDelay(0) \in Nat /\ RetryDelay(0, "429", r) \in Nat
  BY <1>1, DelayTyped
<1>4. RateLimitBackoff <= RetryDelay(0, "429", r)
  BY <1>2, <1>3, HttpAssumption DEF RetryDelay, Greater
<1> QED BY <1>3, <1>4, HttpAssumption, RateAssumption

(* A lone scan that was refused wakes after the window, so is served next. *)
LEMMA LoneStep ==
  IInv /\ LimitedTypeOK /\ LoneInv /\ [LimitedNext]_limitedVars => LoneInv'
<1> SUFFICES ASSUME IInv, LimitedTypeOK, LoneInv, [LimitedNext]_limitedVars,
                    Reliable', NEW c \in Callers, Alone(c)'
             PROVE  LoneCall(c)'
  BY DEF LoneInv
<1>1. /\ now \in Nat /\ pc \in [Callers -> {"idle", "asking", "sleeping"}]
      /\ attempt \in [Callers -> Attempts] /\ due \in [Callers -> Nat]
      /\ sent \in [Callers -> Nat] /\ last \in Nat \cup {None}
      /\ result \in [Callers -> Results \cup {None}]
      /\ limited \in [Callers -> BOOLEAN] /\ Window \in Nat /\ None \notin Nat
      /\ MaxRetries \in Nat
  BY NoneAssumption, RateAssumption, HttpAssumption DEF LimitedTypeOK, TypeOK
<1>2. lost' = 0 /\ Window <= RateLimitBackoff
  BY DEF Reliable
<1>3. lost' = lost \/ lost' = lost + 1
  BY DEF LimitedNext, LimitedAdvance, LimitedStart, LimitedStep, LimitedRetry, Refused,
         Served, Lost, LimitedGiveUp, Arrive, limitedVars
<1>13. ASSUME NEW d \in Callers \ {c} PROVE sent[d] = 0 /\ ~LimitedStart(d) /\ ~LimitedStep(d)
  <2>1. sent'[d] = 0
    BY DEF Alone
  <2>2. ~LimitedStart(d)
    BY <1>1, <2>1 DEF LimitedStart, Start
  <2>3. sent[d] = 0
    <3>1. CASE \E e \in Callers : LimitedStart(e) \/ LimitedRetry(e)
      BY <1>1, <2>1, <3>1 DEF LimitedStart, Start, LimitedRetry, Retry
    <3>2. CASE UNCHANGED sent
      BY <2>1, <3>2
    <3>3. (\E e \in Callers : LimitedStart(e) \/ LimitedRetry(e)) \/ UNCHANGED sent
      BY DEF LimitedNext, LimitedAdvance, Advance, LimitedStep, Refused, RetryLater, ErrorStatus,
             Served, Body, Lost, TransportFailure, LimitedGiveUp, GiveUp, limitedVars, vars
    <3> QED BY <3>1, <3>2, <3>3
  <2>4. pc[d] = "idle"
    <3>1. pc[d] # "idle" => sent[d] = attempt[d] + 1
      BY DEF IInv, OpenCall
    <3>2. attempt[d] \in Nat
      BY <1>1, HttpAssumption DEF Attempts
    <3> QED BY <2>3, <3>1, <3>2
  <2>5. ~LimitedStep(d)
    BY <2>4 DEF LimitedStep, LimitedRetry, Retry, Awake, Refused, RetryLater, ErrorStatus,
                Served, Body, Lost, TransportFailure, Answered, LimitedGiveUp, GiveUp
  <2> QED BY <2>2, <2>3, <2>5
<1>4. LoneCall(c)
  <2>1. Alone(c)
    BY <1>13 DEF Alone
  <2>2. lost \in Nat
    BY DEF LimitedTypeOK
  <2> QED BY <1>2, <1>3, <2>1, <2>2 DEF LoneInv, Reliable
<1>5. CASE LimitedAdvance
  <2>1. now' >= now
    <3>1. PICK d \in Busy : now' = due[d]
      BY <1>5 DEF LimitedAdvance, Advance
    <3> QED BY <1>1, <1>5, <3>1 DEF LimitedAdvance, Advance, Busy
  <2>2. now' \in Nat
    BY <1>1, <1>5 DEF LimitedAdvance, Advance, Busy
  <2>3. UNCHANGED <<pc, attempt, due, sent, result, last, limited>>
    BY <1>5 DEF LimitedAdvance, Advance
  <2> QED BY <1>1, <1>4, <2>1, <2>2, <2>3 DEF LoneCall
<1>6. CASE LimitedStart(c)
  <2>1. /\ now' = now /\ pc'[c] = "asking" /\ attempt'[c] = 0 /\ sent'[c] = 1
        /\ result'[c] = None
    BY <1>1, <1>6 DEF LimitedStart, Start, Request, IInv, TypeOK
  <2>2. last' = now \/ (last' = last /\ InWindow)
    BY <1>6 DEF LimitedStart, Arrive
  <2> QED BY <1>1, <1>4, <2>1, <2>2 DEF LoneCall, InWindow
<1>7. CASE LimitedRetry(c)
  <2>1. /\ pc[c] = "sleeping" /\ due[c] = now /\ now' = now /\ pc'[c] = "asking"
        /\ attempt'[c] = attempt[c] + 1 /\ sent'[c] = sent[c] + 1 /\ result' = result
    BY <1>1, <1>7 DEF LimitedRetry, Retry, Awake, Request
  <2>2. attempt[c] = 0 /\ last # None /\ last + Window <= now
    BY <1>4, <2>1 DEF LoneCall
  <2>3. ~InWindow
    BY <1>1, <2>2 DEF InWindow
  <2>4. last' = now /\ limited'[c] = FALSE
    BY <1>1, <1>7, <2>3 DEF LimitedRetry, Arrive
  <2>5. sent[c] = attempt[c] + 1 /\ result[c] = None
    BY <2>1 DEF IInv, OpenCall
  <2> QED BY <1>1, <2>1, <2>2, <2>4, <2>5 DEF LoneCall
<1>8. CASE Refused(c)
  <2>1. /\ pc[c] = "asking" /\ due[c] = now /\ limited[c]
        /\ UNCHANGED <<now, attempt, sent, last, limited>>
    BY <1>8 DEF Refused, RetryLater, ErrorStatus, Answered
  <2>2. attempt[c] = 0 /\ last # None /\ last <= now
    BY <1>4, <2>1 DEF LoneCall
  <2>3. ASSUME NEW r \in RetryAfters, RetryLater(c, "429", r) PROVE LoneCall(c)'
    <3>1. /\ pc'[c] = "sleeping" /\ due'[c] = now + RetryDelay(0, "429", r)
          /\ result' = result
      BY <1>1, <2>2, <2>3 DEF RetryLater, SleepFor
    <3>2. RetryDelay(0, "429", r) \in Nat /\ Window <= RetryDelay(0, "429", r)
      BY <1>2, WaitIsLong
    <3>3. last + Window <= due'[c]
      BY <1>1, <2>2, <3>1, <3>2
    <3> QED BY <1>4, <2>1, <2>2, <3>1, <3>3 DEF LoneCall
  <2>4. CASE ErrorStatus(c, "429")
    <3>1. ~TriesLeft(c) /\ pc'[c] = "idle"
      BY <1>1, <2>4 DEF ErrorStatus, RetryStatus, End
    <3>2. ~(MaxRetries > 1)
      BY <1>1, <2>2, <3>1 DEF TriesLeft
    <3> QED BY <1>4, <2>1, <2>2, <3>1, <3>2 DEF LoneCall
  <2> QED BY <1>8, <2>3, <2>4 DEF Refused
<1>9. CASE Served(c)
  <2>1. /\ pc'[c] = "idle" /\ result'[c] = [cause |-> "json", attempt |-> attempt[c]]
        /\ UNCHANGED <<now, attempt, sent, last, limited>>
    BY <1>1, <1>9 DEF Served, Body, End
  <2> QED BY <1>4, <2>1 DEF LoneCall
<1>10. CASE Lost(c)
  BY <1>2, <1>10 DEF Lost, LimitedTypeOK
<1>11. CASE LimitedGiveUp(c)
  <2>1. pc[c] = "sleeping" /\ ~TriesLeft(c) /\ pc'[c] = "idle"
    BY <1>1, <1>11 DEF LimitedGiveUp, GiveUp, Awake, End
  <2>2. ~(MaxRetries > 1)
    BY <1>1, <1>4, <2>1 DEF LoneCall, TriesLeft
  <2>3. UNCHANGED <<now, attempt, sent, last, limited>>
    BY <1>11 DEF LimitedGiveUp, GiveUp
  <2> QED BY <1>4, <2>1, <2>2, <2>3 DEF LoneCall
<1>12. CASE UNCHANGED limitedVars
  BY <1>4, <1>12 DEF limitedVars, vars, LoneCall
<1> QED BY <1>5, <1>6, <1>7, <1>8, <1>9, <1>10, <1>11, <1>12, <1>13
        DEF LimitedNext, LimitedStep

(* A scan that is alone, whose requests all arrive, is never failed by the *)
(* rate limit and never asks for one page more than twice, whatever the    *)
(* latencies, the Retry-After values and the number of its pages.          *)
THEOREM LoneScanIsServed == LimitedSpec => []LoneScanServed
<1>1. LimitedInit => LoneInv
  BY DEF LimitedInit, Init, LoneInv, LoneCall
<1>2. LoneInv => LoneScanServed
  BY DEF LoneInv, LoneCall, LoneScanServed
<1> QED BY <1>1, <1>2, LoneStep, LimitedInvariance, LimitedTypeCorrect, PTL DEF LimitedSpec

-----------------------------------------------------------------------------
(* Two scans of one page each                                              *)

(* A caller's step is its own: it changes nothing of another caller.       *)
LEMMA OwnStep ==
  ASSUME LimitedTypeOK, NEW c \in Callers, LimitedStart(c) \/ LimitedStep(c),
         NEW d \in Callers, d # c
  PROVE  /\ pc'[d] = pc[d] /\ attempt'[d] = attempt[d] /\ due'[d] = due[d]
         /\ sent'[d] = sent[d] /\ calls'[d] = calls[d] /\ result'[d] = result[d]
         /\ limited'[d] = limited[d]
<1>1. CASE LimitedStart(c) \/ LimitedRetry(c)
  BY <1>1 DEF LimitedStart, LimitedRetry, Start, Retry, Request, Arrive, LimitedTypeOK, TypeOK
<1>2. CASE Refused(c)
  BY <1>2 DEF Refused, RetryLater, ErrorStatus, SleepFor, End, LimitedTypeOK, TypeOK
<1>3. CASE Served(c) \/ Lost(c) \/ LimitedGiveUp(c)
  BY <1>3 DEF Served, Body, Lost, TransportFailure, LimitedGiveUp, GiveUp, SleepFor, End,
              LimitedTypeOK, TypeOK
<1> QED BY <1>1, <1>2, <1>3 DEF LimitedStep

(* Pages are begun by Start and stay begun.                                *)
LEMMA BegunStep ==
  ASSUME LimitedTypeOK, [LimitedNext]_limitedVars, NEW c \in Callers
  PROVE  /\ Begun(c) \in Nat /\ Begun(c)' \in Nat
         /\ Begun(c)' = IF LimitedStart(c) THEN Begun(c) + 1 ELSE Begun(c)
<1>1. pc \in [Callers -> {"idle", "asking", "sleeping"}] /\ calls \in [Callers -> Nat]
  BY DEF LimitedTypeOK, TypeOK
<1>2. Begun(c) \in Nat
  BY <1>1 DEF Begun
<1>3. CASE LimitedStart(c)
  <2>1. pc[c] = "idle" /\ pc'[c] = "asking" /\ calls' = calls
    BY <1>1, <1>3 DEF LimitedStart, Start, Request
  <2> QED BY <1>1, <1>3, <2>1 DEF Begun
<1>4. CASE LimitedRetry(c)
  <2>1. pc[c] = "sleeping" /\ pc'[c] = "asking" /\ calls' = calls /\ ~LimitedStart(c)
    BY <1>1, <1>4 DEF LimitedRetry, Retry, Awake, Request, LimitedStart, Start
  <2> QED BY <1>1, <2>1 DEF Begun
<1>5. CASE Refused(c) \/ Served(c) \/ Lost(c) \/ LimitedGiveUp(c)
  <2>1. pc[c] # "idle" /\ ~LimitedStart(c)
    BY <1>5 DEF Refused, RetryLater, ErrorStatus, Served, Body, Lost, TransportFailure,
                Answered, LimitedGiveUp, GiveUp, Awake, LimitedStart, Start
  <2>2. \/ pc'[c] = "sleeping" /\ calls' = calls
        \/ pc'[c] = "idle" /\ calls'[c] = calls[c] + 1
    BY <1>1, <1>5 DEF Refused, RetryLater, ErrorStatus, Served, Body, Lost, TransportFailure,
                      LimitedGiveUp, GiveUp, SleepFor, End
  <2> QED BY <1>1, <2>1, <2>2 DEF Begun
<1>6. ASSUME NEW e \in Callers, e # c, LimitedStart(e) \/ LimitedStep(e), ~LimitedStart(c)
      PROVE  Begun(c)' = Begun(c)
  BY <1>6, OwnStep DEF Begun
<1>7. ASSUME LimitedStart(c), NEW e \in Callers, LimitedStart(e) \/ LimitedStep(e) PROVE e = c
  <2>1. pc[c] = "idle" /\ pc'[c] = "asking"
    BY <1>1, <1>7 DEF LimitedStart, Start, Request
  <2> QED BY <1>7, <2>1, OwnStep
<1>8. CASE LimitedAdvance \/ UNCHANGED limitedVars
  <2>1. pc' = pc /\ calls' = calls
    BY <1>8 DEF LimitedAdvance, Advance, limitedVars, vars
  <2>2. ~LimitedStart(c)
    BY <1>1, <2>1 DEF LimitedStart, Start, Request
  <2> QED BY <1>2, <2>1, <2>2 DEF Begun
<1> QED BY <1>2, <1>3, <1>4, <1>5, <1>6, <1>7, <1>8 DEF LimitedNext, LimitedStep

(* A caller that has been refused, or is about to be.                      *)
Refusable(c) == pc[c] = "sleeping" \/ (pc[c] = "asking" /\ limited[c])

(* While nothing is lost, only the first request of a caller's page is     *)
(* refused, and then another caller's page was begun before and is not     *)
(* refused: it asks for nothing any more.                                  *)
PairCall(c) ==
  /\ pc[c] = "asking" => /\ attempt[c] \in {0, 1}
                         /\ attempt[c] = 1 => ~limited[c]
  /\ pc[c] = "sleeping" => attempt[c] = 0 /\ last + Window <= due[c]
  /\ Refusable(c) => \E d \in Callers \ {c} : Begun(d) > 0 /\ ~Refusable(d)
  /\ sent[c] <= 2
  /\ result[c] # None => result[c].cause # "429"

PairFacts == /\ last # None => last <= now
             /\ last # None <=> \E c \in Callers : Begun(c) > 0
             /\ \A c \in Callers : PairCall(c)

PairInv == Reliable /\ MaxRetries > 1 /\ OnePageEach => PairFacts

(* What the pair's conditions say of the state before.                     *)
LEMMA PairBefore ==
  ASSUME LimitedTypeOK, PairInv, [LimitedNext]_limitedVars, Reliable', MaxRetries > 1,
         OnePageEach'
  PROVE  PairFacts /\ OnePageEach /\ Window <= RateLimitBackoff /\ lost' = lost
<1>1. lost' = 0 /\ Window <= RateLimitBackoff
  BY DEF Reliable
<1>2. lost' = lost \/ lost' = lost + 1
  BY DEF LimitedNext, LimitedAdvance, LimitedStart, LimitedStep, LimitedRetry, Refused,
         Served, Lost, LimitedGiveUp, Arrive, limitedVars
<1>3. lost = 0 /\ lost' = lost
  BY <1>1, <1>2 DEF LimitedTypeOK
<1>4. \A c \in Callers : Begun(c) \in Nat /\ Begun(c)' \in Nat /\ Begun(c) <= Begun(c)'
  BY BegunStep
<1>5. OnePageEach
  <2>1. \A c \in Callers : Begun(c)' <= 1
    BY DEF OnePageEach
  <2>2. \A c \in Callers : Begun(c) <= 1 /\ (Begun(c) > 0 => Begun(c)' > 0)
    BY <1>4, <2>1
  <2> QED BY <2>2 DEF OnePageEach
<1> QED BY <1>1, <1>3, <1>5 DEF PairInv, Reliable

(* Two callers that have begun leave no third.                             *)
LEMMA NoThird ==
  ASSUME OnePageEach, NEW c \in Callers, NEW d \in Callers, NEW e \in Callers,
         Begun(c) > 0, Begun(d) > 0, Begun(e) > 0, c # d, c # e
  PROVE  d = e
BY DEF OnePageEach

(* A page's first request is refused only while another caller's page is   *)
(* begun, which is then served, and no caller sleeps.                      *)
LEMMA PairStart ==
  ASSUME LimitedTypeOK, PairFacts, OnePageEach', NEW c \in Callers, LimitedStart(c)
  PROVE  PairFacts'
<1>1. /\ now \in Nat /\ pc \in [Callers -> {"idle", "asking", "sleeping"}]
      /\ attempt \in [Callers -> Attempts] /\ sent \in [Callers -> Nat]
      /\ last \in Nat \cup {None} /\ result \in [Callers -> Results \cup {None}]
      /\ limited \in [Callers -> BOOLEAN] /\ Window \in Nat /\ None \notin Nat
  BY NoneAssumption, RateAssumption DEF LimitedTypeOK, TypeOK
<1>2. /\ pc[c] = "idle" /\ pc'[c] = "asking" /\ attempt'[c] = 0 /\ sent'[c] = 1
      /\ result'[c] = None /\ now' = now
      /\ limited'[c] = InWindow
      /\ last' = now \/ (last' = last /\ InWindow)
  BY <1>1 DEF LimitedStart, Start, Request, Arrive, TypeOK, LimitedTypeOK
<1>3. \A d \in Callers : Begun(d) \in Nat /\ Begun(d)' = IF d = c THEN Begun(d) + 1 ELSE Begun(d)
  <2>1. \A d \in Callers : LimitedStart(d) => d = c
    <3> SUFFICES ASSUME NEW d \in Callers, LimitedStart(d), d # c PROVE FALSE
      OBVIOUS
    <3>1. pc[d] = "idle" /\ pc'[d] = "asking"
      BY <1>1 DEF LimitedStart, Start, Request
    <3> QED BY <3>1, OwnStep
  <2> QED BY <2>1, BegunStep DEF LimitedNext
<1>4. Begun(c) = 0 /\ Begun(c)' = 1
  BY <1>3 DEF OnePageEach
<1>5. ASSUME NEW d \in Callers, d # c
      PROVE  (Refusable(d)' <=> Refusable(d)) /\ (Begun(d)' = Begun(d))
  BY <1>3, <1>5, OwnStep DEF Refusable
<1>6. ASSUME NEW d \in Callers, Refusable(d) PROVE FALSE
  <2>1. d # c /\ Begun(d) > 0
    <3>1. pc[d] # "idle"
      BY <1>6 DEF Refusable
    <3> QED BY <1>1, <1>2, <3>1 DEF Begun, LimitedTypeOK, TypeOK
  <2>2. PICK e \in Callers \ {d} : Begun(e) > 0 /\ ~Refusable(e)
    BY <1>6 DEF PairFacts, PairCall
  <2>3. e # c
    BY <1>4, <2>2
  <2> QED BY <1>3, <1>4, <2>1, <2>2, <2>3 DEF OnePageEach
<1>7. last' # None /\ last' <= now'
  BY <1>1, <1>2 DEF PairFacts, InWindow
<1>8. PairCall(c)'
  <2>1. limited'[c] => \E d \in Callers \ {c} : (Begun(d) > 0)' /\ ~Refusable(d)'
    <3> SUFFICES ASSUME InWindow PROVE \E d \in Callers \ {c} : (Begun(d) > 0)' /\ ~Refusable(d)'
      BY <1>2
    <3>1. PICK d \in Callers : Begun(d) > 0
      BY DEF PairFacts, InWindow
    <3>2. d # c
      BY <1>4, <3>1
    <3> QED BY <1>5, <1>6, <3>1, <3>2
  <2> QED BY <1>2, <2>1 DEF PairCall, Refusable
<1>9. ASSUME NEW d \in Callers, d # c PROVE PairCall(d)'
  <2>1. ~Refusable(d)' /\ pc[d] # "sleeping"
    BY <1>5, <1>6, <1>9 DEF Refusable
  <2>2. PairCall(d)
    BY DEF PairFacts
  <2> QED BY <1>9, <2>1, <2>2, OwnStep DEF PairCall
<1> QED BY <1>4, <1>7, <1>8, <1>9 DEF PairFacts

(* A caller that was refused asks again after the window, and only it.     *)
LEMMA PairRetry ==
  ASSUME IInv, LimitedTypeOK, PairFacts, OnePageEach, NEW c \in Callers, LimitedRetry(c)
  PROVE  PairFacts'
<1>1. /\ now \in Nat /\ pc \in [Callers -> {"idle", "asking", "sleeping"}]
      /\ attempt \in [Callers -> Attempts] /\ sent \in [Callers -> Nat]
      /\ last \in Nat \cup {None} /\ calls \in [Callers -> Nat]
      /\ limited \in [Callers -> BOOLEAN] /\ Window \in Nat /\ None \notin Nat
  BY NoneAssumption, RateAssumption DEF LimitedTypeOK, TypeOK
<1>2. /\ pc[c] = "sleeping" /\ due[c] = now /\ now' = now /\ pc'[c] = "asking"
      /\ attempt'[c] = attempt[c] + 1 /\ sent'[c] = sent[c] + 1 /\ result' = result
  BY <1>1 DEF LimitedRetry, Retry, Awake, Request
<1>3. attempt[c] = 0 /\ last + Window <= now
  BY <1>2 DEF PairFacts, PairCall
<1>4. Begun(c) > 0
  BY <1>1, <1>2 DEF Begun
<1>5. last # None /\ last \in Nat
  BY <1>1, <1>4 DEF PairFacts
<1>6. ~InWindow
  BY <1>1, <1>3, <1>5 DEF InWindow
<1>7. last' = now /\ limited'[c] = FALSE
  BY <1>1, <1>6 DEF LimitedRetry, Arrive
<1>8. \A d \in Callers : Begun(d) \in Nat /\ Begun(d)' = Begun(d)
  <2>1. \A d \in Callers : ~LimitedStart(d)
    <3> SUFFICES ASSUME NEW d \in Callers, LimitedStart(d) PROVE FALSE
      OBVIOUS
    <3>1. pc[d] = "idle" /\ pc'[d] = "asking"
      BY <1>1 DEF LimitedStart, Start, Request
    <3> QED BY <1>2, <3>1, OwnStep DEF LimitedStep
  <2> QED BY <2>1, BegunStep DEF LimitedNext, LimitedStep
<1>9. sent[c] = attempt[c] + 1 /\ result[c] = None
  BY <1>2 DEF IInv, OpenCall
<1>10. PairCall(c)'
  BY <1>1, <1>2, <1>3, <1>7, <1>9 DEF PairCall, Refusable
<1>11. ASSUME NEW d \in Callers, d # c PROVE PairCall(d)'
  <2>1. ~Refusable(d)
    <3> SUFFICES ASSUME Refusable(d) PROVE FALSE
      OBVIOUS
    <3>1. Begun(d) > 0
      BY <1>1 DEF Refusable, Begun
    <3>2. PICK e \in Callers \ {c} : Begun(e) > 0 /\ ~Refusable(e)
      BY <1>2 DEF PairFacts, PairCall, Refusable
    <3> QED BY <1>4, <1>11, <3>1, <3>2, NoThird
  <2>2. PairCall(d)
    BY DEF PairFacts
  <2> QED BY <1>11, <2>1, <2>2, OwnStep DEF PairCall, Refusable, LimitedStep
<1>12. last' # None /\ last' <= now'
  BY <1>1, <1>2, <1>7
<1> QED BY <1>4, <1>8, <1>10, <1>11, <1>12 DEF PairFacts

(* An answer or the end of the loop leaves the clock, the window and the   *)
(* pages begun alone, and the other callers as they are.                   *)
LEMMA PairOthers ==
  ASSUME LimitedTypeOK, PairFacts, NEW c \in Callers, LimitedStep(c), UNCHANGED <<now, last>>,
         \A d \in Callers : ~LimitedStart(d),
         Refusable(c)' => Refusable(c), PairCall(c)'
  PROVE  PairFacts'
<1>1. \A d \in Callers : Begun(d)' = Begun(d)
  BY BegunStep DEF LimitedNext
<1>2. ASSUME NEW d \in Callers, d # c PROVE PairCall(d)'
  <2>1. /\ pc'[d] = pc[d] /\ attempt'[d] = attempt[d] /\ due'[d] = due[d]
        /\ sent'[d] = sent[d] /\ result'[d] = result[d] /\ limited'[d] = limited[d]
    BY <1>2, OwnStep
  <2>2. Refusable(d)' <=> Refusable(d)
    BY <2>1 DEF Refusable
  <2>3. ASSUME NEW e \in Callers, Refusable(e)' PROVE Refusable(e)
    BY <2>3, OwnStep DEF Refusable
  <2>4. Refusable(d)' => \E e \in Callers \ {d} : (Begun(e) > 0)' /\ ~Refusable(e)'
    BY <1>1, <2>2, <2>3 DEF PairFacts, PairCall
  <2>5. PairCall(d)
    BY DEF PairFacts
  <2> QED BY <2>1, <2>4, <2>5 DEF PairCall
<1> QED BY <1>1, <1>2 DEF PairFacts

(* An answer ends the call, or makes the caller sleep out the window.      *)
LEMMA PairAnswer ==
  ASSUME IInv, LimitedTypeOK, PairFacts, Window <= RateLimitBackoff, MaxRetries > 1,
         NEW c \in Callers, Refused(c) \/ Served(c) \/ LimitedGiveUp(c)
  PROVE  PairFacts'
<1>1. /\ now \in Nat /\ pc \in [Callers -> {"idle", "asking", "sleeping"}]
      /\ attempt \in [Callers -> Attempts] /\ due \in [Callers -> Nat]
      /\ last \in Nat \cup {None} /\ result \in [Callers -> Results \cup {None}]
      /\ calls \in [Callers -> Nat] /\ Window \in Nat /\ MaxRetries \in Nat
      /\ limited \in [Callers -> BOOLEAN] /\ sent \in [Callers -> Nat]
  BY RateAssumption, HttpAssumption DEF LimitedTypeOK, TypeOK
<1>2. /\ LimitedStep(c) /\ pc[c] # "idle"
      /\ UNCHANGED <<now, last, attempt, sent, limited>>
  BY DEF LimitedStep, Refused, RetryLater, ErrorStatus, Served, Body, Answered, LimitedGiveUp,
         GiveUp, Awake
<1>3. \A d \in Callers : ~LimitedStart(d)
  <2> SUFFICES ASSUME NEW d \in Callers, LimitedStart(d) PROVE FALSE
    OBVIOUS
  <2>1. pc[d] = "idle" /\ pc'[d] = "asking"
    BY <1>1 DEF LimitedStart, Start, Request
  <2> QED BY <1>2, <2>1, OwnStep
<1>4. Begun(c) > 0 /\ last # None /\ last <= now
  <2>1. Begun(c) > 0
    BY <1>1, <1>2 DEF Begun
  <2> QED BY <2>1 DEF PairFacts
<1>5. last \in Nat
  BY <1>1, <1>4
<1>6. PairCall(c)
  BY DEF PairFacts
<1>7. (Begun(c) > 0)' /\ \A d \in Callers : Begun(d)' = Begun(d)
  BY <1>2, <1>3, <1>4, BegunStep DEF LimitedNext
<1>8. CASE Refused(c)
  <2>1. pc[c] = "asking" /\ limited[c] /\ Refusable(c)
    BY <1>8 DEF Refused, RetryLater, ErrorStatus, Answered, Refusable
  <2>2. attempt[c] = 0
    BY <1>6, <2>1 DEF PairCall
  <2>3. PICK r \in RetryAfters : RetryLater(c, "429", r)
    <3>1. ~ErrorStatus(c, "429")
      BY <1>1, <2>2 DEF ErrorStatus, RetryStatus, TriesLeft
    <3> QED BY <1>8, <3>1 DEF Refused
  <2>4. /\ pc'[c] = "sleeping" /\ due'[c] = now + RetryDelay(0, "429", r)
        /\ result' = result
    BY <1>1, <2>2, <2>3 DEF RetryLater, SleepFor
  <2>5. last + Window <= due'[c]
    <3>1. RetryDelay(0, "429", r) \in Nat /\ Window <= RetryDelay(0, "429", r)
      BY WaitIsLong
    <3> QED BY <1>1, <1>4, <1>5, <2>4, <3>1
  <2>6. \E d \in Callers \ {c} : (Begun(d) > 0)' /\ ~Refusable(d)'
    <3>1. PICK d \in Callers \ {c} : Begun(d) > 0 /\ ~Refusable(d)
      BY <1>6, <2>1 DEF PairCall
    <3>2. ~Refusable(d)'
      BY <1>2, <3>1, OwnStep DEF Refusable
    <3> QED BY <1>7, <3>1, <3>2
  <2>7. PairCall(c)'
    BY <1>2, <1>6, <2>2, <2>4, <2>5, <2>6 DEF PairCall
  <2> QED BY <1>2, <1>3, <2>1, <2>7, PairOthers
<1>9. CASE Served(c)
  <2>1. pc'[c] = "idle" /\ result'[c] = [cause |-> "json", attempt |-> attempt[c]]
    BY <1>1, <1>9 DEF Served, Body, End
  <2>2. PairCall(c)' /\ ~Refusable(c)'
    BY <1>2, <1>6, <2>1 DEF PairCall, Refusable
  <2> QED BY <1>2, <1>3, <2>2, PairOthers
<1>10. CASE LimitedGiveUp(c)
  <2>1. pc[c] = "sleeping" /\ ~TriesLeft(c)
    BY <1>10 DEF LimitedGiveUp, GiveUp, Awake
  <2> QED BY <1>1, <1>6, <2>1 DEF PairCall, TriesLeft
<1> QED BY <1>8, <1>9, <1>10

(* Every step of at most two callers keeps the pair's invariant.           *)
LEMMA PairStep ==
  IInv /\ LimitedTypeOK /\ PairInv /\ [LimitedNext]_limitedVars => PairInv'
<1> SUFFICES ASSUME IInv, LimitedTypeOK, PairInv, [LimitedNext]_limitedVars,
                    Reliable', MaxRetries > 1, OnePageEach'
             PROVE  PairFacts'
  BY DEF PairInv
<1>1. PairFacts /\ OnePageEach /\ Window <= RateLimitBackoff /\ lost' = lost
  BY PairBefore
<1>2. ASSUME NEW c \in Callers, LimitedStart(c) PROVE PairFacts'
  BY <1>1, <1>2, PairStart
<1>3. ASSUME NEW c \in Callers, LimitedRetry(c) PROVE PairFacts'
  BY <1>1, <1>3, PairRetry
<1>4. ASSUME NEW c \in Callers, Refused(c) \/ Served(c) \/ LimitedGiveUp(c) PROVE PairFacts'
  BY <1>1, <1>4, PairAnswer
<1>5. ASSUME NEW c \in Callers, Lost(c) PROVE PairFacts'
  BY <1>1, <1>5 DEF Lost, LimitedTypeOK
<1>6. CASE LimitedAdvance
  <2>1. now \in Nat /\ now' \in Nat /\ now' >= now /\ last \in Nat \cup {None}
    <3>1. PICK d \in Busy : now' = due[d] /\ due[d] > now
      BY <1>6 DEF LimitedAdvance, Advance
    <3> QED BY <3>1, <1>6 DEF LimitedAdvance, LimitedTypeOK, TypeOK, Busy
  <2>2. UNCHANGED <<pc, attempt, due, sent, calls, result, last, limited>>
    BY <1>6 DEF LimitedAdvance, Advance
  <2> QED BY <1>1, <2>1, <2>2, NoneAssumption DEF PairFacts, PairCall, Refusable, Begun
<1>7. CASE UNCHANGED limitedVars
  BY <1>1, <1>7 DEF limitedVars, vars, PairFacts, PairCall, Refusable, Begun
<1> QED BY <1>2, <1>3, <1>4, <1>5, <1>6, <1>7 DEF LimitedNext, LimitedStep

(* Two scans that ask for one page each, their requests all arriving, are  *)
(* both served, at the second attempt at the latest, whatever the          *)
(* latencies, the Retry-After values and the moment the second one starts. *)
THEOREM PairIsServed == LimitedSpec => []PairServed
<1>1. LimitedInit => PairInv
  BY DEF LimitedInit, Init, PairInv, PairFacts, PairCall, Refusable, Begun
<1>2. PairInv => PairServed
  BY DEF PairInv, PairFacts, PairCall, PairServed
<1> QED BY <1>1, <1>2, PairStep, LimitedInvariance, LimitedTypeCorrect, PTL DEF LimitedSpec
=============================================================================
