---------------------------- MODULE RateLimited ----------------------------
(***************************************************************************)
(* http_get_json against a service that limits its rate, as GDELT does:    *)
(* a request less than Window after the one that counts last is answered   *)
(* 429.  Scans of one worker share that service and know nothing of each   *)
(* other; neither does a scan wait between one page and the next.          *)
(***************************************************************************)
EXTENDS HttpGetJson

CONSTANTS Window,   \* the service's rate: one request per Window
          Prolongs, \* does a refused request restart the window?
          MaxLost   \* bound: requests that fail on their way

ASSUME RateAssumption == /\ Window \in Nat
                         /\ Prolongs \in BOOLEAN
                         /\ MaxLost \in Nat

VARIABLES last,    \* external: when the request that counts last came in
          limited, \* external: is the caller's open request to be refused?
          lost     \* history: how many requests failed on their way

limitedVars == <<vars, last, limited, lost>>

LimitedTypeOK == /\ TypeOK
                 /\ last \in Nat \cup {None}
                 /\ limited \in [Callers -> BOOLEAN]
                 /\ lost \in Nat

LimitedInit == /\ Init
               /\ last = None
               /\ limited = [c \in Callers |-> FALSE]
               /\ lost = 0

(* External: the service judges a request when it is sent.                 *)
InWindow == last # None /\ now < last + Window

Arrive(c) == /\ limited' = [limited EXCEPT ![c] = InWindow]
             /\ last' = IF InWindow /\ ~Prolongs THEN last ELSE now
             /\ UNCHANGED lost

LimitedStart(c) == Start(c) /\ Arrive(c)
LimitedRetry(c) == Retry(c) /\ Arrive(c)

Refused(c) == /\ limited[c]
              /\ \/ \E retry_after \in RetryAfters : RetryLater(c, "429", retry_after)
                 \/ ErrorStatus(c, "429")
              /\ UNCHANGED <<last, limited, lost>>

Served(c) == ~limited[c] /\ Body(c, "json") /\ UNCHANGED <<last, limited, lost>>

Lost(c) == /\ lost < MaxLost
           /\ TransportFailure(c)
           /\ lost' = lost + 1
           /\ UNCHANGED <<last, limited>>

LimitedGiveUp(c) == GiveUp(c) /\ UNCHANGED <<last, limited, lost>>

LimitedStep(c) == \/ LimitedRetry(c) \/ Refused(c) \/ Served(c)
                  \/ Lost(c) \/ LimitedGiveUp(c)

LimitedAdvance == Advance /\ UNCHANGED <<last, limited, lost>>

LimitedNext == LimitedAdvance \/ \E c \in Callers : LimitedStart(c) \/ LimitedStep(c)

LimitedSpec == /\ LimitedInit /\ [][LimitedNext]_limitedVars
               /\ WF_limitedVars(LimitedAdvance)
               /\ \A c \in Callers : WF_limitedVars(LimitedStep(c))

-----------------------------------------------------------------------------

(* A wait after 429 outlasts the window that caused it (base.py, comment   *)
(* on _RATE_LIMIT_BACKOFF), as long as no request is lost on its way.      *)
Reliable == lost = 0 /\ Window <= RateLimitBackoff

(* No other scan has asked for anything yet.                               *)
Alone(c) == \A d \in Callers \ {c} : sent[d] = 0

(* Then a scan that is alone is never failed by the rate limit, however    *)
(* quickly it asks for its pages: each is refused at most once.            *)
LoneScanServed == Reliable => \A c \in Callers : Alone(c) =>
  /\ sent[c] <= 2
  /\ MaxRetries > 1 /\ result[c] # None => result[c].cause # "429"

(* The pages a scan has asked for.                                         *)
Begun(c) == IF pc[c] = "idle" THEN calls[c] ELSE calls[c] + 1

(* No more than two scans have asked for anything, and for one page each.  *)
OnePageEach ==
  /\ \A c \in Callers : Begun(c) <= 1
  /\ \A c, d, e \in Callers :
       Begun(c) > 0 /\ Begun(d) > 0 /\ Begun(e) > 0 => c = d \/ d = e \/ c = e

(* Then neither is failed by the rate limit, whenever the second starts:   *)
(* each is refused at most once.                                           *)
PairServed == Reliable /\ MaxRetries > 1 /\ OnePageEach => \A c \in Callers :
  /\ sent[c] <= 2
  /\ result[c] # None => result[c].cause # "429"
=============================================================================
