-------------------------- MODULE NewsQueryProofs --------------------------
(***************************************************************************)
(* Proofs of the theorems about NewsQuery.                                 *)
(***************************************************************************)
EXTENDS NewsQuery, TLAPS

(* A bound query passed the bind's checks, and its secret was looked up if *)
(* it needed one; what is resolved is what the user has, and nobody but    *)
(* NewsAPI has it looked up; every key sent is one the search accepts; and *)
(* a query that has not failed has no error.                               *)
BoundWell == phase \in {"bound", "finished"} => ~BindRefuses /\ ~NeedsResolution

LookedUp == /\ secrets \in {Unresolved, store}
            /\ phase = "lookup" => IsNewsApi
            /\ ~IsNewsApi => secrets = Unresolved

KeysSent == \A k \in sent :
  IF IsNewsApi THEN k \in KeyTexts \ {""} /\ store # None /\ \E f \in DOMAIN store : store[f] = k
               ELSE k = None

NoEarlierError == phase # "failed" => error = None

IInv == TypeOK /\ BoundWell /\ LookedUp /\ KeysSent /\ NoEarlierError

-----------------------------------------------------------------------------
(* Reading what the user wrote                                             *)

(* Stripped and lowered, two texts of the same words are the same.         *)
LEMMA Folding ==
  ASSUME NEW t \in Text, NEW words
  PROVE  Lower(Strip(t)) = Plain(words) <=> t.words = words
<1>1. Lower(Strip(t)) = Plain(t.words)
  BY DEF Strip, Lower, Plain
<1>2. Plain(t.words) = Plain(words) <=> t.words = words
  BY DEF Plain
<1> QED BY <1>1, <1>2

(* What on_bind finds in the query and the provider's name, get_provider   *)
(* and the search it calls find there too.                                 *)
LEMMA ReadAlike ==
  /\ SearchFindsBlank <=> BindFindsBlank
  /\ Registered <=> BindKnows
  /\ IsNewsApi <=> WantsSecret
BY DEF SearchFindsBlank, GdeltFindsBlank, NewsApiFindsBlank, BindFindsBlank, Registered,
       BindKnows, RegistryKey, IsNewsApi, WantsSecret

(* Which provider it is, is a matter of the words alone.                   *)
LEMMA ByWords == TypeOK => (IsNewsApi <=> provider.words = "newsapi")
<1>1. TypeOK => provider \in Text
  BY QueryAssumption DEF TypeOK
<1> QED BY <1>1, Folding DEF IsNewsApi, RegistryKey

-----------------------------------------------------------------------------
(* The key                                                                 *)

(* The four names a key may have, in the order they are tried.             *)
LEMMA FieldIndices == /\ DOMAIN KeyFields = 1 .. 4
                      /\ KeyFields[1] = "api_key"
                      /\ KeyFields[2] = "apiKey"
                      /\ KeyFields[3] = "key"
                      /\ KeyFields[4] = "token"
BY DEF KeyFields

(* The key is a valid field of the resolved secret, or there is none; and  *)
(* it is api_key when that is valid.                                       *)
LEMMA KeyIsAField ==
  ASSUME TypeOK
  PROVE  /\ ApiKey # None => /\ ResolvedSecret # None
                             /\ \E i \in DOMAIN KeyFields :
                                  Valid(i) /\ ApiKey = ResolvedSecret[KeyFields[i]]
         /\ ResolvedSecret # None /\ Valid(1) => ApiKey = ResolvedSecret["api_key"]
<1> DEFINE First(i) == Valid(i) /\ \A j \in 1 .. i - 1 : ~Valid(j)
<1>1. ASSUME NEW i \in DOMAIN KeyFields, Valid(i)
      PROVE  \E f \in DOMAIN KeyFields : First(f)
  <2>1. CASE Valid(1)
    BY <2>1, FieldIndices
  <2>2. CASE ~Valid(1) /\ Valid(2)
    <3>1. First(2)
      BY <2>2
    <3> QED BY <3>1, FieldIndices
  <2>3. CASE ~Valid(1) /\ ~Valid(2) /\ Valid(3)
    <3>1. First(3)
      BY <2>3
    <3> QED BY <3>1, FieldIndices
  <2>4. CASE ~Valid(1) /\ ~Valid(2) /\ ~Valid(3) /\ Valid(4)
    <3>1. First(4)
      BY <2>4
    <3> QED BY <3>1, FieldIndices
  <2> QED BY <1>1, <2>1, <2>2, <2>3, <2>4, FieldIndices
<1> DEFINE chosen == CHOOSE i \in DOMAIN KeyFields : First(i)
<1>2. ASSUME NEW i \in DOMAIN KeyFields, Valid(i), ResolvedSecret # None
      PROVE  /\ chosen \in DOMAIN KeyFields /\ First(chosen)
             /\ ApiKey = ResolvedSecret[KeyFields[chosen]]
  <2>1. chosen \in DOMAIN KeyFields /\ First(chosen)
    BY <1>1, <1>2
  <2>2. ApiKey = ResolvedSecret[KeyFields[chosen]]
    BY <1>2 DEF ApiKey
  <2> QED BY <2>1, <2>2
<1>3. ASSUME ApiKey # None
      PROVE  /\ ResolvedSecret # None
             /\ \E i \in DOMAIN KeyFields :
                  Valid(i) /\ ApiKey = ResolvedSecret[KeyFields[i]]
  <2>1. ResolvedSecret # None /\ \E i \in DOMAIN KeyFields : Valid(i)
    BY <1>3 DEF ApiKey
  <2> HIDE DEF First, chosen
  <2>2. PICK i \in DOMAIN KeyFields : Valid(i)
    BY <2>1
  <2>3. /\ chosen \in DOMAIN KeyFields /\ First(chosen)
        /\ ApiKey = ResolvedSecret[KeyFields[chosen]]
    BY <1>2, <2>1, <2>2
  <2> QED BY <2>1, <2>3 DEF First
<1>4. ASSUME ResolvedSecret # None, Valid(1)
      PROVE  ApiKey = ResolvedSecret["api_key"]
  <2>1. 1 \in DOMAIN KeyFields
    BY FieldIndices
  <2>2. /\ chosen \in DOMAIN KeyFields /\ First(chosen)
        /\ ApiKey = ResolvedSecret[KeyFields[chosen]]
    BY <1>2, <1>4, <2>1
  <2>3. chosen = 1
    <3>1. chosen \in 1 .. 4
      BY <2>2, FieldIndices
    <3>2. \A j \in 1 .. chosen - 1 : ~Valid(j)
      BY <2>2
    <3> QED BY <1>4, <3>1, <3>2
  <2> QED BY <2>2, <2>3, FieldIndices
<1> QED BY <1>3, <1>4

(* What a request that is sent carries.                                    *)
LEMMA SentKey ==
  ASSUME IInv, Searching
  PROVE  /\ ApiKey \in KeyTexts \cup {None}
         /\ IF IsNewsApi
            THEN ApiKey \in KeyTexts \ {""} /\ store # None /\ \E f \in DOMAIN store : store[f] = ApiKey
            ELSE ApiKey = None
<1>1. TypeOK /\ LookedUp
  BY DEF IInv
<1>2. CASE ApiKey = None
  BY <1>2 DEF Searching, KeyMissing
<1>3. CASE ApiKey # None
  <2>1. PICK i \in DOMAIN KeyFields :
          Valid(i) /\ ApiKey = ResolvedSecret[KeyFields[i]] /\ ResolvedSecret # None
    BY <1>1, <1>3, KeyIsAField
  <2>2. secrets # Unresolved /\ ResolvedSecret = secrets /\ secrets = store
    BY <1>1, <2>1 DEF ResolvedSecret, LookedUp
  <2>3. store \in Secret
    BY <1>1, <2>1, <2>2, QueryAssumption DEF TypeOK
  <2>4. KeyFields[i] \in DOMAIN store /\ store[KeyFields[i]] \in KeyTexts \cup {"absent", "null"}
    BY <2>3 DEF Secret
  <2>5. ApiKey \in KeyTexts
    BY <2>1, <2>2, <2>4 DEF Valid
  <2>6. IsNewsApi
    BY <1>1, <2>2 DEF LookedUp
  <2>7. ApiKey # ""
    BY <2>6 DEF Searching, KeyMissing
  <2> QED BY <2>1, <2>2, <2>4, <2>5, <2>6, <2>7
<1> QED BY <1>2, <1>3

-----------------------------------------------------------------------------
(* The invariant                                                           *)

(* Nothing was bound, looked up, sent or failed at first.                  *)
LEMMA InitIInv == Init => IInv
BY DEF Init, IInv, TypeOK, BoundWell, LookedUp, KeysSent, NoEarlierError

(* The bind checks before it binds and looks up only what it asked for.    *)
LEMMA BindKeepsIInv == IInv /\ (Refuse \/ RequestSecret \/ Bind \/ Lookup) => IInv'
<1> SUFFICES ASSUME IInv, Refuse \/ RequestSecret \/ Bind \/ Lookup
             PROVE  IInv'
  OBVIOUS
<1> USE DEF IInv, TypeOK, BoundWell, LookedUp, KeysSent, NoEarlierError, Args, IsNewsApi, RegistryKey
<1>1. CASE Refuse
  BY <1>1 DEF Refuse, Fail, CleanErrors
<1>2. CASE RequestSecret
  BY <1>2 DEF RequestSecret, NeedsResolution, WantsSecret
<1>3. CASE Bind
  BY <1>3 DEF Bind, BindRefuses, BindFindsBlank, BindKnows, NeedsResolution, WantsSecret
<1>4. CASE Lookup
  BY <1>4 DEF Lookup
<1> QED BY <1>1, <1>2, <1>3, <1>4

(* A step that sends a request: only the key is new.                       *)
LEMMA RequestKeeps ==
  ASSUME IInv, Searching, UNCHANGED <<Args, secrets>>,
         sent' = sent \cup {ApiKey},
         started' \in BOOLEAN,
         phase' \in {"bound", "finished", "failed"},
         error' \in CleanErrors \cup RawErrors \cup {None},
         phase' # "failed" => error' = None,
         body' \in Bodies \cup {None}
  PROVE  IInv'
<1>1. /\ ApiKey \in KeyTexts \cup {None}
      /\ IF IsNewsApi
         THEN ApiKey \in KeyTexts \ {""} /\ store # None /\ \E f \in DOMAIN store : store[f] = ApiKey
         ELSE ApiKey = None
  BY SentKey
<1>2. TypeOK' /\ KeysSent'
  BY <1>1 DEF IInv, TypeOK, KeysSent, Args, IsNewsApi, RegistryKey
<1>3. BoundWell'
  BY DEF IInv, BoundWell, Searching, Args, BindRefuses, BindFindsBlank, BindKnows,
         NeedsResolution, WantsSecret, IsNewsApi, RegistryKey
<1>4. LookedUp'
  BY DEF IInv, LookedUp, Args, IsNewsApi, RegistryKey
<1> QED BY <1>2, <1>3, <1>4 DEF IInv, NoEarlierError

(* A page or an error leaves what the bind established.                    *)
LEMMA ProcessKeepsIInv == IInv /\ Process => IInv'
<1> SUFFICES ASSUME IInv, Process PROVE IInv'
  OBVIOUS
<1>1. TypeOK
  BY DEF IInv
<1>2. CASE SearchRefuses
  BY <1>2 DEF SearchRefuses, Fail, CleanErrors, IInv, TypeOK, BoundWell, LookedUp,
              KeysSent, NoEarlierError, Args, IsNewsApi, RegistryKey
<1>3. CASE SpanRaises
  BY <1>3 DEF SpanRaises, Fail, RawErrors, IInv, TypeOK, BoundWell, LookedUp,
              KeysSent, NoEarlierError, Args, IsNewsApi, RegistryKey
<1>4. CASE HttpRaises
  BY <1>1, <1>4, RequestKeeps DEF HttpRaises, Fail, CleanErrors, RawErrors, TypeOK
<1>5. ASSUME NEW b \in Bodies, PageRaises(b) PROVE IInv'
  <2>1. error' \in CleanErrors \cup RawErrors /\ phase' = "failed"
    BY <1>5 DEF PageRaises, Fail, PayloadErrors, CleanErrors, RawErrors
  <2> QED BY <1>1, <1>5, <2>1, RequestKeeps DEF PageRaises, Received, TypeOK
<1>6. ASSUME NEW b \in Bodies, BatchRaises(b) PROVE IInv'
  BY <1>1, <1>6, RequestKeeps DEF BatchRaises, Received, Fail, RawErrors, TypeOK
<1>7. ASSUME NEW b \in Bodies, Emit(b) PROVE IInv'
  BY <1>1, <1>7, RequestKeeps DEF Emit, Received, Searching, TypeOK, IInv, NoEarlierError
<1> QED BY <1>2, <1>3, <1>4, <1>5, <1>6, <1>7 DEF Process

(* The invariant holds throughout.                                         *)
THEOREM Invariance == Spec => []IInv
<1>1. IInv /\ UNCHANGED vars => IInv'
  BY DEF IInv, TypeOK, BoundWell, LookedUp, KeysSent, NoEarlierError, vars, IsNewsApi, RegistryKey, BindRefuses,
         BindFindsBlank, BindKnows, NeedsResolution, WantsSecret
<1>2. IInv /\ [Next]_vars => IInv'
  BY <1>1, BindKeepsIInv, ProcessKeepsIInv DEF Next
<1> QED BY <1>2, InitIInv, PTL DEF Spec

-----------------------------------------------------------------------------
(* What follows                                                            *)

(* Every variable keeps its type.                                          *)
THEOREM TypeCorrect == Spec => []TypeOK
<1>1. IInv => TypeOK
  BY DEF IInv
<1> QED BY <1>1, Invariance, PTL

(* NewsAPI is only sent keys of the user's secret, and no empty one.       *)
THEOREM KeysAreTheUsers == Spec => []KeyIsTheUsers
<1>1. IInv => KeyIsTheUsers
  BY ByWords DEF IInv, KeysSent, KeyIsTheUsers
<1> QED BY <1>1, Invariance, PTL

(* What news_providers() lists is how the queries behave.                  *)
THEOREM DiscoveryIsHonest == Spec => []DiscoveryIsTrue
<1>1. IInv => DiscoveryIsTrue
  <2> SUFFICES ASSUME IInv, NEW d \in Discovery, provider.words = d.provider
               PROVE  IF d.requires_key THEN None \notin sent
                      ELSE secrets = Unresolved /\ sent \subseteq {None}
    BY DEF DiscoveryIsTrue
  <2>1. /\ d.provider \in {"gdelt", "newsapi"}
        /\ d.requires_key = (d.provider = "newsapi")
    <3>1. /\ provider_names = {"gdelt", "newsapi"}
          /\ PROVIDERS["gdelt"].requires_key = FALSE
          /\ PROVIDERS["newsapi"].requires_key = TRUE
      BY DEF PROVIDERS, provider_names
    <3>2. PICK p \in provider_names :
            d = [provider |-> p, requires_key |-> PROVIDERS[p].requires_key]
      BY DEF Discovery
    <3>3. CASE p = "gdelt"
      BY <3>1, <3>2, <3>3
    <3>4. CASE p = "newsapi"
      BY <3>1, <3>2, <3>4
    <3> QED BY <3>1, <3>3, <3>4
  <2>2. None \notin KeyTexts
    BY QueryAssumption
  <2> QED BY <2>1, <2>2, ByWords DEF IInv, LookedUp, KeysSent
<1> QED BY <1>1, Invariance, PTL

(* A user whose secret has an api_key is never told that there is none.    *)
LEMMA ApiKeyFound ==
  ASSUME IInv, phase = "bound", IsNewsApi, store # None, store["api_key"] \in KeyTexts \ {""}
  PROVE  ~KeyMissing
<1>1. secrets = store /\ ResolvedSecret = store
  BY ReadAlike DEF IInv, BoundWell, LookedUp, NeedsResolution, ResolvedSecret
<1>2. Valid(1)
  BY <1>1, FieldIndices DEF Valid, KeyTexts
<1>3. ApiKey = store["api_key"]
  BY <1>1, <1>2, KeyIsAField DEF IInv
<1>4. None \notin KeyTexts
  BY QueryAssumption
<1> QED BY <1>3, <1>4 DEF KeyMissing

(* Only search's own check fails for want of a key, and api_key passes it. *)
LEMMA SufficesStep == IInv /\ ApiKeySuffices /\ [Next]_vars => ApiKeySuffices'
<1> SUFFICES ASSUME IInv, ApiKeySuffices, [Next]_vars,
                    store' # None, store'["api_key"] \in KeyTexts \ {""}
             PROVE  error' # "no key"
  BY DEF ApiKeySuffices
<1>1. store' = store
  BY DEF Next, Refuse, RequestSecret, Bind, Lookup, Process, SearchRefuses, SpanRaises,
         HttpRaises, PageRaises, BatchRaises, Emit, Args, vars
<1>2. error # "no key"
  BY <1>1 DEF ApiKeySuffices
<1>3. CASE SearchRefuses
  BY <1>1, <1>3, ApiKeyFound DEF SearchRefuses, Fail, KeyMissing
<1>4. CASE ~SearchRefuses
  BY <1>2, <1>4 DEF Next, Refuse, RequestSecret, Bind, Lookup, Process, SpanRaises,
         HttpRaises, PageRaises, BatchRaises, Emit, Fail, PayloadErrors, vars
<1> QED BY <1>3, <1>4

(* A secret made with api_key is found, whatever else it holds.            *)
THEOREM ApiKeyIsFound == Spec => []ApiKeySuffices
<1>1. Init => ApiKeySuffices
  BY QueryAssumption DEF Init, ApiKeySuffices, CleanErrors
<1> QED BY <1>1, SufficesStep, Invariance, PTL DEF Spec

(* Once bound, a query is not refused for its text or its provider.        *)
LEMMA AcceptedStep ==
  ASSUME IInv, Next, phase = "bound"
  PROVE  error' \notin {"empty query", "unknown provider"}
<1>1. Registered /\ ~SearchFindsBlank
  BY ReadAlike DEF IInv, BoundWell, BindRefuses
<1>2. Process
  BY DEF Next, Refuse, RequestSecret, Bind, Lookup
<1>3. error \notin {"empty query", "unknown provider"}
  BY QueryAssumption DEF IInv, NoEarlierError, CleanErrors
<1> QED BY <1>1, <1>2, <1>3 DEF Process, SearchRefuses, SpanRaises,
         HttpRaises, PageRaises, BatchRaises, Emit, Fail, PayloadErrors

(* What the bind accepts, get_provider and search accept again.            *)
THEOREM BoundStaysAccepted == Spec => BoundIsAccepted
<1>1. IInv /\ [Next]_vars =>
        [phase = "bound" => error' \notin {"empty query", "unknown provider"}]_vars
  BY AcceptedStep
<1> QED BY <1>1, Invariance, PTL DEF Spec, BoundIsAccepted
=============================================================================
