----------------------------- MODULE NewsQuery -----------------------------
(***************************************************************************)
(* A news_search query from its bind to its last page, and everything that *)
(* can go wrong on the way: the checks on_bind makes and search makes      *)
(* again, the secret that is looked up between two binds, the key taken    *)
(* from it, and the JSON an upstream service may answer with.              *)
(*                                                                         *)
(* The paging of a scan is NewsScan's; here a page only has a content.     *)
(***************************************************************************)
EXTENDS Integers, Sequences

CONSTANTS Queries,   \* query texts as users write them
          Written,   \* provider names as users write them
          Timespans, \* how _timespan_to_from fares on them: see SpanRaises
          Secrets,   \* the newsapi secrets users have, None among them
          Bodies,    \* the JSON answers an upstream service may send
          Unresolved, \* no secret was looked up yet
          None        \* no secret, no key, no error, no answer

VARIABLES query, provider, timespan, \* the arguments
          store,     \* external: the user's newsapi secret, if any
          phase,     \* "bind", "lookup", "bound", "finished" or "failed"
          secrets,   \* params.secrets: Unresolved, or the secret or None
          started,   \* NewsScanState.started
          error,     \* what the query failed with
          sent,      \* history: the keys requests were sent with
          body       \* history: the last answer

vars == <<query, provider, timespan, store, phase, secrets, started, error, sent, body>>

(* A text as it is written: its words, whether there are blanks about it,  *)
(* whether it has capitals.  Blanks about no words are a blank text.       *)
Text == [words : STRING, padded : BOOLEAN, capitals : BOOLEAN]

Plain(words) == [words |-> words, padded |-> FALSE, capitals |-> FALSE]

(* The two conversions of Python, which each of the places below makes for *)
(* itself, and its test for the empty text.                                *)
Strip(text) == [words |-> text.words, padded |-> FALSE, capitals |-> text.capitals]
Lower(text) == [words |-> text.words, padded |-> text.padded, capitals |-> FALSE]
Empty(text) == text.words = "" /\ ~text.padded

(* The registry: each provider and whether it requires a key.              *)
PROVIDERS == [gdelt |-> [requires_key |-> FALSE], newsapi |-> [requires_key |-> TRUE]]

provider_names == DOMAIN PROVIDERS

(* What news_providers() lists.                                            *)
Discovery == {[provider |-> p, requires_key |-> PROVIDERS[p].requires_key] :
                 p \in provider_names}

(* The fields a key is looked for in, in this order; a field is "absent",  *)
(* "null" (not valid), or its text, which may be empty.                    *)
KeyFields == <<"api_key", "apiKey", "key", "token">>
KeyTexts  == {"", "k", "t"}
Secret    == [{KeyFields[i] : i \in DOMAIN KeyFields} -> KeyTexts \cup {"absent", "null"}]

(* What an article can be: ordinary but for one field, or no object at     *)
(* all.  A "number" stands where the worker expects text, a "far" date is  *)
(* one that UTC has no year for, a "surrogate" is half a character, a      *)
(* "huge" tone is an integer no float holds.                               *)
ArticleKinds == {"good", "no_date", "odd_date", "number_date", "far_date", "number_title",
                 "surrogate_title", "number_url", "huge_tone", "no_object"}

Body == [shape : {"no_object", "error", "no_articles", "no_list", "list"},
         articles : SUBSET ArticleKinds,
         total : {"number", "absent", "text"}]

(* ProviderError and the bind's ValueError carry a message for the user;   *)
(* the rest are exceptions nobody meant to raise.                          *)
CleanErrors == {"empty query", "unknown provider", "no key", "http",
                "not an object", "service error", "not a list"}
RawErrors   == {"sleep overflow", "timespan", "field", "total", "column"}

ASSUME QueryAssumption ==
  /\ Queries \subseteq Text /\ Written \subseteq Text
  /\ Secrets \subseteq Secret \cup {None}
  /\ Bodies \subseteq Body
  /\ None \notin KeyTexts \cup CleanErrors \cup RawErrors \cup Secret \cup Body
  /\ Unresolved \notin Secret \cup {None}

TypeOK == /\ query \in Queries /\ provider \in Written /\ timespan \in Timespans
          /\ store \in Secrets
          /\ phase \in {"bind", "lookup", "bound", "finished", "failed"}
          /\ secrets \in Secrets \cup {Unresolved}
          /\ started \in BOOLEAN
          /\ error \in CleanErrors \cup RawErrors \cup {None}
          /\ sent \subseteq KeyTexts \cup {None}
          /\ body \in Bodies \cup {None}

Init == /\ query \in Queries /\ provider \in Written /\ timespan \in Timespans
        /\ store \in Secrets
        /\ phase = "bind"
        /\ secrets = Unresolved
        /\ started = FALSE
        /\ error = None
        /\ sent = {}
        /\ body = None

Args == <<query, provider, timespan, store>>

Fail(what) == phase' = "failed" /\ error' = what

-----------------------------------------------------------------------------
(* on_bind                                                                 *)

(* Slips in the bind, for the runs' mutants.                               *)
SecretAsWritten == provider = Plain("newsapi")
SecretForAll    == TRUE

(* not a.query or not a.query.strip()                                      *)
BindFindsBlank == Empty(query) \/ Empty(Strip(query))

(* a.provider.strip().lower() in provider_names()                          *)
BindKnows == Lower(Strip(provider)) \in {Plain(p) : p \in provider_names}

BindRefuses == BindFindsBlank \/ ~BindKnows

(* a.provider.strip().lower() == NEWSAPI_SECRET_TYPE                       *)
WantsSecret == Lower(Strip(provider)) = Plain("newsapi")

(* A slip, for the runs' mutants: the second bind asks once more.          *)
AlwaysUnresolved == WantsSecret

(* The secret was asked for and the engine has not answered yet.           *)
NeedsResolution == WantsSecret /\ secrets = Unresolved

Refuse == /\ phase = "bind"
          /\ BindRefuses
          /\ Fail(IF BindFindsBlank THEN "empty query" ELSE "unknown provider")
          /\ UNCHANGED <<Args, secrets, started, sent, body>>

RequestSecret == /\ phase = "bind"
                 /\ ~BindRefuses
                 /\ NeedsResolution
                 /\ phase' = "lookup"
                 /\ UNCHANGED <<Args, secrets, started, error, sent, body>>

Bind == /\ phase = "bind"
        /\ ~BindRefuses
        /\ ~NeedsResolution
        /\ phase' = "bound"
        /\ UNCHANGED <<Args, secrets, started, error, sent, body>>

(* External: the engine looks the secret up and binds again.               *)
Lookup == /\ phase = "lookup"
          /\ secrets' = store
          /\ phase' = "bind"
          /\ UNCHANGED <<Args, started, error, sent, body>>

-----------------------------------------------------------------------------
(* process() and the search it makes                                       *)

(* A slip, for the runs' mutants: the registry is case-insensitive only.   *)
UnstrippedKey == Lower(provider)

(* get_provider folds the name for itself and looks it up.                 *)
RegistryKey == Lower(Strip(provider))
Registered  == RegistryKey \in {Plain(p) : p \in provider_names}

(* Whose search is called.                                                 *)
IsNewsApi == RegistryKey = Plain("newsapi")

(* The two searches check the query, each for itself.                      *)
GdeltFindsBlank   == Empty(query) \/ Empty(Strip(query))
NewsApiFindsBlank == Empty(query) \/ Empty(Strip(query))

SearchFindsBlank == IF IsNewsApi THEN NewsApiFindsBlank ELSE GdeltFindsBlank

ResolvedSecret == IF secrets = Unresolved THEN None ELSE secrets

(* A slip, for the runs' mutants: a null is taken for a key.               *)
Present(i) == ResolvedSecret[KeyFields[i]] # "absent"

(* Does the i-th field hold a valid scalar?                                *)
Valid(i) == ResolvedSecret[KeyFields[i]] \notin {"absent", "null"}

(* _api_key: the first valid field, empty or not.                          *)
ApiKey ==
  IF ResolvedSecret = None \/ \A i \in DOMAIN KeyFields : ~Valid(i) THEN None
  ELSE LET i == CHOOSE i \in DOMAIN KeyFields :
                  Valid(i) /\ \A j \in 1 .. i - 1 : ~Valid(j)
       IN  ResolvedSecret[KeyFields[i]]

(* A slip, for the runs' mutants: NewsAPI is asked whatever the key is.    *)
NeverKeyless == FALSE

KeyMissing == IsNewsApi /\ ApiKey \in {None, ""}

(* get_provider and search check what the bind checked, and the key.       *)
SearchRefuses == /\ phase = "bound"
                 /\ ~Registered \/ SearchFindsBlank \/ KeyMissing
                 /\ Fail(IF ~Registered THEN "unknown provider"
                         ELSE IF SearchFindsBlank THEN "empty query" ELSE "no key")
                 /\ UNCHANGED <<Args, secrets, started, sent, body>>

(* A count too large for a timedelta, or digits int() does not read.       *)
SpanFails == IsNewsApi /\ timespan \in {"huge", "superscript"}

Searching == phase = "bound" /\ Registered /\ ~SearchFindsBlank /\ ~KeyMissing

SpanRaises == /\ Searching
              /\ SpanFails
              /\ Fail("timespan")
              /\ UNCHANGED <<Args, secrets, started, sent, body>>

(* http_get_json raises: a ProviderError, or the sleep after an endless    *)
(* Retry-After does.                                                       *)
HttpRaises == /\ Searching
              /\ ~SpanFails
              /\ sent' = sent \cup {ApiKey}
              /\ \E what \in {"http", "sleep overflow"} : Fail(what)
              /\ UNCHANGED <<Args, secrets, started, body>>

(* What becomes of a payload: the checks before its articles are mapped.   *)
PayloadErrors(b) ==
  {what \in {"not an object", "service error", "not a list"} :
     \/ what = "not an object" /\ b.shape = "no_object"
     \/ what = "service error" /\ b.shape = "error" /\ IsNewsApi
     \/ what = "not a list"    /\ b.shape = "no_list"}

(* The entries a row is made from.                                         *)
Objects(b) == b.articles \ {"no_object"}

(* NewsAPI calls string methods on the date and the address, converts the  *)
(* date to UTC outside the try, and int()s the total; GDELT's strptime     *)
(* refuses such dates by errors it catches, its float() of a tone may not. *)
MappingErrors(b) ==
  {what \in {"field", "total"} :
     \/ what = "field" /\ "no_object" \in Objects(b)
     \/ what = "field" /\ IsNewsApi /\ {"number_date", "far_date", "number_url"} \cap Objects(b) # {}
     \/ what = "field" /\ ~IsNewsApi /\ "huge_tone" \in Objects(b)
     \/ what = "total" /\ IsNewsApi /\ b.total = "text"}

Mapped(b) == PayloadErrors(b) \cup MappingErrors(b) = {}

(* Building the batch: a column of strings takes no number, and nothing    *)
(* that UTF-8 cannot write.                                                *)
ColumnFails(b) == {"number_title", "surrogate_title", "number_url"} \cap Objects(b) # {}

Received(b) == /\ Searching
               /\ ~SpanFails
               /\ sent' = sent \cup {ApiKey}
               /\ body' = b

PageRaises(b) == /\ Received(b)
                 /\ ~Mapped(b)
                 /\ \E what \in IF PayloadErrors(b) # {} THEN PayloadErrors(b)
                                ELSE IF "field" \in MappingErrors(b) THEN {"field"}
                                ELSE {"total"} : Fail(what)
                 /\ UNCHANGED <<Args, secrets, started>>

BatchRaises(b) == /\ Received(b)
                  /\ Mapped(b)
                  /\ ColumnFails(b)
                  /\ started' = TRUE
                  /\ Fail("column")
                  /\ UNCHANGED <<Args, secrets>>

(* A page is emitted; an empty one is the last.                            *)
Emit(b) == /\ Received(b)
           /\ Mapped(b)
           /\ ~ColumnFails(b)
           /\ started' = TRUE
           /\ phase' \in IF Objects(b) = {} THEN {"finished"} ELSE {"bound", "finished"}
           /\ UNCHANGED <<Args, secrets, error>>

Process == \/ SearchRefuses \/ SpanRaises \/ HttpRaises
           \/ \E b \in Bodies : PageRaises(b) \/ BatchRaises(b) \/ Emit(b)

Next == Refuse \/ RequestSecret \/ Bind \/ Lookup \/ Process

(* The engine goes on with a bind it has begun.                            *)
Spec == Init /\ [][Next]_vars /\ WF_vars(Refuse \/ RequestSecret \/ Bind \/ Lookup)

-----------------------------------------------------------------------------

(* A query that was bound is never refused afterwards for its text or its  *)
(* provider, which get_provider and the two searches read again, each by   *)
(* conversions of its own, long after the user was told the query is good. *)
BoundIsAccepted ==
  [][phase = "bound" => error' \notin {"empty query", "unknown provider"}]_vars

(* NewsAPI is only ever sent a key the user put into the secret, found     *)
(* through two binds and four field names, and never an empty one.         *)
KeyIsTheUsers == provider.words = "newsapi" =>
  \A k \in sent : k # "" /\ store # None /\ \E f \in DOMAIN store : store[f] = k

(* A secret made as the README says, with api_key, is found: however the   *)
(* user wrote the provider's name, the query does not fail for want of one.*)
ApiKeySuffices ==
  store # None /\ store["api_key"] \in KeyTexts \ {""} => error # "no key"

(* news_providers() tells the truth: a provider listed without a key never *)
(* has one looked up or sent, one listed with a key is never asked without.*)
DiscoveryIsTrue == \A d \in Discovery : provider.words = d.provider =>
  IF d.requires_key THEN None \notin sent
                    ELSE secrets = Unresolved /\ sent \subseteq {None}

(* A bind comes to an end, its secret found or not.                        *)
BindEnds == phase = "bind" ~> phase \in {"bound", "finished", "failed"}

(* What the documents say and the code does not do.                        *)

(* parse_published_at "never raises": whatever stands for a date, no page  *)
(* is lost on account of it.                                               *)
OddDatesDoNoHarm ==
  body # None /\ body.articles \subseteq {"good", "no_date", "odd_date", "number_date", "far_date"} =>
    error # "field"
=============================================================================
