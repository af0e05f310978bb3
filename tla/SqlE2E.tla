------------------------------- MODULE SqlE2E -------------------------------
(***************************************************************************)
(* scripts/run_sql_e2e.py: the mock news server, the environment that      *)
(* routes the worker to it, and the suite test/sql runs query by query     *)
(* against process().  The transport between engine and worker may be      *)
(* broken: it carries the fields of NewsScanState in `carried` and gives   *)
(* the others their defaults, which is what the suite is there to notice.  *)
(*                                                                         *)
(* The variables of NewsScan are those of the query that is running; its   *)
(* feed is the fixture, oldest first: "Older C", "Newest B", "Newest A".   *)
(***************************************************************************)
EXTENDS NewsScan

VARIABLES
  phase,     \* "setup", "between" two queries, in a "query", "ended"
  env,       \* the base-URL variables: a service, "" or None
  carried,   \* the fields the transport carries
  position,  \* the query of the suite that is next or running
  failed,    \* did a query miss what the suite expects of it?
  requests,  \* history: the services the worker asked
  rc         \* what main returns, None before

harness == <<phase, env, carried, position, failed, requests, rc>>

Fields == {"emitted", "done", "window_end_iso", "next_page", "started"}
Urls   == {"mock", "elsewhere", "", None}

C == 1
B == 2
A == 3
Fixture == [a \in 1 .. 3 |-> [date |-> a, kind |-> "plain"]]

(* Both providers are routed, and "nothing" is no address and no title.    *)
ASSUME E2EAssumption == /\ {"gdelt", "newsapi"} \subseteq Providers
                        /\ None \notin {"mock", "elsewhere", ""}
                        /\ None # {A, B, C}

(* do_GET: the older window for any request with an enddatetime, the two   *)
(* newest for the others, whatever maxrecords and timespan say.            *)
MockPage(window_end) == IF window_end # None THEN {C} ELSE {A, B}

-----------------------------------------------------------------------------
(* The suite: what each query asks for and what is expected of it.         *)

Rows(count, page_size, rows, titles, oldest) ==
  [provider |-> "gdelt", count |-> count, page_size |-> page_size,
   rows |-> rows, titles |-> titles, oldest |-> oldest]

NeedsKey == [provider |-> "newsapi", count |-> 25, page_size |-> 50,
             rows |-> 0, titles |-> None, oldest |-> None]

(* A suite that only counts, for a run's mutant.                           *)
CountingSuite == <<NeedsKey,
                   Rows(3, 2, 3, None, None),
                   Rows(2, 2, 2, None, None),
                   Rows(2, 5, 2, None, None)>>

(* news_errors.test, news_scan_state.test, news_search.test: the queries   *)
(* that scan.                                                              *)
Suite == <<NeedsKey,
           Rows(3, 2, 3, None, None),
           Rows(3, 2, 3, {A, B, C}, None),
           Rows(3, 2, None, None, C),
           Rows(2, 2, 2, None, None),
           Rows(2, 5, 2, {A, B}, None)>>

Meets(query) == /\ status = IF query = NeedsKey THEN "failed" ELSE "finished"
                /\ query.rows # None => delivered = query.rows
                /\ query.titles # None => out = query.titles
                /\ query.oldest # None => out # {} /\ Min(out) = query.oldest

-----------------------------------------------------------------------------
(* main()                                                                  *)

(* The caller's own variables may be set already.                          *)
E2EInit == /\ args = [provider |-> "gdelt", count |-> 1, page_size |-> 1, timespan |-> 1]
           /\ state = initial_state
           /\ feed = Fixture /\ now = InitNow
           /\ status = "finished"
           /\ delivered = 0 /\ out = {} /\ again = {}
           /\ asked = [at |-> 0, upto |-> 0]
           /\ phase = "setup"
           /\ env \in [Providers -> Urls \ {"mock"}]
           /\ carried \in SUBSET Fields
           /\ position = 1 /\ failed = FALSE
           /\ requests = {}
           /\ rc = None

(* A slip, for a run's mutant: setdefault.                                 *)
RoutedByDefault(own) == IF own = None THEN "mock" ELSE own

(* env["VGI_NEWS_..._BASE_URL"] = ...                                      *)
RoutedTo(own) == "mock"

Setup == /\ phase = "setup"
         /\ env' = [p \in Providers |-> RoutedTo(env[p])]
         /\ phase' = "between"
         /\ UNCHANGED <<vars, carried, position, failed, requests, rc>>

StartQuery ==
  /\ phase = "between" /\ position <= Len(Suite)
  /\ args' = [provider |-> Suite[position].provider, count |-> Suite[position].count,
              page_size |-> Suite[position].page_size, timespan |-> 1]
  /\ state' = initial_state
  /\ status' = "scanning"
  /\ delivered' = 0 /\ out' = {} /\ again' = {}
  /\ asked' = [at |-> 0, upto |-> 0]
  /\ phase' = "query"
  /\ UNCHANGED <<feed, now, env, carried, position, failed, requests, rc>>

(* _base_url_override: an empty variable counts as unset.                  *)
BaseUrl(provider) == IF env[provider] \in {None, ""} THEN "live" ELSE env[provider]

(* What a worker restores from the token it is given.                      *)
Restored(s) == [f \in DOMAIN initial_state |->
                  IF f \in carried THEN s[f] ELSE initial_state[f]]

(* One process() call: search against the mock, the cut, the next token.   *)
Tick == /\ phase = "query" /\ status = "scanning" /\ ~Exhausted
        /\ args.provider = "gdelt"
        /\ LET rows == MockPage(state.window_end_iso)
               page == PageResult(rows, NextWindowEnd(feed, rows, RecordsAsked(ThisCount)), None)
           IN  state' = Restored(Advance(page)) /\ Received(page)
        /\ requests' = requests \cup {BaseUrl(args.provider)}
        /\ UNCHANGED <<phase, env, carried, position, failed, rc>>

(* NewsAPI without a key fails before any request.                         *)
TickNoKey == /\ phase = "query" /\ status = "scanning"
             /\ args.provider = "newsapi"
             /\ status' = "failed"
             /\ UNCHANGED <<args, state, feed, now, delivered, out, again, asked, harness>>

Compare == /\ phase = "query" /\ status # "scanning"
           /\ failed' = (failed \/ ~Meets(Suite[position]))
           /\ position' = position + 1
           /\ phase' = "between"
           /\ UNCHANGED <<vars, env, carried, requests, rc>>

(* return proc.returncode                                                  *)
Return == /\ phase = "between" /\ position > Len(Suite)
          /\ rc' = IF failed THEN 1 ELSE 0
          /\ phase' = "ended"
          /\ UNCHANGED <<vars, env, carried, position, failed, requests>>

(* The runner is not there, or dies.                                       *)
RunnerFails == /\ phase \in {"between", "query"}
               /\ rc' = 1
               /\ phase' = "ended"
               /\ UNCHANGED <<vars, env, carried, position, failed, requests>>

E2ENext == Setup \/ StartQuery \/ Tick \/ TickNoKey \/ Compare \/ Return \/ RunnerFails

E2ESpec == E2EInit /\ [][E2ENext]_<<vars, harness>>

-----------------------------------------------------------------------------
(* What the suite is for.                                                  *)

(* What the suite expects is what process() does: over a transport that    *)
(* carries the whole state no query misses its expectation.                *)
SuiteIsRight == carried = Fields => ~failed

(* "Getting all 3 rows proves the round-trip": a transport that loses the  *)
(* window cursor between two calls never gets the suite to pass.           *)
SuiteTells == phase = "ended" /\ rc = 0 => "window_end_iso" \in carried

(* "No network": whatever the caller has set, every request goes to the    *)
(* mock.                                                                   *)
NoNetwork == requests \subseteq {"mock"}
=============================================================================
