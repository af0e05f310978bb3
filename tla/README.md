# vgi-news, specified

vgi-news is a worker that gives DuckDB a table function, `news_search`, over two
web services: GDELT (free, paged by time window) and NewsAPI (keyed, paged by
number). The engine pulls a scan one `process()` call at a time; each call sends
one HTTP request, retried a few times, and carries a small cursor to the next.
These modules specify that scan and that request, TLC checks them on small
instances, and TLAPS proves the main results for all instances.

## The system

| part | source | state | operations |
|---|---|---|---|
| scan | `vgi_news/tables.py` | `NewsScanState`: `emitted`, `done`, `window_end_iso`, `next_page`, `started` | `initial_state`, `process`, `on_bind` |
| GDELT provider | `providers/gdelt.py` | none | `search`: one window, newest first |
| NewsAPI provider | `providers/newsapi.py` | none (reads the clock) | `search`: one numbered page |
| HTTP loop | `providers/base.py` | loop variables of one call: `attempt`, `last_exc` | `http_get_json` |
| registry, discovery | `providers/__init__.py`, `discovery.py` | constant table | `provider_names`, `get_provider`, `news_providers` |
| binding, secrets | `tables.py` `on_bind`, `_api_key` | the framework's secret lookups | two-phase bind |
| worker, catalog, schema | `worker.py`, `schema_utils.py` | constant metadata | none |
| tests, harness, packaging | `tests/`, `test/sql/`, `scripts/`, `ci/`, `Dockerfile` | processes of a test run | boot, run, clean up |
| external | vgi framework, DuckDB, httpx, GDELT, NewsAPI | articles, rate limit, engine's cursor | pull, publish, refuse |

Interaction: the engine calls `process(params, state, out)`; `process` picks a
provider and calls `search` with the cursor; `search` calls `http_get_json`;
the answer comes back as a `PageResult` (rows and one of two cursors), from
which `process` emits rows, advances `state` and, at the end, calls
`out.finish()`. An error surfaces as `ValueError` and fails the query. A worker
may hold several scans; they share no memory, but they share the service's
rate limit.

What is hard here:

* **Paging a list that changes.** Articles are published between two requests,
  and NewsAPI's `from` is recomputed at each. Dates have one-second resolution,
  so articles can straddle a window's edge; rows may carry no readable date.
* **Ending.** The scan ends by the cursor, by the row count, or on an empty page,
  and the window cursor may stand still.
* **Binding.** `on_bind` runs twice around a secret lookup; it, `get_provider` and
  `search` each fold and strip the same arguments for themselves.
* **Odd answers.** The JSON of a service may hold anything; a date that cannot be
  read should not cost the query its page.
* **Losing a reply.** Nothing but the token outlives a call. A worker may die with
  the page it fetched; the engine then presents an older token to another worker,
  while the feed has moved.
* **Judging a test run.** The integration leg starts processes that die, report
  late or outlive it, and a skipped suite looks like a passed one.
* **Retrying.** A retry inside the service's rate window is refused again. The
  engine cannot interrupt a call, so its total time matters.

What makes each part correct: the scan never exceeds `count`, always emits or
finishes, ends, and delivers the look-back without gaps or repeats as far as the
services allow; a provider's cursor always moves on; a call is bounded in
requests and time, reports its last failure, and outwaits the rate limit; a query
that was bound is not refused later and has the user's key if it needs one; a lost
reply costs the engine nothing but time; a green leg or suite has tested this worker against its
own mock, and leaves no noted worker behind unless its clean-up is cut short.

## The modules

| module | models | from |
|---|---|---|
| `NewsFeed` | the articles of a service, its two ways of listing them, `PageResult` | external; `base.py`, `gdelt.py` |
| `Gdelt` | `GDELTProvider.search` | `gdelt.py` |
| `NewsApi` | `NewsAPIProvider.search`, `_timespan_to_from` | `newsapi.py` |
| `NewsScan` | `NewsSearch.process` over both providers, the feed and the clock | `tables.py` |
| `ScanContract` | abstract: what a table function promises its engine | `tables.py` |
| `HttpGetJson` | `http_get_json`, one call at a time for each of several callers | `base.py` |
| `RateLimited` | the same calls against a service with a rate limit | `base.py`, external |
| `NewsQuery` | `on_bind`, the registry, `_api_key`, and how an answer can fail a page | `tables.py`, `providers/`, `discovery.py` |
| `ScanTransport` | the same scan as requests and replies that carry its token, some of them lost | `tables.py`, external |
| `SqlE2E` | `run_sql_e2e.py`: mock server, environment, the suite's queries | `scripts/`, `test/sql/`, `tables.py` |
| `CiHarness` | `run-integration.sh`: one leg, its processes, its clean-up | `ci/` |
| `MCNewsScan`, `MCScanTransport`, `MCHttpGetJson`, `MCRateLimited`, `MCNewsQuery` | instances for TLC | |
| `NewsScanProofs`, `NewsScanPageProofs`, `ScanTransportProofs`, `HttpGetJsonProofs`, `RateLimitedProofs`, `NewsQueryProofs`, `SqlE2EProofs`, `CiHarnessProofs` | theorems | |

**NewsScan.** `state` is `NewsScanState`, with `None` for the empty window end;
`args` the arguments paging depends on; `delivered`, `out`, `again`, `asked` are
history variables that no action's guard reads. One `process()` call is one
step, because nothing outside the provider's feed can change while it runs, and
the feed is read once, when the request is served. Its alternatives are
`ProcessDone` (the early return), `ProcessGdelt` and `ProcessNewsApi` (search,
then `Deliver`: cut, emit, advance, finish) and `ProcessError` (any
`ProviderError`, whatever its cause). `Publish` and `Elapse` are the service's
side. A feed is a sequence whose dates never decrease, and an article is its
place in it: listing by descending date is listing by descending place. Articles
are `plain`, `undated` (a date the worker cannot read; the service still knows
when it was) or `odd` (a JSON entry that is not an object, dropped by
`map_response`). `Extras` lets GDELT return more entries than asked for, which
the code guards against by cutting at `remaining`. Whether GDELT's
`enddatetime` includes its own second is not settled by any document, so
`EndInclusive` covers both.

**ScanTransport** splits `process()` in two: `Serve...`, where a worker restores the
state from the token, fetches and answers, and `Arrive`, where the engine gets the
rows and the next token. The variables of `NewsScan` are the engine's, so its
properties read unchanged; what a worker has computed is in `reply` until it
arrives, is lost (`Lose`: the same token is presented again) or the query is given
up (`Abandon`). `TokenFields` are the fields `NewsScanState` annotates, which is
what is serialized: a field left out gets its default back. Between making and
arrival articles are published and the clock moves. That the engine may ask again
is an assumption about the framework, made so as to see what the token is good for.

**SqlE2E** runs the queries of `test/sql` that scan against the mock's two windows,
each through `process()`'s own operators, over a transport that carries any subset
of the state's fields. `Setup` is the environment `main` builds from the caller's;
`Meets` is what a test expects of a query.

**CiHarness.** `phase` is the script's place, `verdict` the status of its exit and
`rc` the one the caller sees; `mock` and `worker` live and die beside it (`MockUp`,
`MockDies`, `WorkerUp`, `WorkerDies`, ...). A cancellation may come
between any two steps. Before the clean-up it leads to the trap, where one is set
(`Interrupt`); in the clean-up it ends the script there (`InterruptCleanup`), since
bash does not run an EXIT trap a second time, and `cut` keeps what it cut off. `squatter` is an older worker
under the socket name this script's pid gives. `PollsOut` ends a boot loop after
`MaxPolls` turns (100 and 240 in the code).

**HttpGetJson.** Per caller: `pc` (outside, in `httpx.get`, in `_sleep`),
`attempt`, `last_exc`, and `due`, the instant the answer or the awakening comes.
`TransportFailure`, `RetryLater`, `ErrorStatus` and `Body` are the branches of
the loop body in the order of the code; `Retry` and `GiveUp` are what follows a
sleep. Time counts half seconds, so that every delay of the code is an integer,
and jumps (`Advance`) to the next instant something is due.

**RateLimited** conjoins each of those steps with the service's state: `last`,
the arrival that counts, and whether the caller's open request is refused.
`Prolongs` says whether a refused request restarts the window, as the comment on
`_RATE_LIMIT_BACKOFF` says it does.

**NewsQuery.** `phase` follows a query from its first bind through the engine's
secret lookup (`Lookup`, external) and the second bind to its pages. `Refuse`,
`RequestSecret` and `Bind` are the three ways out of `on_bind`; `SearchRefuses`
are the checks `get_provider` and `search` make once more. `secrets` is what
`params.secrets` has resolved, and `ApiKey` is `_api_key`: the first valid of four
fields. A text is its words, the blanks about them and its capitals; `Strip` and
`Lower` are Python's. Each place that converts or tests a text has a definition of its
own (`BindFindsBlank`, `BindKnows`, `WantsSecret`, `RegistryKey`, `GdeltFindsBlank`,
`NewsApiFindsBlank`), so that they can differ, and `BoundIsAccepted` says that they
agree. An answer is a shape, a set of kinds of article
and a total; `PayloadErrors`, `MappingErrors` and `ColumnFails` say, in the order
of the code, what each does to the page. `CleanErrors` reach the user as a
message; `RawErrors` are Python exceptions that escape.

Composition: `NewsScan` takes the outcome of a call (a page or an error) in one
step; `HttpGetJson` says what goes on inside that step, and `NewsQuery` what
precedes the first one and which errors `ProcessError` stands for. `ScanTransport`
and `SqlE2E` take `process()` from `NewsScan` (`Advance`, `CutRows`, `Received`). A
caller of `RateLimited` with `MaxCalls = 2` is a scan of two pages.

## The runs

| run | instance | shows |
|---|---|---|
| `both_inclusive` | both providers, inclusive end, a clock that moves by one, feeds of at most 3 growing to 5; `count` 4, 5; page cap 3 (GDELT), 2 (NewsAPI); one look-back NewsAPI understands and one it does not | `TypeOK`, `NoGap`, `CompleteWhenShort`, `PagesDisjoint`, `NewsApiLookBack`, `CursorMoves`, `ScanEnds` |
| `transport_moving` | both providers, exclusive end, feeds of at most 4 articles on 3 dates, plain or undated, growing to 5 while the clock moves; `count` 3, 6; `page_size` 1, 3; up to one extra GDELT entry; one reply lost | `TransportTypeOK`, `CountHonoured`, `NoDatedRepeat`, `NoGap`, `GapsOnlyAtEdges`, `CompleteWhenShort`, `KeepsContract`, `CursorMoves` |
| `transport_rest` | both providers, inclusive end, every feed of at most 4 on 2 dates, at rest; two replies lost | `LossesLeaveNoTrace` (each scan is one of `NewsScan!Spec`, where no reply is lost, its fairness included, so it ends) |
| `http_call` | one caller, two calls, the code's delays; attempts take 0.5 s or 20 s; Retry-After absent or 12 s | `TypeOK`, `AttemptsBounded`, `ReportsLastAttempt`, `WithinBudget` |
| `rate_limited` | two scans of up to two pages each, window 5 s, attempts of 0.5 s or 2 s, at most one request lost; some calls are refused three times | `LimitedTypeOK`, `LoneScanServed`, `PairServed`, `EveryCallEnds` |
| `query` | thirteen ways to write a provider (two known names and an unknown one, padded, capitalised, both or neither; no name), four query texts (one empty, one blank), four timespans, secrets with none, either or both of two key fields (each absent, null, empty or a text), answers of every shape with at most one kind of article | `TypeOK`, `KeyIsTheUsers`, `ApiKeySuffices`, `DiscoveryIsTrue`, `BoundIsAccepted`, `BindEnds` |
| `sql_e2e` | the suite's six scanning queries, every subset of the five fields, the caller's base URLs unset, empty or set | `SuiteIsRight`, `SuiteTells`, `NoNetwork` |
| `ci_leg` | three tests, the three transports and an unknown one, boot loops of two turns, deaths and a cancellation between any two steps, the clean-up's included | `TypeOK`, `GreenMeansTested`, `PassIsGreen`, `OnlyTheMock`, `WorkerReaped`, `HarnessEnds` |
| `newsapi_last_page`, `gdelt_look_back`, `http_worst_case`, `query_odd_dates` | small | a document's statement is violated; see Findings |

Why the bounds are enough. A feed of four articles on three dates has every
pattern of shared and distinct dates around a window's edge, pages of one to
three give up to six requests, and `count` 6 exceeds every feed, so scans also
end short, while `count` 3 is reached. Two more articles suffice to shift a NewsAPI
page by a whole page of size one or two. A lost reply can be the first, a middle or
the last one. A call has three attempts in the code, and the runs use three; a
second call shows that nothing leaks from the first. In a query, two key fields
show the order of the four, and one article is as good as many, since
each is mapped by itself and the run asks nothing of what they do together. `SqlE2E`'s instance is the suite itself. A boot loop of
two turns can succeed at once, late or never. Three tests can pass, fail and be
skipped in one run. `CHECK_DEADLOCK FALSE` everywhere: a scan or a query that has
failed, callers that have made their calls, and a script that has ended have
nothing left to do.

Instances of interest that fail, for the reader's orientation: two scans of two
pages each, or three scans of one page, can be failed by the rate limit even
when no request is lost, since nothing spaces out the calls of different scans
and three attempts are all each call has. A lost request's short backoff (0.5 s)
lands inside the window, so `LoneScanServed` needs the hypothesis that none is
lost. `NoGap` and `PagesDisjoint` need pages of one size (`PagesLineUp`): see
the first finding.

## Fairness

`Spec` of `NewsScan` assumes `WF(Process)`: the engine pulls an open scan until
it ends, which is what a query does that is not cancelled. Nothing is assumed of
the service: it may publish or not. `HttpGetJson` assumes that time advances
while a call is open and that an answer (or a timeout) that is due is taken,
and a sleep that is over returns; it assumes nothing about new calls starting.
`ScanTransport` assumes `WF(Serve)` and `WF(Arrive)`: the engine goes on asking, some
worker answers, and a reply that is not lost arrives; that replies are lost at most
`MaxLosses` times is what makes an end possible, and nothing obliges the engine to
ask again rather than give up. `CiHarness` assumes that the script runs on
(`WF(Script)`: bash is never stopped, and the runner it waits for comes back) and
that a worker sent SIGTERM stops in the end, which is what `wait` waits for; nothing
is assumed of processes coming up. `SqlE2E` states no liveness.
`NewsQuery` assumes that the engine goes on with a bind it has begun, lookup
included; nothing is assumed of the pages that follow.

## What is proved

For all values of the constants that meet the named assumptions (`MaxRecords`
and the like positive, an initial feed in the order of time, latencies at most
`Timeout`, `Budget` a function that dominates the sum of timeouts and sleeps).

* `NewsScanProofs!Invariance`. `IInv` is `TypeOK`, `CountHonoured` and what makes
  them inductive: a scan has finished exactly when its state is exhausted
  (`StatusAgrees`), a scan that has not started has an empty cursor and no rows
  and each provider moves only its own half of it (`CursorAgrees`), and every dated article
  received lies at or above the window end (`WindowBelow`). The last part is what
  rules out repeats when the end is exclusive. From it: `TypeCorrect`,
  `CountIsHonoured`, `DatedArticlesComeOnce`.
* `ContractIsKept`: `NewsScan` implements `ScanContract`, `count` being
  `args.count` and the other variables themselves. `CursorAlwaysMoves`: a call
  that does not end the scan has delivered rows and moved its cursor.
  Both rest on lemmas about one page (`GdeltPage`, `NewsApiPage`): a page is a
  finite set of articles of the feed, its window end is the date of one of its
  rows, and a page with a cursor is not empty.
* `NewsScanPageProofs!PageInvariance`: what a scan delivers of the look-back. Its
  invariant, `Behind(s, o, ag, k)`, is stated of a *position*: a state `s`, the articles
  `o` received there, those of `ag` more than once, the first page asked for at `k`.
  The engine's position is its own variables; that of a reply under way is where its
  arrival will leave the engine, so the same lemmas serve both. Three facts make it:
  a page made at a position of which it holds leads to another of which it holds
  (`GdeltLeaves`, `NewsApiLeaves`); it stays true while nothing moves (`NothingMoves`);
  and it stays true while articles are published and the clock moves (`FeedMoves`).

  For GDELT it says that what has been received is closed upwards in the look-back, up
  to articles of the same second, and that a scan that goes on has received an article
  of the very second its window ends at. An article above the window end was then
  covered before, one below it by the page, which is a cut of a list
  (`NewestIsUpwardClosed`); the window only moves when the cut at `remaining` took
  nothing (`ShortCutIsWhole`). A page that ends the scan short of `count` was not full,
  or was full of undated articles, for which there are too few (`UndatedPageIsShort`);
  so it held all the window did (`LastWindowIsWhole`). For NewsAPI it says that while the scan is open it has
  received whole pages of one size, and everything the first request covered that
  ranks above its counter in today's list: publishing only pushes an article down, and
  the clock only drops the end of the list. A request is for the scan's page size or
  for all that remains, and the condition on `count` under which the properties speak
  makes the last page begin where the counter stands. `from` only moves forward. With
  it goes `Ordered`: the feed is in the order of time. From all this: `GapsAreAtEdges`,
  `NothingIsJumpedOver`, `PagesAreDisjoint`, `ShortScansAreComplete`, `LookBackIsKept`.
* `HttpGetJsonProofs!Invariance`. The strengthening relates `due` to the budget:
  while attempt `k` is open its answer is due within `Budget[k] + Timeout` of
  the beginning, and while the sleep after it lasts, within `Budget[k + 1]`;
  an exception kept in `last_exc` is the current attempt's whenever the loop can
  run out. From it: `AttemptsAreBounded`, `LastAttemptIsReported`,
  `CallsKeepToBudget` and
  `TypeCorrect`, for any number of callers.
* `RateLimitedProofs`: every step of the composition is a step of `HttpGetJson`,
  so its invariant carries over; with it `LimitedTypeCorrect` and
  `LoneScanIsServed`, whose invariant says that a caller that sleeps after a
  refusal wakes after the window, as long as no other caller has sent a request.
  `PairIsServed` is the case of two. Its invariant (`PairInv`) says that only the first
  request of a page is refused, that beside a refused caller there is another that has
  begun and is not, and that a caller refused wakes after the window of every request
  sent, since there is no third to send one. It needs a second attempt
  (`MaxRetries > 1`).
* `ScanTransportProofs`: the invariant joins `NewsScan`'s, for what the engine has,
  with `ReplyInv`, which says of a reply under way that its rows are those a page
  made for the engine's token holds, whatever the feed did since. A reply that
  arrives is then a `process()` step, except that the feed may have grown; so
  `TransportTypeCorrect`, `TransportCountIsHonoured`, `TransportDatedComeOnce` and
  `TransportKeepsContract`, that a scan with losses implements the same contract.
  `ReplyMoves` adds that a reply that leaves the scan open has rows and a cursor moved
  on from the engine's (`TransportCursorMoves`). `StandInv` is `Behind` twice, of the
  engine and of the reply under way; since losing a reply leaves the engine where it
  stood and `FeedMoves` covers the time of travel, `TransportJumpsOverNothing`,
  `TransportGapsAreAtEdges`, `TransportIsCompleteWhenShort`, `TransportPagesAreDisjoint`
  and `TransportLookBackIsKept` follow.
  `LossesLeaveNoTraceAtRest` is the safety of `LossesLeaveNoTrace`: where nothing can be
  published and the clock stands (`AtRest`), a reply under way is what any worker would
  answer now, so its arrival is a step of `NewsScan!Next`, giving up is `ProcessError`,
  and everything else stutters.
* `SqlE2EProofs`: nothing leaves for a live service because `Setup` routes both
  providers to the mock (`NothingLeaves`); a transport that loses the window cursor is
  served the newer window over and over, so the oldest title never comes and the third
  query fails (`SuiteIsTelling`); and over a transport that carries every field the
  states each query goes through are those of a short list, at whose end the
  expectations hold (`SuiteExpectsTheCode`). The suite is fixed; the environment, the
  subset of fields and the services' caps are any.
* `CiHarnessProofs`: the invariant ties each phase to what has been set, noted and
  tested by then, the verdict to the results, and an interrupted clean-up to what it had
  done by then; from it `TypeCorrect`, `GreenIsEarned`, `PassIsNotFailed`,
  `NothingIsLive`, `WorkerIsReaped`, for any suite and any boot limits.
* `NewsQueryProofs`: the invariant says that a bound query passed the bind's checks
  and had its secret looked up if it wants one, and that every key sent is one
  `search` accepts. Under it lie two lemmas about the conversions, `Folding` (what
  lowering a stripped text compares) and `ReadAlike` (what passes the bind's tests
  passes those of the registry and of either search). From it `TypeCorrect`,
  `KeysAreTheUsers`, `DiscoveryIsHonest`, `ApiKeyIsFound` and `BoundStaysAccepted`, for
  every set of names, queries, secrets and answers.

Every safety and action property that a passing run checks is the conclusion of a
theorem here. Only model-checked: the liveness properties (`ScanEnds`, `EveryCallEnds`,
`BindEnds`, `HarnessEnds`) and the fairness in `LossesLeaveNoTrace`, which are beyond
the prover.

## Findings

1. **The last NewsAPI page repeats rows and skips others** (`newsapi_last_page`).
   `process` asks for `min(remaining, page_size)` rows, so the last request has
   a smaller `pageSize` under the next page number: `count := 3, page_size := 2`
   fetches articles 1, 2 and then page 2 of size 1, which is article 2 again.
2. **GDELT scans leave the look-back** (`gdelt_look_back`). From the second page
   on `enddatetime` replaces `timespan`.
3. **A number for a date fails the page** (`query_odd_dates`). `parse_published_at`
   "never raises", but a `publishedAt` that is a JSON number has no `replace`, and
   the `AttributeError` is not caught. GDELT's `parse_seendate` does catch what
   `strptime` raises on a number.
4. **The worst case is 77 s, not 75 s** (`http_worst_case`): the last transport
   failure is followed by a sleep before the error is raised.

Also worth knowing, though no run claims it:

* **A full GDELT page can pass for the last.** The window moves only if a full page
  has a date that can be read (gdelt.py:148-151), and `len(rows)` is taken after entries
  that are not objects were dropped (gdelt.py:90). So a page the service filled ends
  the scan if none of its articles has a readable date, or if one entry is no object,
  although base.py:57-58 has `next_window_end` be `None` "when there is nothing older
  to fetch" and gdelt.py:145 speaks of "nothing older". `CompleteWhenShort` is stated
  up to there (`PagesTell`): no entry that is no object, and for GDELT fewer undated
  articles than a page of the scan's holds. With as many, it fails: with
  `page_size := 1`, one undated article that is the newest ends the scan.
* **An exhausted cursor is not reset.** tables.py:90-91 documents a `next_page` of "0
  when exhausted" and a `window_end_iso` that is empty when exhausted. The code does
  neither: both keep the value of the last page that moved them, and `done` alone says
  that the scan is over. `TypeOK` and `TransportTypeOK` follow the code (`next_page` is
  1 or more), and nothing reads the cursor of a scan that is done.
* **Odd timespans and tones.** A NewsAPI timespan of too many digits, or of digits
  `int()` does not read, raises out of `search` (newsapi.py:113) where line 104 says
  it is omitted. A GDELT tone that is an integer beyond a float's range raises
  `OverflowError`, which gdelt.py:63 does not catch, and fails its page, where line 58
  says "else None". `NewsQuery`
  has both (`SpanFails`, `huge_tone`).
* **The mock outlives the leg.** `MOCK_PID` is the pid of a subshell that waits for
  `uv run`; killing it on exit (run-integration.sh:94) leaves the python that serves,
  where ci/README.md:73-75 says that both processes are "trap-killed on exit". A
  cancellation between the worker's `&` and `SERVER_PID=$!` (165-166) leaves the
  worker, too, so `WorkerReaped` speaks of workers whose pid was noted.
* **A clean-up can be cut short.** A signal that comes while the trap runs, such as the
  second one of a cancelled job while `wait` blocks at run-integration.sh:91, ends it
  there: before the `kill` the worker stays, before the `rm` its socket or port file
  does. `WorkerReaped` says how far the clean-up must have come for each.
* **What the SQL suite tells of.** Because the mock repeats page one when no
  `enddatetime` is sent, `count(*) = 3` passes over a transport that loses the window
  cursor; it is the titles that tell (`SuiteTells`, and its mutant). Losing
  `emitted`, `done`, `started` or `next_page` alone goes unnoticed. The suite script has
  no guard against a runner that skips every test, as the integration leg has.

The documents speak of a window
ending "just before" the oldest article, while the code sends that article's own
second. If GDELT includes it, the edge second's articles come twice, and a second
with more articles than a page holds makes the window stand still; `ScanEnds`
holds then only because `emitted` runs up to `count`.

## Idealisations

* A request is answered from the feed at one instant. Titles, addresses, languages
  and other columns are not modelled; neither is the query text.
* Dates are whole seconds, as GDELT's are, so `isoformat`, `fromisoformat` and
  `strftime` of a window end are exact and are left out.
* httpx's timeout bounds each phase of a request (connect, read, ...), not the
  whole; the model takes it for the whole attempt. Sleeps take exactly as long as
  asked for.
* In `NewsQuery` a page's rows all reach the batch: the cut at `remaining`, which
  may drop a row that would have failed it, is `NewsScan`'s.
* A timespan is its length; `MappedTimespans` are those `_timespan_to_from` can
  read.
* A failure while the batch is built (a wrongly typed column) comes after
  `state.started` was set. The query has failed by then and the state is not
  handed on, so `ProcessError` leaves it alone.

## Not modelled, and the plan

Done: the scan, both providers' paging, its transport, binding, secrets and odd
answers, the HTTP loop, the rate limit, the SQL suite, the integration leg.

Left, in order:

1. `Parsers`: `_timespan_to_from`, `_retry_after_seconds`, the date readers, as
   functions with reference definitions; so far they are modelled by which inputs
   fail.
2. Proofs about parts of the liveness arguments that are safety: that the measure a
   scan or a call counts down (`count - emitted`, attempts left) falls at each step.

The environment override `_timeout`, read anew by every call, is a constant of
`HttpGetJson`; that of the base URL is in `SqlE2E` and `CiHarness`. In `CiHarness` the
warm-up query, which may fail without consequence, is left out, and so are how
`uv run` hands signals on to the worker it wraps and the runner's flags. `SqlE2E`
leaves out the queries about columns, types and the catalogue.

Left out for good: static metadata (`worker.py`, `schema_utils.py`, the metadata
of `discovery.py`), the unit-test fixtures and the packaging: they hold no state that
changes.
