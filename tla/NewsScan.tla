------------------------------ MODULE NewsScan ------------------------------
(***************************************************************************)
(* The news_search table function (src/vgi_news/tables.py): one scan,      *)
(* pulled one process() call at a time by the engine, each call fetching   *)
(* one page from the provider while the provider's feed goes on growing    *)
(* and time goes on passing.                                               *)
(***************************************************************************)
EXTENDS Gdelt, NewsApi

CONSTANTS Providers, Counts, PageSizes, Timespans,  \* the arguments queries give
          InitFeeds,   \* what the feed may hold when the scan starts
          InitNow,     \* the clock when the scan starts
          MaxFeed,     \* bound: articles ever published
          MaxNow       \* bound: the last instant of the clock

ASSUME ArgsAssumption == /\ Providers \subseteq {"gdelt", "newsapi"}
                         /\ Counts \subseteq Nat \ {0}
                         /\ PageSizes \subseteq Nat \ {0}
                         /\ Timespans \subseteq Nat
ASSUME FeedAssumption == /\ InitFeeds \subseteq Seq(Article)
                         /\ InitNow \in Nat
                         /\ MaxFeed \in Nat
                         /\ MaxNow \in Nat

(* A feed is published in the order of time.                               *)
ASSUME OrderAssumption ==
  \A f \in InitFeeds : \A i, j \in DOMAIN f :
    f[i].date <= InitNow /\ (i <= j => f[i].date <= f[j].date)

VARIABLES
  args,       \* NewsSearchArgs: the parts paging depends on
  state,      \* NewsScanState, carried from one process() call to the next
  feed, now,  \* the provider's articles and the clock
  status,     \* "scanning", "finished" (out.finish) or "failed" (an error)
  delivered,  \* history: rows the engine has received
  out,        \* history: the articles among them
  again,      \* history: the articles received more than once
  asked       \* history: the clock and the feed's length at the first page

vars == <<args, state, feed, now, status, delivered, out, again, asked>>

Cursor == Nat \cup {None}

(* The shape of a scan, which process() keeps.  tables.py:88-91 documents  *)
(* more of an exhausted scan: a next_page of 0 and an empty                *)
(* window_end_iso.  No line of the code resets either: both stay as the    *)
(* last page that moved them left them (Advance), so next_page is 1 or     *)
(* more throughout.                                                        *)
TypeOK == /\ args \in [provider : Providers, count : Counts,
                       page_size : PageSizes, timespan : Timespans]
          /\ state \in [emitted : Nat, done : BOOLEAN, window_end_iso : Cursor,
                        next_page : Nat \ {0}, started : BOOLEAN]
          /\ feed \in Seq(Article)
          /\ now \in Nat
          /\ status \in {"scanning", "finished", "failed"}
          /\ delivered \in Nat
          /\ out \subseteq DOMAIN feed
          /\ again \subseteq out
          /\ asked \in [at : Nat, upto : 0 .. Len(feed)]

(* A slip in the empty cursor, for a run's mutant: NewsAPI counts from 1.  *)
ZeroBasedState == [emitted |-> 0, done |-> FALSE, window_end_iso |-> None,
                   next_page |-> 0, started |-> FALSE]

initial_state == [emitted |-> 0, done |-> FALSE, window_end_iso |-> None,
                  next_page |-> 1, started |-> FALSE]

Init == /\ args \in [provider : Providers, count : Counts,
                     page_size : PageSizes, timespan : Timespans]
        /\ state = initial_state
        /\ feed \in InitFeeds
        /\ now = InitNow
        /\ status = "scanning"
        /\ delivered = 0
        /\ out = {}
        /\ again = {}
        /\ asked = [at |-> 0, upto |-> 0]

-----------------------------------------------------------------------------
(* process()                                                               *)

Exhausted == state.done \/ state.emitted >= args.count
Remaining == args.count - state.emitted
ThisCount == Lesser(Remaining, args.page_size)

(* Slips in process(), for the runs' mutants.                              *)
LastBatchOnly(rows) == Cardinality(rows)
CursorNeverEnds(page, rows) ==
  \/ state.emitted + Cardinality(rows) >= args.count
  \/ rows = {}

(* page.rows[:remaining]                                                   *)
CutRows(page) == Newest(Remaining, page.rows)

EmittedAfter(rows) == state.emitted + Cardinality(rows)

DoneAfter(page, rows) ==
  \/ page.next_window_end = None /\ page.next_page = None
  \/ EmittedAfter(rows) >= args.count
  \/ rows = {}

(* The state as process() leaves it once search has returned the page.     *)
Advance(page) ==
  LET rows == CutRows(page)
  IN  [emitted |-> EmittedAfter(rows),
       done    |-> DoneAfter(page, rows),
       window_end_iso |-> IF page.next_window_end # None
                          THEN page.next_window_end
                          ELSE state.window_end_iso,
       next_page |-> IF page.next_window_end = None /\ page.next_page # None
                     THEN page.next_page
                     ELSE state.next_page,
       started |-> TRUE]

(* The clock and the feed's length at the first page.                      *)
AskedAt == IF state.started THEN asked ELSE [at |-> now, upto |-> Len(feed)]

(* What the engine gets of a page, and how the scan stands then.           *)
Received(page) ==
  LET rows == CutRows(page)
  IN  /\ delivered' = Lesser(delivered + Cardinality(rows), args.count + 1)
      /\ out' = out \cup rows
      /\ again' = again \cup (out \cap rows)
      /\ asked' = AskedAt
      /\ status' = IF Advance(page).done THEN "finished" ELSE status
      /\ UNCHANGED <<args, feed, now>>

(* The rest of process() once search has returned: emit, advance, finish.  *)
Deliver(page) == state' = Advance(page) /\ Received(page)

(* A call on a state that is done only finishes again: the engine may hold *)
(* an old state and present it once more.                                  *)
ProcessDone == /\ status # "failed"
               /\ Exhausted
               /\ status' = "finished"
               /\ UNCHANGED <<args, state, feed, now, delivered, out, again, asked>>

ProcessGdelt == /\ status # "failed"
                /\ ~Exhausted
                /\ args.provider = "gdelt"
                /\ \E page \in {GdeltSearch(feed, ThisCount, state.window_end_iso,
                                           now - args.timespan, extra) : extra \in Extras} :
                     Deliver(page)

ProcessNewsApi == /\ status # "failed"
                  /\ ~Exhausted
                  /\ args.provider = "newsapi"
                  /\ \E page \in {NewsApiSearch(feed, ThisCount, args.timespan, now,
                                    IF state.started THEN state.next_page ELSE 1)} :
                       Deliver(page)

(* search raises ProviderError, process() a ValueError: the query fails    *)
(* and the state stays as it was.                                          *)
ProcessError == /\ status # "failed"
                /\ ~Exhausted
                /\ status' = "failed"
                /\ UNCHANGED <<args, state, feed, now, delivered, out, again, asked>>

Process == ProcessDone \/ ProcessGdelt \/ ProcessNewsApi \/ ProcessError

-----------------------------------------------------------------------------
(* The provider's side, while the scan is open.                            *)

Publish == /\ status = "scanning"
           /\ Len(feed) < MaxFeed
           /\ \E kind \in Kinds : feed' = Append(feed, [date |-> now, kind |-> kind])
           /\ UNCHANGED <<args, state, now, status, delivered, out, again, asked>>

Elapse == /\ status = "scanning"
          /\ now < MaxNow
          /\ now' = now + 1
          /\ UNCHANGED <<args, state, feed, status, delivered, out, again, asked>>

Next == Process \/ Publish \/ Elapse

(* The engine pulls an open scan until it ends.                            *)
Spec == Init /\ [][Next]_vars /\ WF_vars(Process)

-----------------------------------------------------------------------------
(* What the properties speak of.                                           *)

IsGdelt   == args.provider = "gdelt"
IsNewsApi == args.provider = "newsapi"

(* The articles the user's look-back covered when the first page was asked *)
(* for, the entries no row can be made of left out.                        *)
LookBack == {a \in 1 .. asked.upto : /\ feed[a].date >= asked.at - args.timespan
                                     /\ feed[a].kind # "odd"}

(* Nothing was published and no time passed since the first page.          *)
Quiet == asked.at = now /\ asked.upto = Len(feed)

(* A page the service filled looks full, and a full GDELT page moves the   *)
(* window: every entry is an object, and the articles whose date cannot be *)
(* read are too few to fill a page of the scan's.                          *)
Undated == {a \in DOMAIN feed : feed[a].kind = "undated"}

PagesTell ==
  /\ \A a \in DOMAIN feed : feed[a].kind # "odd"
  /\ IsGdelt => Cardinality(Undated) < RecordsAsked(args.page_size)

(* Every NewsAPI request of the scan asks for the same page size.          *)
PagesLineUp == LET size == PageSizeAsked(args.page_size)
               IN  args.count <= size \/ args.count % size = 0

(* The engine has received as many rows as the cursor says, and never more *)
(* than `count`: the [:remaining] cut and the emitted counter.             *)
CountHonoured == /\ delivered = state.emitted
                 /\ delivered <= args.count

(* A GDELT service whose window excludes its end never sends a dated       *)
(* article twice: the next page starts below everything already received,  *)
(* although pages hold undated articles that do not move the window.       *)
NoDatedRepeat == IsGdelt /\ ~EndInclusive =>
                   \A a \in again : feed[a].kind = "undated"

(* No article is jumped over: when one was received, so was every newer    *)
(* one the first request covered.  By GDELT windows that include their end *)
(* and by NewsAPI pages of one size, whatever is published meanwhile.      *)
NoGap == (IsGdelt /\ EndInclusive) \/ (IsNewsApi /\ PagesLineUp) =>
           \A a \in out, b \in LookBack : b > a => b \in out

(* gdelt.py promises to lose articles only at a window's edge: one that is *)
(* jumped over shares its second with one that was received.               *)
GapsOnlyAtEdges == IsGdelt =>
  \A a \in out, b \in LookBack :
    b > a => \E c \in out : feed[c].date = feed[b].date

(* A scan that finishes short of `count` has delivered all the look-back   *)
(* held, save what shares a second with a delivered article (GDELT) or has *)
(* slid out of the look-back meanwhile (NewsAPI).  It is not said of NewsAPI*)
(* pages of two sizes (PagesLineUp), nor of feeds with entries that are no *)
(* objects or, for GDELT, a page's worth of articles without a readable    *)
(* date (PagesTell): there a full page can pass for the last (gdelt.py:148)*)
(* although PageResult has None mean that nothing older is left.           *)
CompleteWhenShort ==
  status = "finished" /\ delivered < args.count /\ PagesTell /\ (IsNewsApi => PagesLineUp)
    => \A a \in LookBack :
         \/ a \in out
         \/ IsGdelt /\ ~EndInclusive /\ \E c \in out : feed[c].date = feed[a].date
         \/ IsNewsApi /\ feed[a].date < now - args.timespan

(* NewsAPI pages of one size over a feed at rest repeat nothing.           *)
PagesDisjoint == IsNewsApi /\ PagesLineUp /\ Quiet => again = {}

(* A NewsAPI scan whose timespan is understood never reaches behind the    *)
(* look-back the query began with, although `from` is recomputed each call.*)
NewsApiLookBack == IsNewsApi /\ args.timespan \in MappedTimespans =>
                     \A a \in out : feed[a].date >= asked.at - args.timespan

(* A call that leaves the scan open has delivered a row and moved the      *)
(* provider's cursor on: strictly, unless GDELT's window includes its end. *)
WindowMoves(w, v) == \/ w = None
                     \/ v < w
                     \/ EndInclusive /\ v = w
CursorMoves ==
  [][state' # state /\ ~state'.done =>
       /\ delivered' > delivered
       /\ IsGdelt   => WindowMoves(state.window_end_iso, state'.window_end_iso)
       /\ IsNewsApi => state'.next_page > state.next_page]_vars

Contract == INSTANCE ScanContract WITH count <- args.count

(* Whichever provider answers, each process() call is a step the engine's  *)
(* contract allows, or repeats the end of a scan that has ended.           *)
KeepsContract == Contract!Spec

(* A scan the engine keeps pulling ends, even when the window stands still *)
(* and every page is the same: the emitted counter runs out.               *)
ScanEnds == Contract!Ends

(* What the documents say and the code does not do.                        *)

(* "Paging is the simple kind: page (1-based) + pageSize": the pages of a  *)
(* NewsAPI scan over a feed at rest share no article, the last included.   *)
NewsApiNoDuplicate == IsNewsApi /\ Quiet => again = {}

(* timespan is the look-back window of the search.                         *)
LookBackHonoured == \A a \in out : feed[a].date >= asked.at - args.timespan
=============================================================================
