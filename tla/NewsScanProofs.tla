--------------------------- MODULE NewsScanProofs ---------------------------
(***************************************************************************)
(* What holds of every scan, whatever the feed, the arguments, the caps    *)
(* and the bounds: TLAPS proofs about NewsScan.                            *)
(***************************************************************************)
EXTENDS NewsScan, FiniteSetTheorems, WellFoundedInduction, TLAPS

-----------------------------------------------------------------------------
(* Lists cut short                                                         *)

(* A set of naturals that is not empty has a least element.                *)
LEMMA LeastNatural ==
  ASSUME NEW S, S \subseteq Nat, S # {}
  PROVE  \E m \in S : \A n \in S : m <= n
<1>1. \E m \in S : \A n \in S : <<n, m>> \notin OpToRel(<, Nat)
  BY NatLessThanWellFounded, WFMin
<1>2. PICK m \in S : \A n \in S : <<n, m>> \notin OpToRel(<, Nat)
  BY <1>1
<1>3. \A n \in S : m <= n
  <2>1. TAKE n \in S
  <2>2. ~(n < m)
    BY <1>2 DEF OpToRel
  <2> QED BY <2>2
<1> QED BY <1>3

(* Min finds it.                                                           *)
LEMMA MinOfNaturals ==
  ASSUME NEW S, S \subseteq Nat, S # {}
  PROVE  Min(S) \in S /\ \A n \in S : Min(S) <= n
BY LeastNatural DEF Min

(* A list cut at k holds at most k articles: CutRows keeps to `remaining`. *)
LEMMA NewestIsShort ==
  ASSUME NEW S, S \subseteq Nat, IsFiniteSet(S), NEW k \in Nat
  PROVE  /\ Newest(k, S) \subseteq S
         /\ IsFiniteSet(Newest(k, S))
         /\ Cardinality(Newest(k, S)) <= k
<1> DEFINE T == Newest(k, S)
<1>1. T \subseteq S
  BY DEF Newest
<1>2. IsFiniteSet(T)
  BY <1>1, FS_Subset
<1>3. CASE T = {}
  BY <1>1, <1>2, <1>3, FS_EmptySet
<1>4. CASE T # {}
  <2>1. PICK m \in T : \A n \in T : m <= n
    BY <1>1, <1>4, LeastNatural
  <2> DEFINE Above == {b \in S : b > m}
  <2>2. m \in S /\ m \in Nat
    BY <1>1
  <2>3. IsFiniteSet(Above) /\ Cardinality(Above) \in Nat
    BY FS_Subset, FS_CardinalityType
  <2>4. Cardinality(Above) < k
    BY <2>1 DEF Newest, Rank
  <2>5. T \subseteq Above \cup {m}
    <3>1. SUFFICES ASSUME NEW a \in T, a # m  PROVE a \in Above
      OBVIOUS
    <3>2. a \in S /\ a \in Nat /\ m <= a
      BY <1>1, <2>1
    <3> QED BY <2>2, <3>1, <3>2
  <2>6. /\ IsFiniteSet(Above \cup {m})
        /\ Cardinality(Above \cup {m}) = Cardinality(Above) + 1
    <3>1. m \notin Above
      BY <2>2
    <3> QED BY <2>3, <3>1, FS_AddElement
  <2>7. Cardinality(T) <= Cardinality(Above) + 1
    BY <2>5, <2>6, FS_Subset
  <2> QED BY <1>1, <1>2, <2>3, <2>4, <2>7, FS_CardinalityType
<1> QED BY <1>3, <1>4

-----------------------------------------------------------------------------
(* Pages                                                                   *)

(* What search hands back: articles of the feed and a cursor.              *)
PageOK(page) == /\ page.rows \subseteq DOMAIN feed
                /\ page.next_window_end \in Cursor
                /\ page.next_page \in (Nat \ {0}) \cup {None}

(* Articles are finitely many numbers.                                     *)
LEMMA FeedIsFinite ==
  ASSUME TypeOK
  PROVE  DOMAIN feed \subseteq Nat /\ IsFiniteSet(DOMAIN feed)
<1>1. Len(feed) \in Nat /\ DOMAIN feed = 1 .. Len(feed)
  BY DEF TypeOK
<1> QED BY <1>1, FS_Interval

(* The types of a query's arguments.                                       *)
LEMMA ArgsTyped ==
  ASSUME TypeOK
  PROVE  /\ args.count \in Nat \ {0}
         /\ args.page_size \in Nat \ {0}
         /\ args.timespan \in Nat
         /\ args.provider \in Providers
BY ArgsAssumption DEF TypeOK

(* The type of an article of the feed.                                     *)
LEMMA FeedTyped ==
  ASSUME TypeOK, NEW a \in DOMAIN feed
  PROVE  feed[a].date \in Nat /\ feed[a].kind \in Kinds
<1>1. feed \in Seq(Article)
  BY DEF TypeOK
<1>2. feed[a] \in Article
  BY <1>1
<1> QED BY <1>2 DEF Article

(* The cursor of a GDELT page is the oldest date on it, or there is none.  *)
LEMMA WindowEndIsOldest ==
  ASSUME TypeOK, NEW rows, rows \subseteq DOMAIN feed, NEW maxrecords,
         NEW end, end = NextWindowEnd(feed, rows, maxrecords), end # None
  PROVE  /\ end \in Nat
         /\ \E a \in rows : feed[a].date = end
         /\ \A a \in rows : feed[a].kind = "plain" => end <= feed[a].date
<1> DEFINE D == Dates(feed, rows)
<1>1. D # {} /\ end = Min(D)
  BY DEF NextWindowEnd
<1>2. D \subseteq Nat
  BY FeedTyped DEF Dates
<1>3. end \in D /\ \A d \in D : end <= d
  BY <1>1, <1>2, MinOfNaturals
<1> QED BY <1>2, <1>3 DEF Dates

(* What GDELTProvider.search returns, and where its window lies.           *)
LEMMA GdeltPage ==
  ASSUME TypeOK, NEW extra, NEW page,
         page = GdeltSearch(feed, ThisCount, state.window_end_iso,
                            now - args.timespan, extra)
  PROVE  /\ PageOK(page)
         /\ page.next_page = None
         /\ \A a \in page.rows : feed[a].kind # "odd"
         /\ \A a \in page.rows :
              state.window_end_iso # None =>
                \/ feed[a].date < state.window_end_iso
                \/ EndInclusive /\ feed[a].date = state.window_end_iso
         /\ page.next_window_end # None =>
              /\ \E a \in page.rows : feed[a].date = page.next_window_end
              /\ \A a \in page.rows :
                   feed[a].kind = "plain" => page.next_window_end <= feed[a].date
<1> DEFINE maxrecords == RecordsAsked(ThisCount)
           selected == Selected(feed, state.window_end_iso, now - args.timespan)
           rows == Mapped(feed, Answer(feed, state.window_end_iso,
                                       now - args.timespan, maxrecords, extra))
           end == NextWindowEnd(feed, rows, maxrecords)
<1>1. page = [rows |-> rows, next_window_end |-> end, next_page |-> None]
  BY DEF GdeltSearch, PageResult
<1>2. rows \subseteq selected
  BY DEF Mapped, Answer, Newest
<1>3. selected \subseteq DOMAIN feed
  BY DEF Selected, Since, BeforeWindowEnd
<1>4. state.window_end_iso # None => selected = BeforeWindowEnd(feed, state.window_end_iso)
  BY DEF Selected
<1>5. end # None => /\ end \in Nat
                    /\ \E a \in rows : feed[a].date = end
                    /\ \A a \in rows : feed[a].kind = "plain" => end <= feed[a].date
  BY <1>2, <1>3, WindowEndIsOldest
<1>odd. \A a \in rows : feed[a].kind # "odd"
  BY DEF Mapped
<1> HIDE DEF rows, end, selected
<1>6. PageOK(page) /\ page.next_page = None
  BY <1>1, <1>2, <1>3, <1>5 DEF PageOK, Cursor
<1>7. \A a \in rows : state.window_end_iso # None =>
         \/ feed[a].date < state.window_end_iso
         \/ EndInclusive /\ feed[a].date = state.window_end_iso
  BY <1>2, <1>4 DEF BeforeWindowEnd
<1> QED BY <1>1, <1>5, <1>6, <1>7, <1>odd

(* What NewsAPIProvider.search returns, and where its page lies.           *)
LEMMA NewsApiPage ==
  ASSUME TypeOK, NEW page_num \in Nat \ {0}, NEW page,
         page = NewsApiSearch(feed, ThisCount, args.timespan, now, page_num)
  PROVE  /\ PageOK(page)
         /\ page.next_window_end = None
         /\ page.next_page # None => page.next_page = page_num + 1
         /\ args.timespan \in MappedTimespans =>
              \A a \in page.rows : feed[a].date >= now - args.timespan
<1> DEFINE size == PageSizeAsked(ThisCount)
           matching == Matching(feed, TimespanToFrom(args.timespan, now))
           rows == Mapped(feed, PageOf(page_num, size, matching))
           next == NextPage(rows, page_num, size, Cardinality(matching))
<1>1. page = [rows |-> rows, next_window_end |-> None, next_page |-> next]
  BY DEF NewsApiSearch, PageResult
<1>2. matching \subseteq DOMAIN feed
  BY DEF Matching, Since
<1>3. rows \subseteq matching
  BY DEF Mapped, PageOf
<1>4. next = None \/ next = page_num + 1
  BY DEF NextPage
<1>5. ASSUME args.timespan \in MappedTimespans, NEW a \in matching
      PROVE  feed[a].date >= now - args.timespan
  <2>1. /\ TimespanToFrom(args.timespan, now) = now - args.timespan
        /\ now - args.timespan \in Int
    BY <1>5, ArgsTyped DEF TimespanToFrom, TypeOK
  <2>2. matching = Since(feed, now - args.timespan)
    BY <2>1, NoneAssumption DEF Matching
  <2> QED BY <1>5, <2>2 DEF Since
<1> HIDE DEF rows, next, matching
<1> QED BY <1>1, <1>2, <1>3, <1>4, <1>5 DEF PageOK, Cursor

-----------------------------------------------------------------------------
(* The invariant                                                           *)

(* A scan is finished exactly when its state says so, unless it failed.    *)
StatusAgrees == status # "failed" => (status = "finished" <=> Exhausted)

(* Before the first page the state is the empty cursor; afterwards only    *)
(* the provider's own half of it has moved.                                *)
CursorAgrees == /\ ~state.started => state = initial_state /\ out = {}
                /\ IsGdelt => state.next_page = 1
                /\ IsNewsApi => state.window_end_iso = None

(* While a GDELT scan goes on, what it has received of dated articles lies *)
(* at or above the window's end, and there is a window once it has a page. *)
WindowBelow == IsGdelt /\ ~Exhausted =>
  /\ state.started => state.window_end_iso # None
  /\ \A a \in out : feed[a].kind = "plain" => state.window_end_iso <= feed[a].date

IInv == TypeOK /\ CountHonoured /\ StatusAgrees /\ CursorAgrees /\ WindowBelow

(* The empty cursor of a fresh scan.                                       *)
LEMMA InitIInv == Init => IInv
<1> SUFFICES ASSUME Init PROVE IInv
  OBVIOUS
<1>1. /\ args.count \in Nat \ {0}
      /\ feed \in Seq(Article)
      /\ now \in Nat
  BY ArgsAssumption, FeedAssumption DEF Init
<1>2. TypeOK
  BY <1>1 DEF Init, TypeOK, initial_state, Cursor
<1>3. CountHonoured /\ StatusAgrees
  BY <1>1 DEF Init, CountHonoured, StatusAgrees, Exhausted, initial_state
<1>4. CursorAgrees /\ WindowBelow
  BY DEF Init, CursorAgrees, WindowBelow, initial_state
<1> QED BY <1>2, <1>3, <1>4 DEF IInv

(* The fields of NewsScanState, and when a state has no more to ask for.   *)
StateType == [emitted : Nat, done : BOOLEAN, window_end_iso : Cursor,
              next_page : Nat \ {0}, started : BOOLEAN]

Over(s) == s.done \/ s.emitted >= args.count

(* The state a page leaves behind: it counts what the cut leaves of it.    *)
LEMMA AdvanceFacts ==
  ASSUME TypeOK, ~Exhausted, NEW page, PageOK(page),
         NEW rows, rows = CutRows(page), NEW t, t = Advance(page)
  PROVE  /\ rows \subseteq page.rows /\ rows \subseteq DOMAIN feed
         /\ Cardinality(rows) \in Nat
         /\ rows # {} => Cardinality(rows) > 0
         /\ t \in StateType
         /\ t.emitted = state.emitted + Cardinality(rows) /\ t.emitted <= args.count
         /\ t.done = DoneAfter(page, rows) /\ (t.done <=> Over(t))
         /\ t.started = TRUE
         /\ t.window_end_iso = IF page.next_window_end # None
                               THEN page.next_window_end ELSE state.window_end_iso
         /\ t.next_page = IF page.next_window_end = None /\ page.next_page # None
                          THEN page.next_page ELSE state.next_page
<1> DEFINE n == Cardinality(rows)
<1>1. /\ args.count \in Nat /\ state.emitted \in Nat
      /\ state.done \in BOOLEAN /\ state.emitted < args.count
      /\ Remaining \in Nat /\ Remaining = args.count - state.emitted
  BY ArgsTyped DEF TypeOK, Exhausted, Remaining
<1>2. page.rows \subseteq Nat /\ IsFiniteSet(page.rows)
  BY FeedIsFinite, FS_Subset DEF PageOK
<1>3. rows \subseteq page.rows /\ IsFiniteSet(rows) /\ n <= Remaining
  BY <1>1, <1>2, NewestIsShort DEF CutRows
<1>4. n \in Nat /\ (rows # {} => n > 0)
  BY <1>3, FS_CardinalityType, FS_EmptySet
<1>5. state.emitted + n <= args.count
  BY <1>1, <1>3, <1>4
<1>6. DoneAfter(page, rows) \in BOOLEAN
      /\ (state.emitted + n >= args.count => DoneAfter(page, rows))
  BY DEF DoneAfter, EmittedAfter
<1>7. t = [emitted |-> state.emitted + n, done |-> DoneAfter(page, rows),
           window_end_iso |-> IF page.next_window_end # None
                              THEN page.next_window_end ELSE state.window_end_iso,
           next_page |-> IF page.next_window_end = None /\ page.next_page # None
                         THEN page.next_page ELSE state.next_page,
           started |-> TRUE]
  BY DEF Advance, EmittedAfter
<1>8. state.window_end_iso \in Cursor /\ state.next_page \in Nat \ {0}
  BY DEF TypeOK
<1>9. t \in StateType
  BY <1>1, <1>4, <1>6, <1>7, <1>8 DEF PageOK, StateType
<1>10. t.done <=> Over(t)
  BY <1>1, <1>4, <1>6, <1>7 DEF Over
<1>11. rows \subseteq DOMAIN feed
  BY <1>3 DEF PageOK
<1> QED BY <1>3, <1>4, <1>5, <1>7, <1>9, <1>10, <1>11

(* What the rest of process() makes of a page: it delivers what the cut    *)
(* leaves, counts it, and either goes on with a row more or finishes.      *)
LEMMA DeliverStep ==
  ASSUME IInv, status # "failed", ~Exhausted,
         NEW page, PageOK(page), Deliver(page),
         NEW rows, rows = CutRows(page)
  PROVE  /\ rows \subseteq page.rows
         /\ Cardinality(rows) \in Nat
         /\ rows # {} => Cardinality(rows) > 0
         /\ state'.emitted = state.emitted + Cardinality(rows)
         /\ delivered' = delivered + Cardinality(rows)
         /\ delivered' <= args.count
         /\ state'.done = DoneAfter(page, rows)
         /\ TypeOK' /\ CountHonoured' /\ StatusAgrees'
<1>1. TypeOK /\ CountHonoured /\ StatusAgrees
  BY DEF IInv
<1>2. PICK t : t = Advance(page)
  OBVIOUS
<1>3. /\ rows \subseteq page.rows /\ rows \subseteq DOMAIN feed
      /\ Cardinality(rows) \in Nat /\ (rows # {} => Cardinality(rows) > 0)
      /\ t \in StateType
      /\ t.emitted = state.emitted + Cardinality(rows) /\ t.emitted <= args.count
      /\ t.done = DoneAfter(page, rows) /\ (t.done <=> Over(t))
  BY <1>1, <1>2, AdvanceFacts
<1>4. /\ state' = t /\ UNCHANGED <<args, feed, now>>
      /\ delivered' = Lesser(delivered + Cardinality(rows), args.count + 1)
      /\ out' = out \cup rows /\ again' = again \cup (out \cap rows)
      /\ asked' = AskedAt
      /\ status' = IF t.done THEN "finished" ELSE status
  BY <1>2 DEF Deliver, Received
<1>5. args.count \in Nat /\ state.emitted \in Nat /\ delivered = state.emitted
  BY <1>1, ArgsTyped DEF TypeOK, CountHonoured
<1>6. delivered' = t.emitted /\ delivered' = delivered + Cardinality(rows)
  BY <1>3, <1>4, <1>5 DEF Lesser
<1>7. TypeOK'
  <2>1. out' \subseteq DOMAIN feed' /\ again' \subseteq out'
    BY <1>1, <1>3, <1>4 DEF TypeOK
  <2>2. asked' \in [at : Nat, upto : 0 .. Len(feed')]
    BY <1>1, <1>4 DEF AskedAt, TypeOK
  <2>3. delivered' \in Nat /\ state' \in StateType
    BY <1>3, <1>4, <1>6 DEF StateType
  <2>4. status' \in {"scanning", "finished", "failed"}
    BY <1>1, <1>4 DEF TypeOK
  <2> QED BY <1>1, <1>4, <2>1, <2>2, <2>3, <2>4 DEF TypeOK, StateType
<1>8. CountHonoured'
  BY <1>3, <1>4, <1>6 DEF CountHonoured
<1>9. StatusAgrees'
  <2>1. status = "scanning"
    BY <1>1 DEF StatusAgrees, TypeOK
  <2> QED BY <1>3, <1>4, <2>1 DEF StatusAgrees, Exhausted, Over
<1> QED BY <1>3, <1>4, <1>6, <1>7, <1>8, <1>9

(* A GDELT page lies below the window end and moves it to its own oldest.  *)
LEMMA GdeltKeepsIInv == IInv /\ ProcessGdelt => IInv'
<1> SUFFICES ASSUME IInv, ProcessGdelt PROVE IInv'
  OBVIOUS
<1>1. PICK extra, page :
        /\ page = GdeltSearch(feed, ThisCount, state.window_end_iso,
                              now - args.timespan, extra)
        /\ Deliver(page)
  BY DEF ProcessGdelt
<1> DEFINE rows == CutRows(page)
           end  == page.next_window_end
<1>2. TypeOK /\ status # "failed" /\ ~Exhausted /\ args.provider = "gdelt"
  BY DEF IInv, ProcessGdelt
<1>3. /\ PageOK(page)
      /\ page.next_page = None
      /\ end # None => \A a \in page.rows : feed[a].kind = "plain" => end <= feed[a].date
      /\ \A a \in page.rows : state.window_end_iso # None =>
           \/ feed[a].date < state.window_end_iso
           \/ EndInclusive /\ feed[a].date = state.window_end_iso
      /\ end # None => \E a \in page.rows : feed[a].date = end
  BY <1>1, <1>2, GdeltPage
<1>4. /\ rows \subseteq page.rows
      /\ state'.done = DoneAfter(page, rows)
      /\ TypeOK' /\ CountHonoured' /\ StatusAgrees'
  BY <1>1, <1>2, <1>3, DeliverStep
<1>5. /\ state'.window_end_iso = IF end # None THEN end ELSE state.window_end_iso
      /\ state'.next_page = state.next_page
      /\ state'.started = TRUE
      /\ out' = out \cup rows
      /\ feed' = feed /\ args' = args
  BY <1>1, <1>3 DEF Deliver, Received, Advance, AskedAt
<1>6. CursorAgrees'
  BY <1>2, <1>5 DEF IInv, CursorAgrees, IsGdelt, IsNewsApi
<1>7. WindowBelow'
  <2>1. SUFFICES ASSUME ~Exhausted'
                 PROVE  /\ state'.window_end_iso # None
                        /\ \A a \in out' : feed'[a].kind = "plain" =>
                             state'.window_end_iso <= feed'[a].date
    BY DEF WindowBelow
  <2>2. end # None
    BY <1>3, <1>4, <2>1 DEF DoneAfter, Exhausted
  <2>3. end \in Nat /\ state'.window_end_iso = end
    BY <1>3, <1>5, <2>2 DEF PageOK, Cursor
  <2>4. \A a \in rows : feed[a].kind = "plain" => end <= feed[a].date
    BY <1>3, <1>4, <2>2
  <2>5. \A a \in out : feed[a].kind = "plain" => end <= feed[a].date
    <3>1. CASE ~state.started
      BY <3>1 DEF IInv, CursorAgrees
    <3>2. CASE state.started
      <4>1. /\ state.window_end_iso \in Nat
            /\ \A a \in out : feed[a].kind = "plain" =>
                 state.window_end_iso <= feed[a].date
        BY <1>2, <3>2 DEF IInv, WindowBelow, IsGdelt, TypeOK, Cursor
      <4>2. state.window_end_iso # None
        BY <4>1, NoneAssumption
      <4>3. end <= state.window_end_iso
        <5>1. PICK a \in page.rows : feed[a].date = end
          BY <1>3, <2>2
        <5> QED BY <1>3, <2>3, <4>1, <4>2, <5>1
      <4>4. \A a \in out : feed[a].date \in Nat
        BY <1>2, FeedTyped DEF TypeOK
      <4> QED BY <2>3, <4>1, <4>3, <4>4
    <3> QED BY <3>1, <3>2
  <2>6. None \notin Nat
    BY NoneAssumption
  <2> QED BY <1>5, <2>3, <2>4, <2>5, <2>6
<1> QED BY <1>4, <1>6, <1>7 DEF IInv

(* A NewsAPI page leaves the window end alone.                             *)
LEMMA NewsApiKeepsIInv == IInv /\ ProcessNewsApi => IInv'
<1> SUFFICES ASSUME IInv, ProcessNewsApi PROVE IInv'
  OBVIOUS
<1> DEFINE page_num == IF state.started THEN state.next_page ELSE 1
<1>1. PICK page : /\ page = NewsApiSearch(feed, ThisCount, args.timespan, now, page_num)
                  /\ Deliver(page)
  BY DEF ProcessNewsApi
<1>2. TypeOK /\ status # "failed" /\ ~Exhausted /\ args.provider = "newsapi"
  BY DEF IInv, ProcessNewsApi
<1>3. page_num \in Nat \ {0}
  BY <1>2 DEF TypeOK
<1>4. PageOK(page) /\ page.next_window_end = None
  BY <1>1, <1>2, <1>3, NewsApiPage
<1>5. TypeOK' /\ CountHonoured' /\ StatusAgrees'
  BY <1>1, <1>2, <1>4, DeliverStep
<1>6. /\ state'.window_end_iso = state.window_end_iso
      /\ state'.started = TRUE
      /\ args' = args
  BY <1>1, <1>4 DEF Deliver, Received, Advance, AskedAt
<1>7. CursorAgrees' /\ WindowBelow'
  BY <1>2, <1>6 DEF IInv, CursorAgrees, WindowBelow, IsGdelt, IsNewsApi
<1> QED BY <1>5, <1>7 DEF IInv

(* The end, an error and the clock leave the scan as it was.               *)
LEMMA OthersKeepIInv ==
  IInv /\ (ProcessDone \/ ProcessError \/ Elapse \/ UNCHANGED vars) => IInv'
<1> SUFFICES ASSUME IInv, ProcessDone \/ ProcessError \/ Elapse \/ UNCHANGED vars
             PROVE  IInv'
  OBVIOUS
<1>1. /\ UNCHANGED <<args, state, feed, delivered, out, again, asked>>
      /\ now' \in Nat
      /\ status' \in {"scanning", "finished", "failed"}
      /\ status' # "failed" => (status' = "finished" <=> Exhausted)
  BY DEF IInv, TypeOK, StatusAgrees, ProcessDone, ProcessError, Elapse, vars
<1>2. TypeOK'
  BY <1>1 DEF IInv, TypeOK
<1>3. CountHonoured' /\ StatusAgrees' /\ CursorAgrees' /\ WindowBelow'
  BY <1>1 DEF IInv, CountHonoured, StatusAgrees, CursorAgrees, WindowBelow,
              Exhausted, IsGdelt, IsNewsApi
<1> QED BY <1>2, <1>3 DEF IInv

(* Publishing only adds a newer name: the articles already there keep      *)
(* theirs, and so does everything said of them.                            *)
LEMMA PublishKeepsIInv == IInv /\ Publish => IInv'
<1> SUFFICES ASSUME IInv, Publish PROVE IInv'
  OBVIOUS
<1>1. PICK kind \in Kinds : feed' = Append(feed, [date |-> now, kind |-> kind])
  BY DEF Publish
<1>2. UNCHANGED <<args, state, now, status, delivered, out, again, asked>>
  BY DEF Publish
<1>3. feed \in Seq(Article) /\ [date |-> now, kind |-> kind] \in Article
  BY DEF IInv, TypeOK, Article
<1>4. /\ feed' \in Seq(Article)
      /\ DOMAIN feed \subseteq DOMAIN feed'
      /\ Len(feed) \in Nat /\ Len(feed') = Len(feed) + 1
      /\ \A a \in DOMAIN feed : feed'[a] = feed[a]
  BY <1>1, <1>3
<1>5. TypeOK'
  BY <1>2, <1>4 DEF IInv, TypeOK
<1>6. WindowBelow'
  BY <1>2, <1>4 DEF IInv, TypeOK, WindowBelow, Exhausted, IsGdelt
<1>7. CountHonoured' /\ StatusAgrees' /\ CursorAgrees'
  BY <1>2 DEF IInv, CountHonoured, StatusAgrees, CursorAgrees, Exhausted,
              IsGdelt, IsNewsApi
<1> QED BY <1>5, <1>6, <1>7 DEF IInv

(* The invariant holds throughout.                                         *)
THEOREM Invariance == Spec => []IInv
<1>1. Init => IInv
  BY InitIInv
<1>2. IInv /\ [Next]_vars => IInv'
  BY GdeltKeepsIInv, NewsApiKeepsIInv, OthersKeepIInv, PublishKeepsIInv
     DEF Next, Process
<1> QED BY <1>1, <1>2, PTL DEF Spec

-----------------------------------------------------------------------------
(* What follows                                                            *)

(* Every state of a scan has its type.                                     *)
THEOREM TypeCorrect == Spec => []TypeOK
<1>1. IInv => TypeOK
  BY DEF IInv
<1> QED BY <1>1, Invariance, PTL

(* The engine never receives more than `count` rows, and the cursor's      *)
(* counter says exactly how many it received.                              *)
THEOREM CountIsHonoured == Spec => []CountHonoured
<1>1. IInv => CountHonoured
  BY DEF IInv
<1> QED BY <1>1, Invariance, PTL

(* What a page brings lies below what was received, if it is dated.        *)
LEMMA RepeatStep == IInv /\ NoDatedRepeat /\ [Next]_vars => NoDatedRepeat'
<1> SUFFICES ASSUME IInv, NoDatedRepeat, [Next]_vars, IsGdelt', ~EndInclusive,
                    NEW a \in again'
             PROVE  feed'[a].kind = "undated"
  BY DEF NoDatedRepeat
<1>1. CASE ProcessGdelt
  <2>1. PICK extra, page :
          /\ page = GdeltSearch(feed, ThisCount, state.window_end_iso,
                                now - args.timespan, extra)
          /\ Deliver(page)
    BY <1>1 DEF ProcessGdelt
  <2>2. TypeOK /\ status # "failed" /\ ~Exhausted /\ IsGdelt
    BY <1>1 DEF IInv, ProcessGdelt, IsGdelt
  <2>3. /\ PageOK(page)
        /\ \A b \in page.rows : feed[b].kind # "odd"
        /\ \A b \in page.rows : state.window_end_iso # None =>
             feed[b].date < state.window_end_iso
    BY <2>1, <2>2, GdeltPage
  <2> DEFINE rows == CutRows(page)
  <2>4. rows \subseteq page.rows
    BY <2>1, <2>2, <2>3, DeliverStep
  <2>5. again' = again \cup (out \cap rows) /\ feed' = feed
    BY <2>1 DEF Deliver, Received, Advance, AskedAt
  <2>6. CASE a \in again
    BY <2>2, <2>5, <2>6 DEF NoDatedRepeat
  <2>7. CASE a \in out \cap rows
    <3>1. state.started /\ state.window_end_iso # None
      BY <2>2, <2>7 DEF IInv, CursorAgrees, WindowBelow
    <3>2. feed[a].date < state.window_end_iso /\ feed[a].kind # "odd"
      BY <2>3, <2>4, <2>7, <3>1
    <3>3. feed[a].kind = "plain" => state.window_end_iso <= feed[a].date
      BY <2>2, <2>7 DEF IInv, WindowBelow
    <3>4. feed[a].date \in Nat /\ state.window_end_iso \in Nat /\ feed[a].kind \in Kinds
      BY <2>2, <2>7, <3>1, FeedTyped DEF TypeOK, Cursor
    <3>5. feed[a].kind # "plain"
      BY <3>2, <3>3, <3>4
    <3>6. feed[a].kind \in {"plain", "undated", "odd"}
      BY <3>4, KindsAssumption
    <3> QED BY <2>5, <3>2, <3>5, <3>6
  <2> QED BY <2>5, <2>6, <2>7
<1>2. CASE Publish
  <2>1. /\ UNCHANGED <<args, again, out>> /\ again \subseteq DOMAIN feed
        /\ feed \in Seq(Article)
    BY <1>2 DEF IInv, TypeOK, Publish
  <2>2. PICK kind \in Kinds : feed' = Append(feed, [date |-> now, kind |-> kind])
    BY <1>2 DEF Publish
  <2>3. feed'[a] = feed[a]
    BY <2>1, <2>2
  <2> QED BY <2>1, <2>3 DEF NoDatedRepeat, IsGdelt
<1>3. CASE ProcessNewsApi
  BY <1>3 DEF ProcessNewsApi, Deliver, Received, Advance, AskedAt, IsGdelt
<1>4. CASE ProcessDone \/ ProcessError \/ Elapse \/ UNCHANGED vars
  BY <1>4 DEF ProcessDone, ProcessError, Elapse, vars, NoDatedRepeat, IsGdelt
<1> QED BY <1>1, <1>2, <1>3, <1>4 DEF Next, Process

(* From a GDELT service whose windows exclude their end, no dated article  *)
(* comes twice, however the feed's dates and undated entries fall.         *)
THEOREM DatedArticlesComeOnce == Spec => []NoDatedRepeat
<1>1. Init => NoDatedRepeat
  BY DEF Init, NoDatedRepeat
<1> QED BY <1>1, RepeatStep, Invariance, PTL DEF Spec

-----------------------------------------------------------------------------
(* The engine's contract                                                   *)

(* A call that delivers a page is a pull that yields its rows, or one that *)
(* finds nothing more.                                                     *)
LEMMA DeliverIsContract ==
  ASSUME IInv, status # "failed", ~Exhausted,
         NEW page, PageOK(page), Deliver(page)
  PROVE  Contract!Next
<1> DEFINE rows == CutRows(page)
           n == Cardinality(rows)
<1>1. /\ n \in Nat /\ (rows # {} => n > 0)
      /\ delivered' = delivered + n /\ delivered' <= args.count
      /\ state'.emitted = state.emitted + n
      /\ state'.done = DoneAfter(page, rows)
      /\ CountHonoured' /\ StatusAgrees'
  BY DeliverStep
<1>2. /\ args.count \in Nat /\ delivered \in Nat /\ status = "scanning"
  BY ArgsTyped DEF IInv, TypeOK, StatusAgrees
<1>3. args' = args /\ status' = IF state'.done THEN "finished" ELSE status
  BY <1>1 DEF Deliver, Received, Advance, AskedAt
<1>4. delivered' = args.count => status' = "finished"
  BY <1>1, <1>3 DEF DoneAfter, EmittedAfter, CountHonoured
<1>5. CASE rows = {}
  <2>1. n = 0 /\ DoneAfter(page, rows)
    BY <1>5, FS_EmptySet DEF DoneAfter
  <2>2. Contract!Finish
    BY <1>1, <1>2, <1>3, <2>1 DEF Contract!Finish
  <2> QED BY <2>2 DEF Contract!Next
<1>6. CASE rows # {}
  <2>1. n \in 1 .. args.count - delivered
    BY <1>1, <1>2, <1>6
  <2>2. Contract!Emit(n)
    BY <1>1, <1>2, <1>3, <1>4 DEF Contract!Emit
  <2> QED BY <2>1, <2>2 DEF Contract!Next
<1> QED BY <1>5, <1>6

(* Every step of a scan is a step of the contract or changes none of it.   *)
LEMMA StepIsContract == IInv /\ [Next]_vars => [Contract!Next]_(Contract!vars)
<1> SUFFICES ASSUME IInv, [Next]_vars PROVE [Contract!Next]_(Contract!vars)
  OBVIOUS
<1>1. CASE ProcessGdelt
  <2>1. PICK extra, page :
          /\ page = GdeltSearch(feed, ThisCount, state.window_end_iso,
                                now - args.timespan, extra)
          /\ Deliver(page)
    BY <1>1 DEF ProcessGdelt
  <2>2. TypeOK /\ status # "failed" /\ ~Exhausted
    BY <1>1 DEF IInv, ProcessGdelt
  <2>3. PageOK(page)
    BY <2>1, <2>2, GdeltPage
  <2> QED BY <2>1, <2>2, <2>3, DeliverIsContract
<1>2. CASE ProcessNewsApi
  <2> DEFINE page_num == IF state.started THEN state.next_page ELSE 1
  <2>1. PICK page : /\ page = NewsApiSearch(feed, ThisCount, args.timespan, now, page_num)
                    /\ Deliver(page)
    BY <1>2 DEF ProcessNewsApi
  <2>2. TypeOK /\ status # "failed" /\ ~Exhausted
    BY <1>2 DEF IInv, ProcessNewsApi
  <2>3. page_num \in Nat \ {0}
    BY <2>2 DEF TypeOK
  <2>4. PageOK(page)
    BY <2>1, <2>2, <2>3, NewsApiPage
  <2> QED BY <2>1, <2>2, <2>4, DeliverIsContract
<1>3. CASE ProcessError
  <2>1. status = "scanning"
    BY <1>3 DEF IInv, TypeOK, StatusAgrees, ProcessError
  <2>2. Contract!Fail
    BY <1>3, <2>1 DEF ProcessError, Contract!Fail
  <2> QED BY <2>2 DEF Contract!Next
<1>4. CASE ProcessDone
  <2>1. status = "finished"
    BY <1>4 DEF IInv, StatusAgrees, ProcessDone
  <2> QED BY <1>4, <2>1 DEF ProcessDone, Contract!vars
<1>5. CASE Publish \/ Elapse \/ UNCHANGED vars
  BY <1>5 DEF Publish, Elapse, vars, Contract!vars
<1> QED BY <1>1, <1>2, <1>3, <1>4, <1>5 DEF Next, Process

(* Whichever provider answers and whatever it holds, process() keeps the   *)
(* contract: no call without rows that does not end the scan, no row past  *)
(* `count` or after the end.                                               *)
THEOREM ContractIsKept == Spec => KeepsContract
<1>1. Init => Contract!Init
  BY ArgsAssumption DEF Init, Contract!Init
<1> QED BY <1>1, StepIsContract, Invariance, PTL DEF Spec, KeepsContract, Contract!Spec

-----------------------------------------------------------------------------
(* The cursor moves                                                        *)

(* A step that leaves the scan open moves its cursor.                      *)
LEMMA CursorStep ==
  ASSUME IInv, [Next]_vars, state' # state, ~state'.done
  PROVE  /\ delivered' > delivered
         /\ IsGdelt => WindowMoves(state.window_end_iso, state'.window_end_iso)
         /\ IsNewsApi => state'.next_page > state.next_page
<1>1. CASE ProcessGdelt
  <2>1. PICK extra, page :
          /\ page = GdeltSearch(feed, ThisCount, state.window_end_iso,
                                now - args.timespan, extra)
          /\ Deliver(page)
    BY <1>1 DEF ProcessGdelt
  <2> DEFINE rows == CutRows(page)
             end  == page.next_window_end
  <2>2. TypeOK /\ status # "failed" /\ ~Exhausted /\ IsGdelt /\ ~IsNewsApi
    BY <1>1 DEF IInv, ProcessGdelt, IsGdelt, IsNewsApi
  <2>3. /\ PageOK(page)
        /\ page.next_page = None
        /\ \A a \in page.rows : state.window_end_iso # None =>
             \/ feed[a].date < state.window_end_iso
             \/ EndInclusive /\ feed[a].date = state.window_end_iso
        /\ end # None => \E a \in page.rows : feed[a].date = end
    BY <2>1, <2>2, GdeltPage
  <2>4. /\ state'.done = DoneAfter(page, rows)
        /\ Cardinality(rows) \in Nat /\ (rows # {} => Cardinality(rows) > 0)
        /\ delivered' = delivered + Cardinality(rows)
    BY <2>1, <2>2, <2>3, DeliverStep
  <2>5. rows # {} /\ end # None
    BY <2>3, <2>4 DEF DoneAfter
  <2>6. delivered' > delivered
    BY <2>2, <2>4, <2>5 DEF TypeOK
  <2>7. state'.window_end_iso = end
    BY <2>1, <2>5 DEF Deliver, Received, Advance, AskedAt
  <2>8. WindowMoves(state.window_end_iso, end)
    BY <2>3, <2>5 DEF WindowMoves
  <2> QED BY <2>2, <2>6, <2>7, <2>8
<1>2. CASE ProcessNewsApi
  <2> DEFINE page_num == IF state.started THEN state.next_page ELSE 1
  <2>1. PICK page : /\ page = NewsApiSearch(feed, ThisCount, args.timespan, now, page_num)
                    /\ Deliver(page)
    BY <1>2 DEF ProcessNewsApi
  <2> DEFINE rows == CutRows(page)
  <2>2. TypeOK /\ status # "failed" /\ ~Exhausted /\ IsNewsApi /\ ~IsGdelt
    BY <1>2 DEF IInv, ProcessNewsApi, IsGdelt, IsNewsApi
  <2>3. page_num \in Nat \ {0} /\ page_num = state.next_page
    BY <2>2 DEF TypeOK, IInv, CursorAgrees, initial_state
  <2>4. /\ PageOK(page) /\ page.next_window_end = None
        /\ page.next_page # None => page.next_page = page_num + 1
    BY <2>1, <2>2, <2>3, NewsApiPage
  <2>5. /\ state'.done = DoneAfter(page, rows)
        /\ Cardinality(rows) \in Nat /\ (rows # {} => Cardinality(rows) > 0)
        /\ delivered' = delivered + Cardinality(rows)
    BY <2>1, <2>2, <2>4, DeliverStep
  <2>6. rows # {} /\ page.next_page # None
    BY <2>4, <2>5 DEF DoneAfter
  <2>7. delivered' > delivered
    BY <2>2, <2>5, <2>6 DEF TypeOK
  <2>8. state'.next_page = page_num + 1
    BY <2>1, <2>4, <2>6 DEF Deliver, Received, Advance, AskedAt
  <2> QED BY <2>2, <2>3, <2>7, <2>8
<1>3. CASE ProcessDone \/ ProcessError \/ Publish \/ Elapse \/ UNCHANGED vars
  BY <1>3 DEF ProcessDone, ProcessError, Publish, Elapse, vars
<1> QED BY <1>1, <1>2, <1>3 DEF Next, Process

(* A call that leaves the scan open has delivered a row and moved the      *)
(* cursor: the window strictly back when it excludes its end, never        *)
(* forward when it does not, the page number strictly up.                  *)
THEOREM CursorAlwaysMoves == Spec => CursorMoves
<1>1. IInv /\ [Next]_vars =>
        [state' # state /\ ~state'.done =>
           /\ delivered' > delivered
           /\ IsGdelt   => WindowMoves(state.window_end_iso, state'.window_end_iso)
           /\ IsNewsApi => state'.next_page > state.next_page]_vars
  BY CursorStep
<1> QED BY <1>1, Invariance, PTL DEF Spec, CursorMoves
=============================================================================
