------------------------- MODULE NewsScanPageProofs -------------------------
(***************************************************************************)
(* What a scan delivers of the look-back: proofs that GDELT's windows lose *)
(* articles only at their edges, that nothing is jumped over where the     *)
(* services allow it, that NewsAPI's pages share no article while nothing  *)
(* moves, and that a scan that ends short has delivered all there was.     *)
(***************************************************************************)
EXTENDS NewsScanProofs

-----------------------------------------------------------------------------
(* Cuts of a list                                                          *)

(* Newer articles come before older ones, so a cut keeps them.             *)
LEMMA NewestIsUpwardClosed ==
  ASSUME NEW S, S \subseteq Nat, IsFiniteSet(S), NEW k \in Nat,
         NEW a \in Newest(k, S), NEW b \in S, b > a
  PROVE  b \in Newest(k, S)
<1> DEFINE AboveA == {x \in S : x > a}
           AboveB == {x \in S : x > b}
<1>1. AboveB \subseteq AboveA
  <2>1. a \in Nat /\ b \in Nat
    BY DEF Newest
  <2> SUFFICES ASSUME NEW x \in S, x > b PROVE x > a
    OBVIOUS
  <2> QED BY <2>1
<1>2. IsFiniteSet(AboveA) /\ IsFiniteSet(AboveB)
  BY FS_Subset
<1>3. /\ Cardinality(AboveB) <= Cardinality(AboveA)
      /\ Cardinality(AboveA) \in Nat /\ Cardinality(AboveB) \in Nat
  BY <1>1, <1>2, FS_Subset, FS_CardinalityType
<1>4. Cardinality(AboveA) < k
  BY DEF Newest, Rank
<1>5. Cardinality(AboveB) < k
  BY <1>3, <1>4
<1> QED BY <1>5 DEF Newest, Rank

(* A non-empty set of bounded naturals has a largest element.              *)
LEMMA GreatestNatural ==
  ASSUME NEW N \in Nat, NEW S, S \subseteq 0 .. N, S # {}
  PROVE  \E m \in S : \A n \in S : n <= m
<1> DEFINE D == {N - x : x \in S}
<1>1. D \subseteq Nat /\ D # {}
  <2>1. \A x \in S : N - x \in Nat
    <3> SUFFICES ASSUME NEW x \in S PROVE N - x \in Nat
      OBVIOUS
    <3>1. x \in 0 .. N
      OBVIOUS
    <3> QED BY <3>1
  <2>2. D # {}
    OBVIOUS
  <2> QED BY <2>1, <2>2
<1>2. PICK d \in D : \A e \in D : d <= e
  BY <1>1, LeastNatural
<1>3. PICK m \in S : d = N - m
  BY <1>2
<1>4. ASSUME NEW n \in S PROVE n <= m
  <2>1. N - n \in D
    OBVIOUS
  <2>2. N - m <= N - n
    BY <1>2, <1>3, <2>1
  <2> QED BY <2>2
<1> QED BY <1>4

(* A cut at k that leaves fewer than k articles left none out.             *)
LEMMA ShortCutIsWhole ==
  ASSUME NEW N \in Nat, NEW S, S \subseteq 0 .. N, IsFiniteSet(S), NEW k \in Nat,
         Cardinality(Newest(k, S)) < k
  PROVE  Newest(k, S) = S
<1> DEFINE T == Newest(k, S)
<1>1. T \subseteq S /\ IsFiniteSet(T)
  BY FS_Subset DEF Newest
<1>2. SUFFICES ASSUME S \ T # {} PROVE FALSE
  BY <1>1
<1>3. PICK a \in S \ T : \A n \in S \ T : n <= a
  <2> HIDE DEF T
  <2>1. S \ T \subseteq 0 .. N
    OBVIOUS
  <2> QED BY <1>2, <2>1, GreatestNatural
<1> DEFINE Above == {b \in S : b > a}
<1>4. Above \subseteq T
  <2>1. ASSUME NEW b \in Above, b \notin T PROVE FALSE
    <3>1. b \in S \ T /\ b > a
      BY <2>1
    <3>2. b <= a
      BY <1>3, <3>1
    <3> QED BY <3>1, <3>2
  <2> QED BY <2>1
<1>5. Cardinality(Above) <= Cardinality(T)
  BY <1>1, <1>4, FS_Subset
<1>6. Cardinality(Above) \in Nat /\ Cardinality(T) \in Nat
  BY <1>1, FS_Subset, FS_CardinalityType
<1>7. ~(Cardinality(Above) < k)
  BY <1>3 DEF Newest, Rank
<1> QED BY <1>5, <1>6, <1>7

-----------------------------------------------------------------------------
(* The feed is in the order of time.                                       *)

Ordered == \A i, j \in DOMAIN feed :
  feed[i].date <= now /\ (i <= j => feed[i].date <= feed[j].date)

(* The feed is in order when the scan starts.                              *)
LEMMA InitOrdered == Init => Ordered
BY OrderAssumption DEF Init, Ordered

(* An article is published with the present date.                          *)
LEMMA OrderedStep == IInv /\ Ordered /\ [Next]_vars => Ordered'
<1> SUFFICES ASSUME IInv, Ordered, [Next]_vars PROVE Ordered'
  OBVIOUS
<1>1. TypeOK
  BY DEF IInv
<1>2. CASE Publish
  <2>1. PICK kind \in Kinds : feed' = Append(feed, [date |-> now, kind |-> kind])
    BY <1>2 DEF Publish
  <2>2. /\ DOMAIN feed = 1 .. Len(feed) /\ Len(feed) \in Nat
        /\ DOMAIN feed' = 1 .. Len(feed) + 1
        /\ \A i \in DOMAIN feed : feed'[i] = feed[i]
        /\ feed'[Len(feed) + 1].date = now
        /\ now' = now /\ now \in Nat
    BY <1>1, <1>2, <2>1 DEF TypeOK, Publish
  <2>3. \A i \in DOMAIN feed' : feed'[i].date <= now
    <3> SUFFICES ASSUME NEW i \in DOMAIN feed' PROVE feed'[i].date <= now
      OBVIOUS
    <3>1. CASE i \in DOMAIN feed
      BY <2>2, <3>1 DEF Ordered
    <3>2. CASE i = Len(feed) + 1
      BY <2>2, <3>2
    <3> QED BY <2>2, <3>1, <3>2
  <2>4. ASSUME NEW i \in DOMAIN feed', NEW j \in DOMAIN feed', i <= j
        PROVE  feed'[i].date <= feed'[j].date
    <3>1. CASE j \in DOMAIN feed
      <4>1. i \in DOMAIN feed
        BY <2>2, <2>4, <3>1
      <4> QED BY <2>2, <2>4, <3>1, <4>1 DEF Ordered
    <3>2. CASE j = Len(feed) + 1
      BY <2>2, <2>3, <3>2
    <3> QED BY <2>2, <3>1, <3>2
  <2> QED BY <2>2, <2>3, <2>4 DEF Ordered
<1>3. CASE Elapse
  <2>1. \A i \in DOMAIN feed : feed[i].date \in Nat
    BY <1>1, FeedTyped
  <2>2. now' = now + 1 /\ feed' = feed /\ now \in Nat
    BY <1>1, <1>3 DEF Elapse, TypeOK
  <2> QED BY <2>1, <2>2 DEF Ordered
<1>4. CASE Process \/ UNCHANGED vars
  <2>1. feed' = feed /\ now' = now
    BY <1>4 DEF Process, ProcessDone, ProcessGdelt, ProcessNewsApi, ProcessError, Deliver, Received, Advance, AskedAt, vars
  <2> QED BY <2>1 DEF Ordered
<1> QED BY <1>2, <1>3, <1>4 DEF Next

-----------------------------------------------------------------------------
(* Ranks and pages                                                         *)

(* An article has no more above it in a list than in another that holds    *)
(* all of them.                                                            *)
LEMMA RankGrows ==
  ASSUME NEW S, NEW T, IsFiniteSet(T), NEW b, {x \in S : x > b} \subseteq T
  PROVE  Rank(b, S) \in Nat /\ Rank(b, T) \in Nat /\ Rank(b, S) <= Rank(b, T)
<1> DEFINE AboveS == {x \in S : x > b}
           AboveT == {x \in T : x > b}
<1>1. AboveS \subseteq AboveT /\ IsFiniteSet(AboveT)
  BY FS_Subset
<1>2. /\ IsFiniteSet(AboveS)
      /\ Cardinality(AboveS) <= Cardinality(AboveT)
  BY <1>1, FS_Subset
<1> QED BY <1>1, <1>2, FS_CardinalityType DEF Rank

(* A list holds an article besides those above it.                         *)
LEMMA RankBelowTotal ==
  ASSUME NEW S, S \subseteq Nat, IsFiniteSet(S), NEW a \in S
  PROVE  Rank(a, S) \in Nat /\ Rank(a, S) < Cardinality(S)
<1> DEFINE Above == {x \in S : x > a}
<1>1. Above \subseteq S /\ a \notin Above
  OBVIOUS
<1>2. /\ IsFiniteSet(Above) /\ Cardinality(Above) \in Nat
      /\ Cardinality(S) \in Nat
      /\ Cardinality(Above) <= Cardinality(S)
      /\ Cardinality(Above) = Cardinality(S) => Above = S
  BY <1>1, FS_Subset, FS_CardinalityType
<1>3. Above # S
  BY <1>1
<1> QED BY <1>2, <1>3 DEF Rank

(* What lies between two cuts of a list.                                   *)
Slice(k, m, S) == {a \in S : k <= Rank(a, S) /\ Rank(a, S) < m}

(* It is what the longer cut holds and the shorter one does not.           *)
LEMMA SliceIsDifference ==
  ASSUME NEW S, S \subseteq Nat, IsFiniteSet(S), NEW k \in Nat, NEW m \in Nat, k <= m
  PROVE  /\ IsFiniteSet(Slice(k, m, S))
         /\ Cardinality(Slice(k, m, S)) = Cardinality(Newest(m, S)) - Cardinality(Newest(k, S))
<1>1. \A a \in S : Rank(a, S) \in Nat
  BY RankBelowTotal
<1>2. Slice(k, m, S) = Newest(m, S) \ Newest(k, S)
  <2>1. ASSUME NEW a PROVE a \in Slice(k, m, S) <=> a \in Newest(m, S) /\ a \notin Newest(k, S)
    <3>1. CASE a \in S
      <4>1. Rank(a, S) \in Nat
        BY <1>1, <3>1
      <4> QED BY <3>1, <4>1 DEF Slice, Newest
    <3>2. CASE a \notin S
      BY <3>2 DEF Slice, Newest
    <3> QED BY <3>1, <3>2
  <2> QED BY <2>1
<1>3. Newest(m, S) \cap Newest(k, S) = Newest(k, S)
  <2>1. ASSUME NEW a \in Newest(k, S) PROVE a \in Newest(m, S)
    BY <1>1 DEF Newest
  <2> QED BY <2>1
<1>4. IsFiniteSet(Newest(m, S))
  BY NewestIsShort
<1> QED BY <1>2, <1>3, <1>4, FS_Difference

(* The sizes of the cuts.                                                  *)
LEMMA CutSizes ==
  ASSUME NEW S, S \subseteq Nat, IsFiniteSet(S), NEW k \in Nat
  PROVE  Cardinality(Newest(k, S)) \in Nat /\ Cardinality(Newest(k, S)) <= k
<1>1. IsFiniteSet(Newest(k, S)) /\ Cardinality(Newest(k, S)) <= k
  BY NewestIsShort
<1> QED BY <1>1, FS_CardinalityType

(* A page has no more entries than its size.                               *)
LEMMA SliceIsShort ==
  ASSUME NEW N \in Nat, NEW S, S \subseteq 0 .. N, IsFiniteSet(S),
         NEW k \in Nat, NEW m \in Nat, k <= m
  PROVE  /\ IsFiniteSet(Slice(k, m, S))
         /\ Cardinality(Slice(k, m, S)) \in Nat
         /\ Cardinality(Slice(k, m, S)) <= m - k
<1>1. S \subseteq Nat
  OBVIOUS
<1>2. /\ IsFiniteSet(Slice(k, m, S))
      /\ Cardinality(Slice(k, m, S)) = Cardinality(Newest(m, S)) - Cardinality(Newest(k, S))
  BY <1>1, SliceIsDifference
<1>3. /\ Cardinality(Newest(m, S)) \in Nat /\ Cardinality(Newest(m, S)) <= m
      /\ Cardinality(Newest(k, S)) \in Nat
  BY <1>1, CutSizes
<1>4. Cardinality(Slice(k, m, S)) \in Nat
  BY <1>2, FS_CardinalityType
<1>5. CASE Cardinality(Newest(k, S)) >= k
  BY <1>2, <1>3, <1>4, <1>5
<1>6. CASE Cardinality(Newest(k, S)) < k
  <2>1. Newest(k, S) = S
    BY <1>6, ShortCutIsWhole
  <2>2. \A a \in S : Rank(a, S) \in Nat /\ Rank(a, S) < k
    BY <1>1, <2>1, RankBelowTotal DEF Newest
  <2>3. Slice(k, m, S) = {}
    <3>1. ASSUME NEW a \in Slice(k, m, S) PROVE FALSE
      <4>1. a \in S /\ k <= Rank(a, S)
        BY DEF Slice
      <4> QED BY <2>2, <4>1
    <3> QED BY <3>1
  <2> QED BY <1>2, <1>4, <2>3, FS_EmptySet
<1> QED BY <1>3, <1>5, <1>6

(* Nothing comes after a page that is not full.                            *)
LEMMA ShortSliceIsLast ==
  ASSUME NEW N \in Nat, NEW S, S \subseteq 0 .. N, IsFiniteSet(S),
         NEW k \in Nat, NEW m \in Nat, k <= m,
         Cardinality(Slice(k, m, S)) < m - k
  PROVE  \A a \in S : Rank(a, S) < m
<1>1. S \subseteq Nat
  OBVIOUS
<1>2. Cardinality(Slice(k, m, S)) = Cardinality(Newest(m, S)) - Cardinality(Newest(k, S))
  BY <1>1, SliceIsDifference
<1>3. /\ Cardinality(Newest(m, S)) \in Nat
      /\ Cardinality(Newest(k, S)) \in Nat /\ Cardinality(Newest(k, S)) <= k
  BY <1>1, CutSizes
<1>4. Cardinality(Newest(m, S)) < m
  BY <1>2, <1>3
<1>5. Newest(m, S) = S
  BY <1>4, ShortCutIsWhole
<1> QED BY <1>5 DEF Newest

(* A newer article stands higher in the list.                              *)
LEMMA RankFalls ==
  ASSUME NEW S, S \subseteq Nat, IsFiniteSet(S), NEW a \in Nat, NEW b \in Nat, b > a
  PROVE  Rank(b, S) \in Nat /\ Rank(a, S) \in Nat /\ Rank(b, S) <= Rank(a, S)
<1> DEFINE AboveA == {x \in S : x > a}
           AboveB == {x \in S : x > b}
<1>1. AboveB \subseteq AboveA
  <2> SUFFICES ASSUME NEW x \in S, x > b PROVE x > a
    OBVIOUS
  <2> QED OBVIOUS
<1>2. IsFiniteSet(AboveA) /\ IsFiniteSet(AboveB)
  BY FS_Subset
<1>3. Cardinality(AboveB) <= Cardinality(AboveA)
  BY <1>1, <1>2, FS_Subset
<1> QED BY <1>2, <1>3, FS_CardinalityType DEF Rank

(* Two multiples of s that differ, differ by s at least.                   *)
LEMMA MultiplesApart ==
  ASSUME NEW s \in Nat, NEW q \in Nat, NEW k \in Nat, q * s > k * s
  PROVE  q * s - k * s >= s
<1>1. ASSUME q <= k PROVE FALSE
  <2>1. PICK d \in Nat : k = q + d
    <3>1. k - q \in Nat /\ k = q + (k - q)
      BY <1>1
    <3> QED BY <3>1
  <2>2. k * s = q * s + d * s /\ d * s \in Nat /\ q * s \in Nat
    BY <2>1
  <2> QED BY <2>2
<1>2. PICK e \in Nat : q = k + 1 + e
  <2>1. q - k - 1 \in Nat /\ q = k + 1 + (q - k - 1)
    BY <1>1
  <2> QED BY <2>1
<1>3. q * s = k * s + s + e * s /\ e * s \in Nat /\ k * s \in Nat
  BY <1>2
<1> QED BY <1>3

(* A number without a remainder.                                           *)
LEMMA MultipleOf ==
  ASSUME NEW n \in Nat, NEW s \in Nat \ {0}, n % s = 0
  PROVE  \E q \in Nat : n = q * s
<1>1. n = s * (n \div s) + (n % s)
  OBVIOUS
<1>2. PICK q \in Nat : q = n \div s
  <2>1. n \div s \in Nat
    OBVIOUS
  <2> QED BY <2>1
<1>3. n = q * s
  BY <1>1, <1>2
<1> QED BY <1>3

-----------------------------------------------------------------------------
(* How a scan stands                                                       *)

(* A scan stands somewhere: at a state s, with the articles o received,    *)
(* those of ag more than once, its first page asked for at k.  The engine  *)
(* stands at its own variables; a reply under way stands where its arrival *)
(* will leave the engine.  Feed, clock and arguments are those of now.     *)

(* The articles the look-back covered when the first page was asked for.   *)
Covered(k) == {a \in 1 .. k.upto : /\ feed[a].date >= k.at - args.timespan
                                   /\ feed[a].kind # "odd"}
Still(k)   == k.at = now /\ k.upto = Len(feed)

(* The page size of the scan, and that of the request at hand.             *)
Size    == PageSizeAsked(args.page_size)
SizeNow == PageSizeAsked(ThisCount)

(* What a NewsAPI request lists now, and which ranks of it its page holds. *)
Listed == Matching(feed, TimespanToFrom(args.timespan, now))
First  == (state.next_page - 1) * SizeNow
Beyond == state.next_page * SizeNow

(* A GDELT scan that goes on has received an article of the very second    *)
(* its window ends at.                                                     *)
EndReceived(s, o) == IsGdelt /\ ~Over(s) /\ s.started =>
  \E c \in o : feed[c].date = s.window_end_iso

(* What it has jumped over shares its second with one it received.         *)
EdgesOnly(o, k) == IsGdelt =>
  \A a \in o, b \in Covered(k) : b > a => \E c \in o : feed[c].date = feed[b].date

(* The clock has not gone back since the first page, and every page asked  *)
(* for articles no older than the look-back before it.                     *)
KeepsLookBack(s, o, k) ==
  /\ s.started => k.at <= now
  /\ IsNewsApi /\ args.timespan \in MappedTimespans =>
       \A a \in o : feed[a].date >= k.at - args.timespan

(* While a NewsAPI scan is open, it has received whole pages of one size.  *)
PagesWhole(s) == IsNewsApi /\ ~Over(s) => s.emitted = (s.next_page - 1) * Size

(* What stands as high in the list as the articles counted so far, and the *)
(* first request covered, has been received: publishing only moves it down *)
(* the list, and the clock only takes articles off its end.                *)
NewerReceived(s, o, k) == IsNewsApi /\ ~Over(s) =>
  \A b \in Covered(k) \cap Listed : Rank(b, Listed) < s.emitted => b \in o

(* If nothing has moved, it has received nothing else.                     *)
NothingElse(s, o, k) == IsNewsApi /\ Still(k) /\ ~Over(s) =>
  \A a \in o : a \in Listed /\ Rank(a, Listed) < s.emitted

(* NoGap, PagesDisjoint and CompleteWhenShort of a scan that stands there. *)
GapFree(o, k) == (IsGdelt /\ EndInclusive) \/ (IsNewsApi /\ PagesLineUp) =>
  \A a \in o, b \in Covered(k) : b > a => b \in o

Disjoint(ag, k) == IsNewsApi /\ PagesLineUp /\ Still(k) => ag = {}

Complete(s, o, k) ==
  Over(s) /\ s.emitted < args.count /\ PagesTell /\ (IsNewsApi => PagesLineUp) =>
    \A a \in Covered(k) :
      \/ a \in o
      \/ IsGdelt /\ ~EndInclusive /\ \E c \in o : feed[c].date = feed[a].date
      \/ IsNewsApi /\ feed[a].date < now - args.timespan

Behind(s, o, ag, k) ==
  /\ EndReceived(s, o) /\ EdgesOnly(o, k) /\ KeepsLookBack(s, o, k)
  /\ PagesWhole(s) /\ NewerReceived(s, o, k) /\ NothingElse(s, o, k)
  /\ GapFree(o, k) /\ Disjoint(ag, k) /\ Complete(s, o, k)

PageInv == Ordered /\ Behind(state, out, again, asked)

(* Where a page would leave the engine.                                    *)
Leaves(page, t, o, ag, k) == /\ t = Advance(page)
                             /\ o = out \cup CutRows(page)
                             /\ ag = again \cup (out \cap CutRows(page))
                             /\ k = AskedAt

(* What it makes of the look-back.                                         *)
LEMMA CoveredByPage ==
  ASSUME TypeOK, NEW k, k = AskedAt
  PROVE  /\ k \in [at : Nat, upto : 0 .. Len(feed)]
         /\ Covered(k) \subseteq DOMAIN feed
         /\ \A b \in Covered(k) : feed[b].kind # "odd"
         /\ state.started => k = asked
         /\ ~state.started => k = [at |-> now, upto |-> Len(feed)]
<1>1. k \in [at : Nat, upto : 0 .. Len(feed)]
  BY DEF TypeOK, AskedAt
<1>2. DOMAIN feed = 1 .. Len(feed) /\ Len(feed) \in Nat
  BY DEF TypeOK
<1>3. Covered(k) \subseteq DOMAIN feed
  BY <1>1, <1>2 DEF Covered
<1> QED BY <1>1, <1>3 DEF Covered, AskedAt

-----------------------------------------------------------------------------
(* A GDELT page                                                            *)

GdeltPageNow(page, extra) ==
  /\ ~Exhausted /\ IsGdelt
  /\ page = GdeltSearch(feed, ThisCount, state.window_end_iso, now - args.timespan, extra)

(* Every article a request selects that is newer than one it delivered and *)
(* can be made a row of is delivered with it.                              *)
LEMMA PageIsUpwardClosed ==
  ASSUME TypeOK, NEW extra \in Extras, NEW page, GdeltPageNow(page, extra),
         NEW a \in CutRows(page),
         NEW b \in Selected(feed, state.window_end_iso, now - args.timespan),
         b > a, feed[b].kind # "odd"
  PROVE  b \in CutRows(page)
<1> DEFINE selected == Selected(feed, state.window_end_iso, now - args.timespan)
           asks == RecordsAsked(ThisCount)
           answer == Answer(feed, state.window_end_iso, now - args.timespan, asks, extra)
<1>1. DOMAIN feed \subseteq Nat /\ IsFiniteSet(DOMAIN feed)
  BY FeedIsFinite
<1>2. /\ args.count \in Nat /\ args.page_size \in Nat /\ state.emitted \in Nat
      /\ state.emitted < args.count
  BY ArgsTyped DEF TypeOK, Exhausted, GdeltPageNow
<1>3. Remaining \in Nat /\ ThisCount \in Nat
  BY <1>2 DEF Remaining, ThisCount, Lesser
<1>4. asks \in Nat /\ asks + extra \in Nat
  BY <1>3, GdeltAssumption DEF RecordsAsked, Greater, Lesser
<1>5. selected \subseteq DOMAIN feed
  BY DEF Selected, Since, BeforeWindowEnd
<1>6. selected \subseteq Nat /\ IsFiniteSet(selected)
  BY <1>1, <1>5, FS_Subset
<1>7. page.rows = Mapped(feed, answer) /\ answer = Newest(asks + extra, selected)
  BY DEF GdeltPageNow, GdeltSearch, PageResult, Answer
<1>8. a \in page.rows /\ a \in answer
  BY <1>7 DEF CutRows, Newest, Mapped
<1> HIDE DEF asks, selected
<1>9. b \in Newest(asks + extra, selected)
  <2>1. b \in selected
    BY DEF selected
  <2> QED BY <1>4, <1>6, <1>7, <1>8, <2>1, NewestIsUpwardClosed
<1>10. b \in page.rows
  BY <1>7, <1>9 DEF Mapped
<1>11. page.rows \subseteq Nat /\ IsFiniteSet(page.rows)
  <2>1. page.rows \subseteq selected
    BY <1>7 DEF Mapped, Newest
  <2> QED BY <1>6, <2>1, FS_Subset
<1> QED BY <1>3, <1>10, <1>11, NewestIsUpwardClosed DEF CutRows

(* Articles without a date are too few to fill a page that leaves the scan *)
(* short of `count`: it was asked for at the scan's page size.             *)
LEMMA UndatedPageIsShort ==
  ASSUME TypeOK, PagesTell, IsGdelt, ~Exhausted, NEW S, S \subseteq DOMAIN feed,
         Dates(feed, S) = {}, state.emitted + Cardinality(S) < args.count
  PROVE  Cardinality(S) < RecordsAsked(ThisCount)
<1>1. IsFiniteSet(DOMAIN feed)
  BY FeedIsFinite
<1>2. S \subseteq Undated
  <2> SUFFICES ASSUME NEW a \in S PROVE a \in Undated
    OBVIOUS
  <2>1. feed[a].kind # "odd" /\ feed[a].kind # "plain"
    BY DEF Dates, PagesTell
  <2>2. feed[a] \in Article
    BY DEF TypeOK
  <2>3. feed[a].kind \in {"plain", "undated", "odd"}
    BY <2>2, KindsAssumption DEF Article
  <2> QED BY <2>1, <2>3 DEF Undated
<1>3. IsFiniteSet(Undated) /\ IsFiniteSet(S)
  BY <1>1, FS_Subset DEF Undated
<1>4. /\ Cardinality(S) <= Cardinality(Undated)
      /\ Cardinality(S) \in Nat /\ Cardinality(Undated) \in Nat
  BY <1>2, <1>3, FS_Subset, FS_CardinalityType
<1>5. Cardinality(Undated) < RecordsAsked(args.page_size)
  BY DEF PagesTell
<1>6. /\ args.count \in Nat /\ args.page_size \in Nat \ {0} /\ state.emitted \in Nat
      /\ state.emitted < args.count
  BY ArgsTyped DEF TypeOK, Exhausted
<1>7. MaxRecords \in Nat \ {0}
  BY GdeltAssumption
<1>8. RecordsAsked(ThisCount) \in Nat /\ RecordsAsked(args.page_size) \in Nat
  BY <1>6, <1>7 DEF RecordsAsked, ThisCount, Remaining, Greater, Lesser
<1>9. \/ RecordsAsked(ThisCount) = RecordsAsked(args.page_size)
      \/ RecordsAsked(ThisCount) >= args.count - state.emitted
  BY <1>6, <1>7 DEF RecordsAsked, ThisCount, Remaining, Greater, Lesser
<1> QED BY <1>4, <1>5, <1>6, <1>8, <1>9

(* A page that ends a scan short of `count` holds all its request selects, *)
(* if every entry is an object and some date of a full page can be read.   *)
LEMMA LastWindowIsWhole ==
  ASSUME TypeOK, NEW extra \in Extras, NEW page, GdeltPageNow(page, extra),
         NEW t, t = Advance(page), Over(t), t.emitted < args.count, PagesTell
  PROVE  CutRows(page) = Selected(feed, state.window_end_iso, now - args.timespan)
<1> DEFINE selected == Selected(feed, state.window_end_iso, now - args.timespan)
           asks == RecordsAsked(ThisCount)
           answer == Answer(feed, state.window_end_iso, now - args.timespan, asks, extra)
           rows == CutRows(page)
<1>1. /\ IsFiniteSet(DOMAIN feed) /\ PageOK(page) /\ page.next_page = None
      /\ DOMAIN feed = 1 .. Len(feed) /\ Len(feed) \in Nat
  BY FeedIsFinite, GdeltPage DEF TypeOK, GdeltPageNow
<1>2. /\ args.count \in Nat /\ args.page_size \in Nat /\ state.emitted \in Nat
      /\ state.emitted < args.count /\ extra \in Nat
  BY ArgsTyped, GdeltAssumption DEF TypeOK, Exhausted, GdeltPageNow
<1>3. /\ asks \in Nat \ {0} /\ asks + extra \in Nat /\ asks <= asks + extra
      /\ Remaining \in Nat \ {0} /\ Remaining = args.count - state.emitted
  BY <1>2, GdeltAssumption
     DEF RecordsAsked, ThisCount, Remaining, Greater, Lesser
<1>4. selected \subseteq DOMAIN feed
  BY DEF Selected, Since, BeforeWindowEnd
<1>5. answer = Newest(asks + extra, selected) /\ answer \subseteq selected
  BY DEF Answer, Newest
<1>6. page.rows = answer /\ page.next_window_end = NextWindowEnd(feed, answer, asks)
  <2>1. Mapped(feed, answer) = answer
    BY <1>4, <1>5 DEF Mapped, PagesTell
  <2> QED BY <2>1 DEF GdeltPageNow, GdeltSearch, PageResult
<1>7. /\ rows \subseteq page.rows /\ Cardinality(rows) \in Nat
      /\ t.emitted = state.emitted + Cardinality(rows)
      /\ DoneAfter(page, rows)
  BY <1>1, AdvanceFacts DEF GdeltPageNow
<1> HIDE DEF asks, answer, selected, rows
<1>8. selected \subseteq 0 .. Len(feed) /\ IsFiniteSet(selected)
  BY <1>1, <1>4, FS_Subset
<1>9. answer \subseteq 0 .. Len(feed) /\ IsFiniteSet(answer) /\ Cardinality(answer) \in Nat
  BY <1>5, <1>8, FS_Subset, FS_CardinalityType
<1>10. rows = answer
  <2>1. Cardinality(rows) < Remaining
    BY <1>2, <1>3, <1>7
  <2> QED BY <1>1, <1>3, <1>6, <1>9, <2>1, ShortCutIsWhole DEF CutRows, rows
<1>11. page.next_window_end = None \/ answer = {}
  BY <1>1, <1>2, <1>7, <1>10 DEF DoneAfter, EmittedAfter
<1>12. Cardinality(answer) < asks
  <2>1. CASE answer = {}
    BY <1>3, <2>1, FS_EmptySet
  <2>2. CASE answer # {}
    <3>1. Dates(feed, answer) = {} => Cardinality(answer) < asks
      BY <1>2, <1>4, <1>5, <1>7, <1>10, UndatedPageIsShort DEF GdeltPageNow, asks
    <3>2. Dates(feed, answer) \subseteq Nat
      BY <1>1, <1>4, <1>5, FeedTyped DEF Dates
    <3>3. Dates(feed, answer) # {} => Min(Dates(feed, answer)) # None
      BY <3>2, MinOfNaturals, NoneAssumption
    <3>4. Dates(feed, answer) # {} => ~(Cardinality(answer) >= asks)
      BY <1>6, <1>11, <2>2, <3>3 DEF NextWindowEnd
    <3> QED BY <1>3, <1>9, <3>1, <3>4
  <2> QED BY <2>1, <2>2
<1>13. Cardinality(Newest(asks + extra, selected)) < asks + extra
  BY <1>2, <1>3, <1>5, <1>9, <1>12
<1>14. answer = selected
  BY <1>1, <1>3, <1>5, <1>8, <1>13, ShortCutIsWhole
<1> QED BY <1>10, <1>14 DEF rows, selected

(* What a page leaves out of the look-back the window had passed: the      *)
(* articles of its own end second, and those above one received.           *)
LEMMA OutsideTheWindow ==
  ASSUME IInv, PageInv, ~Exhausted, IsGdelt, NEW k, k = AskedAt,
         NEW b \in Covered(k),
         b \notin Selected(feed, state.window_end_iso, now - args.timespan)
  PROVE  /\ state.started /\ k = asked
         /\ \/ /\ ~EndInclusive
               /\ \E c \in out : feed[c].date = feed[b].date
            \/ \E c \in out : b > c
<1> DEFINE W == state.window_end_iso
<1>1. TypeOK
  BY DEF IInv
<1>2. /\ b \in DOMAIN feed /\ feed[b].kind # "odd"
      /\ state.started => k = asked
      /\ ~state.started => k = [at |-> now, upto |-> Len(feed)]
  BY <1>1, CoveredByPage
<1>3. \A i \in DOMAIN feed : feed[i].date \in Nat /\ i \in Nat
  BY <1>1, FeedTyped, FeedIsFinite
<1>4. state.started
  <2>1. SUFFICES ASSUME ~state.started PROVE FALSE
    OBVIOUS
  <2>2. W = None
    BY <2>1 DEF IInv, CursorAgrees, initial_state
  <2>3. feed[b].date >= now - args.timespan
    BY <1>2, <2>1 DEF Covered
  <2> QED BY <1>2, <2>2, <2>3 DEF Selected, Since
<1>5. PICK c \in out : feed[c].date = W
  BY <1>4 DEF PageInv, Behind, EndReceived, Exhausted, Over
<1>6. c \in DOMAIN feed /\ W \in Nat /\ W # None
  BY <1>1, <1>3, <1>5, NoneAssumption DEF TypeOK
<1>7. ~(feed[b].date < W) /\ ~(EndInclusive /\ feed[b].date = W)
  BY <1>2, <1>6 DEF Selected, BeforeWindowEnd
<1>8. CASE feed[b].date = W
  BY <1>2, <1>4, <1>5, <1>7, <1>8
<1>9. CASE feed[b].date > W
  <2>1. ~(b <= c)
    BY <1>2, <1>3, <1>5, <1>6, <1>9 DEF PageInv, Ordered
  <2>2. b > c
    BY <1>2, <1>3, <1>6, <2>1
  <2> QED BY <1>2, <1>4, <1>5, <2>2
<1> QED BY <1>2, <1>3, <1>6, <1>7, <1>8, <1>9

(* A GDELT page closes what was received upwards, edges excepted, takes up *)
(* where the last one stopped, and the last one takes all that is left.    *)
LEMMA GdeltLeaves ==
  ASSUME IInv, PageInv, NEW extra \in Extras, NEW page, GdeltPageNow(page, extra),
         NEW t, NEW o, NEW ag, NEW k, Leaves(page, t, o, ag, k)
  PROVE  Behind(t, o, ag, k)
<1> DEFINE W == state.window_end_iso
           selected == Selected(feed, W, now - args.timespan)
           rows == CutRows(page)
           end  == page.next_window_end
<1>1. TypeOK /\ ~Exhausted /\ IsGdelt /\ ~IsNewsApi
  BY DEF IInv, GdeltPageNow, IsGdelt, IsNewsApi
<1>2. /\ t = Advance(page) /\ o = out \cup rows /\ k = AskedAt
  BY DEF Leaves
<1>3. /\ PageOK(page) /\ page.next_page = None
      /\ end # None => \E c \in page.rows : feed[c].date = end
  BY <1>1, GdeltPage DEF GdeltPageNow
<1>4. \A a \in rows, b \in selected : b > a /\ feed[b].kind # "odd" => b \in rows
  BY <1>1, PageIsUpwardClosed
<1>5. /\ rows \subseteq page.rows /\ rows \subseteq DOMAIN feed
      /\ Cardinality(rows) \in Nat
      /\ t.emitted = state.emitted + Cardinality(rows)
      /\ t.done = DoneAfter(page, rows) /\ (t.done <=> Over(t))
      /\ t.window_end_iso = IF end # None THEN end ELSE W
  BY <1>1, <1>2, <1>3, AdvanceFacts
<1>6. Over(t) /\ t.emitted < args.count /\ PagesTell => rows = selected
  BY <1>1, <1>2, LastWindowIsWhole
<1>7. /\ k \in [at : Nat, upto : 0 .. Len(feed)]
      /\ Covered(k) \subseteq DOMAIN feed
      /\ \A b \in Covered(k) : feed[b].kind # "odd"
      /\ state.started => k = asked
      /\ ~state.started => k = [at |-> now, upto |-> Len(feed)]
  BY <1>1, <1>2, CoveredByPage
<1>8. \A a \in out : k = asked
  BY <1>7 DEF IInv, CursorAgrees
<1>9. ASSUME NEW b \in Covered(k), b \notin selected
      PROVE  /\ k = asked
             /\ \/ ~EndInclusive /\ \E c \in out : feed[c].date = feed[b].date
                \/ \E c \in out : b > c
  BY <1>1, <1>2, <1>9, OutsideTheWindow
<1>10. EndReceived(t, o)
  <2>1. SUFFICES ASSUME ~Over(t) PROVE \E c \in o : feed[c].date = t.window_end_iso
    BY DEF EndReceived
  <2>2. end # None /\ ~(EmittedAfter(rows) >= args.count)
    BY <1>3, <1>5, <2>1 DEF DoneAfter
  <2>3. rows = page.rows
    <3>1. page.rows \subseteq 0 .. Len(feed) /\ IsFiniteSet(page.rows) /\ Len(feed) \in Nat
      <4>1. DOMAIN feed = 1 .. Len(feed) /\ Len(feed) \in Nat
        BY <1>1 DEF TypeOK
      <4> QED BY <1>1, <1>3, <4>1, FeedIsFinite, FS_Subset DEF PageOK
    <3>2. Remaining \in Nat /\ Cardinality(Newest(Remaining, page.rows)) < Remaining
      <4>1. state.emitted \in Nat /\ args.count \in Nat /\ state.emitted < args.count
        BY <1>1, ArgsTyped DEF TypeOK, Exhausted
      <4>2. rows = Newest(Remaining, page.rows)
        BY DEF CutRows
      <4> HIDE DEF rows
      <4> QED BY <1>5, <2>2, <4>1, <4>2 DEF Remaining, EmittedAfter
    <3> QED BY <3>1, <3>2, ShortCutIsWhole DEF CutRows
  <2> QED BY <1>2, <1>3, <1>5, <2>2, <2>3
<1> HIDE DEF rows, selected
<1>11. EdgesOnly(o, k)
  <2>1. SUFFICES ASSUME NEW a \in o, NEW b \in Covered(k), b > a
                 PROVE  \E c \in o : feed[c].date = feed[b].date
    BY DEF EdgesOnly
  <2>2. \A c \in out : b > c => \E d \in out : feed[d].date = feed[b].date
    BY <1>1, <1>8 DEF PageInv, Behind, EdgesOnly
  <2>3. CASE a \in rows /\ b \in selected
    BY <1>2, <1>4, <1>7, <2>1, <2>3
  <2> QED BY <1>2, <1>9, <2>1, <2>2, <2>3
<1>12. GapFree(o, k)
  <2>1. SUFFICES ASSUME EndInclusive, NEW a \in o, NEW b \in Covered(k), b > a
                 PROVE  b \in o
    BY <1>1 DEF GapFree
  <2>2. \A c \in out : b > c => b \in out
    BY <1>1, <1>8, <2>1 DEF PageInv, Behind, GapFree
  <2>3. CASE a \in rows /\ b \in selected
    BY <1>2, <1>4, <1>7, <2>1, <2>3
  <2> QED BY <1>2, <1>9, <2>1, <2>2, <2>3
<1>13. Complete(t, o, k)
  <2>1. SUFFICES ASSUME Over(t), t.emitted < args.count, PagesTell, NEW b \in Covered(k)
                 PROVE  b \in o \/ (~EndInclusive /\ \E c \in o : feed[c].date = feed[b].date)
    BY <1>1 DEF Complete
  <2>2. rows = selected
    BY <1>6, <2>1
  <2>3. \A c \in out : b > c =>
          IF EndInclusive THEN b \in out ELSE \E d \in out : feed[d].date = feed[b].date
    BY <1>1, <1>8 DEF PageInv, Behind, GapFree, EdgesOnly
  <2> QED BY <1>2, <1>9, <2>2, <2>3
<1>14. KeepsLookBack(t, o, k)
  <2>1. k.at <= now
    <3>1. now \in Nat /\ asked.at \in Nat
      BY <1>1 DEF TypeOK
    <3> QED BY <1>7, <3>1 DEF PageInv, Behind, KeepsLookBack
  <2> QED BY <1>1, <2>1 DEF KeepsLookBack
<1>15. PagesWhole(t) /\ NewerReceived(t, o, k) /\ NothingElse(t, o, k) /\ Disjoint(ag, k)
  BY <1>1 DEF PagesWhole, NewerReceived, NothingElse, Disjoint
<1> QED BY <1>10, <1>11, <1>12, <1>13, <1>14, <1>15 DEF Behind

-----------------------------------------------------------------------------
(* A NewsAPI page                                                          *)

NewsApiPageNow(page) ==
  /\ ~Exhausted /\ IsNewsApi
  /\ page = NewsApiSearch(feed, ThisCount, args.timespan, now, state.next_page)

(* A fresh scan's next page is 1.                                          *)
LEMMA FreshAsksForOne ==
  ASSUME IInv
  PROVE  (IF state.started THEN state.next_page ELSE 1) = state.next_page
BY DEF IInv, CursorAgrees, initial_state

(* The list in terms of dates.                                             *)
LEMMA Listing ==
  ASSUME TypeOK
  PROVE  /\ Listed \subseteq DOMAIN feed /\ Listed \subseteq Nat
         /\ Len(feed) \in Nat /\ Listed \subseteq 0 .. Len(feed)
         /\ IsFiniteSet(Listed)
         /\ \A a \in DOMAIN feed :
              a \in Listed <=> (args.timespan \in MappedTimespans =>
                                  feed[a].date >= now - args.timespan)
<1>1. Listed \subseteq DOMAIN feed
  BY DEF Listed, Matching, Since
<1>2. DOMAIN feed = 1 .. Len(feed) /\ Len(feed) \in Nat
  BY DEF TypeOK
<1>3. now - args.timespan \in Int
  BY ArgsTyped DEF TypeOK
<1>4. \A a \in DOMAIN feed :
        a \in Listed <=> (args.timespan \in MappedTimespans =>
                            feed[a].date >= now - args.timespan)
  BY <1>3, NoneAssumption DEF Listed, Matching, Since, TimespanToFrom
<1> QED BY <1>1, <1>2, <1>4, FeedIsFinite, FS_Subset

(* A request is for the scan's page size or for all that remains.          *)
LEMMA SizesAsked ==
  ASSUME IInv, ~Exhausted
  PROVE  /\ Size \in Nat \ {0} /\ SizeNow \in Nat \ {0} /\ Remaining \in Nat \ {0}
         /\ SizeNow <= Size
         /\ SizeNow = Size \/ SizeNow = Remaining
<1>1. /\ args.count \in Nat /\ args.page_size \in Nat \ {0} /\ state.emitted \in Nat
      /\ state.emitted < args.count
  BY ArgsTyped DEF IInv, TypeOK, Exhausted
<1> QED BY <1>1, NewsApiAssumption
        DEF Size, SizeNow, PageSizeAsked, ThisCount, Remaining, Lesser, Greater

(* The ranks of a page are as many as its size.                            *)
LEMMA PageRanks ==
  ASSUME IInv, ~Exhausted
  PROVE  First \in Nat /\ Beyond \in Nat /\ Beyond = First + SizeNow
<1>1. SizeNow \in Nat /\ state.next_page \in Nat \ {0}
  BY SizesAsked DEF IInv, TypeOK
<1> QED BY <1>1 DEF First, Beyond

(* The page and its cursor.                                                *)
LEMMA PageHolds ==
  ASSUME IInv, NEW page, NewsApiPageNow(page)
  PROVE  /\ PageOK(page) /\ page.next_window_end = None
         /\ page.rows = {a \in Slice(First, Beyond, Listed) : feed[a].kind # "odd"}
         /\ page.next_page = NextPage(page.rows, state.next_page, SizeNow, Cardinality(Listed))
<1>1. TypeOK /\ state.next_page \in Nat \ {0}
  BY DEF IInv, TypeOK
<1>2. PageOK(page) /\ page.next_window_end = None
  BY <1>1, NewsApiPage DEF NewsApiPageNow
<1>3. PageOf(state.next_page, SizeNow, Listed) = Slice(First, Beyond, Listed)
  BY DEF PageOf, Slice, First, Beyond
<1> QED BY <1>2, <1>3 DEF NewsApiPageNow, NewsApiSearch, PageResult, Mapped, SizeNow, Listed

(* The cut takes the newest, and takes nothing off the page of a scan that *)
(* is still short of `count` afterwards.                                   *)
LEMMA PageIsCut ==
  ASSUME IInv, NEW page, NewsApiPageNow(page), NEW t, t = Advance(page)
  PROVE  /\ CutRows(page) \subseteq page.rows
         /\ \A a \in CutRows(page), b \in page.rows : b > a => b \in CutRows(page)
         /\ t.emitted = state.emitted + Cardinality(CutRows(page))
         /\ Cardinality(CutRows(page)) \in Nat
         /\ t.emitted < args.count => CutRows(page) = page.rows
         /\ t.done <=> Over(t)
         /\ t.done = DoneAfter(page, CutRows(page))
<1>1. TypeOK /\ PageOK(page) /\ ~Exhausted
  BY PageHolds DEF NewsApiPageNow, IInv
<1>2. /\ CutRows(page) \subseteq page.rows
      /\ t.emitted = state.emitted + Cardinality(CutRows(page))
      /\ Cardinality(CutRows(page)) \in Nat
      /\ t.done = DoneAfter(page, CutRows(page)) /\ (t.done <=> Over(t))
  BY <1>1, AdvanceFacts
<1>3. /\ page.rows \subseteq Nat /\ IsFiniteSet(page.rows)
      /\ page.rows \subseteq 0 .. Len(feed) /\ Len(feed) \in Nat
  <2>1. DOMAIN feed = 1 .. Len(feed) /\ Len(feed) \in Nat
    BY <1>1 DEF TypeOK
  <2> QED BY <1>1, <2>1, FeedIsFinite, FS_Subset DEF PageOK
<1>4. Remaining \in Nat /\ args.count \in Nat /\ state.emitted \in Nat
      /\ Remaining = args.count - state.emitted
  BY <1>1, ArgsTyped, SizesAsked DEF TypeOK, Remaining
<1>5. \A a \in CutRows(page), b \in page.rows : b > a => b \in CutRows(page)
  BY <1>3, <1>4, NewestIsUpwardClosed DEF CutRows
<1>6. ASSUME t.emitted < args.count PROVE CutRows(page) = page.rows
  <2>1. Cardinality(CutRows(page)) < Remaining
    BY <1>2, <1>4, <1>6
  <2> QED BY <1>3, <1>4, <2>1, ShortCutIsWhole DEF CutRows
<1> QED BY <1>2, <1>5, <1>6

(* A page that leaves the scan open is a whole one of the scan's page size *)
(* and moves on by one page.                                               *)
LEMMA OpenPageIsWhole ==
  ASSUME IInv, NEW page, NewsApiPageNow(page), NEW t, t = Advance(page), ~Over(t)
  PROVE  /\ CutRows(page) = page.rows
         /\ SizeNow = Size
         /\ t.emitted = state.emitted + Size
         /\ t.next_page = state.next_page + 1
<1>1. /\ ~Exhausted /\ TypeOK
      /\ t.next_page = IF page.next_window_end = None /\ page.next_page # None
                       THEN page.next_page ELSE state.next_page
  BY DEF NewsApiPageNow, Advance, IInv
<1>2. args.count \in Nat /\ state.emitted \in Nat
  BY <1>1, ArgsTyped DEF TypeOK
<1>3. /\ t.emitted = state.emitted + Cardinality(CutRows(page))
      /\ Cardinality(CutRows(page)) \in Nat
      /\ t.emitted < args.count => CutRows(page) = page.rows
      /\ ~DoneAfter(page, CutRows(page))
  BY PageIsCut
<1>4. t.emitted < args.count
  BY <1>2, <1>3 DEF Over
<1>5. CutRows(page) = page.rows
  BY <1>3, <1>4
<1>6. page.next_window_end = None /\ page.next_page # None
  BY <1>3, PageHolds DEF DoneAfter
<1>7. Cardinality(page.rows) >= SizeNow /\ page.next_page = state.next_page + 1
  BY <1>6, PageHolds DEF NextPage
<1>8. SizeNow \in Nat /\ Size \in Nat /\ Remaining = args.count - state.emitted
      /\ (SizeNow = Size \/ SizeNow = Remaining)
  BY <1>1, SizesAsked DEF Remaining
<1>9. Cardinality(page.rows) <= SizeNow
  <2>1. /\ IsFiniteSet(Slice(First, Beyond, Listed))
        /\ Cardinality(Slice(First, Beyond, Listed)) \in Nat
        /\ Cardinality(Slice(First, Beyond, Listed)) <= SizeNow
    <3>1. First \in Nat /\ Beyond \in Nat /\ First <= Beyond /\ Beyond - First = SizeNow
      BY <1>1, <1>8, PageRanks
    <3> QED BY <1>1, <3>1, Listing, SliceIsShort
  <2>2. page.rows \subseteq Slice(First, Beyond, Listed)
    BY PageHolds
  <2>3. Cardinality(page.rows) <= Cardinality(Slice(First, Beyond, Listed))
    BY <2>1, <2>2, FS_Subset
  <2> QED BY <1>3, <1>5, <1>8, <2>1, <2>3
<1>10. Cardinality(page.rows) = SizeNow
  BY <1>3, <1>5, <1>7, <1>8, <1>9
<1>11. SizeNow = Size
  BY <1>2, <1>3, <1>4, <1>5, <1>8, <1>10
<1> QED BY <1>1, <1>3, <1>5, <1>6, <1>7, <1>10, <1>11

(* A page that ends a scan short of `count` has reached the end of a list  *)
(* whose entries are all objects.                                          *)
LEMMA LastPageIsLast ==
  ASSUME IInv, NEW page, NewsApiPageNow(page), NEW t, t = Advance(page),
         Over(t), t.emitted < args.count,
         \A a \in DOMAIN feed : feed[a].kind # "odd"
  PROVE  \A a \in Listed : Rank(a, Listed) < Beyond
<1>1. TypeOK /\ ~Exhausted
  BY DEF IInv, NewsApiPageNow
<1>2. args.count \in Nat /\ state.emitted \in Nat /\ SizeNow \in Nat \ {0}
  BY <1>1, ArgsTyped, SizesAsked DEF TypeOK
<1>3. CutRows(page) = page.rows /\ DoneAfter(page, CutRows(page))
      /\ t.emitted = state.emitted + Cardinality(CutRows(page))
      /\ Cardinality(page.rows) \in Nat
  BY PageIsCut
<1>4. page.next_page = None \/ page.rows = {}
  BY <1>1, <1>2, <1>3 DEF DoneAfter, EmittedAfter
<1>5. page.rows = Slice(First, Beyond, Listed)
  BY <1>1, PageHolds, Listing DEF Slice
<1>6. First \in Nat /\ Beyond \in Nat /\ First <= Beyond /\ Beyond - First = SizeNow
  BY <1>1, <1>2, PageRanks
<1>7. CASE Cardinality(page.rows) < SizeNow
  BY <1>1, <1>5, <1>6, <1>7, Listing, ShortSliceIsLast
<1>8. CASE ~(Cardinality(page.rows) < SizeNow)
  <2>1. page.rows # {}
    BY <1>2, <1>8, FS_EmptySet
  <2>2. Cardinality(page.rows) >= SizeNow
    BY <1>2, <1>3, <1>8
  <2>3. NextPage(page.rows, state.next_page, SizeNow, Cardinality(Listed)) = None
    BY <1>4, <2>1, PageHolds
  <2>4. state.next_page + 1 # None
    BY <1>1, NoneAssumption DEF TypeOK
  <2>5. ~(Beyond < Cardinality(Listed))
    BY <2>2, <2>3, <2>4 DEF NextPage, Beyond
  <2>6. Cardinality(Listed) \in Nat
    BY <1>1, Listing, FS_CardinalityType
  <2>7. ASSUME NEW a \in Listed PROVE Rank(a, Listed) < Beyond
    <3>1. Rank(a, Listed) \in Nat /\ Rank(a, Listed) < Cardinality(Listed)
      BY <1>1, Listing, RankBelowTotal
    <3> QED BY <1>6, <2>5, <2>6, <3>1
  <2> QED BY <2>7
<1> QED BY <1>7, <1>8

(* If all requests are to be of one size, the page at hand begins where    *)
(* the counter stands.                                                     *)
LEMMA PageBegins ==
  ASSUME IInv, PagesWhole(state), ~Exhausted, IsNewsApi, PagesLineUp
  PROVE  First = state.emitted
<1>1. /\ args.count \in Nat /\ state.emitted \in Nat /\ state.next_page \in Nat \ {0}
      /\ state.emitted < args.count /\ Remaining = args.count - state.emitted
  BY ArgsTyped DEF IInv, TypeOK, Exhausted, Remaining
<1>2. /\ Size \in Nat \ {0} /\ SizeNow \in Nat \ {0} /\ SizeNow <= Size
      /\ SizeNow = Size \/ SizeNow = Remaining
  BY SizesAsked
<1>3. state.emitted = (state.next_page - 1) * Size
  BY DEF PagesWhole, Over, Exhausted
<1>4. CASE SizeNow = Size
  BY <1>3, <1>4 DEF First
<1>5. CASE state.next_page = 1
  BY <1>1, <1>2, <1>3, <1>5 DEF First
<1>6. CASE state.next_page # 1 /\ SizeNow = Remaining
  <2>1. PICK k \in Nat \ {0} : state.next_page - 1 = k
    BY <1>1, <1>6
  <2>2. state.emitted = k * Size
    BY <1>3, <2>1
  <2>3. k * Size >= Size
    <3>1. PICK e \in Nat : k = e + 1
      <4>1. k - 1 \in Nat /\ k = (k - 1) + 1
        OBVIOUS
      <4> QED BY <4>1
    <3>2. k * Size = e * Size + Size /\ e * Size \in Nat
      BY <1>2, <3>1
    <3> QED BY <1>2, <3>2
  <2>4. args.count % Size = 0
    BY <1>1, <1>2, <2>2, <2>3 DEF PagesLineUp, Size
  <2>5. PICK q \in Nat : args.count = q * Size
    BY <1>1, <1>2, <2>4, MultipleOf
  <2>6. q * Size - k * Size >= Size
    BY <1>1, <1>2, <2>2, <2>5, MultiplesApart
  <2>7. SizeNow = Size
    BY <1>1, <1>2, <1>6, <2>2, <2>5, <2>6
  <2> QED BY <1>4, <2>7
<1> QED BY <1>2, <1>4, <1>5, <1>6

(* A NewsAPI page goes on where the last one stopped.                      *)
LEMMA NewsApiLeaves ==
  ASSUME IInv, PageInv, NEW page, NewsApiPageNow(page),
         NEW t, NEW o, NEW ag, NEW k, Leaves(page, t, o, ag, k)
  PROVE  Behind(t, o, ag, k)
<1> DEFINE rows == CutRows(page)
<1>1. t = Advance(page) /\ o = out \cup rows /\ ag = again \cup (out \cap rows) /\ k = AskedAt
  BY DEF Leaves
<1>2. /\ TypeOK /\ CursorAgrees /\ IsNewsApi /\ ~IsGdelt /\ ~Exhausted
      /\ Ordered /\ Behind(state, out, again, asked)
      /\ ~Over(state)
  BY DEF IInv, NewsApiPageNow, IsNewsApi, IsGdelt, PageInv, Over, Exhausted
<1>3. /\ k \in [at : Nat, upto : 0 .. Len(feed)]
      /\ Covered(k) \subseteq DOMAIN feed
      /\ \A b \in Covered(k) : feed[b].kind # "odd"
      /\ state.started => k = asked
      /\ ~state.started => k = [at |-> now, upto |-> Len(feed)]
  BY <1>1, <1>2, CoveredByPage
<1>4. /\ rows \subseteq page.rows
      /\ \A a \in rows, b \in page.rows : b > a => b \in rows
      /\ t.emitted < args.count => rows = page.rows
      /\ page.rows = {a \in Slice(First, Beyond, Listed) : feed[a].kind # "odd"}
  BY <1>1, PageIsCut, PageHolds
<1>5. /\ First \in Nat /\ Beyond \in Nat /\ Beyond = First + SizeNow
      /\ Size \in Nat /\ SizeNow \in Nat /\ args.count \in Nat /\ state.emitted \in Nat
      /\ state.next_page \in Nat /\ now \in Nat /\ args.timespan \in Nat
  BY <1>2, PageRanks, SizesAsked, ArgsTyped DEF TypeOK
<1>6. ~Over(t) => /\ rows = page.rows /\ SizeNow = Size
                  /\ t.emitted = state.emitted + Size
                  /\ t.next_page = state.next_page + 1
  BY <1>1, OpenPageIsWhole
<1>7. Over(t) /\ t.emitted < args.count /\ PagesTell =>
        \A b \in Listed : Rank(b, Listed) < Beyond
  <2>1. PagesTell => \A i \in DOMAIN feed : feed[i].kind # "odd"
    BY DEF PagesTell
  <2> QED BY <1>1, <2>1, LastPageIsLast
<1>8. state.emitted = (state.next_page - 1) * Size
  BY <1>2 DEF Behind, PagesWhole
<1>9. ~Over(t) => First = state.emitted /\ Beyond = t.emitted
  BY <1>5, <1>6, <1>8 DEF First
<1>10. PagesLineUp => First = state.emitted
  BY <1>2, PageBegins DEF Behind
<1>11. \A a \in Listed : Rank(a, Listed) \in Nat
  BY <1>2, Listing, RankBelowTotal
<1>12. \A a \in out : state.started /\ k = asked
  BY <1>2, <1>3 DEF CursorAgrees
<1> HIDE DEF rows
<1>13. ASSUME First = state.emitted, NEW b \in Covered(k), b \in Listed,
              Rank(b, Listed) < First
       PROVE  b \in out
  <2>1. state.started
    <3>1. SUFFICES ASSUME ~state.started PROVE FALSE
      OBVIOUS
    <3>2. state.emitted = 0
      BY <1>2, <3>1 DEF CursorAgrees, initial_state
    <3> QED BY <1>11, <1>13, <3>2
  <2> QED BY <1>2, <1>3, <1>13, <2>1 DEF Behind, NewerReceived
<1>14. ASSUME NEW b \in Covered(k), b \in Listed, First <= Rank(b, Listed), Rank(b, Listed) < Beyond
       PROVE  b \in page.rows
  BY <1>3, <1>4, <1>14 DEF Slice
<1>15. \A a \in page.rows : a \in Listed /\ First <= Rank(a, Listed) /\ Rank(a, Listed) < Beyond
  BY <1>4 DEF Slice
<1>16. PagesWhole(t)
  BY <1>5, <1>6, <1>8 DEF PagesWhole
<1>17. NewerReceived(t, o, k)
  <2> SUFFICES ASSUME ~Over(t), NEW b \in Covered(k), b \in Listed,
                      Rank(b, Listed) < t.emitted
               PROVE  b \in o
    BY DEF NewerReceived
  <2>1. CASE Rank(b, Listed) < First
    BY <1>1, <1>9, <1>13, <2>1
  <2>2. CASE First <= Rank(b, Listed)
    BY <1>1, <1>6, <1>9, <1>14, <2>2
  <2> QED BY <1>5, <1>11, <2>1, <2>2
<1>18. NothingElse(t, o, k)
  <2> SUFFICES ASSUME Still(k), ~Over(t), NEW a \in o
               PROVE  a \in Listed /\ Rank(a, Listed) < t.emitted
    BY DEF NothingElse
  <2>1. CASE a \in rows
    BY <1>4, <1>9, <1>15, <2>1
  <2>2. CASE a \in out
    <3>1. a \in Listed /\ Rank(a, Listed) < state.emitted
      BY <1>2, <1>12, <2>2 DEF Behind, NothingElse
    <3> QED BY <1>5, <1>6, <1>11, <3>1
  <2> QED BY <1>1, <2>1, <2>2
<1>19. GapFree(o, k)
  <2> SUFFICES ASSUME PagesLineUp, NEW a \in o, NEW b \in Covered(k), b > a
               PROVE  b \in o
    BY <1>2 DEF GapFree
  <2>1. CASE a \in out
    BY <1>1, <1>2, <1>12, <2>1 DEF Behind, GapFree
  <2>2. CASE a \in rows
    <3>1. a \in Listed /\ Rank(a, Listed) < Beyond /\ a \in DOMAIN feed /\ b \in DOMAIN feed
      BY <1>2, <1>3, <1>4, <1>15, <2>2, Listing
    <3>2. a \in Nat /\ b \in Nat /\ feed[a].date \in Nat /\ feed[b].date \in Nat
      BY <1>2, <3>1, FeedIsFinite, FeedTyped
    <3>3. feed[a].date <= feed[b].date
      BY <1>2, <3>1, <3>2 DEF Ordered
    <3>4. b \in Listed
      BY <1>2, <1>5, <3>1, <3>2, <3>3, Listing
    <3>5. Rank(b, Listed) < Beyond
      <4>1. Rank(b, Listed) <= Rank(a, Listed)
        BY <1>2, <3>2, Listing, RankFalls
      <4> QED BY <1>5, <1>11, <3>1, <3>4, <4>1
    <3>6. CASE Rank(b, Listed) < First
      BY <1>1, <1>10, <1>13, <3>4, <3>6
    <3>7. CASE First <= Rank(b, Listed)
      BY <1>1, <1>4, <1>14, <2>2, <3>4, <3>5, <3>7
    <3> QED BY <1>5, <1>11, <3>4, <3>6, <3>7
  <2> QED BY <1>1, <2>1, <2>2
<1>20. Disjoint(ag, k)
  <2> SUFFICES ASSUME PagesLineUp, Still(k) PROVE ag = {}
    BY DEF Disjoint
  <2>1. again = {}
    <3>1. CASE state.started
      BY <1>2, <1>3, <3>1 DEF Behind, Disjoint
    <3>2. CASE ~state.started
      BY <1>2, <3>2 DEF CursorAgrees, TypeOK
    <3> QED BY <3>1, <3>2
  <2>2. ASSUME NEW a \in out, a \in rows PROVE FALSE
    <3>1. a \in Listed /\ Rank(a, Listed) < state.emitted
      BY <1>2, <1>12, <2>2 DEF Behind, NothingElse
    <3>2. First <= Rank(a, Listed)
      BY <1>4, <1>15, <2>2
    <3> QED BY <1>5, <1>10, <1>11, <3>1, <3>2
  <2> QED BY <1>1, <2>1, <2>2
<1>21. Complete(t, o, k)
  <2> SUFFICES ASSUME Over(t), t.emitted < args.count, PagesTell, PagesLineUp,
                      NEW a \in Covered(k)
               PROVE  a \in o \/ feed[a].date < now - args.timespan
    BY <1>2 DEF Complete
  <2>1. \A b \in Listed : Rank(b, Listed) < Beyond
    BY <1>7
  <2>2. CASE a \notin Listed
    <3>1. ~(feed[a].date >= now - args.timespan)
      BY <1>2, <1>3, <2>2, Listing
    <3>2. feed[a].date \in Nat
      BY <1>2, <1>3, FeedTyped
    <3> QED BY <1>5, <3>1, <3>2
  <2>3. CASE a \in Listed
    <3>1. CASE Rank(a, Listed) < First
      BY <1>1, <1>10, <1>13, <2>3, <3>1
    <3>2. CASE First <= Rank(a, Listed)
      BY <1>1, <1>4, <1>14, <2>1, <2>3, <3>2
    <3> QED BY <1>5, <1>11, <2>3, <3>1, <3>2
  <2> QED BY <2>2, <2>3
<1>22. KeepsLookBack(t, o, k)
  <2>1. k.at \in Nat /\ k.at <= now
    BY <1>2, <1>3, <1>5 DEF Behind, KeepsLookBack
  <2>2. ASSUME args.timespan \in MappedTimespans, NEW a \in o
        PROVE  feed[a].date >= k.at - args.timespan
    <3>1. CASE a \in out
      BY <1>2, <1>12, <2>2, <3>1 DEF Behind, KeepsLookBack
    <3>2. CASE a \in rows
      <4>1. a \in DOMAIN feed /\ feed[a].date >= now - args.timespan
        BY <1>2, <1>4, <1>15, <2>2, <3>2, Listing
      <4>2. feed[a].date \in Nat
        BY <1>2, <4>1, FeedTyped
      <4> QED BY <1>5, <2>1, <4>1, <4>2
    <3> QED BY <1>1, <3>1, <3>2
  <2> QED BY <2>1, <2>2 DEF KeepsLookBack
<1>23. EndReceived(t, o) /\ EdgesOnly(o, k)
  BY <1>2 DEF EndReceived, EdgesOnly
<1> QED BY <1>16, <1>17, <1>18, <1>19, <1>20, <1>21, <1>22, <1>23 DEF Behind

-----------------------------------------------------------------------------
(* While a scan stands                                                     *)

(* Where nothing moves, a scan stands as it stood.                         *)
LEMMA NothingMoves ==
  ASSUME UNCHANGED <<args, feed, now>>,
         NEW s, NEW o, NEW ag, NEW k, Behind(s, o, ag, k)
  PROVE  Behind(s, o, ag, k)'
<1>1. Covered(k)' = Covered(k) /\ Listed' = Listed
  BY DEF Covered, Listed
<1>2. EndReceived(s, o)' /\ EdgesOnly(o, k)' /\ KeepsLookBack(s, o, k)' /\ PagesWhole(s)'
  BY <1>1 DEF Behind, EndReceived, EdgesOnly, KeepsLookBack, PagesWhole, Over,
              IsGdelt, IsNewsApi, Size
<1>3. NewerReceived(s, o, k)' /\ NothingElse(s, o, k)'
  BY <1>1 DEF Behind, NewerReceived, NothingElse, Over, IsNewsApi, Still
<1>4. GapFree(o, k)' /\ Disjoint(ag, k)' /\ Complete(s, o, k)'
  BY <1>1 DEF Behind, GapFree, Disjoint, Complete, Over, PagesTell, Undated, IsGdelt,
              IsNewsApi, PagesLineUp, Still
<1> QED BY <1>2, <1>3, <1>4 DEF Behind

(* Publishing moves what is there down the list, the clock takes articles  *)
(* off its end, and either puts an end to the feed's rest.                 *)
LEMMA FeedMoves ==
  ASSUME TypeOK, Ordered, Publish \/ Elapse,
         NEW s \in StateType, NEW o, o \subseteq DOMAIN feed, NEW ag,
         NEW k \in [at : Nat, upto : 0 .. Len(feed)],
         ~s.started => o = {} /\ ag = {},
         Behind(s, o, ag, k)
  PROVE  Behind(s, o, ag, k)'
<1>1. /\ args' = args /\ now' \in Nat /\ now \in Nat /\ now' >= now
      /\ args.timespan \in Nat /\ args.count \in Nat
      /\ s.emitted \in Nat /\ s.started \in BOOLEAN
      /\ k.at \in Nat /\ k.upto \in 0 .. Len(feed)
  BY ArgsTyped DEF Publish, Elapse, TypeOK, StateType
<1>2. /\ DOMAIN feed \subseteq DOMAIN feed'
      /\ \A i \in DOMAIN feed : feed'[i] = feed[i]
      /\ DOMAIN feed' = 1 .. Len(feed') /\ Len(feed') \in Nat
      /\ DOMAIN feed = 1 .. Len(feed) /\ Len(feed) \in Nat
  <2>1. CASE Publish
    <3>1. PICK kind \in Kinds : feed' = Append(feed, [date |-> now, kind |-> kind])
      BY <2>1 DEF Publish
    <3> QED BY <3>1 DEF TypeOK
  <2>2. CASE Elapse
    BY <2>2 DEF Elapse, TypeOK
  <2> QED BY <2>1, <2>2
<1>3. Covered(k)' = Covered(k) /\ Covered(k) \subseteq DOMAIN feed
  <2>1. 1 .. k.upto \subseteq DOMAIN feed
    BY <1>1, <1>2
  <2> QED BY <1>1, <1>2, <2>1 DEF Covered
<1>4. \A a \in DOMAIN feed : feed'[a].date = feed[a].date /\ feed[a].date \in Nat
  BY <1>2, FeedTyped
<1>5. Listed' \subseteq DOMAIN feed' /\ IsFiniteSet(Listed')
  <2>1. Listed' \subseteq DOMAIN feed'
    BY DEF Listed, Matching, Since
  <2>2. IsFiniteSet(DOMAIN feed')
    BY <1>2, FS_Interval
  <2> QED BY <2>1, <2>2, FS_Subset
<1>6. ASSUME NEW b \in DOMAIN feed, b \in Listed'
      PROVE  b \in Listed /\ {x \in Listed : x > b} \subseteq Listed'
  <2>1. \A x \in DOMAIN feed' :
          x \in Listed' <=> (args.timespan \in MappedTimespans =>
                               feed'[x].date >= now' - args.timespan)
    <3>1. now' - args.timespan \in Int
      BY <1>1
    <3> QED BY <1>1, <3>1, NoneAssumption DEF Listed, Matching, Since, TimespanToFrom
  <2>2. \A x \in DOMAIN feed :
          x \in Listed <=> (args.timespan \in MappedTimespans =>
                              feed[x].date >= now - args.timespan)
    BY Listing
  <2>3. \A x \in DOMAIN feed : x \in Nat
    BY FeedIsFinite
  <2>4. b \in Listed
    <3>1. args.timespan \in MappedTimespans => feed[b].date >= now' - args.timespan
      BY <1>2, <1>4, <1>6, <2>1
    <3>2. args.timespan \in MappedTimespans => feed[b].date >= now - args.timespan
      BY <1>1, <1>4, <3>1
    <3> QED BY <2>2, <3>2
  <2>5. ASSUME NEW x \in Listed, x > b PROVE x \in Listed'
    <3>1. x \in DOMAIN feed
      BY Listing
    <3>2. feed[b].date <= feed[x].date
      BY <2>3, <2>5, <3>1 DEF Ordered
    <3> QED BY <1>1, <1>2, <1>4, <1>6, <2>1, <3>1, <3>2
  <2> QED BY <2>4, <2>5
<1>7. NewerReceived(s, o, k)'
  <2> SUFFICES ASSUME IsNewsApi, ~Over(s), NEW b \in Covered(k), b \in Listed',
                      Rank(b, Listed') < s.emitted
               PROVE  b \in o
    BY <1>1, <1>3 DEF NewerReceived, IsNewsApi, Over
  <2>1. b \in Listed /\ {x \in Listed : x > b} \subseteq Listed'
    BY <1>3, <1>6
  <2>2. /\ Rank(b, Listed) \in Nat /\ Rank(b, Listed') \in Nat
        /\ Rank(b, Listed) <= Rank(b, Listed')
    BY <1>5, <2>1, RankGrows
  <2>3. Rank(b, Listed) < s.emitted
    BY <1>1, <2>2
  <2> QED BY <2>1, <2>3 DEF Behind, NewerReceived
<1>8. Still(k)' => o = {} /\ ag = {}
  <2>1. ASSUME Publish PROVE ~Still(k)'
    <3>1. Len(feed') = Len(feed) + 1
      BY <2>1 DEF Publish, TypeOK
    <3> QED BY <1>1, <1>2, <3>1 DEF Still
  <2>2. ASSUME Elapse, s.started PROVE ~Still(k)'
    BY <1>1, <2>2 DEF Elapse, Still, Behind, KeepsLookBack
  <2> QED BY <2>1, <2>2
<1>9. NothingElse(s, o, k)' /\ Disjoint(ag, k)'
  BY <1>8 DEF NothingElse, Disjoint
<1>10. PagesWhole(s)' /\ EndReceived(s, o)' /\ EdgesOnly(o, k)' /\ GapFree(o, k)'
  BY <1>1, <1>3, <1>4 DEF Behind, PagesWhole, EndReceived, EdgesOnly, GapFree,
                          Over, IsGdelt, IsNewsApi, PagesLineUp, Size
<1>11. KeepsLookBack(s, o, k)'
  BY <1>1, <1>4 DEF Behind, KeepsLookBack, IsNewsApi
<1>12. Complete(s, o, k)'
  <2> SUFFICES ASSUME Over(s), s.emitted < args.count, PagesTell', IsNewsApi => PagesLineUp,
                      NEW a \in Covered(k)
               PROVE  \/ a \in o
                      \/ IsGdelt /\ ~EndInclusive /\ \E c \in o : feed'[c].date = feed'[a].date
                      \/ IsNewsApi /\ feed'[a].date < now' - args.timespan
    BY <1>1, <1>3 DEF Complete, Over, IsGdelt, IsNewsApi, PagesLineUp
  <2>1. PagesTell
    <3>1. Undated \subseteq Undated'
      BY <1>2 DEF Undated
    <3>2. IsFiniteSet(Undated')
      <4>1. IsFiniteSet(DOMAIN feed')
        BY <1>2, FS_Interval
      <4> QED BY <4>1, FS_Subset DEF Undated
    <3>3. /\ Cardinality(Undated) <= Cardinality(Undated')
          /\ Cardinality(Undated) \in Nat /\ Cardinality(Undated') \in Nat
      BY <3>1, <3>2, FS_Subset, FS_CardinalityType
    <3>4. RecordsAsked(args.page_size) \in Nat
      BY ArgsTyped, GdeltAssumption DEF RecordsAsked, Greater, Lesser, TypeOK
    <3>5. IsGdelt => Cardinality(Undated) < RecordsAsked(args.page_size)
      BY <1>1, <3>3, <3>4 DEF PagesTell, IsGdelt
    <3> QED BY <1>2, <3>5 DEF PagesTell
  <2>2. \/ a \in o
        \/ IsGdelt /\ ~EndInclusive /\ \E c \in o : feed[c].date = feed[a].date
        \/ IsNewsApi /\ feed[a].date < now - args.timespan
    BY <2>1 DEF Behind, Complete
  <2> QED BY <1>1, <1>3, <1>4, <2>2
<1> QED BY <1>7, <1>9, <1>10, <1>11, <1>12 DEF Behind

-----------------------------------------------------------------------------
(* The invariant                                                           *)

(* Nothing has been received of a scan that has not begun.                 *)
LEMMA InitPageInv == Init => PageInv
<1> SUFFICES ASSUME Init PROVE PageInv
  OBVIOUS
<1>1. TypeOK /\ out = {} /\ again = {} /\ asked.upto = 0
      /\ state.emitted = 0 /\ ~state.started /\ state.next_page = 1
  BY InitIInv DEF IInv, Init, initial_state
<1>2. Covered(asked) = {}
  BY <1>1 DEF Covered
<1>3. args.page_size \in Nat /\ Size \in Nat
  BY <1>1, ArgsTyped, NewsApiAssumption DEF Size, PageSizeAsked, Greater, Lesser
<1>4. PagesWhole(state)
  BY <1>1, <1>3 DEF PagesWhole
<1> QED BY <1>1, <1>2, <1>4, InitOrdered
        DEF PageInv, Behind, EndReceived, EdgesOnly, KeepsLookBack, NewerReceived,
            NothingElse, GapFree, Disjoint, Complete

(* A page that arrives as it is made leaves the engine where it leads.     *)
LEMMA DeliveredPageLeads ==
  ASSUME NEW page, Deliver(page),
         \A t, o, ag, k : Leaves(page, t, o, ag, k) => Behind(t, o, ag, k)
  PROVE  Behind(state, out, again, asked)'
<1>1. PICK t, o, ag, k : Leaves(page, t, o, ag, k)
  BY DEF Leaves
<1>2. /\ state' = t /\ out' = o /\ again' = ag /\ asked' = k
      /\ UNCHANGED <<args, feed, now>>
  BY <1>1 DEF Leaves, Deliver, Received
<1>3. Behind(t, o, ag, k)'
  BY <1>1, <1>2, NothingMoves
<1> QED BY <1>2, <1>3

(* Every step keeps the invariant.                                         *)
LEMMA PageStep == IInv /\ PageInv /\ [Next]_vars => PageInv'
<1> SUFFICES ASSUME IInv, PageInv, [Next]_vars PROVE Behind(state, out, again, asked)'
  BY OrderedStep DEF PageInv
<1>1. TypeOK /\ CursorAgrees /\ Ordered /\ Behind(state, out, again, asked)
  BY DEF IInv, PageInv
<1>2. CASE ProcessGdelt
  <2>1. PICK extra \in Extras : \E page : GdeltPageNow(page, extra) /\ Deliver(page)
    BY <1>2 DEF ProcessGdelt, GdeltPageNow, IsGdelt
  <2>2. PICK page : GdeltPageNow(page, extra) /\ Deliver(page)
    BY <2>1
  <2> QED BY <2>2, GdeltLeaves, DeliveredPageLeads
<1>3. CASE ProcessNewsApi
  <2>1. PICK page : NewsApiPageNow(page) /\ Deliver(page)
    BY <1>3, FreshAsksForOne DEF ProcessNewsApi, NewsApiPageNow, IsNewsApi
  <2> QED BY <2>1, NewsApiLeaves, DeliveredPageLeads
<1>4. PICK s, o, ag, k : s = state /\ o = out /\ ag = again /\ k = asked
  OBVIOUS
<1>5. Behind(s, o, ag, k)
  BY <1>1, <1>4
<1>6. CASE Publish \/ Elapse
  <2>1. /\ s \in StateType /\ o \subseteq DOMAIN feed
        /\ k \in [at : Nat, upto : 0 .. Len(feed)]
        /\ ~s.started => o = {} /\ ag = {}
    BY <1>1, <1>4 DEF TypeOK, StateType, CursorAgrees
  <2>2. Behind(s, o, ag, k)'
    BY <1>1, <1>5, <1>6, <2>1, FeedMoves
  <2>3. state' = s /\ out' = o /\ again' = ag /\ asked' = k
    BY <1>4, <1>6 DEF Publish, Elapse
  <2> QED BY <2>2, <2>3
<1>7. CASE ProcessDone \/ ProcessError \/ UNCHANGED vars
  <2>1. UNCHANGED <<args, feed, now>> /\ state' = s /\ out' = o /\ again' = ag /\ asked' = k
    BY <1>4, <1>7 DEF ProcessDone, ProcessError, vars
  <2>2. Behind(s, o, ag, k)'
    BY <1>5, <2>1, NothingMoves
  <2> QED BY <2>1, <2>2
<1> QED BY <1>2, <1>3, <1>6, <1>7 DEF Next, Process

(* The invariant holds throughout.                                         *)
THEOREM PageInvariance == Spec => []PageInv
BY InitPageInv, PageStep, Invariance, PTL DEF Spec

-----------------------------------------------------------------------------
(* What follows                                                            *)

(* What the engine's standing says in the words of NewsScan.               *)
LEMMA WhereTheEngineStands ==
  ASSUME IInv, Behind(state, out, again, asked)
  PROVE  /\ GapsOnlyAtEdges /\ NoGap /\ PagesDisjoint
         /\ CompleteWhenShort /\ NewsApiLookBack
<1>1. Covered(asked) = LookBack /\ (Still(asked) <=> Quiet)
  BY DEF Covered, LookBack, Still, Quiet
<1>2. GapsOnlyAtEdges /\ NoGap /\ PagesDisjoint /\ NewsApiLookBack
  BY <1>1 DEF Behind, EdgesOnly, GapsOnlyAtEdges, GapFree, NoGap, Disjoint, PagesDisjoint,
              KeepsLookBack, NewsApiLookBack
<1>3. CompleteWhenShort
  <2>1. status = "finished" /\ delivered < args.count => Over(state) /\ state.emitted < args.count
    BY DEF IInv, StatusAgrees, CountHonoured, Exhausted, Over
  <2> QED BY <1>1, <2>1 DEF Behind, Complete, CompleteWhenShort
<1> QED BY <1>2, <1>3

(* GDELT's windows lose articles only at their edges: what is jumped over  *)
(* shares its second with a delivered article.                             *)
THEOREM GapsAreAtEdges == Spec => []GapsOnlyAtEdges
<1>1. IInv /\ PageInv => GapsOnlyAtEdges
  BY WhereTheEngineStands DEF PageInv
<1> QED BY <1>1, Invariance, PageInvariance, PTL

(* No article is jumped over by GDELT windows that include their end, nor  *)
(* by NewsAPI pages of one size, whatever is published and however the     *)
(* clock moves between two pages.                                          *)
THEOREM NothingIsJumpedOver == Spec => []NoGap
<1>1. IInv /\ PageInv => NoGap
  BY WhereTheEngineStands DEF PageInv
<1> QED BY <1>1, Invariance, PageInvariance, PTL

(* NewsAPI pages of one size repeat nothing while nothing moves.           *)
THEOREM PagesAreDisjoint == Spec => []PagesDisjoint
<1>1. IInv /\ PageInv => PagesDisjoint
  BY WhereTheEngineStands DEF PageInv
<1> QED BY <1>1, Invariance, PageInvariance, PTL

(* A scan that finishes short of `count` has delivered the look-back, the  *)
(* edge seconds of GDELT and what slid out of NewsAPI's window excepted.   *)
THEOREM ShortScansAreComplete == Spec => []CompleteWhenShort
<1>1. IInv /\ PageInv => CompleteWhenShort
  BY WhereTheEngineStands DEF PageInv
<1> QED BY <1>1, Invariance, PageInvariance, PTL

(* A NewsAPI scan whose timespan is understood reaches no further back     *)
(* than the look-back it began with, although every page asks anew.        *)
THEOREM LookBackIsKept == Spec => []NewsApiLookBack
<1>1. IInv /\ PageInv => NewsApiLookBack
  BY WhereTheEngineStands DEF PageInv
<1> QED BY <1>1, Invariance, PageInvariance, PTL
=============================================================================
