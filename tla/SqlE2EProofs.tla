---------------------------- MODULE SqlE2EProofs ----------------------------
(***************************************************************************)
(* What the SQL suite shows of the code it runs, whatever the caller's     *)
(* environment, the caps and the services: TLAPS proofs about SqlE2E.      *)
(***************************************************************************)
EXTENDS SqlE2E, FiniteSetTheorems, TLAPS

-----------------------------------------------------------------------------
(* No request leaves for a live service                                    *)

(* From setup on both providers are routed to the mock.                    *)
RoutedInv == /\ NoNetwork
             /\ phase # "setup" => \A p \in Providers : env[p] = "mock"

(* Whatever the caller's environment holds, the suite asks only the mock.  *)
THEOREM NothingLeaves == E2ESpec => []NoNetwork
<1>1. E2EInit => RoutedInv
  BY DEF E2EInit, RoutedInv, NoNetwork
<1>2. RoutedInv /\ [E2ENext]_<<vars, harness>> => RoutedInv'
  <2> SUFFICES ASSUME RoutedInv, [E2ENext]_<<vars, harness>> PROVE RoutedInv'
    OBVIOUS
  <2>1. CASE Setup
    BY <2>1 DEF Setup, RoutedTo, RoutedInv, NoNetwork
  <2>2. CASE Tick
    <3>1. BaseUrl("gdelt") = "mock"
      BY <2>2, E2EAssumption DEF Tick, RoutedInv, BaseUrl
    <3>2. /\ requests' = requests \cup {"mock"} /\ UNCHANGED <<phase, env>>
          /\ phase # "setup"
      BY <2>2, <3>1 DEF Tick
    <3> QED BY <3>2 DEF RoutedInv, NoNetwork
  <2>3. CASE StartQuery
    BY <2>3 DEF StartQuery, RoutedInv, NoNetwork
  <2>4. CASE TickNoKey \/ Compare \/ Return \/ RunnerFails
    BY <2>4 DEF TickNoKey, Compare, Return, RunnerFails, harness, RoutedInv, NoNetwork
  <2>5. CASE UNCHANGED <<vars, harness>>
    BY <2>5 DEF harness, RoutedInv, NoNetwork
  <2> QED BY <2>1, <2>2, <2>3, <2>4, <2>5 DEF E2ENext
<1>3. RoutedInv => NoNetwork
  BY DEF RoutedInv
<1> QED BY <1>1, <1>2, <1>3, PTL DEF E2ESpec

-----------------------------------------------------------------------------
(* The suite notices a lost window cursor                                  *)

(* Without the cursor every page is the first, so "Older C" never comes    *)
(* and the third query, which names the titles, is missed.                 *)
WindowLost == "window_end_iso" \notin carried

TellInv ==
  /\ position \in Nat /\ failed \in BOOLEAN
  /\ rc = 0 => phase = "ended" /\ position > Len(Suite) /\ ~failed
  /\ WindowLost =>
       /\ phase = "query" => /\ C \notin out
                             /\ status = "scanning" => state.window_end_iso = None
       /\ position > 3 => failed

(* The length of the suite and the query that names three titles.          *)
LEMMA SuiteFacts == /\ Len(Suite) = 6
                    /\ Suite[3].titles = {A, B, C}
BY DEF Suite, Rows, NeedsKey

(* A suite that passes tells that the window cursor made the round trip.   *)
THEOREM SuiteIsTelling == E2ESpec => []SuiteTells
<1>1. E2EInit => TellInv
  <2> SUFFICES ASSUME E2EInit PROVE TellInv
    OBVIOUS
  <2>1. rc # 0 /\ position = 1 /\ phase = "setup"
    BY NoneAssumption DEF E2EInit
  <2>2. failed \in BOOLEAN
    BY DEF E2EInit
  <2>3. position \in Nat /\ ~(position > 3)
    BY <2>1
  <2> QED BY <2>1, <2>2, <2>3 DEF TellInv
<1>2. TellInv /\ [E2ENext]_<<vars, harness>> => TellInv'
  <2> SUFFICES ASSUME TellInv, [E2ENext]_<<vars, harness>> PROVE TellInv'
    OBVIOUS
  <2>1. CASE Setup
    BY <2>1 DEF Setup, TellInv, WindowLost
  <2>2. CASE StartQuery
    BY <2>2 DEF StartQuery, TellInv, WindowLost, initial_state
  <2>3. CASE Tick
    <3>1. /\ phase = "query" /\ status = "scanning"
          /\ UNCHANGED <<phase, carried, position, failed, rc>>
      BY <2>3 DEF Tick
    <3>2. ASSUME WindowLost PROVE C \notin out' /\ state'.window_end_iso = None
      <4>1. MockPage(state.window_end_iso) = {A, B}
        BY <3>1, <3>2 DEF TellInv, MockPage
      <4>2. PICK page : /\ page.rows = {A, B}
                        /\ state' = Restored(Advance(page)) /\ Received(page)
        BY <2>3, <4>1 DEF Tick, PageResult
      <4>3. CutRows(page) \subseteq {A, B}
        BY <4>2 DEF CutRows, Newest
      <4>4. C \notin out'
        BY <3>1, <3>2, <4>2, <4>3 DEF Received, TellInv, A, B, C
      <4>5. state'.window_end_iso = None
        BY <3>2, <4>2 DEF Restored, WindowLost, initial_state
      <4> QED BY <4>4, <4>5
    <3> QED BY <3>1, <3>2 DEF TellInv, WindowLost
  <2>4. CASE TickNoKey
    BY <2>4 DEF TickNoKey, harness, TellInv, WindowLost
  <2>5. CASE Compare
    <3>1. /\ phase = "query" /\ phase' = "between" /\ position' = position + 1
          /\ failed' = (failed \/ ~Meets(Suite[position]))
          /\ UNCHANGED <<carried, rc>>
      BY <2>5 DEF Compare
    <3>2. ASSUME WindowLost, position = 3 PROVE ~Meets(Suite[position])
      BY <3>1, <3>2, SuiteFacts, E2EAssumption DEF TellInv, Meets
    <3>3. ASSUME WindowLost, position' > 3 PROVE failed'
      <4>1. position = 3 \/ position > 3
        BY <3>1, <3>3 DEF TellInv
      <4>2. failed \/ ~Meets(Suite[position])
        BY <3>2, <3>3, <4>1 DEF TellInv
      <4> QED BY <3>1, <4>2
    <3> QED BY <3>1, <3>3 DEF TellInv, WindowLost
  <2>6. CASE Return
    BY <2>6 DEF Return, TellInv, WindowLost
  <2>7. CASE RunnerFails
    BY <2>7 DEF RunnerFails, TellInv, WindowLost
  <2>8. CASE UNCHANGED <<vars, harness>>
    BY <2>8 DEF vars, harness, TellInv, WindowLost
  <2> QED BY <2>1, <2>2, <2>3, <2>4, <2>5, <2>6, <2>7, <2>8 DEF E2ENext
<1>3. TellInv => SuiteTells
  BY SuiteFacts DEF TellInv, WindowLost, SuiteTells
<1> QED BY <1>1, <1>2, <1>3, PTL DEF E2ESpec

-----------------------------------------------------------------------------
(* What the suite expects is what process() does                           *)

(* The queries that scan: three articles by pages of two, or two.          *)
ThreeByTwo(query) == /\ query.count = 3 /\ query.page_size = 2
                     /\ query.rows \in {3, None}
                     /\ query.titles \in {{A, B, C}, None}
                     /\ query.oldest \in {C, None}
JustTwo(query) == /\ query.count = 2 /\ query.page_size \in {2, 5}
                  /\ query.rows = 2
                  /\ query.titles \in {{A, B}, None}
                  /\ query.oldest = None

LEMMA SuiteQueries ==
  /\ Suite[1] = NeedsKey
  /\ \A p \in 2 .. 6 : /\ Suite[p].provider = "gdelt" /\ Suite[p] # NeedsKey
                       /\ ThreeByTwo(Suite[p]) \/ JustTwo(Suite[p])
<1>1. Suite[1] = NeedsKey
  BY DEF Suite
<1>2. \A p \in 2 .. 6 : \/ p = 2 \/ p = 3 \/ p = 4 \/ p = 5 \/ p = 6
  OBVIOUS
<1>3. /\ ThreeByTwo(Suite[2]) /\ ThreeByTwo(Suite[3]) /\ ThreeByTwo(Suite[4])
      /\ JustTwo(Suite[5]) /\ JustTwo(Suite[6])
  BY DEF Suite, Rows, ThreeByTwo, JustTwo
<1>4. \A p \in 2 .. 6 : Suite[p].provider = "gdelt"
  BY <1>2 DEF Suite, Rows
<1>5. NeedsKey.provider = "newsapi"
  BY DEF NeedsKey
<1> QED BY <1>1, <1>2, <1>3, <1>4, <1>5

(* The mock's two pages, uncut by a count that leaves room for them.       *)
LEMMA MockPages ==
  /\ Newest(3, {A, B}) = {A, B} /\ Newest(2, {A, B}) = {A, B} /\ Newest(1, {C}) = {C}
  /\ Cardinality({A, B}) = 2 /\ Cardinality({C}) = 1
  /\ Min(Dates(Fixture, {A, B})) = 2 /\ Dates(Fixture, {A, B}) # {}
<1>1. \A x : IsFiniteSet({x}) /\ Cardinality({x}) = 1
  BY FS_Singleton
<1>2. Cardinality({C}) = 1 /\ Cardinality({}) = 0 /\ Cardinality({A}) = 1
  BY <1>1, FS_EmptySet
<1>3. Cardinality({A, B}) = 2
  <2>1. {A, B} = {A} \cup {B} /\ B \notin {A}
    BY DEF A, B
  <2>2. Cardinality({A} \cup {B}) = Cardinality({A}) + 1
    BY <1>1, <2>1, FS_AddElement
  <2> QED BY <1>2, <2>1, <2>2
<1>4. /\ {b \in {A, B} : b > A} = {} /\ {b \in {A, B} : b > B} = {A}
      /\ {b \in {C} : b > C} = {}
  BY DEF A, B, C
<1>5. Rank(A, {A, B}) = 0 /\ Rank(B, {A, B}) = 1 /\ Rank(C, {C}) = 0
  BY <1>2, <1>4 DEF Rank
<1>6. Newest(3, {A, B}) = {A, B} /\ Newest(2, {A, B}) = {A, B} /\ Newest(1, {C}) = {C}
  BY <1>5 DEF Newest
<1>7. Dates(Fixture, {A, B}) = {2, 3}
  <2>1. /\ Fixture[A].date = 3 /\ Fixture[A].kind = "plain"
        /\ Fixture[B].date = 2 /\ Fixture[B].kind = "plain"
    BY DEF Fixture, A, B
  <2> QED BY <2>1 DEF Dates
<1>8. Min({2, 3}) = 2
  BY DEF Min
<1> QED BY <1>2, <1>3, <1>6, <1>7, <1>8

Fresh == /\ status = "scanning" /\ state = initial_state
         /\ delivered = 0 /\ out = {}

(* After the first page of three articles the window ends at Newest B.     *)
Halfway == /\ args.count = 3 /\ status = "scanning"
           /\ state = [emitted |-> 2, done |-> FALSE, window_end_iso |-> 2,
                       next_page |-> 1, started |-> TRUE]
           /\ delivered = 2 /\ out = {A, B}

Whole == /\ status = "finished"
         /\ \/ args.count = 3 /\ delivered = 3 /\ out = {A, B, C}
            \/ args.count = 2 /\ delivered = 2 /\ out = {A, B}

QueryInv ==
  /\ args.provider = Suite[position].provider
  /\ args.count = Suite[position].count /\ args.page_size = Suite[position].page_size
  /\ args.provider = "newsapi" => delivered = 0 /\ status \in {"scanning", "failed"}
  /\ args.provider = "gdelt"   => Fresh \/ Halfway \/ Whole

RightInv == /\ feed = Fixture /\ position \in Nat \ {0} /\ failed \in BOOLEAN
            /\ carried = Fields /\ phase = "query" => position <= 6 /\ QueryInv
            /\ SuiteIsRight

(* A transport that carries every field hands process() what it left.      *)
LEMMA CarriedKeeps ==
  ASSUME carried = Fields, NEW e, NEW d, NEW w, NEW n, NEW st
  PROVE  LET s == [emitted |-> e, done |-> d, window_end_iso |-> w, next_page |-> n, started |-> st]
         IN  Restored(s) = s
BY DEF Restored, initial_state, Fields

(* One page of a query that scans.                                         *)
LEMMA TickRight ==
  ASSUME RightInv, carried = Fields, Tick
  PROVE  Halfway' \/ Whole'
<1>1. /\ phase = "query" /\ status = "scanning" /\ args.provider = "gdelt"
      /\ feed = Fixture /\ position \in 1 .. 6 /\ QueryInv
  BY DEF RightInv, Tick
<1>2. position \in 2 .. 6
  BY <1>1, SuiteQueries DEF QueryInv, NeedsKey
<1>3. \/ args.count = 3 /\ args.page_size = 2
      \/ args.count = 2 /\ args.page_size \in {2, 5}
  BY <1>1, <1>2, SuiteQueries DEF QueryInv, ThreeByTwo, JustTwo
<1> DEFINE rows == MockPage(state.window_end_iso)
           end  == NextWindowEnd(feed, rows, RecordsAsked(ThisCount))
           page == PageResult(rows, end, None)
<1>4. state' = Restored(Advance(page)) /\ Received(page)
  BY DEF Tick
<1>5. page.rows = rows /\ page.next_window_end = end /\ page.next_page = None
  BY DEF PageResult
<1> HIDE DEF page
<1>6. CASE Fresh
  <2>1. rows = {A, B} /\ state.emitted = 0 /\ ThisCount = 2 /\ Remaining = args.count
    BY <1>3, <1>6 DEF Fresh, initial_state, MockPage, ThisCount, Remaining, Lesser
  <2>2. RecordsAsked(ThisCount) \in {1, 2}
    BY <2>1, GdeltAssumption DEF RecordsAsked, Lesser, Greater
  <2>3. end = 2
    BY <1>1, <2>1, <2>2, MockPages DEF NextWindowEnd
  <2>4. CutRows(page) = {A, B}
    BY <1>3, <1>5, <2>1, MockPages DEF CutRows
  <2>5. 2 # None
    BY NoneAssumption
  <2>6. state.next_page = 1 /\ EmittedAfter({A, B}) = 2 /\ page.next_window_end = 2
    BY <1>5, <1>6, <2>1, <2>3, MockPages DEF Fresh, initial_state, EmittedAfter
  <2>7. args' = args /\ out' = {A, B} /\ delivered' = 2 /\ state' = Restored(Advance(page))
        /\ status' = IF Advance(page).done THEN "finished" ELSE status
    BY <1>3, <1>4, <1>6, <2>4, MockPages DEF Received, Fresh, Lesser
  <2>8. CASE args.count = 2
    <3>1. DoneAfter(page, {A, B})
      BY <2>6, <2>8 DEF DoneAfter
    <3>2. Advance(page).done
      BY <2>4, <3>1 DEF Advance
    <3>3. status' = "finished" /\ args'.count = 2
      BY <2>7, <2>8, <3>2
    <3> QED BY <2>7, <3>3 DEF Whole
  <2>9. CASE args.count = 3
    <3>1. DoneAfter(page, {A, B}) = FALSE
      BY <2>5, <2>6, <2>9 DEF DoneAfter
    <3>2. Advance(page) = [emitted |-> 2, done |-> FALSE, window_end_iso |-> 2,
                           next_page |-> 1, started |-> TRUE]
      BY <2>4, <2>5, <2>6, <3>1 DEF Advance
    <3>3. state' = Advance(page)
      BY <2>7, <3>2, CarriedKeeps
    <3>4. status' = "scanning" /\ args'.count = 3
      BY <1>1, <2>7, <2>9, <3>2
    <3> QED BY <2>7, <3>2, <3>3, <3>4 DEF Halfway
  <2> QED BY <1>3, <2>8, <2>9
<1>7. CASE Halfway
  <2>1. rows = {C} /\ args.count = 3 /\ state.emitted = 2 /\ Remaining = 1
        /\ delivered = 2 /\ out = {A, B}
    BY <1>7, NoneAssumption DEF Halfway, MockPage, Remaining
  <2>2. CutRows(page) = {C}
    BY <1>5, <2>1, MockPages DEF CutRows
  <2>3. Advance(page).done
    BY <2>1, <2>2, MockPages DEF Advance, DoneAfter, EmittedAfter
  <2>4. args' = args /\ status' = "finished" /\ delivered' = 3 /\ out' = {A, B, C}
    BY <1>4, <2>1, <2>2, <2>3, MockPages DEF Received, Lesser
  <2> QED BY <2>1, <2>4 DEF Whole
<1>8. ~Whole
  BY <1>1 DEF Whole
<1> QED BY <1>1, <1>6, <1>7, <1>8 DEF QueryInv

(* A query that has ended as the invariant says is what the suite expects. *)
LEMMA QueryMeets ==
  ASSUME RightInv, carried = Fields, phase = "query", status # "scanning"
  PROVE  Meets(Suite[position])
<1>1. position \in 1 .. 6 /\ QueryInv
  BY DEF RightInv
<1>2. CASE position = 1
  <2>1. args.provider = "newsapi" /\ Suite[position] = NeedsKey
    BY <1>1, <1>2, SuiteQueries DEF QueryInv, NeedsKey
  <2>2. delivered = 0 /\ status = "failed"
    BY <1>1, <2>1 DEF QueryInv
  <2> QED BY <2>1, <2>2 DEF Meets, NeedsKey
<1>3. CASE position \in 2 .. 6
  <2>1. Whole
    BY <1>1, <1>3, SuiteQueries DEF QueryInv, Fresh, Halfway
  <2>2. PICK query : query = Suite[position]
    OBVIOUS
  <2>3. query # NeedsKey /\ (ThreeByTwo(query) \/ JustTwo(query)) /\ args.count = query.count
    BY <1>1, <1>3, <2>2, SuiteQueries DEF QueryInv
  <2>4. CASE ThreeByTwo(query)
    <3>1. delivered = 3 /\ out = {A, B, C}
      BY <2>1, <2>3, <2>4 DEF Whole, ThreeByTwo
    <3>2. Min({A, B, C}) = C /\ {A, B, C} # {}
      BY DEF Min, A, B, C
    <3> QED BY <2>1, <2>2, <2>3, <2>4, <3>1, <3>2 DEF Meets, Whole, ThreeByTwo
  <2>5. CASE JustTwo(query)
    <3>1. delivered = 2 /\ out = {A, B}
      BY <2>1, <2>3, <2>5 DEF Whole, JustTwo
    <3> QED BY <2>1, <2>2, <2>3, <2>5, <3>1 DEF Meets, Whole, JustTwo
  <2> QED BY <2>3, <2>4, <2>5
<1> QED BY <1>1, <1>2, <1>3

(* Over a transport that carries the whole state the suite finds nothing   *)
(* to complain of: its expectations are those of the code.                 *)
THEOREM SuiteExpectsTheCode == E2ESpec => []SuiteIsRight
<1>1. E2EInit => RightInv
  <2> SUFFICES ASSUME E2EInit PROVE RightInv
    OBVIOUS
  <2>1. feed = Fixture /\ position = 1 /\ phase = "setup" /\ ~failed /\ failed \in BOOLEAN
    BY DEF E2EInit
  <2> QED BY <2>1 DEF RightInv, SuiteIsRight
<1>2. RightInv /\ [E2ENext]_<<vars, harness>> => RightInv'
  <2> SUFFICES ASSUME RightInv, [E2ENext]_<<vars, harness>> PROVE RightInv'
    OBVIOUS
  <2>1. CASE Setup
    BY <2>1 DEF Setup, vars, RightInv, SuiteIsRight
  <2>2. CASE StartQuery
    <3>1. /\ feed' = Fixture /\ UNCHANGED <<carried, position, failed>>
          /\ position \in 1 .. 6
      BY <2>2, SuiteFacts DEF StartQuery, RightInv
    <3>2. /\ args'.provider = Suite[position].provider
          /\ args'.count = Suite[position].count
          /\ args'.page_size = Suite[position].page_size
      BY <2>2 DEF StartQuery
    <3>3. Fresh' /\ delivered' = 0 /\ status' = "scanning"
      BY <2>2 DEF StartQuery, Fresh, initial_state
    <3>4. QueryInv'
      BY <3>1, <3>2, <3>3 DEF QueryInv
    <3> QED BY <3>1, <3>4 DEF RightInv, SuiteIsRight
  <2>3. CASE Tick
    <3>1. /\ phase = "query" /\ args.provider = "gdelt"
          /\ UNCHANGED <<phase, carried, position, failed, args, feed>>
      BY <2>3 DEF Tick, Received
    <3>2. ASSUME carried = Fields PROVE position <= 6 /\ QueryInv'
      <4>1. Halfway' \/ Whole'
        BY <2>3, <3>2, TickRight
      <4> QED BY <3>1, <3>2, <4>1 DEF RightInv, QueryInv
    <3> QED BY <3>1, <3>2 DEF RightInv, SuiteIsRight
  <2>4. CASE TickNoKey
    <3>1. /\ args.provider = "newsapi" /\ phase = "query" /\ status' = "failed"
          /\ UNCHANGED <<args, feed, delivered, phase, carried, position, failed>>
      BY <2>4 DEF TickNoKey, harness
    <3> QED BY <3>1 DEF RightInv, SuiteIsRight, QueryInv
  <2>5. CASE Compare
    <3>1. /\ phase = "query" /\ status # "scanning" /\ phase' = "between"
          /\ position' = position + 1 /\ failed' = (failed \/ ~Meets(Suite[position]))
          /\ UNCHANGED <<feed, carried>>
      BY <2>5 DEF Compare, vars
    <3>2. carried = Fields => failed' = FALSE
      BY <3>1, QueryMeets DEF RightInv, SuiteIsRight
    <3>3. position' \in Nat \ {0} /\ failed' \in BOOLEAN
      BY <3>1 DEF RightInv
    <3> QED BY <3>1, <3>2, <3>3 DEF RightInv, SuiteIsRight
  <2>6. CASE Return \/ RunnerFails
    BY <2>6 DEF Return, RunnerFails, vars, RightInv, SuiteIsRight
  <2>7. CASE UNCHANGED <<vars, harness>>
    BY <2>7 DEF vars, harness, RightInv, SuiteIsRight, QueryInv, Fresh, Halfway, Whole
  <2> QED BY <2>1, <2>2, <2>3, <2>4, <2>5, <2>6, <2>7 DEF E2ENext
<1>3. RightInv => SuiteIsRight
  BY DEF RightInv
<1> QED BY <1>1, <1>2, <1>3, PTL DEF E2ESpec
=============================================================================
