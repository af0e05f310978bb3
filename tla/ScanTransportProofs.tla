------------------------ MODULE ScanTransportProofs ------------------------
(***************************************************************************)
(* What holds of a scan whose state travels with every request, however    *)
(* many replies are lost and whatever the feed does while they are on      *)
(* their way: TLAPS proofs about ScanTransport.                            *)
(***************************************************************************)
EXTENDS ScanTransport, NewsScanPageProofs

-----------------------------------------------------------------------------
(* The round trip                                                          *)

(* The token carries every field of the state.                             *)
LEMMA RoundTripKeeps ==
  ASSUME NEW s \in StateType
  PROVE  RoundTrip(s) = s
<1>1. DOMAIN initial_state = TokenFields
  BY DEF initial_state, TokenFields
<1>2. DOMAIN s = TokenFields /\ s = [f \in DOMAIN s |-> s[f]]
  BY DEF StateType, TokenFields
<1>3. RoundTrip(s) = [f \in TokenFields |-> s[f]]
  BY <1>1 DEF RoundTrip
<1> QED BY <1>2, <1>3

(* What the rest of process() puts into the reply.                         *)
LEMMA PageReplyFacts ==
  ASSUME TypeOK, CountHonoured, StatusAgrees, status # "failed", ~Exhausted,
         NEW page, PageOK(page), NEW r, r = PageReply(page)
  PROVE  /\ r \in ReplyType
         /\ r.token = Advance(page)
         /\ r.rows = CutRows(page) /\ r.rows \subseteq page.rows
         /\ r.asked = AskedAt
         /\ Cardinality(r.rows) \in Nat
         /\ r.rows # {} => Cardinality(r.rows) > 0
         /\ r.token.emitted = state.emitted + Cardinality(r.rows)
         /\ r.token.emitted <= args.count
         /\ r.status = IF r.token.done THEN "finished" ELSE "scanning"
         /\ r.token.done = DoneAfter(page, r.rows)
         /\ r.token.done <=> r.token.done \/ r.token.emitted >= args.count
<1>1. /\ CutRows(page) \subseteq page.rows /\ CutRows(page) \subseteq DOMAIN feed
      /\ Cardinality(CutRows(page)) \in Nat
      /\ CutRows(page) # {} => Cardinality(CutRows(page)) > 0
      /\ Advance(page) \in StateType
      /\ Advance(page).emitted = state.emitted + Cardinality(CutRows(page))
      /\ Advance(page).emitted <= args.count
      /\ Advance(page).done = DoneAfter(page, CutRows(page))
      /\ Advance(page).done <=> Over(Advance(page))
  BY AdvanceFacts
<1>2. r = [token |-> Advance(page), rows |-> CutRows(page), asked |-> AskedAt,
           status |-> IF Advance(page).done THEN "finished" ELSE "scanning"]
  BY <1>1, RoundTripKeeps DEF PageReply, Reply
<1>3. AskedAt \in [at : Nat, upto : 0 .. Len(feed)]
  BY DEF AskedAt, TypeOK
<1>4. r \in ReplyType
  BY <1>1, <1>2, <1>3 DEF ReplyType, StateType
<1> QED BY <1>1, <1>2, <1>4 DEF Over

-----------------------------------------------------------------------------
(* The invariant                                                           *)

(* A reply on its way counts its own rows on top of the engine's state, it *)
(* goes on exactly while its token does, and only with rows.               *)
ReplyCounts == reply # None =>
  /\ reply \in ReplyType
  /\ status # "failed"
  /\ Cardinality(reply.rows) \in Nat
  /\ reply.rows # {} => Cardinality(reply.rows) > 0
  /\ reply.token.emitted = state.emitted + Cardinality(reply.rows)
  /\ reply.token.emitted <= args.count
  /\ reply.status # "failed" =>
       (reply.status = "finished" <=> \/ reply.token.done
                                      \/ reply.token.emitted >= args.count)
  /\ reply.rows = {} => reply.status # "scanning"
  /\ reply.status = "failed" => reply.token = state /\ reply.rows = {}
  /\ Exhausted => /\ reply.token = state /\ reply.rows = {}
                  /\ reply.status = "finished"

(* Its cursor has moved in the provider's own half.                        *)
ReplyCursor == reply # None =>
  /\ reply.token = state \/ reply.token.started
  /\ reply.token = state => reply.rows = {}
  /\ reply.asked = asked \/ ~state.started
  /\ IsGdelt => reply.token.next_page = 1
  /\ IsNewsApi => reply.token.window_end_iso = None

(* Its rows lie below the window that was asked for, and at or above the   *)
(* window it goes on with, and so does all that was received.              *)
ReplyBelow == reply # None /\ IsGdelt =>
  /\ \A a \in reply.rows :
       /\ feed[a].kind # "odd"
       /\ state.window_end_iso # None =>
            \/ feed[a].date < state.window_end_iso
            \/ EndInclusive /\ feed[a].date = state.window_end_iso
  /\ reply.status = "scanning" =>
       /\ reply.token.window_end_iso # None
       /\ \A a \in out \cup reply.rows :
            feed[a].kind = "plain" => reply.token.window_end_iso <= feed[a].date

ReplyInv == ReplyCounts /\ ReplyCursor /\ ReplyBelow

TransportInv == IInv /\ ReplyInv /\ losses \in 0 .. MaxLosses

(* A reply that only repeats the engine's token.                           *)
LEMMA EchoIsOK ==
  ASSUME IInv, Idle, UNCHANGED vars, NEW s \in {"finished", "failed"},
         s = "finished" <=> Exhausted,
         reply' = Reply(state, {}, asked, s)
  PROVE  ReplyInv'
<1>1. TypeOK /\ state \in StateType /\ None \notin Nat
  BY NoneAssumption DEF IInv, TypeOK, StateType
<1>2. reply' = [token |-> state, rows |-> {}, asked |-> asked, status |-> s]
  BY <1>1, RoundTripKeeps DEF Reply
<1>3. reply' \in ReplyType'
  BY <1>1, <1>2 DEF vars, ReplyType, TypeOK, StateType
<1>4. Cardinality({}) = 0 /\ state.emitted + 0 = state.emitted
  BY <1>1, FS_EmptySet DEF StateType
<1>5. state.emitted <= args.count /\ state.done \in BOOLEAN
  BY <1>1 DEF IInv, CountHonoured, StateType
<1>6. ReplyCounts'
  BY <1>2, <1>3, <1>4, <1>5 DEF ReplyCounts, vars, Idle, Exhausted
<1>7. ReplyCursor' /\ ReplyBelow'
  BY <1>2 DEF ReplyCursor, ReplyBelow, IInv, CursorAgrees, IsGdelt, IsNewsApi, vars
<1> QED BY <1>6, <1>7 DEF ReplyInv

(* A page's counts.                                                        *)
LEMMA PageCounts ==
  ASSUME IInv, Idle, ~Exhausted, UNCHANGED vars,
         NEW page, PageOK(page), reply' = PageReply(page)
  PROVE  ReplyCounts'
<1>1. TypeOK /\ CountHonoured /\ StatusAgrees /\ status # "failed"
  BY DEF IInv, Idle
<1>2. /\ reply' \in ReplyType
      /\ Cardinality(reply'.rows) \in Nat
      /\ reply'.rows # {} => Cardinality(reply'.rows) > 0
      /\ reply'.token.emitted = state.emitted + Cardinality(reply'.rows)
      /\ reply'.token.emitted <= args.count
      /\ reply'.status = IF reply'.token.done THEN "finished" ELSE "scanning"
      /\ reply'.token.done = DoneAfter(page, reply'.rows)
      /\ reply'.token.done <=> reply'.token.done \/ reply'.token.emitted >= args.count
  BY <1>1, PageReplyFacts
<1>3. reply'.rows = {} => reply'.token.done
  BY <1>2 DEF DoneAfter
<1>4. ReplyType' = ReplyType /\ ~Exhausted'
  BY DEF vars, ReplyType, Exhausted
<1> QED BY <1>1, <1>2, <1>3, <1>4 DEF ReplyCounts, vars

(* A GDELT page's cursor.                                                  *)
LEMMA ServeGdeltOK == IInv /\ ServeGdelt => ReplyInv'
<1> SUFFICES ASSUME IInv, ServeGdelt PROVE ReplyInv'
  OBVIOUS
<1>1. PICK extra, page :
        /\ page = GdeltSearch(feed, ThisCount, state.window_end_iso,
                              now - args.timespan, extra)
        /\ reply' = PageReply(page)
  BY DEF ServeGdelt
<1> DEFINE end == page.next_window_end
<1>2. /\ TypeOK /\ CountHonoured /\ StatusAgrees /\ CursorAgrees /\ WindowBelow
      /\ status # "failed" /\ ~Exhausted /\ Idle /\ IsGdelt /\ ~IsNewsApi
      /\ UNCHANGED vars
  BY DEF IInv, ServeGdelt, Idle, IsGdelt, IsNewsApi
<1>3. /\ PageOK(page)
      /\ page.next_page = None
      /\ \A a \in page.rows : feed[a].kind # "odd"
      /\ end # None => \A a \in page.rows : feed[a].kind = "plain" => end <= feed[a].date
      /\ \A a \in page.rows : state.window_end_iso # None =>
           \/ feed[a].date < state.window_end_iso
           \/ EndInclusive /\ feed[a].date = state.window_end_iso
      /\ end # None => \E a \in page.rows : feed[a].date = end
  BY <1>1, <1>2, GdeltPage
<1>4. ReplyCounts'
  BY <1>1, <1>2, <1>3, PageCounts
<1>5. /\ reply'.token = Advance(page)
      /\ reply'.rows \subseteq page.rows
      /\ reply'.asked = AskedAt
      /\ reply'.status = IF reply'.token.done THEN "finished" ELSE "scanning"
      /\ reply'.token.done = DoneAfter(page, reply'.rows)
      /\ reply' \in ReplyType
  BY <1>1, <1>2, <1>3, PageReplyFacts
<1>6. /\ reply'.token.started = TRUE
      /\ reply'.token.next_page = state.next_page
      /\ reply'.token.window_end_iso = IF end # None THEN end ELSE state.window_end_iso
  BY <1>3, <1>5 DEF Advance
<1>7. ReplyCursor'
  <2>1. reply'.token = state => reply'.rows = {}
    <3>1. reply'.token.emitted = state.emitted + Cardinality(reply'.rows)
          /\ Cardinality(reply'.rows) \in Nat
          /\ (reply'.rows # {} => Cardinality(reply'.rows) > 0)
      BY <1>1, <1>2, <1>3, PageReplyFacts
    <3>2. state.emitted \in Nat
      BY <1>2 DEF TypeOK
    <3> QED BY <3>1, <3>2
  <2> QED BY <1>2, <1>5, <1>6, <2>1 DEF ReplyCursor, CursorAgrees, vars, IsGdelt,
                                    IsNewsApi, AskedAt
<1>8. ASSUME reply'.status = "scanning"
      PROVE  /\ reply'.token.window_end_iso # None
             /\ \A a \in out \cup reply'.rows :
                  feed[a].kind = "plain" => reply'.token.window_end_iso <= feed[a].date
  <2>1. end # None /\ reply'.token.window_end_iso = end
    BY <1>3, <1>5, <1>6, <1>8 DEF DoneAfter
  <2>2. end \in Nat
    BY <1>3, <2>1 DEF PageOK, Cursor
  <2>3. \A a \in reply'.rows : feed[a].kind = "plain" => end <= feed[a].date
    BY <1>3, <1>5, <2>1
  <2>4. \A a \in out : feed[a].kind = "plain" => end <= feed[a].date
    <3>1. CASE ~state.started
      BY <1>2, <3>1 DEF CursorAgrees
    <3>2. CASE state.started
      <4>1. /\ state.window_end_iso # None
            /\ state.window_end_iso \in Nat
            /\ \A a \in out : feed[a].kind = "plain" =>
                 state.window_end_iso <= feed[a].date
        BY <1>2, <3>2 DEF WindowBelow, TypeOK, Cursor
      <4>2. end <= state.window_end_iso
        <5>1. PICK a \in page.rows : feed[a].date = end
          BY <1>3, <2>1
        <5> QED BY <1>3, <2>2, <4>1, <5>1
      <4>3. \A a \in out : feed[a].date \in Nat
        BY <1>2, FeedTyped DEF TypeOK
      <4> QED BY <2>2, <4>1, <4>2, <4>3
    <3> QED BY <3>1, <3>2
  <2> QED BY <2>1, <2>3, <2>4
<1>9. ReplyBelow'
  BY <1>2, <1>3, <1>5, <1>8 DEF ReplyBelow, vars
<1> QED BY <1>4, <1>7, <1>9 DEF ReplyInv

(* A NewsAPI page's cursor.                                                *)
LEMMA ServeNewsApiOK == IInv /\ ServeNewsApi => ReplyInv'
<1> SUFFICES ASSUME IInv, ServeNewsApi PROVE ReplyInv'
  OBVIOUS
<1> DEFINE page_num == IF state.started THEN state.next_page ELSE 1
           page == NewsApiSearch(feed, ThisCount, args.timespan, now, page_num)
<1>1. /\ TypeOK /\ CountHonoured /\ StatusAgrees /\ CursorAgrees
      /\ status # "failed" /\ ~Exhausted /\ Idle /\ ~IsGdelt /\ IsNewsApi
      /\ UNCHANGED vars /\ reply' = PageReply(page)
  BY DEF IInv, ServeNewsApi, Idle, IsGdelt, IsNewsApi
<1>2. page_num \in Nat \ {0}
  BY <1>1 DEF TypeOK
<1>3. PageOK(page) /\ page.next_window_end = None
  BY <1>1, <1>2, NewsApiPage
<1> HIDE DEF page
<1>4. ReplyCounts'
  BY <1>1, <1>3, PageCounts
<1>5. /\ reply'.token = Advance(page)
      /\ reply'.asked = AskedAt
      /\ reply'.token.emitted = state.emitted + Cardinality(reply'.rows)
      /\ Cardinality(reply'.rows) \in Nat
      /\ reply'.rows # {} => Cardinality(reply'.rows) > 0
  BY <1>1, <1>3, PageReplyFacts
<1>6. /\ reply'.token.started = TRUE
      /\ reply'.token.window_end_iso = state.window_end_iso
  BY <1>3, <1>5 DEF Advance
<1>7. reply'.token = state => reply'.rows = {}
  BY <1>1, <1>5 DEF TypeOK
<1>8. ReplyCursor'
  BY <1>1, <1>5, <1>6, <1>7 DEF ReplyCursor, CursorAgrees, vars, IsGdelt, IsNewsApi, AskedAt
<1>9. ReplyBelow'
  BY <1>1 DEF ReplyBelow, vars, IsGdelt
<1> QED BY <1>4, <1>8, <1>9 DEF ReplyInv

(* A reply that arrives becomes the engine's state: the invariant of a     *)
(* scan holds of it as if the page had been made there and then.           *)
LEMMA ArriveKeepsIInv == TransportInv /\ Arrive => IInv'
<1> SUFFICES ASSUME TransportInv, Arrive PROVE IInv'
  OBVIOUS
<1> DEFINE rows == reply.rows
           n == Cardinality(rows)
<1>1. /\ IInv /\ ReplyCounts /\ ReplyCursor /\ ReplyBelow
      /\ TypeOK /\ CountHonoured /\ StatusAgrees /\ CursorAgrees
  BY DEF TransportInv, ReplyInv, IInv
<1>2. /\ reply # None /\ reply \in ReplyType /\ n \in Nat
      /\ state' = reply.token /\ status' = reply.status /\ asked' = reply.asked
      /\ out' = out \cup rows /\ again' = again \cup (out \cap rows)
      /\ delivered' = Lesser(delivered + n, args.count + 1)
      /\ UNCHANGED <<args, feed, now>>
  BY <1>1 DEF Arrive, ReplyCounts
<1>3. /\ args.count \in Nat /\ state.emitted \in Nat /\ delivered = state.emitted
      /\ reply.token.emitted = state.emitted + n /\ reply.token.emitted <= args.count
  BY <1>1, <1>2, ArgsTyped DEF ReplyCounts, CountHonoured, TypeOK
<1>4. delivered' = delivered + n /\ delivered' \in Nat
  BY <1>2, <1>3 DEF Lesser
<1>5. TypeOK'
  <2>1. /\ state' \in [emitted : Nat, done : BOOLEAN, window_end_iso : Cursor,
                       next_page : Nat \ {0}, started : BOOLEAN]
        /\ rows \subseteq DOMAIN feed
        /\ asked' \in [at : Nat, upto : 0 .. Len(feed)]
        /\ status' \in {"scanning", "finished", "failed"}
    BY <1>2 DEF ReplyType
  <2>2. out' \subseteq DOMAIN feed' /\ again' \subseteq out'
    BY <1>1, <1>2, <2>1 DEF TypeOK
  <2> QED BY <1>1, <1>2, <1>4, <2>1, <2>2 DEF TypeOK
<1>6. CountHonoured'
  BY <1>2, <1>3, <1>4 DEF CountHonoured
<1>7. StatusAgrees'
  BY <1>1, <1>2 DEF StatusAgrees, ReplyCounts, Exhausted
<1>8. CursorAgrees'
  <2>1. ~state'.started => state' = initial_state /\ out' = {}
    BY <1>1, <1>2 DEF ReplyCursor, CursorAgrees
  <2> QED BY <1>1, <1>2, <2>1 DEF ReplyCursor, CursorAgrees, IsGdelt, IsNewsApi
<1>9. WindowBelow'
  <2>1. CASE ~IsGdelt \/ Exhausted'
    BY <1>2, <2>1 DEF WindowBelow, IsGdelt
  <2>2. CASE IsGdelt /\ reply.status = "scanning"
    BY <1>1, <1>2, <2>2 DEF ReplyBelow, WindowBelow
  <2>3. CASE reply.status = "failed"
    <3>1. state' = state /\ out' = out
      BY <1>1, <1>2, <2>3 DEF ReplyCounts
    <3> QED BY <1>1, <1>2, <3>1 DEF IInv, WindowBelow, IsGdelt, Exhausted
  <2>4. CASE reply.status = "finished"
    BY <1>1, <1>2, <2>1, <2>4 DEF ReplyCounts, Exhausted
  <2> QED BY <1>2, <2>1, <2>2, <2>3, <2>4 DEF ReplyType
<1> QED BY <1>5, <1>6, <1>7, <1>8, <1>9 DEF IInv

(* While a reply is on its way the feed and the clock may move.            *)
LEMMA MeanwhileKeepsReply == TransportInv /\ Meanwhile => ReplyInv'
<1> SUFFICES ASSUME TransportInv, Meanwhile PROVE ReplyInv'
  OBVIOUS
<1>1. CASE Elapse
  <2>1. UNCHANGED <<args, state, feed, status, delivered, out, again, asked, reply>>
    BY <1>1 DEF Elapse, Meanwhile
  <2>2. ReplyCounts' /\ ReplyCursor' /\ ReplyBelow'
    BY <2>1 DEF TransportInv, ReplyInv, ReplyCounts, ReplyCursor, ReplyBelow,
                ReplyType, Exhausted, IsGdelt, IsNewsApi
  <2> QED BY <2>2 DEF ReplyInv
<1>2. CASE Publish
  <2>1. PICK kind \in Kinds : feed' = Append(feed, [date |-> now, kind |-> kind])
    BY <1>2 DEF Publish
  <2>2. UNCHANGED <<args, state, now, status, delivered, out, again, asked, reply>>
    BY <1>2 DEF Publish, Meanwhile
  <2>3. feed \in Seq(Article) /\ out \subseteq DOMAIN feed
    BY DEF TransportInv, IInv, TypeOK
  <2>4. /\ DOMAIN feed \subseteq DOMAIN feed'
        /\ Len(feed) \in Nat /\ Len(feed') = Len(feed) + 1
        /\ \A a \in DOMAIN feed : feed'[a] = feed[a]
    BY <2>1, <2>3
  <2>5. reply # None => reply \in ReplyType'
    <3>1. SUFFICES ASSUME reply # None PROVE reply \in ReplyType'
      OBVIOUS
    <3>2. reply \in ReplyType
      BY <3>1 DEF TransportInv, ReplyInv, ReplyCounts
    <3>3. 0 .. Len(feed) \subseteq 0 .. Len(feed')
      BY <2>4
    <3> QED BY <2>4, <3>2, <3>3 DEF ReplyType
  <2>6. ReplyCounts'
    BY <2>2, <2>5 DEF TransportInv, ReplyInv, ReplyCounts, Exhausted
  <2>7. ReplyCursor'
    BY <2>2 DEF TransportInv, ReplyInv, ReplyCursor, IsGdelt, IsNewsApi
  <2>8. ReplyBelow'
    <3>1. SUFFICES ASSUME reply # None, IsGdelt PROVE ReplyBelow'
      BY <2>2 DEF ReplyBelow, IsGdelt
    <3>2. reply.rows \subseteq DOMAIN feed /\ ReplyBelow
      BY <3>1 DEF TransportInv, ReplyInv, ReplyCounts, ReplyType
    <3>3. \A a \in out \cup reply.rows : feed'[a] = feed[a]
      BY <2>3, <2>4, <3>2
    <3> QED BY <2>2, <3>1, <3>2, <3>3 DEF ReplyBelow, IsGdelt
  <2> QED BY <2>6, <2>7, <2>8 DEF ReplyInv
<1> QED BY <1>1, <1>2 DEF Meanwhile

(* Every step keeps the invariant.                                         *)
LEMMA TransportStep == TransportInv /\ [TransportNext]_transportVars => TransportInv'
<1> SUFFICES ASSUME TransportInv, [TransportNext]_transportVars PROVE TransportInv'
  OBVIOUS
<1>1. IInv /\ ReplyInv /\ losses \in 0 .. MaxLosses
  BY DEF TransportInv
<1>2. CASE Serve
  <2>1. UNCHANGED vars /\ losses' = losses
    BY <1>2 DEF Serve, ServeDone, ServeGdelt, ServeNewsApi, ServeError
  <2>2. IInv'
    BY <1>1, <2>1, OthersKeepIInv
  <2>3. ASSUME ServeDone PROVE ReplyInv'
    BY <1>1, <2>1, <2>3, EchoIsOK DEF ServeDone
  <2>4. ASSUME ServeError PROVE ReplyInv'
    BY <1>1, <2>1, <2>4, EchoIsOK DEF ServeError
  <2> QED BY <1>1, <1>2, <2>1, <2>2, <2>3, <2>4, ServeGdeltOK, ServeNewsApiOK
          DEF Serve, TransportInv
<1>3. CASE Arrive
  <2>1. reply' = None /\ losses' = losses
    BY <1>3 DEF Arrive
  <2>2. ReplyInv'
    BY <2>1 DEF ReplyInv, ReplyCounts, ReplyCursor, ReplyBelow
  <2> QED BY <1>1, <1>3, <2>1, <2>2, ArriveKeepsIInv DEF TransportInv
<1>4. CASE Lose
  <2>1. /\ UNCHANGED vars /\ reply' = None /\ losses' \in 0 .. MaxLosses
    BY <1>1, <1>4, LossAssumption DEF Lose
  <2>2. ReplyInv'
    BY <2>1 DEF ReplyInv, ReplyCounts, ReplyCursor, ReplyBelow
  <2> QED BY <1>1, <2>1, <2>2, OthersKeepIInv DEF TransportInv
<1>5. CASE Abandon
  <2>1. /\ reply' = None /\ losses' \in 0 .. MaxLosses /\ status' = "failed"
        /\ UNCHANGED <<args, state, feed, now, delivered, out, again, asked>>
    BY <1>1, <1>5, LossAssumption DEF Abandon
  <2>2. ReplyInv'
    BY <2>1 DEF ReplyInv, ReplyCounts, ReplyCursor, ReplyBelow
  <2>3. TypeOK' /\ CountHonoured' /\ StatusAgrees' /\ CursorAgrees' /\ WindowBelow'
    BY <1>1, <2>1 DEF IInv, TypeOK, CountHonoured, StatusAgrees, CursorAgrees,
                      WindowBelow, Exhausted, IsGdelt, IsNewsApi
  <2> QED BY <2>1, <2>2, <2>3 DEF TransportInv, IInv
<1>6. CASE Meanwhile
  <2>1. IInv' /\ losses' = losses
    BY <1>1, <1>6, OthersKeepIInv, PublishKeepsIInv DEF Meanwhile
  <2> QED BY <1>1, <1>6, <2>1, MeanwhileKeepsReply DEF TransportInv
<1>7. CASE UNCHANGED transportVars
  <2>1. UNCHANGED vars /\ reply' = reply /\ losses' = losses
    BY <1>7 DEF transportVars
  <2>2. IInv'
    BY <1>1, <2>1, OthersKeepIInv
  <2>3. ReplyInv'
    BY <1>1, <2>1 DEF vars, ReplyInv, ReplyCounts, ReplyCursor, ReplyBelow,
                      ReplyType, Exhausted, IsGdelt, IsNewsApi
  <2> QED BY <1>1, <2>1, <2>2, <2>3 DEF TransportInv
<1> QED BY <1>2, <1>3, <1>4, <1>5, <1>6, <1>7 DEF TransportNext

(* The invariant holds throughout.                                         *)
THEOREM TransportInvariance == TransportSpec => []TransportInv
<1>1. TransportInit => TransportInv
  BY InitIInv, LossAssumption
     DEF TransportInit, TransportInv, ReplyInv, ReplyCounts, ReplyCursor, ReplyBelow
<1> QED BY <1>1, TransportStep, PTL DEF TransportSpec

-----------------------------------------------------------------------------
(* What follows                                                            *)

(* The engine's state, the token and the reply on its way have their types.*)
THEOREM TransportTypeCorrect == TransportSpec => []TransportTypeOK
<1>1. TransportInv => TransportTypeOK
  BY DEF TransportInv, IInv, ReplyInv, ReplyCounts, TransportTypeOK
<1> QED BY <1>1, TransportInvariance, PTL

(* However many replies are lost, the rows the cursor counts are the rows  *)
(* the engine received, and never more than `count`.                       *)
THEOREM TransportCountIsHonoured == TransportSpec => []CountHonoured
<1>1. TransportInv => CountHonoured
  BY DEF TransportInv, IInv
<1> QED BY <1>1, TransportInvariance, PTL

(* What arrives lies below what was received, if it is dated.              *)
LEMMA TransportRepeatStep ==
  TransportInv /\ NoDatedRepeat /\ [TransportNext]_transportVars => NoDatedRepeat'
<1> SUFFICES ASSUME TransportInv, NoDatedRepeat, [TransportNext]_transportVars
             PROVE  NoDatedRepeat'
  OBVIOUS
<1>1. CASE Arrive
  <2>1. SUFFICES ASSUME IsGdelt, ~EndInclusive, NEW a \in out \cap reply.rows
                 PROVE  feed[a].kind = "undated"
    BY <1>1 DEF Arrive, NoDatedRepeat, IsGdelt
  <2>2. reply # None /\ ReplyCounts /\ ReplyBelow /\ CursorAgrees /\ WindowBelow /\ TypeOK
    BY <1>1 DEF TransportInv, IInv, ReplyInv, Arrive
  <2>3. ~Exhausted
    BY <2>1, <2>2 DEF ReplyCounts
  <2>4. state.started /\ state.window_end_iso # None
    BY <2>1, <2>2, <2>3 DEF CursorAgrees, WindowBelow
  <2>5. feed[a].kind # "odd" /\ feed[a].date < state.window_end_iso
    BY <2>1, <2>2, <2>4 DEF ReplyBelow
  <2>6. feed[a].kind = "plain" => state.window_end_iso <= feed[a].date
    BY <2>1, <2>2, <2>3 DEF WindowBelow
  <2>7. feed[a].date \in Nat /\ feed[a].kind \in Kinds /\ state.window_end_iso \in Nat
    BY <2>1, <2>2, <2>4, FeedTyped DEF TypeOK, Cursor
  <2>8. feed[a].kind # "plain"
    BY <2>5, <2>6, <2>7
  <2> QED BY <2>5, <2>7, <2>8, KindsAssumption
<1>2. CASE Meanwhile
  <2>1. IInv /\ [Next]_vars
    BY <1>2 DEF TransportInv, Meanwhile, Next
  <2> QED BY <2>1, RepeatStep
<1>3. CASE Serve \/ Lose \/ Abandon \/ UNCHANGED transportVars
  <2>1. UNCHANGED <<args, feed, again>>
    BY <1>3 DEF Serve, ServeDone, ServeGdelt, ServeNewsApi, ServeError, Lose, Abandon,
                vars, transportVars
  <2> QED BY <2>1 DEF NoDatedRepeat, IsGdelt
<1> QED BY <1>1, <1>2, <1>3 DEF TransportNext

(* Replies lost and made again, over a feed that moves between them, bring *)
(* no dated article twice from a service whose windows exclude their end.  *)
THEOREM TransportDatedComeOnce == TransportSpec => []NoDatedRepeat
<1>1. TransportInit => NoDatedRepeat
  BY DEF TransportInit, Init, NoDatedRepeat
<1> QED BY <1>1, TransportRepeatStep, TransportInvariance, PTL DEF TransportSpec

(* A step of the engine, the wire or a worker is a step of the contract or *)
(* none of its business.                                                   *)
LEMMA TransportIsContract ==
  TransportInv /\ [TransportNext]_transportVars => [Contract!Next]_(Contract!vars)
<1> SUFFICES ASSUME TransportInv, [TransportNext]_transportVars
             PROVE  [Contract!Next]_(Contract!vars)
  OBVIOUS
<1>1. CASE Arrive
  <2> DEFINE n == Cardinality(reply.rows)
  <2>1. /\ reply # None /\ ReplyCounts /\ TypeOK /\ CountHonoured /\ StatusAgrees
        /\ IInv'
    BY <1>1, ArriveKeepsIInv DEF TransportInv, ReplyInv, IInv, Arrive
  <2>2. /\ n \in Nat /\ reply \in ReplyType /\ status # "failed"
        /\ args.count \in Nat /\ delivered \in Nat /\ delivered = state.emitted
        /\ reply.token.emitted = state.emitted + n
        /\ reply.token.emitted <= args.count
        /\ state.emitted \in Nat
    BY <2>1, ArgsTyped DEF ReplyCounts, TypeOK, CountHonoured
  <2>3. /\ delivered' = delivered + n
        /\ args' = args /\ status' = reply.status
    BY <1>1, <2>2 DEF Arrive, Lesser
  <2>4. CASE Exhausted
    <3>1. reply.rows = {} /\ reply.status = "finished" /\ status = "finished"
      BY <2>1, <2>2, <2>4 DEF ReplyCounts, StatusAgrees
    <3>2. UNCHANGED <<args, delivered, status>>
      BY <2>2, <2>3, <3>1, FS_EmptySet
    <3> QED BY <3>2 DEF Contract!vars
  <2>5. CASE ~Exhausted
    <3>1. status = "scanning"
      BY <2>1, <2>2, <2>5 DEF StatusAgrees, TypeOK
    <3>2. CASE reply.rows = {}
      <4>1. n = 0 /\ reply.status \in {"finished", "failed"}
        BY <2>1, <2>2, <3>2, FS_EmptySet DEF ReplyCounts, ReplyType
      <4>2. Contract!Finish \/ Contract!Fail
        BY <2>2, <2>3, <3>1, <4>1 DEF Contract!Finish, Contract!Fail
      <4> QED BY <4>2 DEF Contract!Next
    <3>3. CASE reply.rows # {}
      <4>1. reply.status \in {"scanning", "finished"} /\ n > 0
        BY <2>1, <2>2, <3>3 DEF ReplyCounts, ReplyType
      <4>2. delivered' = args.count => status' = "finished"
        BY <2>1, <2>2, <2>3, <4>1 DEF ReplyCounts
      <4>3. n \in 1 .. args.count - delivered
        BY <2>2, <4>1
      <4>4. Contract!Emit(n)
        BY <2>2, <2>3, <3>1, <4>1, <4>2 DEF Contract!Emit
      <4> QED BY <4>3, <4>4 DEF Contract!Next
    <3> QED BY <3>2, <3>3
  <2> QED BY <2>4, <2>5
<1>2. CASE Abandon
  <2>1. Contract!Fail
    BY <1>2 DEF Abandon, Contract!Fail
  <2> QED BY <2>1 DEF Contract!Next
<1>3. CASE Serve \/ Lose \/ Meanwhile \/ UNCHANGED transportVars
  <2>1. UNCHANGED <<args, delivered, status>>
    BY <1>3 DEF Serve, ServeDone, ServeGdelt, ServeNewsApi, ServeError, Lose, Meanwhile,
                Publish, Elapse, vars, transportVars
  <2> QED BY <2>1 DEF Contract!vars
<1> QED BY <1>1, <1>2, <1>3 DEF TransportNext

(* The contract with the engine survives the transport: lost replies,      *)
(* restarted workers and a token presented again after the end included.   *)
THEOREM TransportKeepsContract == TransportSpec => KeepsContract
<1>1. TransportInit => Contract!Init
  BY ArgsAssumption DEF TransportInit, Init, Contract!Init
<1> QED BY <1>1, TransportIsContract, TransportInvariance, PTL
        DEF TransportSpec, KeepsContract, Contract!Spec

-----------------------------------------------------------------------------
(* The cursor moves                                                        *)

(* A reply that leaves the scan open brings rows and a cursor moved on.    *)
ReplyMoves == reply # None /\ reply.token # state /\ ~reply.token.done =>
  /\ reply.rows # {}
  /\ IsGdelt   => WindowMoves(state.window_end_iso, reply.token.window_end_iso)
  /\ IsNewsApi => reply.token.next_page > state.next_page

(* A worker that serves a request moves the cursor of the token it got.    *)
LEMMA ServeMoves ==
  ASSUME TransportInv, Serve
  PROVE  ReplyMoves'
<1>1. /\ IInv /\ TypeOK /\ CountHonoured /\ StatusAgrees /\ CursorAgrees
      /\ UNCHANGED vars /\ status # "failed"
  BY DEF TransportInv, IInv, Serve, ServeDone, ServeGdelt, ServeNewsApi, ServeError, Idle
<1>2. CASE ServeDone \/ ServeError
  <2>1. RoundTrip(state) = state
    BY <1>1, RoundTripKeeps DEF TypeOK, StateType
  <2>2. reply'.token = state /\ state' = state
    BY <1>1, <1>2, <2>1 DEF ServeDone, ServeError, Reply, vars
  <2> QED BY <2>2 DEF ReplyMoves
<1>3. CASE ServeGdelt
  <2>1. PICK extra, page :
          /\ page = GdeltSearch(feed, ThisCount, state.window_end_iso,
                                now - args.timespan, extra)
          /\ reply' = PageReply(page)
    BY <1>3 DEF ServeGdelt
  <2> DEFINE end == page.next_window_end
  <2>2. ~Exhausted /\ IsGdelt /\ ~IsNewsApi
    BY <1>3 DEF ServeGdelt, IsGdelt, IsNewsApi
  <2>3. /\ PageOK(page)
        /\ page.next_page = None
        /\ \A a \in page.rows : state.window_end_iso # None =>
             \/ feed[a].date < state.window_end_iso
             \/ EndInclusive /\ feed[a].date = state.window_end_iso
        /\ end # None => \E a \in page.rows : feed[a].date = end
    BY <1>1, <2>1, GdeltPage
  <2>4. /\ reply'.token = Advance(page)
        /\ reply'.token.done = DoneAfter(page, reply'.rows)
    BY <1>1, <2>1, <2>2, <2>3, PageReplyFacts
  <2>5. SUFFICES ASSUME ~reply'.token.done
                 PROVE  /\ reply'.rows # {}
                        /\ WindowMoves(state.window_end_iso, reply'.token.window_end_iso)
    BY <1>1, <2>2 DEF ReplyMoves, vars, IsGdelt, IsNewsApi, WindowMoves
  <2>6. reply'.rows # {} /\ end # None
    BY <2>3, <2>4, <2>5 DEF DoneAfter
  <2>7. reply'.token.window_end_iso = end
    BY <2>4, <2>6 DEF Advance
  <2>8. WindowMoves(state.window_end_iso, end)
    BY <2>3, <2>6 DEF WindowMoves
  <2> QED BY <2>6, <2>7, <2>8
<1>4. CASE ServeNewsApi
  <2> DEFINE page_num == IF state.started THEN state.next_page ELSE 1
             page == NewsApiSearch(feed, ThisCount, args.timespan, now, page_num)
  <2>1. /\ ~Exhausted /\ IsNewsApi /\ ~IsGdelt /\ reply' = PageReply(page)
    BY <1>4 DEF ServeNewsApi, IsGdelt, IsNewsApi
  <2>2. page_num \in Nat \ {0} /\ page_num = state.next_page
    BY <1>1 DEF TypeOK, CursorAgrees, initial_state
  <2>3. /\ PageOK(page) /\ page.next_window_end = None
        /\ page.next_page # None => page.next_page = page_num + 1
    BY <1>1, <2>2, NewsApiPage
  <2> HIDE DEF page
  <2>4. /\ reply'.token = Advance(page)
        /\ reply'.token.done = DoneAfter(page, reply'.rows)
    BY <1>1, <2>1, <2>3, PageReplyFacts
  <2>5. SUFFICES ASSUME ~reply'.token.done
                 PROVE  reply'.rows # {} /\ reply'.token.next_page > state.next_page
    BY <1>1, <2>1 DEF ReplyMoves, vars, IsGdelt, IsNewsApi
  <2>6. reply'.rows # {} /\ page.next_page # None
    BY <2>3, <2>4, <2>5 DEF DoneAfter
  <2>7. reply'.token.next_page = page_num + 1
    BY <2>3, <2>4, <2>6 DEF Advance
  <2> QED BY <2>2, <2>6, <2>7
<1> QED BY <1>2, <1>3, <1>4 DEF Serve

(* Until it arrives nothing touches the token it answers.                  *)
LEMMA MovesStep == TransportInv /\ ReplyMoves /\ [TransportNext]_transportVars => ReplyMoves'
<1> SUFFICES ASSUME TransportInv, ReplyMoves, [TransportNext]_transportVars
             PROVE  ReplyMoves'
  OBVIOUS
<1>1. CASE Serve
  BY <1>1, ServeMoves
<1>2. CASE Arrive \/ Lose \/ Abandon
  BY <1>2 DEF Arrive, Lose, Abandon, ReplyMoves
<1>3. CASE Meanwhile \/ UNCHANGED transportVars
  <2>1. UNCHANGED <<args, state, reply>>
    BY <1>3 DEF Meanwhile, Publish, Elapse, transportVars, vars
  <2> QED BY <2>1 DEF ReplyMoves, IsGdelt, IsNewsApi
<1> QED BY <1>1, <1>2, <1>3 DEF TransportNext

(* However many replies are lost, one that arrives and leaves the scan     *)
(* open has brought a row and moved the engine's cursor on.                *)
THEOREM TransportCursorMoves == TransportSpec => CursorMoves
<1>1. TransportInit => ReplyMoves
  BY DEF TransportInit, ReplyMoves
<1>2. TransportInv /\ ReplyMoves /\ [TransportNext]_transportVars =>
        [state' # state /\ ~state'.done =>
           /\ delivered' > delivered
           /\ IsGdelt   => WindowMoves(state.window_end_iso, state'.window_end_iso)
           /\ IsNewsApi => state'.next_page > state.next_page]_vars
  <2> SUFFICES ASSUME TransportInv, ReplyMoves, [TransportNext]_transportVars,
                      state' # state, ~state'.done
               PROVE  /\ delivered' > delivered
                      /\ IsGdelt   => WindowMoves(state.window_end_iso, state'.window_end_iso)
                      /\ IsNewsApi => state'.next_page > state.next_page
    OBVIOUS
  <2>1. Arrive
    BY DEF TransportNext, Serve, ServeDone, ServeGdelt, ServeNewsApi, ServeError, Lose,
           Abandon, Meanwhile, Publish, Elapse, transportVars, vars
  <2>2. reply # None /\ state' = reply.token
        /\ delivered' = Lesser(delivered + Cardinality(reply.rows), args.count + 1)
    BY <2>1 DEF Arrive
  <2>3. reply.rows # {} /\ ReplyCounts
    BY <2>2 DEF ReplyMoves, TransportInv, ReplyInv
  <2>4. Cardinality(reply.rows) \in Nat /\ Cardinality(reply.rows) > 0
    BY <2>2, <2>3 DEF ReplyCounts
  <2>5. /\ delivered \in Nat /\ args.count \in Nat /\ delivered <= args.count
    BY ArgsTyped DEF TransportInv, IInv, TypeOK, CountHonoured
  <2>6. delivered' > delivered
    BY <2>2, <2>4, <2>5 DEF Lesser
  <2> QED BY <2>2, <2>6 DEF ReplyMoves
<1> QED BY <1>1, <1>2, MovesStep, TransportInvariance, PTL DEF TransportSpec, CursorMoves

-----------------------------------------------------------------------------
(* What a scan delivers of the look-back                                   *)

(* A reply on its way stands where its arrival will leave the engine,      *)
(* however long it travels and whatever is published meanwhile.            *)
ReplyStands == reply # None =>
  Behind(reply.token, out \cup reply.rows, again \cup (out \cap reply.rows), reply.asked)

StandInv == PageInv /\ ReplyStands

(* A worker's page leads where the proofs of NewsScan say.                 *)
LEMMA PageLeads ==
  ASSUME IInv, Idle, ~Exhausted, UNCHANGED vars,
         NEW page, PageOK(page), reply' = PageReply(page),
         \A t, o, ag, k : Leaves(page, t, o, ag, k) => Behind(t, o, ag, k)
  PROVE  ReplyStands'
<1>1. TypeOK /\ CountHonoured /\ StatusAgrees /\ status # "failed"
  BY DEF IInv, Idle
<1>2. /\ reply'.token = Advance(page) /\ reply'.rows = CutRows(page)
      /\ reply'.asked = AskedAt
  BY <1>1, PageReplyFacts
<1>3. PICK t, o, ag, k : Leaves(page, t, o, ag, k)
  BY DEF Leaves
<1>4. /\ reply'.token = t /\ reply'.asked = k
      /\ out' \cup reply'.rows = o
      /\ again' \cup (out' \cap reply'.rows) = ag
  BY <1>2, <1>3 DEF Leaves, vars
<1>5. Behind(t, o, ag, k)'
  BY <1>3, NothingMoves DEF vars
<1> QED BY <1>4, <1>5 DEF ReplyStands

(* A reply that only repeats the token stands where the engine does.       *)
LEMMA EchoStands ==
  ASSUME TypeOK, UNCHANGED vars, Behind(state, out, again, asked),
         NEW s, reply' = Reply(state, {}, asked, s)
  PROVE  ReplyStands'
<1>1. reply'.token = state /\ reply'.rows = {} /\ reply'.asked = asked
  BY RoundTripKeeps DEF Reply, TypeOK, StateType
<1>2. PICK t, o, ag, k : t = state /\ o = out /\ ag = again /\ k = asked
  OBVIOUS
<1>3. /\ reply'.token = t /\ reply'.asked = k
      /\ out' \cup reply'.rows = o
      /\ again' \cup (out' \cap reply'.rows) = ag
  BY <1>1, <1>2 DEF vars
<1>4. Behind(t, o, ag, k)'
  <2>1. Behind(t, o, ag, k)
    BY <1>2
  <2> QED BY <2>1, NothingMoves DEF vars
<1> QED BY <1>3, <1>4 DEF ReplyStands

(* Whatever a worker answers leads on.                                     *)
LEMMA ServeStands ==
  ASSUME IInv, PageInv, Serve
  PROVE  ReplyStands'
<1>1. /\ TypeOK /\ Behind(state, out, again, asked)
      /\ Idle /\ UNCHANGED vars
  BY DEF IInv, PageInv, Serve, ServeDone, ServeGdelt, ServeNewsApi, ServeError
<1>2. CASE ServeDone \/ ServeError
  BY <1>1, <1>2, EchoStands DEF ServeDone, ServeError
<1>3. CASE ServeGdelt
  <2>1. PICK extra \in Extras :
          reply' = PageReply(GdeltSearch(feed, ThisCount, state.window_end_iso,
                                         now - args.timespan, extra))
    BY <1>3 DEF ServeGdelt
  <2>2. PICK page : page = GdeltSearch(feed, ThisCount, state.window_end_iso,
                                       now - args.timespan, extra)
    OBVIOUS
  <2>3. GdeltPageNow(page, extra) /\ PageOK(page) /\ ~Exhausted /\ reply' = PageReply(page)
    BY <1>1, <1>3, <2>1, <2>2, GdeltPage DEF ServeGdelt, GdeltPageNow, IsGdelt
  <2> QED BY <1>1, <2>3, GdeltLeaves, PageLeads
<1>4. CASE ServeNewsApi
  <2>1. PICK page : page = NewsApiSearch(feed, ThisCount, args.timespan, now, state.next_page)
    OBVIOUS
  <2>2. NewsApiPageNow(page) /\ ~Exhausted /\ reply' = PageReply(page)
    BY <1>4, <2>1, FreshAsksForOne DEF ServeNewsApi, NewsApiPageNow, IsNewsApi
  <2>3. PageOK(page)
    BY <2>2, PageHolds
  <2> QED BY <1>1, <2>2, <2>3, NewsApiLeaves, PageLeads
<1> QED BY <1>2, <1>3, <1>4 DEF Serve

(* While the feed moves, engine and reply stand behind what they stood.    *)
LEMMA MeanwhileStands ==
  ASSUME TransportInv, StandInv, Meanwhile
  PROVE  StandInv'
<1>1. /\ IInv /\ TypeOK /\ CursorAgrees /\ Ordered
      /\ ReplyCounts /\ ReplyCursor /\ PageInv /\ ReplyStands
  BY DEF TransportInv, IInv, ReplyInv, StandInv, PageInv
<1>2. /\ Publish \/ Elapse
      /\ UNCHANGED <<out, again, reply>>
  BY DEF Meanwhile, Publish, Elapse
<1>3. PageInv'
  BY <1>1, <1>2, PageStep DEF Next
<1>4. ASSUME reply # None PROVE ReplyStands'
  <2>1. PICK t, o, ag, k : /\ t = reply.token /\ o = out \cup reply.rows
                           /\ ag = again \cup (out \cap reply.rows) /\ k = reply.asked
    OBVIOUS
  <2>2. t \in StateType /\ o \subseteq DOMAIN feed /\ k \in [at : Nat, upto : 0 .. Len(feed)]
    BY <1>1, <1>4, <2>1 DEF ReplyCounts, ReplyType, StateType, TypeOK
  <2>3. ~t.started => o = {} /\ ag = {}
    BY <1>1, <1>4, <2>1 DEF ReplyCursor, CursorAgrees, TypeOK
  <2>4. Behind(t, o, ag, k)
    BY <1>1, <1>4, <2>1 DEF ReplyStands
  <2>5. Behind(t, o, ag, k)'
    BY <1>1, <1>2, <2>2, <2>3, <2>4, FeedMoves
  <2>6. /\ t = reply'.token /\ o = out' \cup reply'.rows
        /\ ag = again' \cup (out' \cap reply'.rows) /\ k = reply'.asked
    BY <1>2, <2>1
  <2> QED BY <2>5, <2>6 DEF ReplyStands
<1> QED BY <1>2, <1>3, <1>4 DEF StandInv, ReplyStands

(* Every step keeps it.                                                    *)
LEMMA StandStep == TransportInv /\ StandInv /\ [TransportNext]_transportVars => StandInv'
<1> SUFFICES ASSUME TransportInv, StandInv, [TransportNext]_transportVars
             PROVE  StandInv'
  OBVIOUS
<1>1. IInv /\ TypeOK /\ PageInv /\ Ordered /\ ReplyStands
  BY DEF TransportInv, IInv, StandInv, PageInv
<1>2. CASE Serve
  <2>1. UNCHANGED vars
    BY <1>2 DEF Serve, ServeDone, ServeGdelt, ServeNewsApi, ServeError
  <2> QED BY <1>1, <1>2, <2>1, ServeStands, PageStep DEF StandInv
<1>3. CASE Arrive
  <2>1. PICK t, o, ag, k : /\ t = reply.token /\ o = out \cup reply.rows
                           /\ ag = again \cup (out \cap reply.rows) /\ k = reply.asked
    OBVIOUS
  <2>2. /\ state' = t /\ out' = o /\ again' = ag /\ asked' = k
        /\ reply # None /\ reply' = None /\ UNCHANGED <<args, feed, now>>
    BY <1>3, <2>1 DEF Arrive
  <2>3. Behind(t, o, ag, k)
    BY <1>1, <2>1, <2>2 DEF ReplyStands
  <2>4. Behind(t, o, ag, k)'
    BY <2>2, <2>3, NothingMoves
  <2>5. Behind(state, out, again, asked)' /\ Ordered'
    BY <1>1, <2>2, <2>4 DEF Ordered
  <2> QED BY <2>2, <2>5 DEF StandInv, PageInv, ReplyStands
<1>4. CASE Lose
  BY <1>1, <1>4, PageStep DEF Lose, StandInv, ReplyStands
<1>5. CASE Abandon
  <2>1. PICK s, o, ag, k : s = state /\ o = out /\ ag = again /\ k = asked
    OBVIOUS
  <2>2. /\ state' = s /\ out' = o /\ again' = ag /\ asked' = k
        /\ reply' = None /\ UNCHANGED <<args, feed, now>>
    BY <1>5, <2>1 DEF Abandon
  <2>3. Behind(s, o, ag, k)
    BY <1>1, <2>1 DEF PageInv
  <2>4. Behind(s, o, ag, k)'
    BY <2>2, <2>3, NothingMoves
  <2>5. Behind(state, out, again, asked)' /\ Ordered'
    BY <1>1, <2>2, <2>4 DEF Ordered
  <2> QED BY <2>2, <2>5 DEF StandInv, PageInv, ReplyStands
<1>6. CASE Meanwhile
  BY <1>6, MeanwhileStands
<1>7. CASE UNCHANGED transportVars
  <2>1. UNCHANGED vars /\ reply' = reply
    BY <1>7 DEF transportVars
  <2>2. PageInv'
    BY <1>1, <2>1, PageStep
  <2>3. ASSUME reply # None PROVE ReplyStands'
    <3>1. PICK t, o, ag, k : /\ t = reply.token /\ o = out \cup reply.rows
                             /\ ag = again \cup (out \cap reply.rows) /\ k = reply.asked
      OBVIOUS
    <3>2. Behind(t, o, ag, k)
      BY <1>1, <2>3, <3>1 DEF ReplyStands
    <3>3. Behind(t, o, ag, k)'
      BY <2>1, <3>2, NothingMoves DEF vars
    <3>4. /\ t = reply'.token /\ o = out' \cup reply'.rows
          /\ ag = again' \cup (out' \cap reply'.rows) /\ k = reply'.asked
      BY <2>1, <3>1 DEF vars
    <3> QED BY <3>3, <3>4 DEF ReplyStands
  <2> QED BY <2>1, <2>2, <2>3 DEF StandInv, ReplyStands
<1> QED BY <1>2, <1>3, <1>4, <1>5, <1>6, <1>7 DEF TransportNext

(* It holds throughout.                                                    *)
THEOREM StandInvariance == TransportSpec => []StandInv
<1>1. TransportInit => StandInv
  BY InitPageInv DEF TransportInit, StandInv, ReplyStands
<1> QED BY <1>1, StandStep, TransportInvariance, PTL DEF TransportSpec

(* Replies that are lost or come late jump over nothing: by GDELT windows  *)
(* that include their end and by NewsAPI pages of one size, an article the *)
(* engine received comes with every newer one of the look-back.            *)
THEOREM TransportJumpsOverNothing == TransportSpec => []NoGap
<1>1. TransportInv /\ StandInv => NoGap
  BY WhereTheEngineStands DEF TransportInv, StandInv, PageInv
<1> QED BY <1>1, TransportInvariance, StandInvariance, PTL

(* ... and GDELT's windows lose articles only at their edges.              *)
THEOREM TransportGapsAreAtEdges == TransportSpec => []GapsOnlyAtEdges
<1>1. TransportInv /\ StandInv => GapsOnlyAtEdges
  BY WhereTheEngineStands DEF TransportInv, StandInv, PageInv
<1> QED BY <1>1, TransportInvariance, StandInvariance, PTL

(* A scan that finishes short of `count` has received the look-back, the   *)
(* same exceptions made, whatever was lost on the way and asked for again. *)
THEOREM TransportIsCompleteWhenShort == TransportSpec => []CompleteWhenShort
<1>1. TransportInv /\ StandInv => CompleteWhenShort
  BY WhereTheEngineStands DEF TransportInv, StandInv, PageInv
<1> QED BY <1>1, TransportInvariance, StandInvariance, PTL

(* NewsAPI pages of one size bring nothing twice over a feed at rest, even *)
(* when one was made, lost and made again.                                 *)
THEOREM TransportPagesAreDisjoint == TransportSpec => []PagesDisjoint
<1>1. TransportInv /\ StandInv => PagesDisjoint
  BY WhereTheEngineStands DEF TransportInv, StandInv, PageInv
<1> QED BY <1>1, TransportInvariance, StandInvariance, PTL

(* No page reaches behind the look-back of the first one that arrived,     *)
(* although each attempt at a page computes `from` anew.                   *)
THEOREM TransportLookBackIsKept == TransportSpec => []NewsApiLookBack
<1>1. TransportInv /\ StandInv => NewsApiLookBack
  BY WhereTheEngineStands DEF TransportInv, StandInv, PageInv
<1> QED BY <1>1, TransportInvariance, StandInvariance, PTL

-----------------------------------------------------------------------------
(* Over a feed at rest lost replies leave no trace                         *)

(* Nothing can be published and the clock cannot move.                     *)
AtRest == /\ MaxNow <= InitNow
          /\ \A f \in InitFeeds : MaxFeed <= Len(f)

(* The pages a provider could return now.                                  *)
PagesNow ==
  IF IsGdelt THEN {GdeltSearch(feed, ThisCount, state.window_end_iso,
                               now - args.timespan, extra) : extra \in Extras}
             ELSE {NewsApiSearch(feed, ThisCount, args.timespan, now,
                                 IF state.started THEN state.next_page ELSE 1)}

(* What a worker asked now could answer.                                   *)
Answers ==
  \/ reply = None
  \/ Exhausted /\ reply = Reply(state, {}, asked, "finished")
  \/ ~Exhausted /\ \E page \in PagesNow : reply = PageReply(page)
  \/ ~Exhausted /\ reply = Reply(state, {}, asked, "failed")

RestInv == /\ TransportInv /\ Answers
           /\ MaxNow <= now /\ MaxFeed <= Len(feed)

(* A page's reply that arrives delivers the page.                          *)
LEMMA ArrivalDelivers ==
  ASSUME TransportInv, Arrive, ~Exhausted, NEW page, PageOK(page), reply = PageReply(page)
  PROVE  Deliver(page)
<1>1. TypeOK /\ CountHonoured /\ StatusAgrees /\ reply # None /\ ReplyCounts
  BY DEF TransportInv, IInv, ReplyInv, Arrive
<1>2. status # "failed" /\ status = "scanning"
  BY <1>1 DEF ReplyCounts, StatusAgrees, TypeOK
<1>3. /\ reply.token = Advance(page) /\ reply.rows = CutRows(page) /\ reply.asked = AskedAt
      /\ reply.status = IF reply.token.done THEN "finished" ELSE "scanning"
  BY <1>1, <1>2, PageReplyFacts
<1> QED BY <1>2, <1>3 DEF Arrive, Deliver, Received

(* What a worker would answer depends on what the engine holds alone.      *)
LEMMA SameAnswers ==
  ASSUME UNCHANGED vars
  PROVE  /\ PagesNow' = PagesNow /\ Exhausted' = Exhausted
         /\ \A page : PageReply(page)' = PageReply(page)
         /\ \A s : Reply(state, {}, asked, s)' = Reply(state, {}, asked, s)
<1>1. PagesNow' = PagesNow /\ Exhausted' = Exhausted
  BY DEF vars, PagesNow, Exhausted, IsGdelt, ThisCount, Remaining
<1>2. ASSUME NEW page PROVE PageReply(page)' = PageReply(page)
  BY DEF vars, PageReply, Advance, CutRows, Remaining, DoneAfter, EmittedAfter, AskedAt
<1>3. ASSUME NEW s PROVE Reply(state, {}, asked, s)' = Reply(state, {}, asked, s)
  BY DEF vars
<1> QED BY <1>1, <1>2, <1>3

(* An answer that arrives is process() itself.                             *)
LEMMA ArrivalIsProcess ==
  ASSUME TransportInv, Arrive, Answers
  PROVE  Process
<1>1. /\ IInv /\ TypeOK /\ CountHonoured /\ StatusAgrees /\ reply # None /\ status # "failed"
      /\ args.provider = IF IsGdelt THEN "gdelt" ELSE "newsapi"
  BY ArgsAssumption, ArgsTyped
     DEF Arrive, TransportInv, ReplyInv, ReplyCounts, IInv, IsGdelt
<1>2. ASSUME NEW s, reply = Reply(state, {}, asked, s)
      PROVE  UNCHANGED <<args, state, feed, now, delivered, out, again, asked>> /\ status' = s
  <2>1. RoundTrip(state) = state
    BY <1>1, RoundTripKeeps DEF TypeOK, StateType
  <2>2. reply.token = state /\ reply.rows = {} /\ reply.asked = asked /\ reply.status = s
    BY <1>2, <2>1 DEF Reply
  <2>3. delivered \in Nat /\ args.count \in Nat /\ delivered <= args.count
    BY <1>1, ArgsTyped DEF TypeOK, CountHonoured
  <2> QED BY <2>2, <2>3, FS_EmptySet DEF Arrive, Lesser
<1>3. ASSUME Exhausted, reply = Reply(state, {}, asked, "finished") PROVE ProcessDone
  BY <1>1, <1>2, <1>3 DEF ProcessDone
<1>4. ASSUME ~Exhausted, reply = Reply(state, {}, asked, "failed") PROVE ProcessError
  BY <1>1, <1>2, <1>4 DEF ProcessError
<1>5. ASSUME ~Exhausted, NEW page \in PagesNow, reply = PageReply(page)
      PROVE  ProcessGdelt \/ ProcessNewsApi
  <2>1. CASE IsGdelt
    <3>1. PICK extra \in Extras : page = GdeltSearch(feed, ThisCount, state.window_end_iso,
                                                     now - args.timespan, extra)
      BY <1>5, <2>1 DEF PagesNow
    <3>2. PageOK(page)
      BY <1>1, <3>1, GdeltPage
    <3>3. Deliver(page)
      BY <1>1, <1>5, <3>2, ArrivalDelivers
    <3> QED BY <1>1, <1>5, <2>1, <3>1, <3>3 DEF ProcessGdelt
  <2>2. CASE ~IsGdelt
    <3> DEFINE page_num == IF state.started THEN state.next_page ELSE 1
    <3>1. page = NewsApiSearch(feed, ThisCount, args.timespan, now, page_num)
      BY <1>5, <2>2 DEF PagesNow
    <3>2. page_num \in Nat \ {0}
      BY <1>1 DEF TypeOK
    <3>3. PageOK(page)
      BY <1>1, <3>1, <3>2, NewsApiPage
    <3>4. Deliver(page)
      BY <1>1, <1>5, <3>3, ArrivalDelivers
    <3> QED BY <1>1, <1>5, <2>2, <3>1, <3>4 DEF ProcessNewsApi
  <2> QED BY <2>1, <2>2
<1> QED BY <1>1, <1>3, <1>4, <1>5 DEF Answers, Process

(* Every step is one of a scan that loses nothing, or none of its business.*)
LEMMA RestStep ==
  ASSUME RestInv, [TransportNext]_transportVars
  PROVE  RestInv' /\ [Next]_vars
<1>1. TransportInv' /\ TransportInv /\ TypeOK /\ StatusAgrees
  BY TransportStep DEF RestInv, TransportInv, IInv
<1>2. CASE Serve
  <2>1. UNCHANGED vars
    BY <1>2 DEF Serve, ServeDone, ServeGdelt, ServeNewsApi, ServeError
  <2>2. \/ Exhausted /\ reply' = Reply(state, {}, asked, "finished")
        \/ ~Exhausted /\ \E page \in PagesNow : reply' = PageReply(page)
        \/ ~Exhausted /\ reply' = Reply(state, {}, asked, "failed")
    BY <1>2
       DEF Serve, ServeDone, ServeGdelt, ServeNewsApi, ServeError, PagesNow, IsGdelt
  <2>3. Answers'
    BY <2>1, <2>2, SameAnswers DEF Answers
  <2> QED BY <1>1, <2>1, <2>3 DEF RestInv, vars
<1>3. CASE Arrive
  <2>1. reply' = None /\ UNCHANGED <<feed, now>>
    BY <1>3 DEF Arrive
  <2>2. Process
    BY <1>1, <1>3, ArrivalIsProcess DEF RestInv
  <2> QED BY <1>1, <2>1, <2>2 DEF RestInv, Answers, Next
<1>4. CASE Lose
  BY <1>1, <1>4 DEF Lose, RestInv, Answers, vars
<1>5. CASE Abandon
  <2>1. RestInv'
    BY <1>1, <1>5 DEF Abandon, RestInv, Answers
  <2>2. ProcessError
    BY <1>1, <1>5 DEF Abandon, ProcessError, StatusAgrees
  <2> QED BY <2>1, <2>2 DEF Next, Process
<1>6. ~Meanwhile
  <2>1. now \in Nat /\ Len(feed) \in Nat /\ MaxNow \in Nat /\ MaxFeed \in Nat
    BY <1>1, FeedAssumption DEF TypeOK
  <2> QED BY <2>1 DEF Meanwhile, Publish, Elapse, RestInv
<1>7. CASE UNCHANGED transportVars
  <2>1. UNCHANGED vars /\ reply' = reply
    BY <1>7 DEF transportVars
  <2>2. Answers'
    BY <2>1, SameAnswers DEF RestInv, Answers
  <2> QED BY <1>1, <2>1, <2>2 DEF RestInv, vars
<1> QED BY <1>2, <1>3, <1>4, <1>5, <1>6, <1>7 DEF TransportNext

(* The safety of LossesLeaveNoTrace: over a feed at rest a scan whose      *)
(* replies are lost and asked for again is a scan of NewsScan's, where     *)
(* none is, so that whatever is proved of those holds of it.               *)
THEOREM LossesLeaveNoTraceAtRest == AtRest /\ TransportSpec => Init /\ [][Next]_vars
<1>1. AtRest /\ TransportInit => RestInv
  <2> SUFFICES ASSUME AtRest, TransportInit PROVE RestInv
    OBVIOUS
  <2>1. TransportInv
    BY InitIInv, LossAssumption
       DEF TransportInit, TransportInv, ReplyInv, ReplyCounts, ReplyCursor, ReplyBelow
  <2> QED BY <2>1 DEF AtRest, TransportInit, Init, RestInv, Answers
<1>2. RestInv /\ [TransportNext]_transportVars => RestInv' /\ [Next]_vars
  BY RestStep
<1>3. TransportInit => Init
  BY DEF TransportInit
<1> QED BY <1>1, <1>2, <1>3, PTL DEF TransportSpec
=============================================================================
