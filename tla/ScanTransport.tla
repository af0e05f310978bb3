--------------------------- MODULE ScanTransport ---------------------------
(***************************************************************************)
(* A news_search scan over a transport that keeps nothing of it.  Each     *)
(* process() call is a request of its own: it brings the scan's            *)
(* continuation token, a worker restores NewsScanState from it, runs       *)
(* process() and sends back rows and the next token.  A reply may be lost  *)
(* with the worker that made it, any worker may serve the next request,    *)
(* and the feed moves between a page's making and its arrival.             *)
(*                                                                         *)
(* The variables of NewsScan are the engine's: `state` is what a worker    *)
(* restores from the last token that arrived, and the rest what the engine *)
(* has received.  What a worker has computed is in `reply` until then.     *)
(***************************************************************************)
EXTENDS NewsScan

CONSTANT MaxLosses  \* bound: replies lost in one scan

ASSUME LossAssumption == MaxLosses \in Nat

VARIABLES reply,  \* what the worker answered and has not arrived, or None
          losses  \* replies lost so far

transportVars == <<vars, reply, losses>>

(* Slips in the fields the state declares, for the runs' mutants.          *)
AllFields     == {"emitted", "done", "window_end_iso", "next_page", "started"}
WithoutCount  == AllFields \ {"emitted"}
WithoutDone   == AllFields \ {"done"}
WithoutWindow == AllFields \ {"window_end_iso"}
WithoutPage   == AllFields \ {"next_page"}

(* The fields the token carries: those NewsScanState annotates.            *)
TokenFields == {"emitted", "done", "window_end_iso", "next_page", "started"}

(* Serialized and read back, a state keeps the fields the token carries,   *)
(* the others get their defaults.                                          *)
RoundTrip(s) == [f \in DOMAIN initial_state |->
                   IF f \in TokenFields THEN s[f] ELSE initial_state[f]]

(* A worker's answer: rows, the next token, and how the scan stands then.  *)
Reply(token, rows, first, then) ==
  [token |-> RoundTrip(token), rows |-> rows, asked |-> first, status |-> then]

PageReply(page) ==
  Reply(Advance(page), CutRows(page), AskedAt,
        IF Advance(page).done THEN "finished" ELSE "scanning")

ReplyType == [token : [emitted : Nat, done : BOOLEAN, window_end_iso : Cursor,
                       next_page : Nat \ {0}, started : BOOLEAN],
              rows : SUBSET (DOMAIN feed),
              asked : [at : Nat, upto : 0 .. Len(feed)],
              status : {"scanning", "finished", "failed"}]

(* The shape of a scan and of a reply to it.  The token has a next_page of *)
(* 1 or more too, exhausted or not, where tables.py:91 documents 0 (see    *)
(* TypeOK).                                                                *)
TransportTypeOK == /\ TypeOK
                   /\ reply = None \/ reply \in ReplyType
                   /\ losses \in 0 .. MaxLosses

TransportInit == /\ Init
                 /\ reply = None
                 /\ losses = 0

-----------------------------------------------------------------------------
(* A worker serves the request that presents the engine's last token.      *)

Idle == reply = None /\ status # "failed"

ServeDone == /\ Idle
             /\ Exhausted
             /\ reply' = Reply(state, {}, asked, "finished")
             /\ UNCHANGED <<vars, losses>>

ServeGdelt == /\ Idle
              /\ ~Exhausted
              /\ args.provider = "gdelt"
              /\ \E extra \in Extras :
                   reply' = PageReply(GdeltSearch(feed, ThisCount, state.window_end_iso,
                                                  now - args.timespan, extra))
              /\ UNCHANGED <<vars, losses>>

ServeNewsApi == /\ Idle
                /\ ~Exhausted
                /\ args.provider = "newsapi"
                /\ reply' = PageReply(NewsApiSearch(feed, ThisCount, args.timespan, now,
                                        IF state.started THEN state.next_page ELSE 1))
                /\ UNCHANGED <<vars, losses>>

ServeError == /\ Idle
              /\ ~Exhausted
              /\ reply' = Reply(state, {}, asked, "failed")
              /\ UNCHANGED <<vars, losses>>

Serve == ServeDone \/ ServeGdelt \/ ServeNewsApi \/ ServeError

-----------------------------------------------------------------------------
(* The engine and the wire.                                                *)

Arrive == /\ reply # None
          /\ state' = reply.token
          /\ delivered' = Lesser(delivered + Cardinality(reply.rows), args.count + 1)
          /\ out' = out \cup reply.rows
          /\ again' = again \cup (out \cap reply.rows)
          /\ asked' = reply.asked
          /\ status' = reply.status
          /\ reply' = None
          /\ UNCHANGED <<args, feed, now, losses>>

(* The reply is lost, or the worker died with it: the engine presents the  *)
(* token it holds once more.                                               *)
Lose == /\ reply # None
        /\ losses < MaxLosses
        /\ reply' = None
        /\ losses' = losses + 1
        /\ UNCHANGED vars

(* ... or gives the query up.                                              *)
Abandon == /\ reply # None
           /\ status = "scanning"
           /\ losses < MaxLosses
           /\ reply' = None
           /\ losses' = losses + 1
           /\ status' = "failed"
           /\ UNCHANGED <<args, state, feed, now, delivered, out, again, asked>>

Meanwhile == (Publish \/ Elapse) /\ UNCHANGED <<reply, losses>>

TransportNext == Serve \/ Arrive \/ Lose \/ Abandon \/ Meanwhile

(* The engine goes on asking, workers answer, and a reply that is not lost *)
(* arrives.                                                                *)
TransportSpec == /\ TransportInit
                 /\ [][TransportNext]_transportVars
                 /\ WF_transportVars(Serve)
                 /\ WF_transportVars(Arrive)

-----------------------------------------------------------------------------
(* Over a feed at rest replies that were lost leave no trace: the scan is  *)
(* one of NewsScan's, where no reply is ever lost, and ends as it does.    *)
LossesLeaveNoTrace == Spec
=============================================================================
