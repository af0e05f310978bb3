------------------------------ MODULE NewsFeed ------------------------------
(***************************************************************************)
(* The articles an upstream news service holds, and the two ways it hands  *)
(* them out.  Neither service is in this repository: what is said of them  *)
(* here is what src/vgi_news/providers relies on, and nothing more.        *)
(*                                                                         *)
(* A feed is a sequence of articles, oldest first, whose dates never       *)
(* decrease; an article is named by its place in the feed, so that a       *)
(* larger name is a newer article and appending to the feed publishes.     *)
(*   "plain"    an article whose date the worker can read                  *)
(*   "undated"  its date is missing or unreadable to the worker            *)
(*   "odd"      an entry of the JSON list that is not an object            *)
(***************************************************************************)
EXTENDS Integers, Sequences, FiniteSetsExt

CONSTANTS Kinds,  \* the kinds of article a run lets the feed hold
          None    \* an absent cursor, date or parameter

ASSUME KindsAssumption == Kinds \subseteq {"plain", "undated", "odd"}
ASSUME NoneAssumption  == None \notin Int

Article == [date : Nat, kind : Kinds]

(* How many articles of S the service would list before article a.         *)
Rank(a, S) == Cardinality({b \in S : b > a})

(* The k newest articles of S: a list sorted by descending date, cut at k. *)
Newest(k, S) == {a \in S : Rank(a, S) < k}

(* What page p (from 1) of the same list holds when a page is n entries.   *)
PageOf(p, n, S) == {a \in S : (p - 1) * n <= Rank(a, S) /\ Rank(a, S) < p * n}

(* Articles dated inside the look-back window that ends now.               *)
Since(feed, from) == {a \in DOMAIN feed : feed[a].date >= from}

Lesser(i, j)  == IF i <= j THEN i ELSE j
Greater(i, j) == IF i >= j THEN i ELSE j

(* One page of results and the cursor for the next one (PageResult):       *)
(* the rows as a set of articles, newest first when listed.                *)
PageResult(rows, next_window_end, next_page) ==
  [rows |-> rows, next_window_end |-> next_window_end, next_page |-> next_page]

(* map_response keeps the entries that are JSON objects.                   *)
Mapped(feed, articles) == {a \in articles : feed[a].kind # "odd"}
=============================================================================
