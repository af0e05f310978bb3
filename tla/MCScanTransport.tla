-------------------------- MODULE MCScanTransport --------------------------
(***************************************************************************)
(* Small instances of ScanTransport for TLC.                               *)
(***************************************************************************)
EXTENDS ScanTransport

CONSTANTS MaxInitFeed  \* bound: articles in the feed when the scan starts

(* Every feed of at most MaxInitFeed articles whose dates, from 1 to the   *)
(* starting clock, never decrease.                                         *)
OrderedFeeds ==
  {f \in UNION {[1 .. n -> [date : 1 .. InitNow, kind : Kinds]] : n \in 0 .. MaxInitFeed} :
     \A i, j \in DOMAIN f : i <= j => f[i].date <= f[j].date}
=============================================================================
