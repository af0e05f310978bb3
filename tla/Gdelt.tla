------------------------------- MODULE Gdelt -------------------------------
(***************************************************************************)
(* GDELTProvider.search of src/vgi_news/providers/gdelt.py: one page of    *)
(* the window-paged provider.  The cursor is the date of the oldest        *)
(* article seen; formatting it (isoformat, enddatetime) and reading it     *)
(* back is exact on whole seconds, which is all a GDELT date has.          *)
(***************************************************************************)
EXTENDS NewsFeed

CONSTANTS MaxRecords,   \* the cap on maxrecords (250 in the code)
          EndInclusive, \* does an enddatetime include its own second?
          Extras        \* entries the service may send beyond maxrecords

ASSUME GdeltAssumption == /\ MaxRecords \in Nat \ {0}
                          /\ EndInclusive \in BOOLEAN
                          /\ Extras \subseteq Nat

(* The maxrecords parameter.                                               *)
RecordsAsked(count) == Greater(1, Lesser(count, MaxRecords))

(* External: the articles a request selects.  An enddatetime, when sent,   *)
(* replaces the timespan.                                                  *)
BeforeWindowEnd(feed, window_end) ==
  {a \in DOMAIN feed : \/ feed[a].date < window_end
                       \/ EndInclusive /\ feed[a].date = window_end}

Selected(feed, window_end, from) ==
  IF window_end = None THEN Since(feed, from)
                       ELSE BeforeWindowEnd(feed, window_end)

(* External: its answer, with the extra entries a service that does not    *)
(* keep to maxrecords would add.                                           *)
Answer(feed, window_end, from, maxrecords, extra) ==
  Newest(maxrecords + extra, Selected(feed, window_end, from))

Dates(feed, rows) == {feed[a].date : a \in {b \in rows : feed[b].kind = "plain"}}

(* Two plausible slips in computing the cursor, for the runs' mutants.     *)
StepPastWindowEnd(feed, rows, maxrecords) ==
  IF Cardinality(rows) >= maxrecords /\ Dates(feed, rows) # {}
  THEN Min(Dates(feed, rows)) - 1 ELSE None

StopAfterFullPage(feed, rows, maxrecords) ==
  IF Cardinality(rows) > maxrecords /\ Dates(feed, rows) # {}
  THEN Min(Dates(feed, rows)) ELSE None

(* The next window ends at the oldest date of a full page; a page that is  *)
(* short, or holds no date, ends the scan.                                 *)
NextWindowEnd(feed, rows, maxrecords) ==
  IF Cardinality(rows) >= maxrecords /\ Dates(feed, rows) # {}
  THEN Min(Dates(feed, rows)) ELSE None

GdeltSearch(feed, count, window_end, from, extra) ==
  LET maxrecords == RecordsAsked(count)
      rows == Mapped(feed, Answer(feed, window_end, from, maxrecords, extra))
  IN  PageResult(rows, NextWindowEnd(feed, rows, maxrecords), None)
=============================================================================
