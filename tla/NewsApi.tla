------------------------------ MODULE NewsApi ------------------------------
(***************************************************************************)
(* NewsAPIProvider.search of src/vgi_news/providers/newsapi.py: one page   *)
(* of the page-numbered provider.                                          *)
(***************************************************************************)
EXTENDS NewsFeed

CONSTANTS MaxPageSize,     \* the cap on pageSize (100 in the code)
          MappedTimespans  \* the look-backs _timespan_to_from understands

ASSUME NewsApiAssumption == MaxPageSize \in Nat \ {0}

(* The pageSize parameter.                                                 *)
PageSizeAsked(count) == Greater(1, Lesser(count, MaxPageSize))

(* A slip in the look-back, for the runs' mutants.                         *)
NoFrom(timespan, now) == None

(* `from`, taken from the clock at each request; None when the timespan is *)
(* not one of the few forms the function knows.                            *)
TimespanToFrom(timespan, now) ==
  IF timespan \in MappedTimespans THEN now - timespan ELSE None

(* External: the articles a request selects, whatever page of them it      *)
(* names; totalResults counts them all.                                    *)
Matching(feed, from) == IF from = None THEN DOMAIN feed ELSE Since(feed, from)

(* Slips in the page cursor, for the runs' mutants.                        *)
SamePage(rows, page_num, page_size, total) ==
  IF Cardinality(rows) >= page_size /\ page_num * page_size < total
  THEN page_num ELSE None

SkipPage(rows, page_num, page_size, total) ==
  IF Cardinality(rows) >= page_size /\ page_num * page_size < total
  THEN page_num + 2 ELSE None

StopOnePageEarly(rows, page_num, page_size, total) ==
  IF Cardinality(rows) >= page_size /\ (page_num + 1) * page_size < total
  THEN page_num + 1 ELSE None

NextPage(rows, page_num, page_size, total) ==
  IF Cardinality(rows) >= page_size /\ page_num * page_size < total
  THEN page_num + 1 ELSE None

NewsApiSearch(feed, count, timespan, now, page_num) ==
  LET page_size == PageSizeAsked(count)
      matching  == Matching(feed, TimespanToFrom(timespan, now))
      rows      == Mapped(feed, PageOf(page_num, page_size, matching))
  IN  PageResult(rows, None,
                 NextPage(rows, page_num, page_size, Cardinality(matching)))
=============================================================================
