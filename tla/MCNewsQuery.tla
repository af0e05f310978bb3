---------------------------- MODULE MCNewsQuery ----------------------------
(***************************************************************************)
(* Small instances of NewsQuery for TLC.                                   *)
(***************************************************************************)
EXTENDS NewsQuery, FiniteSets

CONSTANTS MaxArticles  \* bound: kinds of article in one answer

(* Both providers and another name, each written plain, between blanks or  *)
(* with capitals, and as no name at all.                                   *)
WrittenNames == {[words |-> w, padded |-> p, capitals |-> c] :
                   w \in {"gdelt", "newsapi", "nope"}, p, c \in BOOLEAN} \cup {Plain("")}

WrittenQueries == {[words |-> w, padded |-> p, capitals |-> FALSE] :
                     w \in {"rain", ""}, p \in BOOLEAN}

PlainQueries == {Plain("rain")}

(* Secrets with a key in the first field, the last, both or none.          *)
SomeSecrets == {None} \cup
  {s \in Secret : /\ s["apiKey"] = "absent" /\ s["key"] = "absent"
                  /\ s["api_key"] # "t" /\ s["token"] # "k"}

SomeBodies ==
  {b \in Body : IF b.shape = "list" THEN Cardinality(b.articles) <= MaxArticles
                ELSE b.articles = {} /\ b.total = "absent"}
=============================================================================
