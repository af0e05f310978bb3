---------------------------- MODULE ScanContract ----------------------------
(***************************************************************************)
(* What news_search promises the engine that pulls it, whichever provider  *)
(* answers: every pull yields rows or ends the scan, a scan that has ended *)
(* yields nothing more, at most `count` rows come in all, reaching `count` *)
(* ends the scan, and a scan that is pulled ends.                          *)
(***************************************************************************)
EXTENDS Integers

VARIABLES count,      \* the row limit of the query
          delivered,  \* rows the engine has received
          status      \* "scanning", "finished" or "failed"

vars == <<count, delivered, status>>

Init == /\ count \in Nat \ {0}
        /\ delivered = 0
        /\ status = "scanning"

(* A pull that yields n rows; it may be the last one.                      *)
Emit(n) == /\ status = "scanning"
           /\ delivered + n <= count
           /\ delivered' = delivered + n
           /\ status' \in {"scanning", "finished"}
           /\ delivered' = count => status' = "finished"
           /\ UNCHANGED count

(* A pull that finds nothing more.                                         *)
Finish == /\ status = "scanning"
          /\ status' = "finished"
          /\ UNCHANGED <<count, delivered>>

(* A pull that raises: the query fails.                                    *)
Fail == /\ status = "scanning"
        /\ status' = "failed"
        /\ UNCHANGED <<count, delivered>>

Next == \/ \E n \in 1 .. count - delivered : Emit(n)
        \/ Finish
        \/ Fail

Spec == Init /\ [][Next]_vars

(* A scan that is pulled ends.                                             *)
Ends == <>(status # "scanning")
=============================================================================
