------------------------------- MODULE Account -------------------------------
(***************************************************************************)
(* The abstract specification of one account of one service.  Whatever     *)
(* rows there are, requests and events move its mark forward in one step,  *)
(* a new client state comes with a newer timestamp, and a deletion is      *)
(* final.                                                                  *)
(***************************************************************************)
EXTENDS Marks

VARIABLE mark

Init == mark = NoMark

Next == Moved(mark, mark')

Spec == Init /\ [][Next]_mark

=============================================================================
