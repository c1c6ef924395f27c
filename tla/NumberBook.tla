----------------------------- MODULE NumberBook -----------------------------
(***************************************************************************)
(* What invoice numbering promises: the set of issued numbers is always    *)
(* 1 .. n and grows by n + 1, one invoice at a time.                       *)
(***************************************************************************)
EXTENDS Naturals

VARIABLE issued

Init == issued = {}

Issue == \E n \in issued' :
           /\ issued = 1 .. n - 1
           /\ issued' = 1 .. n

Spec == Init /\ [][Issue]_issued
=============================================================================
