------------------------------ MODULE TailWalk ------------------------------
(***************************************************************************)
(* What the shared loop promises about a relation, with no window, cadence *)
(* or landing estimate: pages in front of `front' are untouched, `debt'    *)
(* pages behind it have been cleared and wait for VACUUM.  The front only  *)
(* moves towards the head of the file, debt is only paid by a truncation,  *)
(* and a walk settles with no debt or is abandoned.                        *)
(***************************************************************************)
EXTENDS Integers

CONSTANT PageCounts

VARIABLES stage, front, debt

walkVars == <<stage, front, debt>>

Init == stage = "fresh" /\ front = 0 /\ debt = 0

Begin ==
    /\ stage = "fresh"
    /\ stage' = "walking"
    /\ front' \in PageCounts
    /\ UNCHANGED debt

Clear(pages) ==
    /\ stage = "walking"
    /\ front' = front - pages
    /\ debt' = debt + pages
    /\ UNCHANGED stage

(* The server may have truncated more than was cleared, never less than    *)
(* nothing: the front does not move back.                                  *)
Truncate ==
    /\ stage = "walking"
    /\ front' \in 0 .. front
    /\ debt' = 0
    /\ UNCHANGED stage

Settle ==
    /\ stage = "walking"
    /\ debt = 0
    /\ stage' = "settled"
    /\ UNCHANGED <<front, debt>>

Abandon ==
    /\ stage \in {"fresh", "walking"}
    /\ stage' = "abandoned"
    /\ UNCHANGED <<front, debt>>

Next ==
    \/ Begin
    \/ \E pages \in 1 .. front : Clear(pages)
    \/ Truncate
    \/ Settle
    \/ Abandon

Spec == Init /\ [][Next]_walkVars
=============================================================================
