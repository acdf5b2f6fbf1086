---------------------------- MODULE DetachedWork ----------------------------
(***************************************************************************)
(* What mudmux_workers_submit promises: an accepted pair of closures has   *)
(* its work run once, then its completion run once; completions run one at *)
(* a time, in the order in which they became due.                          *)
(***************************************************************************)
EXTENDS Sequences

CONSTANTS Pairs     \* (work, completion) closures offered to mudmux

VARIABLES
    stage,      \* how far each pair has got
    lane        \* completions due and not yet over, the oldest first

Init ==
    /\ stage = [p \in Pairs |-> "application"]
    /\ lane = <<>>

\* Ownership of both closures passes to mudmux.
Accept(p) ==
    /\ stage[p] = "application"
    /\ stage' = [stage EXCEPT ![p] = "accepted"]
    /\ UNCHANGED lane

\* The work is over and its completion is due.
CompletionDue(p) ==
    /\ stage[p] = "accepted"
    /\ stage' = [stage EXCEPT ![p] = "due"]
    /\ lane' = Append(lane, p)

CompletionBegins ==
    /\ lane # <<>> /\ stage[Head(lane)] = "due"
    /\ stage' = [stage EXCEPT ![Head(lane)] = "running"]
    /\ UNCHANGED lane

CompletionEnds ==
    /\ lane # <<>> /\ stage[Head(lane)] = "running"
    /\ stage' = [stage EXCEPT ![Head(lane)] = "done"]
    /\ lane' = Tail(lane)

Next ==
    \/ \E p \in Pairs : Accept(p) \/ CompletionDue(p)
    \/ CompletionBegins \/ CompletionEnds

Spec == Init /\ [][Next]_<<stage, lane>>
=============================================================================
