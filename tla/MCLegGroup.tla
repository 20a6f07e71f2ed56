----------------------------- MODULE MCLegGroup -----------------------------
(***************************************************************************)
(* Instances of LegGroup for TLC: a hedge and two primaries of one order   *)
(* each, or one primary above the freeze quantity, cut in two unequal       *)
(* slices.                                                                 *)
(***************************************************************************)
EXTENDS LegGroup, TLC

CONSTANTS hedge, put, call, big, h, p, c, b1, b2

LegsOf == h :> hedge @@ p :> put @@ c :> call @@ b1 :> big @@ b2 :> big

\* b2 is the remainder, of another quantity.
AttrsOf == h :> 1 @@ p :> 2 @@ c :> 3 @@ b1 :> 4 @@ b2 :> 5

Calm == [orders |-> {h, p, c}, jobTries |-> 2, restarts |-> 1, refusals |-> FALSE,
         others |-> FALSE, gate |-> FALSE, lost |-> FALSE, sync |-> TRUE,
         user |-> FALSE, rollback |-> TRUE]

\* Refusals and rejects, one run of the job, with and without the rollback.
Refusing == [Calm EXCEPT !.refusals = TRUE, !.jobTries = 1, !.restarts = 0,
                         !.orders = {p, c}]
RefusingHedge == [Refusing EXCEPT !.orders = {h, p}]
\* Refusals the ensurer does not know: of a hedge, of a primary, without rollback.
Silent == [RefusingHedge EXCEPT !.others = TRUE]
SilentLeg == [Silent EXCEPT !.orders = {p, c}, !.sync = FALSE]
Loose == [Silent EXCEPT !.rollback = FALSE]
\* The gate refuses now and then.
Gated == [Calm EXCEPT !.gate = TRUE, !.orders = {h, p}]
\* Lost answers, restarts and several attempts.
Lost == [Calm EXCEPT !.lost = TRUE, !.orders = {p, c}]
\* A leg above the freeze quantity.
Sliced == [Calm EXCEPT !.orders = {h, b1, b2}, !.user = TRUE]
SlicedLost == [Lost EXCEPT !.orders = {b1, b2}]
DaySettings ==
    {Calm, Refusing, RefusingHedge, Silent, SilentLeg, Loose, Gated, Lost, Sliced, SlicedLost}

\* One attempt and refusals.
RollbackSettings == {[Refusing EXCEPT !.sync = FALSE]}

=============================================================================
