------------------------------- MODULE MCJobs -------------------------------
(***************************************************************************)
(* Instances of Jobs for TLC.                                              *)
(***************************************************************************)
EXTENDS Jobs, TLC

CONSTANTS q1, q2, t1, s1

\* Two tabs, or an operator and the due list, on one template.
SameTemplate == q1 :> t1 @@ q2 :> t1
OneRequest == q1 :> t1

\* The follow-ups of a job with a stop.
StopOnly == <<"exit">>

=============================================================================
