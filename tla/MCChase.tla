------------------------------ MODULE MCChase -------------------------------
(***************************************************************************)
(* Instances of Chase for TLC.                                             *)
(***************************************************************************)
EXTENDS Chase, TLC

Quiet == [sides |-> {1}, signals |-> 1, failures |-> 0, lag |-> FALSE, blind |-> FALSE,
          gaps |-> FALSE, writer |-> FALSE, pause |-> FALSE, reset |-> FALSE]

\* Two signals, either way.
TwoWay == [Quiet EXCEPT !.sides = {-1, 1}, !.signals = 2]
\* The positions feed lags behind the executions.
Lagging == [Quiet EXCEPT !.lag = TRUE]
\* The market passes the limits of triggered orders.
Gapping == [Quiet EXCEPT !.gaps = TRUE]
\* Another process syncs the ledger.
Shared == [Quiet EXCEPT !.writer = TRUE]
\* One read or request fails.
Failing == [Quiet EXCEPT !.failures = 1]
\* One that the code swallows.
Blind == [Failing EXCEPT !.blind = TRUE, !.reset = TRUE]
\* The operator pauses the book, or resets the signal.
Paused == [Quiet EXCEPT !.pause = TRUE]
Reset == [Quiet EXCEPT !.reset = TRUE]
DaySettings == {TwoWay, Lagging, Gapping, Shared, Failing, Blind, Paused, Reset}

\* The operator pauses the book; nothing fails and nothing is late.
PauseSettings == {Paused}

=============================================================================
