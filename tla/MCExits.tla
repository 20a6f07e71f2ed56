------------------------------ MODULE MCExits -------------------------------
(***************************************************************************)
(* Instances of Exits for TLC.                                             *)
(***************************************************************************)
EXTENDS Exits, TLC

CONSTANTS j1, j2

Quiet == [jobs |-> {j1}, stops |-> TRUE, aso |-> FALSE, target |-> FALSE,
          flattens |-> 0, kill |-> FALSE, calm |-> TRUE, fatal |-> FALSE]

\* One job: its stop, its watcher and auto square-off race.
OneJob == [Quiet EXCEPT !.aso = TRUE, !.target = TRUE]
\* The same without the watcher: auto square-off is alone with the stop.
Timed == [OneJob EXCEPT !.target = FALSE]
\* Two jobs in one contract: their stops and watchers race.
TwoJobs == [Quiet EXCEPT !.jobs = {j1, j2}, !.target = TRUE]
\* Two jobs without stops: their watchers and auto square-offs race.
TwoTimed == [TwoJobs EXCEPT !.stops = FALSE, !.aso = TRUE]
\* Two jobs without stops, closed by the operator.
Killed == [Quiet EXCEPT !.jobs = {j1, j2}, !.stops = FALSE, !.flattens = 1, !.kill = TRUE]
Flattened == [Killed EXCEPT !.kill = FALSE]
\* One job with a stop, closed by the operator.
Stopped == [Quiet EXCEPT !.flattens = 1]
KilledStop == [Stopped EXCEPT !.kill = TRUE]
\* Two jobs without stops, closed by auto square-off alone.
TwoUnwatched == [TwoTimed EXCEPT !.target = FALSE]
\* Refusals that auto square-off does not send again.
Fatal == [OneJob EXCEPT !.fatal = TRUE]
TwoFatal == [TwoUnwatched EXCEPT !.fatal = TRUE]
DaySettings == {OneJob, Timed, TwoJobs, TwoTimed, TwoUnwatched, Killed, Flattened, Stopped,
                KilledStop, Fatal, TwoFatal}

=============================================================================
