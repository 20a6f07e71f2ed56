-------------------------- MODULE MCOrderPlacement --------------------------
(***************************************************************************)
(* Instances of OrderPlacement for TLC.                                    *)
(***************************************************************************)
EXTENDS OrderPlacement, TLC

CONSTANTS c1, c2, k1, k2, a1, a2

\* Two activities on one intent (a queue job retried beside an operator).
SameKeyOf == c1 :> k1 @@ c2 :> k1
\* One activity per intent.
OwnKeyOf == c1 :> k1 @@ c2 :> k2

DistinctAttrs == k1 :> a1 @@ k2 :> a2
OneKey == k1 :> a1

Calm == [keyOf |-> OwnKeyOf, slow |-> FALSE, refusals |-> FALSE, sync |-> FALSE,
         window |-> FALSE, dbErrors |-> FALSE, misread |-> FALSE]

\* Two callers of one intent, inside the window, with a slow order book.
Race == [Calm EXCEPT !.keyOf = SameKeyOf, !.slow = TRUE]
\* Two intents, past the window, with an order book that keeps up.
Window == [Calm EXCEPT !.window = TRUE]
\* Two intents and clear rejects, inside the window or with a book that keeps up.
Refused == [Race EXCEPT !.keyOf = OwnKeyOf, !.refusals = TRUE]
RefusedLater == [Window EXCEPT !.refusals = TRUE]
SafeSettings == {Race, Window, Refused, RefusedLater}

\* One caller among database errors, refusals and the ledger sync.
Synced == [Calm EXCEPT !.keyOf = c1 :> k1, !.slow = TRUE, !.refusals = TRUE,
                       !.sync = TRUE, !.dbErrors = TRUE, !.misread = TRUE]

\* One caller among clear rejects, lost answers known and misread, and restarts,
\* inside the window with a slow book or past it with a book that keeps up.
Misread == [Calm EXCEPT !.keyOf = c1 :> k1, !.refusals = TRUE, !.misread = TRUE]
FullSettings == {Synced, [Misread EXCEPT !.slow = TRUE], [Misread EXCEPT !.window = TRUE]}

=============================================================================
