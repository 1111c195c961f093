------------------------- MODULE NotificationDelivery -------------------------
(***************************************************************************)
(* What Watchtower's notification queue promises its callers, one phase    *)
(* per notification and nothing about Redis or the worker:                 *)
(*                                                                         *)
(*    new -> waiting <-> working -> settled          any of them -> lost   *)
(*                                                                         *)
(* One notification is worked on at a time, the Telegram callback runs at  *)
(* most Limit times for it, and a settled or lost notification stays so.   *)
(* NotificationQueue is shown to implement this module.                    *)
(***************************************************************************)
EXTENDS Naturals

CONSTANTS
  Ids,      (* Notification ids.                                           *)
  Limit     (* How often the callback may run for one notification.        *)

VARIABLES
  phase,    (* The life-cycle phase of each notification.                  *)
  runs      (* Callback runs so far, per notification.                     *)

deliveryVars == <<phase, runs>>

Phases == {"new", "waiting", "working", "settled", "lost"}

DeliveryTypeOK ==
  /\ phase \in [Ids -> Phases]
  /\ runs \in [Ids -> 0..Limit]

DeliveryInit ==
  /\ phase = [i \in Ids |-> "new"]
  /\ runs = [i \in Ids |-> 0]

Goes(i, from, to) ==
  /\ phase[i] \in from
  /\ phase' = [phase EXCEPT ![i] = to]

Accept(i) ==
  /\ Goes(i, {"new"}, "waiting")
  /\ UNCHANGED runs

\* The single worker takes a notification only with empty hands.
Take(i) ==
  /\ \A j \in Ids : phase[j] # "working"
  /\ Goes(i, {"waiting"}, "working")
  /\ UNCHANGED runs

Run(i) ==
  /\ phase[i] = "working"
  /\ runs[i] < Limit
  /\ runs' = [runs EXCEPT ![i] = @ + 1]
  /\ UNCHANGED phase

Requeue(i) ==
  /\ Goes(i, {"working"}, "waiting")
  /\ UNCHANGED runs

Settle(i) ==
  /\ Goes(i, {"working"}, "settled")
  /\ UNCHANGED runs

\* A fault: a crash, a Redis error, an expired hash.
Lose(i) ==
  /\ Goes(i, {"new", "waiting", "working"}, "lost")
  /\ UNCHANGED runs

\* The hash of i came back without its id: the worker carries on under a
\* fresh id, and i is gone.
Replace(i, j) ==
  /\ phase[i] = "working"
  /\ phase[j] = "new"
  /\ phase' = [phase EXCEPT ![i] = "lost", ![j] = "working"]
  /\ UNCHANGED runs

DeliveryNext ==
  \/ \E i \in Ids : \/ Accept(i) \/ Take(i) \/ Run(i)
                    \/ Requeue(i) \/ Settle(i) \/ Lose(i)
  \/ \E i, j \in Ids : Replace(i, j)

DeliverySpec == DeliveryInit /\ [][DeliveryNext]_deliveryVars
=============================================================================
