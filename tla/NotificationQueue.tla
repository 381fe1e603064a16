-------------------------- MODULE NotificationQueue --------------------------
(***************************************************************************)
(* What the queue of notification events promises, whoever fills and       *)
(* empties it: an event is shown before it counts as delivered, it is      *)
(* never taken back, and in the end it is delivered.                       *)
(***************************************************************************)
CONSTANT Ids

VARIABLE state

States == {"none", "pending", "shown", "delivered"}

Init == state = [i \in Ids |-> "none"]

Move(i, from, to) ==
    /\ state[i] = from
    /\ state' = [state EXCEPT ![i] = to]

Queue(i) == Move(i, "none", "pending")

Show(i) == Move(i, "pending", "shown")

\* One acknowledgement may be for several events.
Acknowledge(S) ==
    /\ S # {}
    /\ \A i \in S : state[i] = "shown"
    /\ state' = [i \in Ids |-> IF i \in S THEN "delivered" ELSE state[i]]

Next ==
    \/ \E i \in Ids : Queue(i) \/ Show(i)
    \/ \E S \in SUBSET Ids : Acknowledge(S)

Safety == Init /\ [][Next]_state

Spec ==
    /\ Safety
    /\ \A i \in Ids :
          /\ WF_state(Show(i))
          /\ WF_state(\E S \in SUBSET Ids : i \in S /\ Acknowledge(S))

=============================================================================
