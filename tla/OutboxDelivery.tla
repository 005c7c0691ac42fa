---------------------------- MODULE OutboxDelivery ----------------------------
(***************************************************************************)
(* What the outbox promises its users, without workers, transactions,      *)
(* breakers, windows or partitions: an event whose transaction committed   *)
(* is handed to the broker at least once before it counts as done, and is  *)
(* given up only explicitly.  OutboxRelay implements this specification.   *)
(***************************************************************************)
CONSTANT Events

VARIABLES
    phase,      \* what the outbox table says of each event
    delivered   \* events the broker holds

dvars == <<phase, delivered>>

DInit ==
    /\ phase = [e \in Events |-> "absent"]
    /\ delivered = {}

Record(e) ==
    /\ phase[e] = "absent"
    /\ phase' = [phase EXCEPT ![e] = "pending"]
    /\ UNCHANGED delivered

Deliver(e) ==
    /\ phase[e] = "pending"
    /\ delivered' = delivered \cup {e}
    /\ UNCHANGED phase

\* One relay transaction settles a whole batch.
Settle(done, dead) ==
    /\ \A e \in done : phase[e] = "pending" /\ e \in delivered
    /\ \A e \in dead : phase[e] = "pending"
    /\ phase' = [e \in Events |-> IF e \in done THEN "done"
                                  ELSE IF e \in dead THEN "dead" ELSE phase[e]]
    /\ UNCHANGED delivered

DNext ==
    \/ \E e \in Events : Record(e) \/ Deliver(e)
    \/ \E done, dead \in SUBSET Events : Settle(done, dead)

DSpec == DInit /\ [][DNext]_dvars
=============================================================================
