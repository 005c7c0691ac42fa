---------------------------- MODULE MCOutboxRelay ----------------------------
(***************************************************************************)
(* Small instances of OutboxRelay, of TenantStore and of Gateway, which    *)
(* share no state: a behaviour keeps to the relay, to one table or to the  *)
(* gateway.  Events 1 and 2 belong to one entity, event 3 to another.      *)
(***************************************************************************)
EXTENDS OutboxRelay, TenantStore, Gateway, TLC

CONSTANT Parts      \* what a behaviour may keep to: "relay", "gateway" or a table

VARIABLE part

MCEntityOf == [e \in Events |-> IF e <= 2 THEN "sub" ELSE "invoice"]
MCHashText == [sub |-> 0, invoice |-> 1]

\* Interchangeable pods, each of which sends one of the requests.
PodSymmetry == Permutations(Pods)

\* Only the gateway starts in each of its initial states.
StorageInit ==
    /\ part \in Parts /\ Init /\ StoreInit /\ GateInit
    /\ part # "gateway" => \A b \in gateRoles : b.role = "platform_admin"
StorageNext ==
    /\ UNCHANGED part
    /\ \/ part = "relay" /\ Next /\ UNCHANGED <<storeVars, gateVars>>
       \/ part \in StoreTables /\ StoreStep(part) /\ UNCHANGED <<vars, gateVars>>
       \/ part = "gateway" /\ GateNext /\ UNCHANGED <<vars, storeVars>>
StorageSpec == StorageInit /\ [][StorageNext]_<<part, vars, storeVars, gateVars>>
FairStorageSpec == StorageSpec /\ Fairness
=============================================================================
