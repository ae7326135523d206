------------------------------- MODULE MCStore -------------------------------
(***************************************************************************)
(* Instances of what the agent keeps about who may do what: the admission  *)
(* store with its recoveries, and the file of trusted keys.  A behaviour   *)
(* is about one of the two, part says which.                               *)
(***************************************************************************)
EXTENDS StoreRecovery, TrustKeys, TLC

CONSTANTS k1, k2, k3

VARIABLE part    \* the component this behaviour is about

\* Two plans of the longest lifetime: a server.add and one that follows it.
MCPlans ==
  { [id |-> 1, nonce |-> 1, created |-> 0, expires |-> 2, boot |-> TRUE],
    [id |-> 2, nonce |-> 2, created |-> 2, expires |-> 4, boot |-> FALSE] }

\* Chains of three keys by plans of one change; plans of two changes for every
\* two of the keys.
MCTrustLoads == {[keys |-> Keys, changes |-> 1, plans |-> 4]}
                \cup {[keys |-> ks, changes |-> 2, plans |-> 2] : ks \in {{k1, k2}, {k1, k3}, {k2, k3}}}

OwnerSymmetry == Permutations(Owners)

\* The trust file's load ends; the store never has to stop.
MCInit == Init /\ \/ part = "store" /\ file = 0 /\ flight = 0 /\ plans = 0 /\ trustLoad = 0
                  \/ part = "trust" /\ TkInit
MCNext ==
  \/ part = "store" /\ Next /\ UNCHANGED <<part, tkVars>>
  \/ part = "trust" /\ TkNext /\ UNCHANGED <<part, vars>>
  \/ part = "trust" /\ UNCHANGED <<part, vars, tkVars>>
MCSpec == MCInit /\ [][MCNext]_<<part, vars, tkVars>>

\* signed_plan/trust.rs: the file stays valid, an owner remains, and what a
\* compromised key signed is revoked with it, whatever plans are in flight.
TrustFileHolds == part = "trust" => FileLoads /\ OwnerRemains /\ CascadeComplete
=============================================================================
