----------------------------- MODULE TrustKeys -----------------------------
(***************************************************************************)
(* The trusted keys of a server (src/signed_plan/trust.rs): the bootstrap, *)
(* the key.add and key.revoke actions of admitted plans, and the cascade   *)
(* of a compromised key.                                                   *)
(*                                                                         *)
(* The agent reads the file and later, in the admitting transaction, checks*)
(* a plan against what it read; the runner, a separate root process, checks*)
(* each change again against the file it replaces.  Several plans are in   *)
(* flight between the two.  Signatures are ideal: an entry signed by k is  *)
(* an entry that says so.  The file only grows.                            *)
(***************************************************************************)
EXTENDS Integers, Sequences, FiniteSets, SequencesExt

CONSTANTS
  Keys, NoKey,
  Owners,      \* the keys whose entries have the role owner
  Flights,     \* submissions in flight
  TrustLoads        \* the loads the file is put under, see Load

\* The keys plans are about, the key actions of one plan, and the bound on
\* submissions.
TrustLoad == [keys : SUBSET Keys, changes : Nat, plans : Nat]

ASSUME TrustAssumption == Owners \subseteq Keys /\ NoKey \notin Keys /\ \A l \in TrustLoads : l \in TrustLoad

VARIABLES
  file,     \* trusted-keys.json: keys and revocations, or NoFile
  flight,   \* submissions: captured trust, the plan, what is left to run
  plans,
  trustLoad      \* never changes

tkVars == <<file, flight, plans, trustLoad>>

\* keys[].by: added_by, NoKey for the first; revs[]: revoked_by and the reason.
NoFile == [keys |-> <<>>, revs |-> <<>>]

AddKeys(ks) == [kind : {"key.add"}, key : ks, by : ks, compromised : {FALSE}]
RevokeKeys(ks) == [kind : {"key.revoke"}, key : ks, by : ks, compromised : BOOLEAN]
Changes(ks) == AddKeys(ks) \cup RevokeKeys(ks)

Ids(f) == {f.keys[i].id : i \in DOMAIN f.keys}
Revs(f) == {f.revs[i] : i \in DOMAIN f.revs}

----------------------------------------------------------------------------
(* validate_trust.                                                         *)

\* An entry of an owner that comes earlier, whether or not it is revoked.
signed_by_owner(ids, k) == k \in ids /\ k \in Owners

EarlierIds(f, i) == {f.keys[j].id : j \in 1..(i - 1)}

valid_keys(f) ==
  /\ f.keys # <<>> /\ f.keys[1].by = NoKey /\ f.keys[1].id \in Owners
  /\ \A i \in DOMAIN f.keys :
       /\ f.keys[i].id \notin EarlierIds(f, i)
       /\ i > 1 => signed_by_owner(EarlierIds(f, i), f.keys[i].by)

valid_revocations(f) ==
  \A i \in DOMAIN f.revs :
    /\ f.revs[i].key \in Ids(f) /\ signed_by_owner(Ids(f), f.revs[i].by)
    /\ \A j \in DOMAIN f.revs : f.revs[j].key = f.revs[i].key => j = i

\* The keys revoked as compromised themselves; then one pass over the keys in
\* file order, found[i] after the first i of them.
DirectlyCompromised(f) == {r.key : r \in {x \in Revs(f) : x.compromised}}
cascade(f) ==
  LET found[i \in 0..Len(f.keys)] ==
        IF i = 0 THEN DirectlyCompromised(f)
        ELSE found[i - 1] \cup IF f.keys[i].by \in found[i - 1] THEN {f.keys[i].id} ELSE {}
  IN  found

compromised(f) == cascade(f)[Len(f.keys)]

revoked(f) == {r.key : r \in Revs(f)} \cup compromised(f)

active_owners(f) == (Ids(f) \cap Owners) \ revoked(f)

validate_trust(f) == valid_keys(f) /\ valid_revocations(f)

----------------------------------------------------------------------------
(* apply_change: the file with the change, and whether it is allowed.      *)

changed(f, c) ==
  IF c.kind = "key.add" THEN [f EXCEPT !.keys = Append(@, [id |-> c.key, by |-> c.by])]
  ELSE [f EXCEPT !.revs = Append(@, [key |-> c.key, by |-> c.by,
                                     compromised |-> c.compromised])]

allowed(f, c) ==
  /\ IF c.kind = "key.add" THEN c.key \notin Ids(f) ELSE \A r \in Revs(f) : r.key # c.key
  /\ validate_trust(changed(f, c))
  /\ c.kind = "key.revoke" => active_owners(changed(f, c)) # {}

\* The changes of a plan are checked in plan order, each over the one before.
key_preconditions(f, cs) ==
  LET after[i \in 0..Len(cs)] == IF i = 0 THEN f ELSE changed(after[i - 1], cs[i])
  IN  \A i \in 1..Len(cs) : allowed(after[i - 1], cs[i])

\* Steps 6 and 10: the plan's key is known, not revoked, and an owner's.
verify_signature(f, k) == k \in Ids(f) /\ k \notin revoked(f) /\ k \in Owners

----------------------------------------------------------------------------

Idle == [at |-> "idle", trust |-> NoFile, signer |-> NoKey, changes |-> <<>>]

\* server.add: the runner writes the file once.
BootstrapKeys(k) ==
  /\ file = NoFile /\ k \in Owners
  /\ file' = [keys |-> <<[id |-> k, by |-> NoKey]>>, revs |-> <<>>]
  /\ UNCHANGED <<flight, plans, trustLoad>>

\* submit reads the file.
SubmitKeys(x) ==
  /\ flight[x].at = "idle" /\ file # NoFile /\ plans < trustLoad.plans
  /\ \E k \in trustLoad.keys, cs \in UNION {[1..n -> Changes(trustLoad.keys)] : n \in 1..trustLoad.changes} :
       flight' = [flight EXCEPT ![x] = [at |-> "read", trust |-> file, signer |-> k,
                                        changes |-> cs]]
  /\ plans' = plans + 1
  /\ UNCHANGED <<file, trustLoad>>

Passes(x) ==
  /\ verify_signature(flight[x].trust, flight[x].signer)
  /\ key_preconditions(flight[x].trust, flight[x].changes)

\* admit, with the trust read before.
AdmitKeys(x) ==
  /\ flight[x].at = "read"
  /\ flight' = [flight EXCEPT ![x] = IF Passes(x) THEN [@ EXCEPT !.at = "admitted", !.trust = NoFile]
                                     ELSE Idle]
  /\ UNCHANGED <<file, plans, trustLoad>>

\* Mutant: the runner trusts the agent's check.
update_trusted_keys_blind(x) ==
  /\ flight[x].at = "admitted"
  /\ file' = changed(file, Head(flight[x].changes))
  /\ flight' = [flight EXCEPT ![x] = Idle]
  /\ UNCHANGED <<plans, trustLoad>>

\* update_trusted_keys of the runner, under its lock; a refused change fails
\* its action and the plan stops.
update_trusted_keys(x) ==
  /\ flight[x].at = "admitted"
  /\ LET c == Head(flight[x].changes)  rest == Tail(flight[x].changes)  ok == allowed(file, c)
     IN  /\ file' = IF ok THEN changed(file, c) ELSE file
         /\ flight' = [flight EXCEPT ![x] = IF ok /\ rest # <<>> THEN [@ EXCEPT !.changes = rest]
                                            ELSE Idle]
  /\ UNCHANGED <<plans, trustLoad>>

TkInit == trustLoad \in TrustLoads /\ file = NoFile /\ flight = [x \in Flights |-> Idle] /\ plans = 0

TkNext ==
  \/ \E k \in trustLoad.keys : BootstrapKeys(k)
  \/ \E x \in Flights : SubmitKeys(x) \/ AdmitKeys(x) \/ update_trusted_keys(x)

TkSpec == TkInit /\ [][TkNext]_tkVars
----------------------------------------------------------------------------
(* Properties.                                                             *)

\* The file validates whenever it is there: what the agent writes it can load
\* again (apply_change, validate_trust).
FileLoads == file = NoFile \/ validate_trust(file)

\* The server always has an owner key that is not revoked, whatever plans
\* race: each revocation alone would have left one (apply_change's lockout
\* guard, repeated by the runner).
OwnerRemains == file = NoFile \/ active_owners(file) # {}

\* Reference: keys whose chain of added_by reaches a compromised key.
AddedBy(f) == {<<f.keys[i].by, f.keys[i].id>> : i \in DOMAIN f.keys}
Chains(f) == {s \in SeqOf(Ids(f), Len(f.keys)) :
                s # <<>> /\ \A i \in 1..(Len(s) - 1) : <<s[i], s[i + 1]>> \in AddedBy(f)}

\* One pass in file order finds every key a compromised key added, directly or
\* through others (validate_trust).
CascadeComplete ==
  compromised(file) = {s[Len(s)] : s \in {c \in Chains(file) : c[1] \in DirectlyCompromised(file)}}
=============================================================================
