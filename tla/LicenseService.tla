--------------------------- MODULE LicenseService ---------------------------
(***************************************************************************)
(* The license service for one white-label client                          *)
(* (src/license_service/go/internal): what SuperAdmins set, and how the    *)
(* answer to POST /license/validate is put together from it, one read      *)
(* after the other.                                                        *)
(*                                                                         *)
(* The cascades of a client's status to its licenses do nothing, and so    *)
(* are not modelled: ListLicenses scans 15 columns of the 14 it selects,   *)
(* so it fails on the first row and its callers take the empty list.       *)
(* Queued commands are delivered with the answer and no product reads      *)
(* them; the instance binding is never refused, because GetLicenseByKey    *)
(* does not select it.                                                     *)
(***************************************************************************)
EXTENDS KillSwitch

CONSTANTS
    Stops,          \* the stopping statuses in use
    Treasury,       \* addresses a SuperAdmin may list
    Rules,          \* auto-sign rules a SuperAdmin may set
    MaxChanges      \* bound: SuperAdmin changes

ASSUME LicenseAssumption ==
    /\ Stops \subseteq {"suspended", "halted", "revoked"}
    /\ "*" \notin Fetchers
    /\ Treasury \cap Rules = {}
    /\ MaxChanges \in Nat

VARIABLES
    client,         \* wl_clients.status
    allowed,        \* wl_clients.allowed_products
    license,        \* status of the license of each product
    heartbeat,      \* age of the newest wl_product_state row of each product
    flags,          \* feature_flags rows of each product
    policy,         \* treasury_addresses and auto_sign_rules of each product
    call,           \* the validate call of each product
    changes         \* counter of the bound

adminVars == <<client, allowed, license, flags, policy, changes>>
licenseVars == <<adminVars, heartbeat, call>>

FlagNames == Fetchers \cup {"*"}
Entries == Treasury \cup Rules

(* How far the product's beat has come.  Up to "answered" in the license   *)
(* service, then in the product's gate.                                    *)
ServerStage == {"checked", "alive", "recorded", "flagged", "overlaid", "treasury"}
GateStage == {"flags_set", "treasury_set", "rules_set", "approver_awake", "gate_dead"}

Call ==
    [at : {"idle", "answered", "refused"} \cup ServerStage \cup GateStage,
     listed : SUBSET FlagNames,     \* the flags in the answer
     off : SUBSET FlagNames,        \* those of them that are disabled
     policy : SUBSET Entries]       \* the addresses and rules in the answer

NoCall == [at |-> "idle", listed |-> {}, off |-> {}, policy |-> {}]

(***************************************************************************)
(* SuperAdmin operations                                                   *)
(***************************************************************************)

Change ==
    /\ changes < MaxChanges
    /\ changes' = changes + 1
    /\ UNCHANGED <<killVars, heartbeat, call>>

(* Mutant of SetClientStatus: the cascade reaches the licenses unchecked.  *)
SetClientStatusCascading(status) ==
    /\ Change
    /\ client' = status
    /\ license' = [p \in Products |-> IF license[p] = "none" THEN "none" ELSE status]
    /\ UNCHANGED <<allowed, flags, policy>>

(* transitionWLClient and ResumeWLClient: any status from any other.       *)
SetClientStatus(status) ==
    /\ Change
    /\ client' = status
    /\ UNCHANGED <<allowed, license, flags, policy>>

UpdateWLClient(products) ==
    /\ Change
    /\ allowed' = products
    /\ UNCHANGED <<client, license, flags, policy>>

(* One row per client and product; created active. *)
IssueLicense(p) ==
    /\ Change
    /\ p \in allowed /\ license[p] = "none"
    /\ license' = [license EXCEPT ![p] = "active"]
    /\ UNCHANGED <<client, allowed, flags, policy>>

SetLicenseStatus(p, status) ==
    /\ Change
    /\ license[p] # "none"
    /\ license' = [license EXCEPT ![p] = status]
    /\ UNCHANGED <<client, allowed, flags, policy>>

SetFeatureFlag(p, f, enabled) ==
    /\ Change
    /\ flags' = [flags EXCEPT ![p][f] = IF enabled THEN "on" ELSE "off"]
    /\ UNCHANGED <<client, allowed, license, policy>>

(* AddTreasuryAddress, SetAutoSignRule and their deletions. *)
SetPolicy(p, entries) ==
    /\ Change
    /\ policy' = [policy EXCEPT ![p] = entries]
    /\ UNCHANGED <<client, allowed, license, flags>>

AdminStep ==
    \/ \E status \in {"approved", "active"} \cup Stops : SetClientStatus(status)
    \/ \E products \in SUBSET Products : UpdateWLClient(products)
    \/ \E p \in Products :
          \/ IssueLicense(p)
          \/ \E status \in {"active"} \cup Stops : SetLicenseStatus(p, status)
          \/ \E f \in FlagNames, enabled \in BOOLEAN : SetFeatureFlag(p, f, enabled)
          \/ \E e \in Entries : SetPolicy(p, policy[p] \cup {e}) \/ SetPolicy(p, policy[p] \ {e})

(***************************************************************************)
(* ValidateLicense                                                         *)
(***************************************************************************)

Advance(p, stage) ==
    /\ call' = [call EXCEPT ![p].at = stage]
    /\ UNCHANGED <<killVars, adminVars, heartbeat>>

(* Hub.Killed, one MGET of three keys. *)
Killed(p) == {<<"global">>, <<"client">>, <<"product", p>>} \cap redisKey # {}

(* The license is looked up by its key, then the kill switch consulted. *)
ReceiveCall(p) ==
    /\ call[p].at = "idle"
    /\ Advance(p, IF license[p] = "none" \/ Killed(p) THEN "refused" ELSE "checked")

AfterRead ==
    [idle |-> "checked", recorded |-> "flagged", flagged |-> "overlaid",
     overlaid |-> "treasury", treasury |-> "answered"]

(* A failed read leaves its part of the answer out.  A Redis error fails   *)
(* open: "a halt is never inferred from missing data".  The error of a     *)
(* list is not looked at, and the list is null.                            *)
ReadFails(p) ==
    /\ Fault
    /\ call' = [call EXCEPT ![p].at = AfterRead[@]]
    /\ UNCHANGED <<killState, redisKey, publishing, heal, serving, commits, adminVars, heartbeat>>

ReceiveCallUnread(p) ==
    /\ call[p].at = "idle" /\ license[p] # "none"
    /\ ReadFails(p)

(* Mutant of Authorized: a product that was never heard of passes.         *)
AuthorizedUnheard(p) ==
    /\ client \in {"approved", "active"}
    /\ p \in allowed
    /\ license[p] = "active"
    /\ heartbeat[p] # "stale"

(* IsProductAlive; its three reads only ever refuse, and are one step. *)
Authorized(p) ==
    /\ client \in {"approved", "active"}
    /\ p \in allowed
    /\ license[p] = "active"
    /\ heartbeat[p] = "fresh"

CheckAlive(p) ==
    /\ call[p].at = "checked"
    /\ Advance(p, IF Authorized(p) THEN "alive" ELSE "refused")

(* RecordHeartbeat, whose error is ignored. *)
Record(p) ==
    /\ call[p].at = "alive"
    /\ heartbeat' \in {heartbeat, [heartbeat EXCEPT ![p] = "fresh"]}
    /\ call' = [call EXCEPT ![p].at = "recorded"]
    /\ UNCHANGED <<killVars, adminVars>>

ListFlags(p) ==
    /\ call[p].at = "recorded"
    /\ call' = [call EXCEPT ![p].at = "flagged",
                            ![p].listed = {f \in FlagNames : flags[p][f] # "none"},
                            ![p].off = {f \in FlagNames : flags[p][f] = "off"}]
    /\ UNCHANGED <<killVars, adminVars, heartbeat>>

(* KilledFetchers and overlayKilledFetchers. *)
KilledFetchers(p) == {f \in Fetchers : <<"fetcher", p, f>> \in redisKey}

(* Mutant of Overlay: the halted fetchers are left out. *)
OverlayNothing(p) == call[p].at = "flagged" /\ Advance(p, "overlaid")

Overlay(p) ==
    /\ call[p].at = "flagged"
    /\ call' = [call EXCEPT ![p].at = "overlaid", ![p].listed = @ \cup KilledFetchers(p),
                            ![p].off = @ \cup KilledFetchers(p)]
    /\ UNCHANGED <<killVars, adminVars, heartbeat>>

ListUnread(p) ==
    /\ call[p].at \in {"recorded", "flagged", "overlaid", "treasury"}
    /\ ReadFails(p)

ListTreasury(p) ==
    /\ call[p].at = "overlaid"
    /\ call' = [call EXCEPT ![p].at = "treasury", ![p].policy = policy[p] \cap Treasury]
    /\ UNCHANGED <<killVars, adminVars, heartbeat>>

ListRules(p) ==
    /\ call[p].at = "treasury"
    /\ call' = [call EXCEPT ![p].at = "answered", ![p].policy = @ \cup (policy[p] \cap Rules)]
    /\ UNCHANGED <<killVars, adminVars, heartbeat>>

(* The call or its answer is lost, or times out after ten seconds. *)
LoseCall(p) ==
    /\ call[p].at \in ServerStage \cup {"idle", "answered"}
    /\ call' = [call EXCEPT ![p] = [NoCall EXCEPT !.at = "refused"]]
    /\ UNCHANGED <<killVars, adminVars, heartbeat>>

ServeCall(p) ==
    \/ ReceiveCall(p) \/ CheckAlive(p) \/ Record(p) \/ ListFlags(p)
    \/ Overlay(p) \/ ListTreasury(p) \/ ListRules(p)

(* More than the heartbeat timeout has passed since the last record. *)
HeartbeatExpires(p) ==
    /\ heartbeat[p] = "fresh"
    /\ heartbeat' = [heartbeat EXCEPT ![p] = "stale"]
    /\ UNCHANGED <<killVars, adminVars, call>>

(* A client on board or not, with a license or not.  wl_product_state is   *)
(* written by RecordHeartbeat only: a row that is there before the first   *)
(* call was put there by hand.                                             *)
LicenseInit ==
    /\ client \in {"pending", "approved"}
    /\ allowed = Products
    /\ license \in [Products -> {"none", "active"}]
    /\ heartbeat \in [Products -> {"none", "fresh"}]
    /\ flags = [p \in Products |-> [f \in FlagNames |-> "none"]]
    /\ policy = [p \in Products |-> {}]
    /\ call = [p \in Products |-> NoCall]
    /\ changes = 0

LicenseTypeOK ==
    /\ client \in {"pending", "approved", "active"} \cup Stops
    /\ allowed \in SUBSET Products
    /\ license \in [Products -> {"none", "active"} \cup Stops]
    /\ heartbeat \in [Products -> {"none", "fresh", "stale"}]
    /\ flags \in [Products -> [FlagNames -> {"none", "on", "off"}]]
    /\ policy \in [Products -> SUBSET Entries]
    /\ call \in [Products -> Call]
    /\ changes \in 0 .. MaxChanges

=============================================================================
