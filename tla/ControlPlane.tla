---------------------------- MODULE ControlPlane ----------------------------
(***************************************************************************)
(* The white-label control plane end to end: the kill switch, the license  *)
(* service that reads its keys, and the gate in each product               *)
(* (src/wl_shared/go/wlgate), which calls the license service and applies  *)
(* the answer.  A halt, a status or a flag only takes effect through the   *)
(* next beat of the product.                                               *)
(*                                                                         *)
(* A beat applies an answer in five steps, seen by the requests that the   *)
(* gate's Middleware and the AutoApprover serve meanwhile.  A list that is *)
(* empty is null in the answer and leaves what the gate has.               *)
(***************************************************************************)
EXTENDS LicenseService

CONSTANT
    MaxEvents       \* bound: halts, resumes, changes and faults together

ASSUME ControlAssumption == MaxEvents \in Nat

VARIABLES
    alive,          \* Gate.alive
    off,            \* Gate.flags: the disabled ones
    autoAlive,      \* AutoApprover.alive
    held,           \* AutoApprover.treasury and .rules
    answered        \* history: the lists of the last answer that was applied

gateVars == <<alive, off, autoAlive, held, answered>>
controlVars == <<killVars, licenseVars, gateVars>>

NextStage(p, from, to) ==
    /\ call[p].at = from
    /\ call' = [call EXCEPT ![p] = IF to = "idle" THEN NoCall ELSE [@ EXCEPT !.at = to]]
    /\ UNCHANGED <<killVars, adminVars, heartbeat>>

(***************************************************************************)
(* Gate.beat, on a valid answer                                            *)
(***************************************************************************)

ApplyFlags(p) ==
    /\ NextStage(p, "answered", "flags_set")
    /\ off' = [off EXCEPT ![p] = IF call[p].listed = {} THEN @ ELSE call[p].off]
    /\ answered' = [answered EXCEPT ![p] = call[p].policy]
    /\ UNCHANGED <<alive, autoAlive, held>>

(* Mutant of Replaced: both lists wait for a treasury address.             *)
ReplacedTogether(p, kind) ==
    IF call[p].policy \cap Treasury = {} THEN held[p]
    ELSE (held[p] \ kind) \cup (call[p].policy \cap kind)

(* SetTreasuryAddresses and SetRules replace one list each, when present.  *)
Replaced(p, kind) ==
    LET list == call[p].policy \cap kind
    IN  IF list = {} THEN held[p] ELSE (held[p] \ kind) \cup list

ApplyTreasury(p) ==
    /\ NextStage(p, "flags_set", "treasury_set")
    /\ held' = [held EXCEPT ![p] = Replaced(p, Treasury)]
    /\ UNCHANGED <<alive, off, autoAlive, answered>>

ApplyRules(p) ==
    /\ NextStage(p, "treasury_set", "rules_set")
    /\ held' = [held EXCEPT ![p] = Replaced(p, Rules)]
    /\ UNCHANGED <<alive, off, autoAlive, answered>>

(* Mutant of WakeApprover: the approver wakes before its rules are set.    *)
WakeApproverEarly(p) ==
    /\ \/ NextStage(p, "treasury_set", "approver_awake")
       \/ NextStage(p, "rules_set", "approver_awake")
    /\ autoAlive' = [autoAlive EXCEPT ![p] = TRUE]
    /\ UNCHANGED <<alive, off, held, answered>>

WakeApprover(p) ==
    /\ NextStage(p, "rules_set", "approver_awake")
    /\ autoAlive' = [autoAlive EXCEPT ![p] = TRUE]
    /\ UNCHANGED <<alive, off, held, answered>>

OpenGate(p) ==
    /\ NextStage(p, "approver_awake", "idle")
    /\ alive' = [alive EXCEPT ![p] = TRUE]
    /\ UNCHANGED <<off, autoAlive, held, answered>>

(***************************************************************************)
(* Gate.beat, on an error, a refusal or an answer that does not parse      *)
(***************************************************************************)

(* Mutant of CloseGate: the approver is stopped first. *)
StopApproverFirst(p) ==
    /\ NextStage(p, "refused", "gate_dead")
    /\ autoAlive' = [autoAlive EXCEPT ![p] = FALSE]
    /\ UNCHANGED <<alive, off, held, answered>>

CloseGate(p) ==
    /\ NextStage(p, "refused", "gate_dead")
    /\ alive' = [alive EXCEPT ![p] = FALSE]
    /\ UNCHANGED <<off, autoAlive, held, answered>>

StopApprover(p) ==
    /\ NextStage(p, "gate_dead", "idle")
    /\ autoAlive' = [autoAlive EXCEPT ![p] = FALSE]
    /\ UNCHANGED <<alive, off, held, answered>>

BeatStep(p) ==
    \/ ApplyFlags(p) \/ ApplyTreasury(p) \/ ApplyRules(p)
    \/ WakeApprover(p) \/ OpenGate(p)
    \/ CloseGate(p) \/ StopApprover(p)

(* The product restarts: New makes a dead gate without flags or lists.     *)
ProductRestarts(p) ==
    /\ call' = [call EXCEPT ![p] = NoCall]
    /\ alive' = [alive EXCEPT ![p] = FALSE]
    /\ autoAlive' = [autoAlive EXCEPT ![p] = FALSE]
    /\ off' = [off EXCEPT ![p] = {}]
    /\ held' = [held EXCEPT ![p] = {}]
    /\ answered' = [answered EXCEPT ![p] = {}]
    /\ UNCHANGED <<killVars, adminVars, heartbeat>>

ControlInit ==
    /\ KillInit
    /\ LicenseInit
    /\ alive = [p \in Products |-> FALSE]
    /\ autoAlive = [p \in Products |-> FALSE]
    /\ off = [p \in Products |-> {}]
    /\ held = [p \in Products |-> {}]
    /\ answered = [p \in Products |-> {}]

ControlNext ==
    /\ \/ KillNext /\ UNCHANGED <<licenseVars, gateVars>>
       \/ AdminStep /\ UNCHANGED gateVars
       \/ \E p \in Products :
             \/ /\ \/ ServeCall(p) \/ ReceiveCallUnread(p) \/ ListUnread(p)
                   \/ LoseCall(p) \/ HeartbeatExpires(p)
                /\ UNCHANGED gateVars
             \/ BeatStep(p)
             \/ ProductRestarts(p)
    /\ commits' + faults' + changes' <= MaxEvents

ControlSpec == ControlInit /\ [][ControlNext]_controlVars

(* The kill switch keeps working: its ticker starts round after round and  *)
(* a round ends.  The heartbeat ticker of a product calls again after      *)
(* every beat, and a beat ends within its client's timeout.  Nothing is    *)
(* assumed of SuperAdmins, faults, expiry or restarts.                     *)
KillSwitchRuns ==
    (\/ \E a \in Admins : Propagate(a)
     \/ HealRead \/ HealEnd \/ \E s \in Scopes : HealRow(s))
    /\ UNCHANGED <<licenseVars, gateVars>>

BeatRuns(p) == (ServeCall(p) /\ UNCHANGED gateVars) \/ BeatStep(p)

ControlFairSpec ==
    /\ ControlSpec
    /\ WF_controlVars(KillSwitchRuns)
    /\ \A p \in Products : WF_controlVars(BeatRuns(p))

(***************************************************************************)
(* What the gate lets through                                              *)
(***************************************************************************)

(* FetcherEnabled: the whole product's flag, then the fetcher's.           *)
FetcherEnabled(p, f) == alive[p] /\ off[p] \cap {"*", f} = {}

ControlTypeOK ==
    /\ KillTypeOK
    /\ LicenseTypeOK
    /\ alive \in [Products -> BOOLEAN] /\ autoAlive \in [Products -> BOOLEAN]
    /\ off \in [Products -> SUBSET FlagNames]
    /\ held \in [Products -> SUBSET Entries]
    /\ answered \in [Products -> SUBSET Entries]

(* A product that takes requests has an approver that is awake: the gate   *)
(* opens after the approver and closes before it, so no request is served  *)
(* between two lives with an approver that refuses everything.             *)
ServesWithApprover == \A p \in Products : alive[p] => autoAlive[p]

(* Whenever the approver is awake, between beats, it holds every treasury  *)
(* address and every rule of the last answer: also after a restart, after  *)
(* a refusal, and when the two lists were read at different times.         *)
AwakeHoldsAnswer ==
    \A p \in Products :
        autoAlive[p] /\ call[p].at \notin {"flags_set", "treasury_set"}
            => answered[p] \subseteq held[p]

(* A product whose heartbeat was never recorded does not serve: it would   *)
(* have to be recorded first, and that happens after the check that asks   *)
(* for it (ValidateLicense calls IsProductAlive, then RecordHeartbeat).    *)
UnheardNeverServes ==
    \A p \in Products :
        heartbeat[p] = "none" =>
            /\ ~alive[p] /\ ~autoAlive[p]
            /\ call[p].at \in {"idle", "checked", "refused", "gate_dead"}

Stopped(p) ==
    \/ Halted(<<"global">>) \/ Halted(<<"client">>) \/ Halted(<<"product", p>>)
    \/ client \in {"pending"} \cup Stops
    \/ p \notin allowed
    \/ license[p] # "active"

(* Every halt, stopped client, stopped license and withdrawn product       *)
(* reaches the product: once the SuperAdmins and the faults are done, a    *)
(* product that PostgreSQL says is stopped serves nothing and signs        *)
(* nothing, whatever was lost on the way.                                  *)
StopsReachProduct ==
    <>[](\A p \in Products : Stopped(p) => ~alive[p] /\ ~autoAlive[p])

(* A fetcher that is disabled, or halted by the kill switch, ends up       *)
(* refused by the product, for good.                                       *)
OffReachesFetcher ==
    <>[](\A p \in Products, f \in Fetchers :
            \/ flags[p][f] = "off" \/ flags[p]["*"] = "off"
            \/ Halted(<<"fetcher", p, f>>)
            => ~FetcherEnabled(p, f))

(* Every treasury address and rule that stays configured ends up held by   *)
(* the approver for as long as it is awake.                                *)
PolicyReachesApprover ==
    <>[](\A p \in Products : autoAlive[p] => policy[p] \subseteq held[p])

=============================================================================
