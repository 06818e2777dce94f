------------------------ MODULE ControlPlane_proofs ------------------------
(***************************************************************************)
(* What a product serves and signs with, and the types of the whole plane, *)
(* for any number of products, fetchers, scopes and SuperAdmins and        *)
(* whatever the kill switch, Redis and the network do.                     *)
(***************************************************************************)
EXTENDS ControlPlane, TLAPS

GateTyped ==
    /\ call \in [Products -> Call]
    /\ heartbeat \in [Products -> {"none", "fresh", "stale"}]
    /\ alive \in [Products -> BOOLEAN]
    /\ autoAlive \in [Products -> BOOLEAN]
    /\ policy \in [Products -> SUBSET Entries]

(* ServesWithApprover is not inductive: what makes it last is where in the *)
(* beat the approver is already awake, and where the gate is shut.         *)
BeatOrdered ==
    /\ ServesWithApprover
    /\ \A p \in Products :
          /\ call[p].at = "approver_awake" => autoAlive[p]
          /\ call[p].at = "gate_dead" => ~alive[p]

GateInv == GateTyped /\ BeatOrdered /\ UnheardNeverServes

watched == <<call, heartbeat, alive, autoAlive, policy>>

(* At the start every gate is shut, every approver asleep, and no call     *)
(* made.                                                                   *)
LEMMA InitGate == ControlInit => GateInv
  BY DEF ControlInit, LicenseInit, GateInv, GateTyped, BeatOrdered, ServesWithApprover,
         UnheardNeverServes, NoCall, Call, ServerStage, GateStage

(* A step that changes none of the watched variables keeps the invariant.  *)
LEMMA UnwatchedKeepsGate == ASSUME GateInv, UNCHANGED watched PROVE GateInv'
  BY DEF watched, GateInv, GateTyped, BeatOrdered, ServesWithApprover, UnheardNeverServes

(* SuperAdmins change what an answer will say, not what a gate has.        *)
LEMMA AdminKeepsGate == ASSUME GateInv, AdminStep, UNCHANGED gateVars PROVE GateInv'
<1>1. policy' \in [Products -> SUBSET Entries] /\ UNCHANGED <<call, heartbeat, alive, autoAlive>>
  <2>1. UNCHANGED <<call, heartbeat, alive, autoAlive>>
    BY DEF AdminStep, SetClientStatus, UpdateWLClient, IssueLicense, SetLicenseStatus,
           SetFeatureFlag, SetPolicy, Change, gateVars
  <2>2. ASSUME NEW p \in Products, NEW e \in Entries,
               SetPolicy(p, policy[p] \cup {e}) \/ SetPolicy(p, policy[p] \ {e})
        PROVE  policy' \in [Products -> SUBSET Entries]
    BY <2>2 DEF SetPolicy, GateInv, GateTyped
  <2>3. ASSUME UNCHANGED policy PROVE policy' \in [Products -> SUBSET Entries]
    BY <2>3 DEF GateInv, GateTyped
  <2> QED
    BY <2>1, <2>2, <2>3 DEF AdminStep, SetClientStatus, UpdateWLClient, IssueLicense,
           SetLicenseStatus, SetFeatureFlag
<1> QED
  BY <1>1 DEF GateInv, GateTyped, BeatOrdered, ServesWithApprover, UnheardNeverServes

(* A call that goes on without a word to the gate. *)
LEMMA AdvanceKeepsGate ==
  ASSUME GateInv, UNCHANGED gateVars, UNCHANGED <<heartbeat, policy>>,
         NEW p \in Products, NEW c \in Call, call' = [call EXCEPT ![p] = c],
         c.at \notin {"approver_awake", "gate_dead"},
         heartbeat[p] = "none" => c.at \in {"idle", "checked", "refused"}
  PROVE  GateInv'
  BY DEF gateVars, GateInv, GateTyped, BeatOrdered, ServesWithApprover, UnheardNeverServes

(* A read that fails takes the call to the stage that one which succeeds   *)
(* takes it to.                                                            *)
LEMMA UnreadMoves ==
  ASSUME NEW p \in Products, call \in [Products -> Call], ReadFails(p),
         call[p].at \in {"idle", "recorded", "flagged", "overlaid", "treasury"}
  PROVE  LET c == [call[p] EXCEPT !.at = AfterRead[@]]
         IN  /\ call' = [call EXCEPT ![p] = c]
             /\ c \in Call
             /\ c.at = AfterRead[call[p].at]
             /\ c.at \in {"checked", "flagged", "overlaid", "treasury", "answered"}
             /\ call[p].at = "idle" => c.at = "checked"
             /\ UNCHANGED <<heartbeat, policy>>
<1>1. /\ AfterRead["idle"] = "checked" /\ AfterRead["recorded"] = "flagged"
      /\ AfterRead["flagged"] = "overlaid" /\ AfterRead["overlaid"] = "treasury"
      /\ AfterRead["treasury"] = "answered"
  BY DEF AfterRead
<1> DEFINE to == AfterRead[call[p].at]
           c == [call[p] EXCEPT !.at = to]
<1>2. /\ to \in {"checked", "flagged", "overlaid", "treasury", "answered"}
      /\ call[p].at = "idle" => to = "checked"
  BY <1>1
<1>3. call' = [call EXCEPT ![p] = c] /\ UNCHANGED <<heartbeat, policy>>
  BY DEF ReadFails, adminVars
<1> HIDE DEF to
<1>4. c \in Call /\ c.at = to
  BY <1>2 DEF Call, ServerStage
<1> QED
  BY <1>2, <1>3, <1>4 DEF to

(* The license service answers a beat without touching the gate, and only  *)
(* a product it has heard of gets a valid answer.                          *)
LEMMA ServeKeepsGate ==
  ASSUME GateInv, UNCHANGED gateVars, NEW p \in Products,
         \/ ServeCall(p) \/ ReceiveCallUnread(p) \/ ListUnread(p)
         \/ LoseCall(p) \/ HeartbeatExpires(p)
  PROVE  GateInv'
<1> USE DEF GateInv, GateTyped
<1>1. /\ call[p] \in Call
      /\ call[p].off \subseteq FlagNames /\ call[p].listed \subseteq FlagNames
      /\ call[p].policy \subseteq Entries
      /\ KilledFetchers(p) \subseteq FlagNames
  BY DEF Call, KilledFetchers, FlagNames
<1>2. ASSUME NEW stage \in {"checked", "refused", "alive", "overlaid"}, Advance(p, stage),
             heartbeat[p] = "none" => stage \in {"checked", "refused"}
      PROVE  GateInv'
  <2>1. [call[p] EXCEPT !.at = stage] \in Call
    BY <1>1 DEF Call, ServerStage
  <2> QED
    BY <1>2, <2>1, <1>1, AdvanceKeepsGate DEF Advance, adminVars, Call
<1>3. CASE ReceiveCall(p)
  BY <1>2, <1>3 DEF ReceiveCall
<1>4. CASE CheckAlive(p)
  BY <1>2, <1>4 DEF CheckAlive, Authorized
<1>5. CASE LoseCall(p)
  <2>1. [NoCall EXCEPT !.at = "refused"] \in Call /\ [NoCall EXCEPT !.at = "refused"].at = "refused"
    BY DEF NoCall, Call
  <2> QED BY <1>5, <2>1, AdvanceKeepsGate DEF LoseCall, adminVars
<1>6. CASE Record(p)
  <2>1. heartbeat[p] # "none" BY <1>6 DEF Record, UnheardNeverServes
  <2>2. [call[p] EXCEPT !.at = "recorded"] \in Call BY <1>1 DEF Call, ServerStage
  <2> QED
    BY <1>6, <2>1, <2>2, <1>1 DEF Record, adminVars, gateVars, BeatOrdered,
       ServesWithApprover, UnheardNeverServes, Call
<1>7. CASE ListFlags(p)
  <2> DEFINE c == [call[p] EXCEPT !.at = "flagged", !.listed = {f \in FlagNames : flags[p][f] # "none"},
                                  !.off = {f \in FlagNames : flags[p][f] = "off"}]
  <2>1. c \in Call /\ c.at = "flagged" BY <1>1 DEF Call, ServerStage
  <2>2. call' = [call EXCEPT ![p] = c] /\ UNCHANGED <<heartbeat, policy>>
    BY <1>7 DEF ListFlags, adminVars
  <2>3. heartbeat[p] # "none" BY <1>7 DEF ListFlags, UnheardNeverServes
  <2> QED BY <2>1, <2>2, <2>3, AdvanceKeepsGate
<1>8. CASE Overlay(p)
  <2> DEFINE c == [call[p] EXCEPT !.at = "overlaid", !.listed = @ \cup KilledFetchers(p),
                                  !.off = @ \cup KilledFetchers(p)]
  <2>1. c \in Call /\ c.at = "overlaid" BY <1>1 DEF Call, ServerStage
  <2>2. call' = [call EXCEPT ![p] = c] /\ UNCHANGED <<heartbeat, policy>>
    BY <1>8 DEF Overlay, adminVars
  <2>3. heartbeat[p] # "none" BY <1>8 DEF Overlay, UnheardNeverServes
  <2> QED BY <2>1, <2>2, <2>3, AdvanceKeepsGate
<1>9. CASE ListTreasury(p)
  <2> DEFINE c == [call[p] EXCEPT !.at = "treasury", !.policy = policy[p] \cap Treasury]
  <2>1. c \in Call /\ c.at = "treasury" BY <1>1 DEF Call, ServerStage, Entries
  <2>2. call' = [call EXCEPT ![p] = c] /\ UNCHANGED <<heartbeat, policy>>
    BY <1>9 DEF ListTreasury, adminVars
  <2>3. heartbeat[p] # "none" BY <1>9 DEF ListTreasury, UnheardNeverServes
  <2> QED BY <2>1, <2>2, <2>3, AdvanceKeepsGate
<1>10. CASE ListRules(p)
  <2> DEFINE c == [call[p] EXCEPT !.at = "answered", !.policy = @ \cup (policy[p] \cap Rules)]
  <2>1. c \in Call /\ c.at = "answered" BY <1>1 DEF Call, Entries
  <2>2. call' = [call EXCEPT ![p] = c] /\ UNCHANGED <<heartbeat, policy>>
    BY <1>10 DEF ListRules, adminVars
  <2>3. heartbeat[p] # "none" BY <1>10 DEF ListRules, UnheardNeverServes
  <2> QED BY <2>1, <2>2, <2>3, AdvanceKeepsGate
<1>11. CASE ReceiveCallUnread(p) \/ ListUnread(p)
  <2> DEFINE c == [call[p] EXCEPT !.at = AfterRead[@]]
  <2>1. ReadFails(p) /\ call[p].at \in {"idle", "recorded", "flagged", "overlaid", "treasury"}
    BY <1>11 DEF ReceiveCallUnread, ListUnread
  <2>2. /\ call' = [call EXCEPT ![p] = c] /\ UNCHANGED <<heartbeat, policy>>
        /\ c \in Call /\ c.at \in {"checked", "flagged", "overlaid", "treasury", "answered"}
        /\ call[p].at = "idle" => c.at = "checked"
    BY <2>1, UnreadMoves
  <2>3. heartbeat[p] = "none" => c.at = "checked"
    BY <2>1, <2>2 DEF UnheardNeverServes
  <2> HIDE DEF c
  <2> QED BY <2>2, <2>3, AdvanceKeepsGate
<1>12. CASE HeartbeatExpires(p)
  BY <1>12 DEF HeartbeatExpires, adminVars, gateVars, BeatOrdered, ServesWithApprover,
     UnheardNeverServes
<1> QED
  BY <1>3, <1>4, <1>5, <1>6, <1>7, <1>8, <1>9, <1>10, <1>11, <1>12 DEF ServeCall

(* A step of the beat: where it stood, where it stands, what else moved. *)
LEMMA StageMoves ==
  ASSUME GateTyped, NEW p \in Products, NEW from,
         NEW to \in {"idle"} \cup GateStage, NextStage(p, from, to)
  PROVE  /\ call[p].at = from /\ call' \in [Products -> Call]
         /\ \A q \in Products : call'[q].at = IF q = p THEN to ELSE call[q].at
         /\ UNCHANGED <<heartbeat, policy>>
<1>1. NoCall \in Call /\ NoCall.at = "idle" BY DEF NoCall, Call
<1>2. [call[p] EXCEPT !.at = to] \in Call /\ [call[p] EXCEPT !.at = to].at = to
  BY DEF GateTyped, Call
<1> QED BY <1>1, <1>2 DEF NextStage, GateTyped, adminVars

(* Applying an answer: the approver wakes before the gate opens, and the   *)
(* gate shuts before the approver sleeps.                                  *)
LEMMA BeatKeepsGate ==
  ASSUME GateInv, NEW p \in Products, BeatStep(p) PROVE GateInv'
<1> USE DEF GateInv, BeatOrdered, ServesWithApprover, UnheardNeverServes
<1>1. CASE ApplyFlags(p)
  BY <1>1, StageMoves DEF ApplyFlags, GateStage, GateTyped
<1>2. CASE ApplyTreasury(p)
  BY <1>2, StageMoves DEF ApplyTreasury, GateStage, GateTyped
<1>3. CASE ApplyRules(p)
  BY <1>3, StageMoves DEF ApplyRules, GateStage, GateTyped
<1>4. CASE WakeApprover(p)
  BY <1>4, StageMoves DEF WakeApprover, GateStage, GateTyped
<1>5. CASE OpenGate(p)
  BY <1>5, StageMoves DEF OpenGate, GateStage, GateTyped
<1>6. CASE CloseGate(p)
  BY <1>6, StageMoves DEF CloseGate, GateStage, GateTyped
<1>7. CASE StopApprover(p)
  BY <1>7, StageMoves DEF StopApprover, GateStage, GateTyped
<1> QED
  BY <1>1, <1>2, <1>3, <1>4, <1>5, <1>6, <1>7 DEF BeatStep

(* A restarted product has a shut gate and a sleeping approver.            *)
LEMMA RestartKeepsGate ==
  ASSUME GateInv, NEW p \in Products, ProductRestarts(p) PROVE GateInv'
<1>1. NoCall \in Call /\ NoCall.at = "idle" BY DEF NoCall, Call
<1> QED
  BY <1>1 DEF ProductRestarts, adminVars, GateInv, GateTyped, BeatOrdered,
     ServesWithApprover, UnheardNeverServes

(* Every step of the control plane keeps the invariant.                    *)
LEMMA NextKeepsGate == GateInv /\ [ControlNext]_controlVars => GateInv'
<1> SUFFICES ASSUME GateInv, [ControlNext]_controlVars PROVE GateInv'
  OBVIOUS
<1>1. CASE KillNext /\ UNCHANGED <<licenseVars, gateVars>>
  BY <1>1, UnwatchedKeepsGate DEF watched, licenseVars, adminVars, gateVars
<1>2. CASE AdminStep /\ UNCHANGED gateVars
  BY <1>2, AdminKeepsGate
<1>3. CASE \E p \in Products :
              /\ \/ ServeCall(p) \/ ReceiveCallUnread(p) \/ ListUnread(p)
                 \/ LoseCall(p) \/ HeartbeatExpires(p)
              /\ UNCHANGED gateVars
  BY <1>3, ServeKeepsGate
<1>4. CASE \E p \in Products : BeatStep(p)
  BY <1>4, BeatKeepsGate
<1>5. CASE \E p \in Products : ProductRestarts(p)
  BY <1>5, RestartKeepsGate
<1>6. CASE UNCHANGED controlVars
  BY <1>6, UnwatchedKeepsGate DEF watched, controlVars, licenseVars, adminVars, gateVars
<1> QED
  BY <1>1, <1>2, <1>3, <1>4, <1>5, <1>6 DEF ControlNext

(* For any products, in any interleaving of beats, halts and restarts: a   *)
(* product that serves has an approver that is awake.                      *)
THEOREM ApproverFirst == ControlSpec => []ServesWithApprover
<1>1. GateInv => ServesWithApprover BY DEF GateInv, BeatOrdered
<1> QED
  BY InitGate, NextKeepsGate, <1>1, PTL DEF ControlSpec

(* A product whose heartbeat was never recorded never serves, whatever     *)
(* SuperAdmins set and however often it calls.                             *)
THEOREM UnheardIsShut == ControlSpec => []UnheardNeverServes
<1>1. GateInv => UnheardNeverServes BY DEF GateInv
<1> QED
  BY InitGate, NextKeepsGate, <1>1, PTL DEF ControlSpec

(***************************************************************************)
(* The types of the whole plane                                            *)
(***************************************************************************)

ServeStep(p) ==
    \/ ServeCall(p) \/ ReceiveCallUnread(p) \/ ListUnread(p)
    \/ LoseCall(p) \/ HeartbeatExpires(p)

(* What the license service, a lost call and the passing of time do to the *)
(* calls: the call of one product moves on, before its beat is applied.    *)
LEMMA ServeMoves ==
  ASSUME LicenseTypeOK, NEW p \in Products, ServeStep(p)
  PROVE  \/ UNCHANGED call
         \/ \E c \in Call : /\ call' = [call EXCEPT ![p] = c]
                            /\ c.at \notin GateStage /\ call[p].at \notin GateStage
<1>1. /\ call[p] \in Call /\ call \in [Products -> Call]
      /\ call[p].off \subseteq FlagNames /\ call[p].listed \subseteq FlagNames
      /\ call[p].policy \subseteq Entries
      /\ KilledFetchers(p) \subseteq FlagNames
  BY DEF Call, KilledFetchers, FlagNames, LicenseTypeOK
<1> DEFINE Moves(c) == /\ call' = [call EXCEPT ![p] = c] /\ c \in Call
                       /\ c.at \notin GateStage /\ call[p].at \notin GateStage
<1> SUFFICES UNCHANGED call \/ \E c : Moves(c)
  OBVIOUS
<1>2. ASSUME NEW stage \in {"checked", "refused", "alive", "recorded", "overlaid"},
             call[p].at \in {"idle", "checked", "alive", "flagged"},
             call' = [call EXCEPT ![p].at = stage]
      PROVE  \E c : Moves(c)
  <2> DEFINE c == [call[p] EXCEPT !.at = stage]
  <2>1. c \in Call /\ c.at = stage
    BY <1>1 DEF Call, ServerStage
  <2>2. call' = [call EXCEPT ![p] = c]
    BY <1>1, <1>2
  <2>3. c.at \notin GateStage /\ call[p].at \notin GateStage
    BY <1>2, <2>1 DEF GateStage
  <2> QED BY <2>1, <2>2, <2>3
<1>3. CASE ReceiveCall(p)
  BY <1>2, <1>3 DEF ReceiveCall, Advance
<1>4. CASE CheckAlive(p)
  BY <1>2, <1>4 DEF CheckAlive, Advance
<1>5. CASE Record(p)
  BY <1>2, <1>5 DEF Record
<1>6. CASE ReceiveCallUnread(p) \/ ListUnread(p)
  <2> DEFINE c == [call[p] EXCEPT !.at = AfterRead[@]]
  <2>1. ReadFails(p) /\ call[p].at \in {"idle", "recorded", "flagged", "overlaid", "treasury"}
    BY <1>6 DEF ReceiveCallUnread, ListUnread
  <2>2. /\ call' = [call EXCEPT ![p] = c] /\ c \in Call
        /\ c.at \in {"checked", "flagged", "overlaid", "treasury", "answered"}
    BY <1>1, <2>1, UnreadMoves
  <2> HIDE DEF c
  <2>3. Moves(c)
    BY <2>1, <2>2 DEF GateStage
  <2> QED BY <2>3
<1>7. CASE LoseCall(p)
  <2> DEFINE c == [NoCall EXCEPT !.at = "refused"]
  <2>1. c \in Call /\ c.at = "refused"
    BY DEF NoCall, Call
  <2>2. Moves(c)
    BY <1>7, <2>1 DEF LoseCall, GateStage, ServerStage
  <2> QED BY <2>2
<1>8. CASE ListFlags(p)
  <2> DEFINE c == [call[p] EXCEPT !.at = "flagged", !.listed = {f \in FlagNames : flags[p][f] # "none"},
                                  !.off = {f \in FlagNames : flags[p][f] = "off"}]
  <2>1. c \in Call /\ c.at = "flagged" BY <1>1 DEF Call, ServerStage
  <2>2. call' = [call EXCEPT ![p] = c] /\ call[p].at = "recorded"
    BY <1>8 DEF ListFlags
  <2>3. Moves(c) BY <2>1, <2>2 DEF GateStage
  <2> QED BY <2>3
<1>9. CASE Overlay(p)
  <2> DEFINE c == [call[p] EXCEPT !.at = "overlaid", !.listed = @ \cup KilledFetchers(p),
                                  !.off = @ \cup KilledFetchers(p)]
  <2>1. c \in Call /\ c.at = "overlaid" BY <1>1 DEF Call, ServerStage
  <2>2. call' = [call EXCEPT ![p] = c] /\ call[p].at = "flagged"
    BY <1>9 DEF Overlay
  <2>3. Moves(c) BY <2>1, <2>2 DEF GateStage
  <2> QED BY <2>3
<1>10. CASE ListTreasury(p)
  <2> DEFINE c == [call[p] EXCEPT !.at = "treasury", !.policy = policy[p] \cap Treasury]
  <2>1. c \in Call /\ c.at = "treasury" BY <1>1 DEF Call, ServerStage, Entries
  <2>2. call' = [call EXCEPT ![p] = c] /\ call[p].at = "overlaid"
    BY <1>10 DEF ListTreasury
  <2>3. Moves(c) BY <2>1, <2>2 DEF GateStage
  <2> QED BY <2>3
<1>11. CASE ListRules(p)
  <2> DEFINE c == [call[p] EXCEPT !.at = "answered", !.policy = @ \cup (policy[p] \cap Rules)]
  <2>1. c \in Call /\ c.at = "answered" BY <1>1 DEF Call, Entries
  <2>2. call' = [call EXCEPT ![p] = c] /\ call[p].at = "treasury"
    BY <1>11 DEF ListRules
  <2>3. Moves(c) BY <2>1, <2>2 DEF GateStage
  <2> QED BY <2>3
<1>12. CASE HeartbeatExpires(p)
  BY <1>12 DEF HeartbeatExpires
<1> QED
  BY <1>3, <1>4, <1>5, <1>6, <1>7, <1>8, <1>9, <1>10, <1>11, <1>12
     DEF ServeStep, ServeCall

(* The kill switch keeps its types, through crashes and Redis restarts.    *)
LEMMA KillTyped == ASSUME KillTypeOK, KillNext PROVE KillTypeOK'
<1> USE DEF KillTypeOK
<1>1. /\ MaxFaults \in Nat /\ MaxCommits \in Nat
      /\ NoHeal \in Heal
      /\ heal.pending \subseteq Scopes /\ heal.sees \subseteq Scopes
      /\ \A a \in Admins : publishing[a] # NoPublish => publishing[a] \in Publish
  BY KillSwitchAssumption DEF NoHeal, Heal
<1>2. ASSUME Fault PROVE faults' \in 0 .. MaxFaults
  BY <1>1, <1>2 DEF Fault
<1>3. ASSUME NEW s \in Scopes, NEW active, WriteKey(s, active) PROVE redisKey' \in SUBSET Scopes
  BY <1>3 DEF WriteKey
<1>4. ASSUME NEW a \in Admins, NEW s \in Scopes, NEW active \in BOOLEAN, CommitHalt(a, s, active)
      PROVE  KillTypeOK'
  <2>1. killState' \in [Scopes -> {"none", "active", "inactive"}]
    BY <1>4 DEF CommitHalt
  <2>2. publishing' \in [Admins -> Publish \cup {NoPublish}]
    BY <1>4 DEF CommitHalt, Publish
  <2>3. commits' \in 0 .. MaxCommits
    BY <1>1, <1>4 DEF CommitHalt
  <2> QED BY <1>4, <2>1, <2>2, <2>3 DEF CommitHalt
<1>5. ASSUME NEW a \in Admins, Propagate(a) PROVE KillTypeOK'
  <2>1. publishing[a].scope \in Scopes
    BY <1>1, <1>5 DEF Propagate, Publish
  <2>2. redisKey' \in SUBSET Scopes
    BY <1>3, <1>5, <2>1 DEF Propagate
  <2>3. publishing' \in [Admins -> Publish \cup {NoPublish}]
    BY <1>5 DEF Propagate
  <2> QED BY <1>5, <2>2, <2>3 DEF Propagate
<1>6. ASSUME NEW a \in Admins, PropagateFails(a) PROVE KillTypeOK'
  BY <1>2, <1>6 DEF PropagateFails
<1>7. CASE HealRead
  <2>1. heal' \in Heal
    BY <1>7 DEF HealRead, Heal
  <2> QED BY <1>7, <2>1 DEF HealRead
<1>8. ASSUME NEW s \in Scopes, HealRow(s) \/ HealRowFails(s) PROVE KillTypeOK'
  <2>1. heal' \in Heal
    BY <1>1, <1>8 DEF HealRow, HealRowFails, Heal
  <2>2. redisKey' \in SUBSET Scopes
    BY <1>3, <1>8 DEF HealRow, HealRowFails
  <2>3. faults' \in 0 .. MaxFaults
    BY <1>2, <1>8 DEF HealRow, HealRowFails
  <2> QED BY <1>8, <2>1, <2>2, <2>3 DEF HealRow, HealRowFails
<1>9. CASE HealEnd
  BY <1>1, <1>9 DEF HealEnd
<1>10. CASE BootUnhealed
  BY <1>2, <1>10 DEF BootUnhealed
<1>11. CASE Crash
  BY <1>1, <1>2, <1>11 DEF Crash
<1>12. CASE RedisRestart
  BY <1>2, <1>12 DEF RedisRestart
<1> QED
  BY <1>4, <1>5, <1>6, <1>7, <1>8, <1>9, <1>10, <1>11, <1>12 DEF KillNext

(* What SuperAdmins set keeps its types.                                   *)
LEMMA AdminTyped == ASSUME LicenseTypeOK, AdminStep PROVE LicenseTypeOK'
<1> USE DEF LicenseTypeOK
<1>1. ASSUME Change
      PROVE  changes' \in 0 .. MaxChanges /\ UNCHANGED <<killVars, heartbeat, call>>
  BY <1>1, LicenseAssumption DEF Change
<1>2. ASSUME NEW status \in {"approved", "active"} \cup Stops, SetClientStatus(status)
      PROVE  LicenseTypeOK'
  BY <1>1, <1>2 DEF SetClientStatus
<1>3. ASSUME NEW products \in SUBSET Products, UpdateWLClient(products) PROVE LicenseTypeOK'
  BY <1>1, <1>3 DEF UpdateWLClient
<1>4. ASSUME NEW p \in Products, IssueLicense(p) PROVE LicenseTypeOK'
  BY <1>1, <1>4 DEF IssueLicense
<1>5. ASSUME NEW p \in Products, NEW status \in {"active"} \cup Stops, SetLicenseStatus(p, status)
      PROVE  LicenseTypeOK'
  BY <1>1, <1>5 DEF SetLicenseStatus
<1>6. ASSUME NEW p \in Products, NEW f \in FlagNames, NEW enabled \in BOOLEAN,
             SetFeatureFlag(p, f, enabled)
      PROVE  LicenseTypeOK'
  <2>1. flags' \in [Products -> [FlagNames -> {"none", "on", "off"}]]
    BY <1>6 DEF SetFeatureFlag
  <2> QED BY <1>1, <1>6, <2>1 DEF SetFeatureFlag
<1>7. ASSUME NEW p \in Products, NEW e \in Entries,
             SetPolicy(p, policy[p] \cup {e}) \/ SetPolicy(p, policy[p] \ {e})
      PROVE  LicenseTypeOK'
  <2>1. policy' \in [Products -> SUBSET Entries]
    BY <1>7 DEF SetPolicy
  <2> QED BY <1>1, <1>7, <2>1 DEF SetPolicy
<1> QED
  BY <1>2, <1>3, <1>4, <1>5, <1>6, <1>7 DEF AdminStep

(* Serving a call writes the heartbeat, the call and the fault counter.    *)
LEMMA ServeTyped ==
  ASSUME KillTypeOK, LicenseTypeOK, NEW p \in Products, ServeStep(p)
  PROVE  KillTypeOK' /\ LicenseTypeOK'
<1>1. call' \in [Products -> Call]
  BY ServeMoves DEF LicenseTypeOK
<1>2. UNCHANGED adminVars
  BY DEF ServeStep, ServeCall, ReceiveCall, CheckAlive, Record, ListFlags, Overlay,
         ListTreasury, ListRules, ReceiveCallUnread, ListUnread, ReadFails,
         LoseCall, HeartbeatExpires, Advance
<1>3. heartbeat' \in [Products -> {"none", "fresh", "stale"}]
  BY DEF LicenseTypeOK, ServeStep, ServeCall, ReceiveCall, CheckAlive, Record, ListFlags,
         Overlay, ListTreasury, ListRules, ReceiveCallUnread, ListUnread,
         ReadFails, LoseCall, HeartbeatExpires, Advance
<1>4. /\ UNCHANGED <<killState, redisKey, publishing, heal, serving, commits>>
      /\ UNCHANGED faults \/ Fault
  BY DEF ServeStep, ServeCall, ReceiveCall, CheckAlive, Record, ListFlags, Overlay,
         ListTreasury, ListRules, ReceiveCallUnread, ListUnread, ReadFails,
         LoseCall, HeartbeatExpires, Advance, killVars
<1>5. faults' \in 0 .. MaxFaults
  BY <1>4, KillSwitchAssumption DEF KillTypeOK, Fault
<1> QED
  BY <1>1, <1>2, <1>3, <1>4, <1>5 DEF KillTypeOK, LicenseTypeOK, adminVars

(* A step of the beat, and a restart, write the call and the gate.         *)
LEMMA GateStepTyped ==
  ASSUME ControlTypeOK, NEW p \in Products, BeatStep(p) \/ ProductRestarts(p)
  PROVE  ControlTypeOK'
<1> USE DEF ControlTypeOK
<1>1. NoCall \in Call /\ call[p] \in Call /\ call \in [Products -> Call]
  BY DEF NoCall, Call, LicenseTypeOK
<1>2. ASSUME NEW from, NEW to \in {"idle"} \cup GateStage, NextStage(p, from, to)
      PROVE  KillTypeOK' /\ LicenseTypeOK'
  <2>1. [call[p] EXCEPT !.at = to] \in Call
    BY <1>1 DEF Call
  <2>2. call' \in [Products -> Call]
    BY <1>1, <1>2, <2>1 DEF NextStage
  <2> QED
    BY <1>2, <2>2 DEF NextStage, killVars, adminVars, KillTypeOK, LicenseTypeOK
<1>3. /\ call[p].off \subseteq FlagNames /\ call[p].policy \subseteq Entries
      /\ \A kind \in {Treasury, Rules} : Replaced(p, kind) \subseteq Entries
  BY <1>1 DEF Call, Replaced
<1>4. CASE ApplyFlags(p)
  BY <1>2, <1>3, <1>4 DEF ApplyFlags, GateStage
<1>5. CASE ApplyTreasury(p)
  BY <1>2, <1>3, <1>5 DEF ApplyTreasury, GateStage
<1>6. CASE ApplyRules(p)
  BY <1>2, <1>3, <1>6 DEF ApplyRules, GateStage
<1>7. CASE WakeApprover(p)
  BY <1>2, <1>7 DEF WakeApprover, GateStage
<1>8. CASE OpenGate(p)
  BY <1>2, <1>8 DEF OpenGate, GateStage
<1>9. CASE CloseGate(p)
  BY <1>2, <1>9 DEF CloseGate, GateStage
<1>10. CASE StopApprover(p)
  BY <1>2, <1>10 DEF StopApprover, GateStage
<1>11. CASE ProductRestarts(p)
  <2>1. call' \in [Products -> Call]
    BY <1>1, <1>11 DEF ProductRestarts
  <2> QED
    BY <1>11, <2>1 DEF ProductRestarts, killVars, adminVars, KillTypeOK, LicenseTypeOK
<1> QED
  BY <1>4, <1>5, <1>6, <1>7, <1>8, <1>9, <1>10, <1>11 DEF BeatStep

(* The plane starts well typed.                                            *)
LEMMA ControlTypeInit == ControlInit => ControlTypeOK
<1> SUFFICES ASSUME ControlInit PROVE ControlTypeOK
  OBVIOUS
<1>1. KillTypeOK
  <2>1. NoHeal \in Heal
    BY DEF NoHeal, Heal
  <2>2. 0 \in 0 .. MaxCommits /\ 0 \in 0 .. MaxFaults
    BY KillSwitchAssumption
  <2> HIDE DEF NoHeal
  <2> QED BY <2>1, <2>2 DEF ControlInit, KillInit, KillTypeOK
<1>2. LicenseTypeOK
  BY LicenseAssumption DEF ControlInit, LicenseInit, LicenseTypeOK, NoCall, Call
<1> QED
  BY <1>1, <1>2 DEF ControlInit, ControlTypeOK

(* Every action of the plane keeps ControlTypeOK.                          *)
LEMMA ControlTypeStep == ControlTypeOK /\ [ControlNext]_controlVars => ControlTypeOK'
<1> SUFFICES ASSUME ControlTypeOK, [ControlNext]_controlVars PROVE ControlTypeOK'
  OBVIOUS
<1> USE DEF ControlTypeOK
<1>1. CASE KillNext /\ UNCHANGED <<licenseVars, gateVars>>
  BY <1>1, KillTyped DEF licenseVars, adminVars, gateVars, LicenseTypeOK
<1>2. CASE AdminStep /\ UNCHANGED gateVars
  <2>1. UNCHANGED killVars
    BY <1>2 DEF AdminStep, SetClientStatus, UpdateWLClient, IssueLicense,
                SetLicenseStatus, SetFeatureFlag, SetPolicy, Change
  <2> QED BY <1>2, <2>1, AdminTyped DEF killVars, gateVars, KillTypeOK
<1>3. ASSUME NEW p \in Products, ServeStep(p), UNCHANGED gateVars PROVE ControlTypeOK'
  BY <1>3, ServeTyped DEF gateVars
<1>4. ASSUME NEW p \in Products, BeatStep(p) \/ ProductRestarts(p) PROVE ControlTypeOK'
  BY <1>4, GateStepTyped
<1>5. CASE UNCHANGED controlVars
  BY <1>5 DEF controlVars, killVars, licenseVars, adminVars, gateVars, KillTypeOK,
              LicenseTypeOK
<1> QED
  BY <1>1, <1>2, <1>3, <1>4, <1>5 DEF ControlNext, ServeStep

(* The plane is well typed: a call never carries flags, addresses or rules *)
(* that nobody set, and Redis never holds a key outside the scopes.        *)
THEOREM ControlTypeCorrect == ControlSpec => []ControlTypeOK
BY ControlTypeInit, ControlTypeStep, PTL DEF ControlSpec

(***************************************************************************)
(* The approver holds the last answer                                      *)
(***************************************************************************)

(* The strengthening: what of the answer the approver holds at each step   *)
(* of the beat, awake or not, and between beats.                           *)
AnswerHeld(p) ==
    /\ call[p].at \in {"flags_set", "treasury_set"} => answered[p] = call[p].policy
    /\ call[p].at = "treasury_set" => answered[p] \cap Treasury \subseteq held[p]
    /\ call[p].at \notin {"flags_set", "treasury_set"} => answered[p] \subseteq held[p]

(* The lists of an answer are replaced one by one.                         *)
LEMMA BeatHolds ==
  ASSUME ControlTypeOK, NEW p \in Products, NEW q \in Products, AnswerHeld(q), BeatStep(p)
  PROVE  AnswerHeld(q)'
<1>1. /\ call \in [Products -> Call] /\ call[p] \in Call /\ NoCall.at = "idle"
      /\ answered \in [Products -> SUBSET Entries] /\ held \in [Products -> SUBSET Entries]
  BY DEF ControlTypeOK, LicenseTypeOK, NoCall
<1>2. ASSUME NEW from, NEW to \in GateStage, NextStage(p, from, to)
      PROVE  /\ call[p].at = from /\ call'[p].at = to /\ call'[p].policy = call[p].policy
             /\ q # p => call'[q] = call[q]
  BY <1>1, <1>2 DEF NextStage, Call, GateStage
<1>3. ASSUME NEW from, NextStage(p, from, "idle")
      PROVE  call[p].at = from /\ call'[p].at = "idle" /\ (q # p => call'[q] = call[q])
  BY <1>1, <1>3 DEF NextStage
<1>4. CASE ApplyFlags(p)
  <2>1. /\ call'[p].at = "flags_set" /\ call'[p].policy = call[p].policy
        /\ q # p => call'[q] = call[q]
    BY <1>2, <1>4 DEF ApplyFlags, GateStage
  <2>2. answered'[p] = call[p].policy /\ (q # p => answered'[q] = answered[q])
        /\ UNCHANGED held
    BY <1>1, <1>4 DEF ApplyFlags
  <2> QED BY <2>1, <2>2 DEF AnswerHeld
<1>5. CASE ApplyTreasury(p)
  <2>1. /\ call[p].at = "flags_set" /\ call'[p].at = "treasury_set"
        /\ call'[p].policy = call[p].policy /\ (q # p => call'[q] = call[q])
    BY <1>2, <1>5 DEF ApplyTreasury, GateStage
  <2>2. /\ held'[p] = Replaced(p, Treasury) /\ (q # p => held'[q] = held[q])
        /\ UNCHANGED answered
    BY <1>1, <1>5 DEF ApplyTreasury
  <2>3. call[p].policy \cap Treasury \subseteq Replaced(p, Treasury)
    BY DEF Replaced
  <2> QED BY <2>1, <2>2, <2>3 DEF AnswerHeld
<1>6. CASE ApplyRules(p)
  <2>1. /\ call[p].at = "treasury_set" /\ call'[p].at = "rules_set"
        /\ q # p => call'[q] = call[q]
    BY <1>2, <1>6 DEF ApplyRules, GateStage
  <2>2. /\ held'[p] = Replaced(p, Rules) /\ (q # p => held'[q] = held[q])
        /\ UNCHANGED answered
    BY <1>1, <1>6 DEF ApplyRules
  <2>3. /\ call[p].policy \cap Rules \subseteq Replaced(p, Rules)
        /\ held[p] \cap Treasury \subseteq Replaced(p, Rules)
    BY LicenseAssumption DEF Replaced
  <2>4. q = p => answered[q] = call[p].policy /\ answered[q] \cap Treasury \subseteq held[p]
                 /\ answered[q] \subseteq Treasury \cup Rules
    BY <1>1, <2>1 DEF AnswerHeld, Entries
  <2> QED BY <2>1, <2>2, <2>3, <2>4 DEF AnswerHeld
<1>7. CASE WakeApprover(p) \/ CloseGate(p)
  <2>1. /\ call[p].at \in {"rules_set", "refused"}
        /\ call'[p].at \in {"approver_awake", "gate_dead"}
        /\ q # p => call'[q] = call[q]
    BY <1>2, <1>7 DEF WakeApprover, CloseGate, GateStage
  <2>2. UNCHANGED <<held, answered>>
    BY <1>7 DEF WakeApprover, CloseGate
  <2> QED BY <2>1, <2>2 DEF AnswerHeld
<1>8. CASE OpenGate(p) \/ StopApprover(p)
  <2>1. /\ call[p].at \in {"approver_awake", "gate_dead"} /\ call'[p].at = "idle"
        /\ q # p => call'[q] = call[q]
    BY <1>3, <1>8 DEF OpenGate, StopApprover
  <2>2. UNCHANGED <<held, answered>>
    BY <1>8 DEF OpenGate, StopApprover
  <2> QED BY <2>1, <2>2 DEF AnswerHeld
<1> QED
  BY <1>4, <1>5, <1>6, <1>7, <1>8 DEF BeatStep

(* Nothing but the beat and a restart touches the lists, and no call is    *)
(* lost while its answer is being applied.                                 *)
LEMMA HeldStep ==
  ASSUME ControlTypeOK, [ControlNext]_controlVars, NEW q \in Products, AnswerHeld(q)
  PROVE  AnswerHeld(q)'
<1>1. ASSUME UNCHANGED <<call, held, answered>> PROVE AnswerHeld(q)'
  BY <1>1 DEF AnswerHeld
<1>2. CASE KillNext /\ UNCHANGED <<licenseVars, gateVars>>
  BY <1>1, <1>2 DEF licenseVars, gateVars
<1>3. CASE AdminStep /\ UNCHANGED gateVars
  BY <1>1, <1>3 DEF AdminStep, SetClientStatus, UpdateWLClient, IssueLicense,
       SetLicenseStatus, SetFeatureFlag, SetPolicy, Change, gateVars
<1>4. ASSUME NEW p \in Products, ServeStep(p), UNCHANGED gateVars PROVE AnswerHeld(q)'
  <2>1. UNCHANGED <<held, answered>>
    BY <1>4 DEF gateVars
  <2>2. call'[q] = call[q] \/ (call[q].at \notin GateStage /\ call'[q].at \notin GateStage)
    BY <1>4, ServeMoves DEF ControlTypeOK, LicenseTypeOK
  <2> QED BY <2>1, <2>2 DEF AnswerHeld, GateStage
<1>5. ASSUME NEW p \in Products, BeatStep(p) PROVE AnswerHeld(q)'
  BY <1>5, BeatHolds
<1>6. ASSUME NEW p \in Products, ProductRestarts(p) PROVE AnswerHeld(q)'
  <2>1. /\ q # p => call'[q] = call[q] /\ held'[q] = held[q] /\ answered'[q] = answered[q]
        /\ q = p => call'[q].at = "idle" /\ answered'[q] = {}
    BY <1>6 DEF ProductRestarts, NoCall, ControlTypeOK, LicenseTypeOK
  <2> QED BY <2>1 DEF AnswerHeld
<1>7. CASE UNCHANGED controlVars
  BY <1>1, <1>7 DEF controlVars, licenseVars, gateVars
<1> QED
  BY <1>2, <1>3, <1>4, <1>5, <1>6, <1>7 DEF ControlNext, ServeStep

(* An approver that is awake between beats holds every address and every   *)
(* rule of the last answer, through restarts, refusals, lost calls and     *)
(* lists read at different times.                                          *)
THEOREM AnswerIsHeld == ControlSpec => []AwakeHoldsAnswer
<1> DEFINE Inv == \A q \in Products : AnswerHeld(q)
<1>1. ControlInit => Inv
  BY DEF ControlInit, LicenseInit, NoCall, AnswerHeld
<1>2. ControlTypeOK /\ Inv /\ [ControlNext]_controlVars => Inv'
  BY HeldStep
<1>3. Inv => AwakeHoldsAnswer
  BY DEF AnswerHeld, AwakeHoldsAnswer
<1> QED
  BY <1>1, <1>2, <1>3, ControlTypeCorrect, PTL DEF ControlSpec

=============================================================================
