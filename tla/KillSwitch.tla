----------------------------- MODULE KillSwitch -----------------------------
(***************************************************************************)
(* The kill switch of one white-label client (src/kill_switch/main.go).    *)
(*                                                                         *)
(* A halt or a resume is committed to PostgreSQL (kill_state) and only     *)
(* then written to Redis, whose keys are what the license service reads.   *)
(* A loop heals Redis from PostgreSQL: it reads every row and then writes  *)
(* the keys one by one, while requests go on.  A key that is lost (a Redis *)
(* restart, a failed write, a crash between commit and write) or rewritten *)
(* from a row read before the last commit is wrong until a later round.    *)
(***************************************************************************)
EXTENDS Integers

CONSTANTS
    Products,       \* products of the client
    Fetchers,       \* fetchers of a product
    ScopeTypes,     \* the scope types in use, among validScopes
    Admins,         \* SuperAdmin requests in flight
    MaxCommits,     \* bound: halts and resumes
    MaxFaults       \* bound: failed Redis writes, Redis restarts, crashes

ASSUME KillSwitchAssumption ==
    /\ ScopeTypes \subseteq {"global", "client", "product", "fetcher"}
    /\ MaxCommits \in Nat /\ MaxFaults \in Nat

VARIABLES
    killState,      \* the active column of the kill_state row of each scope
    redisKey,       \* the scopes whose kill:... key exists
    publishing,     \* per request: the key it has yet to write, committed already
    heal,           \* the reconcileRedis round in progress
    serving,        \* main got past its boot round
    commits, faults \* counters of the bounds

killVars == <<killState, redisKey, publishing, heal, serving, commits, faults>>

Scopes ==
    {s \in {<<"global">>, <<"client">>} \cup {"product"} \X Products
            \cup {"fetcher"} \X Products \X Fetchers : s[1] \in ScopeTypes}

NoPublish == [scope |-> <<>>]
Publish == [scope : Scopes, active : BOOLEAN]

NoHeal == [pending |-> {}, sees |-> {}, running |-> FALSE]
Heal == [pending : SUBSET Scopes, sees : SUBSET Scopes, running : BOOLEAN]

Halted(s) == s \in Scopes /\ killState[s] = "active"

(* rdb.Set or rdb.Del of the key of a scope. *)
WriteKey(s, active) ==
    redisKey' = IF active THEN redisKey \cup {s} ELSE redisKey \ {s}

Fault == faults < MaxFaults /\ faults' = faults + 1

(***************************************************************************)
(* setHalt: handleHalt and handleResume                                    *)
(***************************************************************************)

(* kill_state is upserted and kill_events appended in one transaction. *)
CommitHalt(a, s, active) ==
    /\ serving /\ publishing[a] = NoPublish /\ commits < MaxCommits
    /\ killState' = [killState EXCEPT ![s] = IF active THEN "active" ELSE "inactive"]
    /\ publishing' = [publishing EXCEPT ![a] = [scope |-> s, active |-> active]]
    /\ commits' = commits + 1
    /\ UNCHANGED <<redisKey, heal, serving, faults>>

Propagate(a) ==
    /\ publishing[a] # NoPublish
    /\ WriteKey(publishing[a].scope, publishing[a].active)
    /\ publishing' = [publishing EXCEPT ![a] = NoPublish]
    /\ UNCHANGED <<killState, heal, serving, commits, faults>>

(* "state committed but redis publish failed": the request ends in a 500. *)
PropagateFails(a) ==
    /\ publishing[a] # NoPublish /\ Fault
    /\ publishing' = [publishing EXCEPT ![a] = NoPublish]
    /\ UNCHANGED <<killState, redisKey, heal, serving, commits>>

(***************************************************************************)
(* reconcileRedis: once at boot, before requests are served, then by the   *)
(* ticker of selfHeal                                                      *)
(***************************************************************************)

HealRead ==
    /\ ~heal.running
    /\ heal' = [pending |-> {s \in Scopes : killState[s] # "none"},
                sees |-> {s \in Scopes : killState[s] = "active"}, running |-> TRUE]
    /\ UNCHANGED <<killState, redisKey, publishing, serving, commits, faults>>

(* Mutant of HealRow: the round logs what it would write. *)
HealRowUnwritten(s) ==
    /\ s \in heal.pending
    /\ heal' = [heal EXCEPT !.pending = @ \ {s}]
    /\ UNCHANGED <<killState, redisKey, publishing, serving, commits, faults>>

HealRow(s) ==
    /\ s \in heal.pending
    /\ WriteKey(s, s \in heal.sees)
    /\ heal' = [heal EXCEPT !.pending = @ \ {s}]
    /\ UNCHANGED <<killState, publishing, serving, commits, faults>>

(* The error of a Set is logged, that of a Del ignored; the round goes on. *)
HealRowFails(s) ==
    /\ s \in heal.pending /\ Fault
    /\ heal' = [heal EXCEPT !.pending = @ \ {s}]
    /\ UNCHANGED <<killState, redisKey, publishing, serving, commits>>

HealEnd ==
    /\ heal.running /\ heal.pending = {}
    /\ heal' = NoHeal
    /\ serving' = TRUE
    /\ UNCHANGED <<killState, redisKey, publishing, commits, faults>>

(* The SELECT of the boot round fails: it is logged and the service opens. *)
BootUnhealed ==
    /\ ~serving /\ ~heal.running /\ Fault
    /\ serving' = TRUE
    /\ UNCHANGED <<killState, redisKey, publishing, heal, commits>>

(***************************************************************************)
(* The process and Redis                                                   *)
(***************************************************************************)

Crash ==
    /\ serving /\ Fault
    /\ serving' = FALSE
    /\ heal' = NoHeal
    /\ publishing' = [a \in Admins |-> NoPublish]
    /\ UNCHANGED <<killState, redisKey, commits>>

RedisRestart ==
    /\ Fault
    /\ redisKey' = {}
    /\ UNCHANGED <<killState, publishing, heal, serving, commits>>

KillInit ==
    /\ killState = [s \in Scopes |-> "none"]
    /\ redisKey = {}
    /\ publishing = [a \in Admins |-> NoPublish]
    /\ heal = NoHeal
    /\ serving = FALSE
    /\ commits = 0 /\ faults = 0

KillNext ==
    \/ \E a \in Admins :
          \/ \E s \in Scopes, active \in BOOLEAN : CommitHalt(a, s, active)
          \/ Propagate(a)
          \/ PropagateFails(a)
    \/ HealRead \/ HealEnd \/ BootUnhealed \/ Crash \/ RedisRestart
    \/ \E s \in Scopes : HealRow(s) \/ HealRowFails(s)

KillTypeOK ==
    /\ killState \in [Scopes -> {"none", "active", "inactive"}]
    /\ redisKey \in SUBSET Scopes
    /\ publishing \in [Admins -> Publish \cup {NoPublish}]
    /\ heal \in Heal
    /\ serving \in BOOLEAN
    /\ commits \in 0 .. MaxCommits /\ faults \in 0 .. MaxFaults

=============================================================================
