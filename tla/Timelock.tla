------------------------------ MODULE Timelock ------------------------------
(***************************************************************************)
(* One transaction of the timelock service                                 *)
(* (src/timelock/go/cmd/tiger-timelock).  Every request loads the whole    *)
(* row, decides, and saves the whole row: nothing is locked, so a request  *)
(* may save over what others wrote since it loaded.                        *)
(***************************************************************************)
EXTENDS Integers

CONSTANTS
    Calls,          \* sign, execute and cancel requests in flight
    MaxBroadcasts   \* bound: times the transaction is sent

ASSUME TimelockAssumption == MaxBroadcasts \in Nat

VARIABLES
    clock,          \* before ExecuteAfter, in the grace period, or after it
    row,            \* the timelock_transactions row
    request,        \* per request: what it is about to do, with the row as it loaded it
    onChain,        \* an executor is configured
    broadcasts      \* on chain: times the transaction was sent

timelockVars == <<clock, row, request, onChain, broadcasts>>

Status == {"none", "pending", "queued", "cancelled", "expired", "pending_broadcast", "executed"}
Row == [status : Status, hash : BOOLEAN]
NoRequest == [op |-> "none", row |-> [status |-> "none", hash |-> FALSE]]

ScheduleTransaction ==
    /\ row.status = "none"
    /\ row' = [status |-> "pending", hash |-> FALSE]
    /\ UNCHANGED <<clock, request, onChain, broadcasts>>

TimePasses ==
    /\ row.status # "none"
    /\ \/ clock = "early" /\ clock' = "grace"
       \/ clock = "grace" /\ clock' = "late"
    /\ UNCHANGED <<row, request, onChain, broadcasts>>

Load(c, op, loaded) ==
    /\ row.status # "none"
    /\ request[c] = NoRequest
    /\ request' = [request EXCEPT ![c] = [op |-> op, row |-> loaded]]
    /\ UNCHANGED <<clock, row, onChain, broadcasts>>

(* SignTransaction, up to the threshold: AddAdmin gives every admin one of *)
(* a single signature.                                                     *)
Sign(c) ==
    /\ row.status = "pending"
    /\ Load(c, "save", [row EXCEPT !.status = "queued"])

Cancel(c) ==
    /\ row.status \in {"pending", "queued"}
    /\ Load(c, "save", [row EXCEPT !.status = "cancelled"])

(* Mutant of Execute: the time is not looked at.                           *)
ExecuteAnyTime(c) == Load(c, "execute", [row EXCEPT !.status = "pending_broadcast"])

(* ExecuteTransaction looks at the time, not at the status. *)
Execute(c) ==
    /\ clock # "early"
    /\ \/ /\ clock = "late"
          /\ Load(c, "save", [row EXCEPT !.status = "expired"])
       \/ /\ clock = "grace"
          /\ Load(c, "execute", [row EXCEPT !.status = "pending_broadcast"])

SaveLater(c, changed) ==
    /\ request' = [request EXCEPT ![c] = [op |-> "save", row |-> changed]]
    /\ UNCHANGED <<clock, row, onChain>>

(* No executor is configured: the row waits for a broadcast elsewhere. *)
ExecuteOffChain(c) ==
    /\ request[c].op = "execute" /\ ~onChain
    /\ SaveLater(c, [request[c].row EXCEPT !.hash = FALSE])
    /\ UNCHANGED broadcasts

Send == broadcasts < MaxBroadcasts /\ broadcasts' = broadcasts + 1

ExecuteOnChain(c) ==
    /\ request[c].op = "execute" /\ onChain
    /\ Send
    /\ SaveLater(c, [status |-> "executed", hash |-> TRUE])

(* Not sent, as far as the node tells; or sent and unconfirmed or          *)
(* reverted, which leaves a hash and the status as it is.                  *)
ExecuteFails(c) ==
    /\ request[c].op = "execute" /\ onChain
    /\ \/ (UNCHANGED broadcasts \/ Send) /\ SaveLater(c, request[c].row)
       \/ Send /\ SaveLater(c, [request[c].row EXCEPT !.hash = TRUE])

(* The calldata does not decode: nothing is saved. *)
ExecuteRefused(c) ==
    /\ request[c].op = "execute" /\ onChain
    /\ request' = [request EXCEPT ![c] = NoRequest]
    /\ UNCHANGED <<clock, row, onChain, broadcasts>>

Save(c) ==
    /\ request[c].op = "save"
    /\ row' = request[c].row
    /\ request' = [request EXCEPT ![c] = NoRequest]
    /\ UNCHANGED <<clock, onChain, broadcasts>>

(* The process dies, or the error of the save, never looked at, is one. *)
SaveLost(c) ==
    /\ request[c] # NoRequest
    /\ request' = [request EXCEPT ![c] = NoRequest]
    /\ UNCHANGED <<clock, row, onChain, broadcasts>>

TimelockInit ==
    /\ clock = "early"
    /\ row = NoRequest.row
    /\ request = [c \in Calls |-> NoRequest]
    /\ onChain \in BOOLEAN
    /\ broadcasts = 0

TimelockNext ==
    \/ ScheduleTransaction
    \/ TimePasses
    \/ \E c \in Calls :
          \/ Sign(c) \/ Cancel(c) \/ Execute(c)
          \/ ExecuteOffChain(c) \/ ExecuteOnChain(c) \/ ExecuteFails(c) \/ ExecuteRefused(c)
          \/ Save(c) \/ SaveLost(c)

TimelockSpec == TimelockInit /\ [][TimelockNext]_timelockVars

TimelockTypeOK ==
    /\ clock \in {"early", "grace", "late"}
    /\ row \in Row
    /\ request \in [Calls -> [op : {"none", "execute", "save"}, row : Row]]
    /\ onChain \in BOOLEAN
    /\ broadcasts \in 0 .. MaxBroadcasts

(* However stale the rows that are saved: nothing is sent before its time  *)
(* or without an executor, and a hash, in the table or about to be saved,  *)
(* is that of a transaction that was sent; "executed" always comes with    *)
(* one ("never fabricate a hash", ExecuteTransaction).                     *)
NoFabricatedExecution ==
    /\ broadcasts > 0 => clock # "early" /\ onChain
    /\ \A r \in {row} \cup {request[c].row : c \in Calls} :
          /\ r.hash => broadcasts > 0
          /\ r.status = "executed" => r.hash

=============================================================================
