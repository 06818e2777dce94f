-------------------------------- MODULE Twap --------------------------------
(***************************************************************************)
(* One order of the TWAP service (src/go/twap_service/main.go) and the     *)
(* goroutine that fills it slice by slice.  A slice is one transaction     *)
(* that holds the order's row.  Runners live in the process: a new one     *)
(* starts with each order and, after a restart, for each order that the    *)
(* table says is running.                                                  *)
(*                                                                         *)
(* Amounts are counted in slices; they are floats, so whether the last     *)
(* slice is found to reach the total is a matter of rounding.              *)
(***************************************************************************)
EXTENDS Integers

CONSTANTS
    Slices,         \* slices of the order
    MaxTwapFaults   \* bound: failed statements, crashes

ASSUME TwapAssumption == Slices \in Nat \ {0} /\ MaxTwapFaults \in Nat

VARIABLES
    order,          \* the status of the twap_orders row
    filled,         \* its filled_amount, in slices
    fills,          \* twap_fills rows
    ended,          \* the order's end_time has passed
    up,             \* the process serves
    runner,         \* the order's goroutine
    stop,           \* the order has an entry in service.stop
    gaveUp,         \* history: a runner ended, or none was started, on a failed read
    twapFaults      \* counter of the bound

twapVars == <<order, filled, fills, ended, up, runner, stop, gaveUp, twapFaults>>

TwapFault == twapFaults < MaxTwapFaults /\ twapFaults' = twapFaults + 1

(* createOrder inserts a running order and starts its runner. *)
CreateOrder ==
    /\ up /\ order = "none"
    /\ order' = "running"
    /\ runner' = "slicing" /\ stop' = TRUE
    /\ UNCHANGED <<filled, fills, ended, up, gaveUp, twapFaults>>

(* cancelOrder, of an order in any status; stopRunner closes the channel.  *)
CancelOrder ==
    /\ up /\ order # "none"
    /\ order' = IF order = "running" THEN "cancelled" ELSE order
    /\ stop' = FALSE
    /\ UNCHANGED <<filled, fills, ended, up, runner, gaveUp, twapFaults>>

(* run sees the closed channel before a slice or while it waits. *)
SeeStop ==
    /\ runner # "none" /\ ~stop
    /\ runner' = "none"
    /\ UNCHANGED <<order, filled, fills, ended, up, stop, gaveUp, twapFaults>>

(* execSlice on an order that is no longer running. *)
SliceOfDone ==
    /\ runner = "slicing" /\ order # "running"
    /\ runner' = "none"
    /\ UNCHANGED <<order, filled, fills, ended, up, stop, gaveUp, twapFaults>>

SliceCompletes ==
    /\ runner = "slicing" /\ order = "running"
    /\ ended \/ fills >= Slices
    /\ order' = "completed"
    /\ runner' = "none"
    /\ UNCHANGED <<filled, fills, ended, up, stop, gaveUp, twapFaults>>

SliceFills ==
    /\ runner = "slicing" /\ order = "running"
    /\ ~ended /\ fills < Slices
    /\ fills' = fills + 1
    /\ filled' = filled + 1
    /\ order' \in IF filled + 1 = Slices THEN {"running", "completed"} ELSE {"running"}
    /\ runner' = "waiting"
    /\ UNCHANGED <<ended, up, stop, gaveUp, twapFaults>>

(* There is no price: the runner waits and tries again. *)
SliceUnpriced ==
    /\ runner = "slicing" /\ order = "running"
    /\ ~ended /\ fills < Slices
    /\ runner' = "waiting"
    /\ UNCHANGED <<order, filled, fills, ended, up, stop, gaveUp, twapFaults>>

(* No transaction begins, or its commit fails: the runner does not notice. *)
SliceUnwritten ==
    /\ runner = "slicing" /\ TwapFault
    /\ runner' = "waiting"
    /\ UNCHANGED <<order, filled, fills, ended, up, stop, gaveUp>>

(* execSlice answers "done" when it cannot read the order, and when the    *)
(* commit of its completion fails.                                         *)
SliceUnread ==
    /\ runner = "slicing" /\ TwapFault
    /\ runner' = "none"
    /\ gaveUp' = TRUE
    /\ UNCHANGED <<order, filled, fills, ended, up, stop>>

IntervalPasses ==
    /\ runner = "waiting"
    /\ runner' = "slicing"
    /\ UNCHANGED <<order, filled, fills, ended, up, stop, gaveUp, twapFaults>>

EndTimePasses ==
    /\ order # "none" /\ ~ended
    /\ ended' = TRUE
    /\ UNCHANGED <<order, filled, fills, up, runner, stop, gaveUp, twapFaults>>

(* The process dies, or shuts down through stopAll. *)
ProcessEnds ==
    /\ up /\ TwapFault
    /\ up' = FALSE
    /\ runner' = "none" /\ stop' = FALSE
    /\ UNCHANGED <<order, filled, fills, ended, gaveUp>>


ResumeActive ==
    /\ ~up
    /\ up' = TRUE
    /\ runner' = IF order = "running" THEN "slicing" ELSE "none"
    /\ stop' = (order = "running")
    /\ gaveUp' = FALSE
    /\ UNCHANGED <<order, filled, fills, ended, twapFaults>>

(* resumeActive returns on an error of its query; the service opens.       *)
ResumeUnread ==
    /\ ~up /\ TwapFault
    /\ up' = TRUE
    /\ gaveUp' = TRUE
    /\ UNCHANGED <<order, filled, fills, ended, runner, stop>>

TwapInit ==
    /\ order = "none"
    /\ filled = 0 /\ fills = 0
    /\ ended = FALSE
    /\ up = TRUE
    /\ runner = "none" /\ stop = FALSE
    /\ gaveUp = FALSE
    /\ twapFaults = 0

RunnerStep ==
    \/ SeeStop \/ SliceOfDone \/ SliceCompletes \/ SliceFills \/ SliceUnpriced
    \/ IntervalPasses

TwapNext ==
    \/ CreateOrder \/ CancelOrder
    \/ RunnerStep \/ SliceUnread \/ SliceUnwritten
    \/ EndTimePasses
    \/ ProcessEnds \/ ResumeActive \/ ResumeUnread

TwapSpec == TwapInit /\ [][TwapNext]_twapVars

TwapTypeOK ==
    /\ order \in {"none", "running", "completed", "cancelled"}
    /\ filled \in 0 .. Slices /\ fills \in 0 .. Slices
    /\ ended \in BOOLEAN /\ up \in BOOLEAN /\ stop \in BOOLEAN /\ gaveUp \in BOOLEAN
    /\ runner \in {"none", "slicing", "waiting"}
    /\ twapFaults \in 0 .. MaxTwapFaults

(* The goroutine of a live process goes on, and the clock of an order runs *)
(* out; nothing is assumed of restarts, of cancels or of prices.           *)
TwapFairness ==
    /\ WF_twapVars(RunnerStep)
    /\ WF_twapVars(EndTimePasses)


=============================================================================
