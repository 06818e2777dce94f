---------------------------- MODULE LiquidityPool ----------------------------
(***************************************************************************)
(* One pool of the pool service (src/go/pool_service/main.go): deposits    *)
(* mint LP tokens in proportion to the reserves, withdrawals burn them.    *)
(*                                                                         *)
(* A deposit is one transaction behind the pool's row lock.  A withdrawal  *)
(* reads the LP tokens of its user in a subquery of the statement that     *)
(* locks the pool: the pool it sees is fresh once the lock is granted, the *)
(* tokens are those of the statement's snapshot.  So it has two steps, and *)
(* writes over what the same user's other requests did in between: the     *)
(* supply may fall below what is out, to zero, or below it.  The history   *)
(* variable raced counts the removals that did.                            *)
(***************************************************************************)
EXTENDS Sums

CONSTANTS
    NumProviders,   \* liquidity providers
    Removals,       \* removeLiquidity requests in flight
    Requester,      \* the provider of each
    Deposits,       \* amounts a user may add of either token
    Burns,          \* LP amounts a user may give back
    MaxReserve,     \* bound: the reserves and the supply, on both sides of 0
    MaxRaced        \* bound: removals that act on a stale reading

ASSUME PoolAssumption ==
    /\ NumProviders \in Nat
    /\ Requester \in [Removals -> 1 .. NumProviders]
    /\ Deposits \subseteq Nat \ {0}
    /\ Burns \subseteq Nat \ {0}
    /\ MaxReserve \in Nat
    /\ MaxRaced \in Nat

VARIABLES
    reserve0, reserve1, supply,     \* the liquidity_pools row
    lpTokens,       \* liquidity_positions of each user, 0 for no row
    removal,        \* per request: the amount asked and the tokens it saw
    raced           \* history: removals that acted on a stale reading

poolVars == <<reserve0, reserve1, supply, lpTokens, removal, raced>>

Providers == 1 .. NumProviders

NoRemoval == [amount |-> 0, saw |-> 0]

Bounded == -MaxReserve .. MaxReserve

(* big.Int's Div: what is left is never negative. *)
Quotient(x, y) == IF y > 0 THEN x \div y ELSE -(x \div (-y))

Minimum(x, y) == IF x < y THEN x ELSE y

(* The next guess after y: y is halved before it divides n.  The division  *)
(* by zero it runs into for n = 2 panics, and so mints nothing.            *)
NextGuess(n, y) == (y \div 2 + n \div (y \div 2)) \div 2

(* sqrtBig: from[x][y] is what the loop returns from the guesses x and y.  *)
SqrtBig(n) ==
    LET from[x \in 0 .. n] ==
            [y \in 0 .. n |-> IF y >= x THEN x
                              ELSE IF y \div 2 = 0 THEN 0
                              ELSE from[y][NextGuess(n, y)]]
    IN  from[n][(n + 1) \div 2]

(* Mutant of Minted: the more generous of the two tokens counts.           *)
MintedByBetter(a0, a1) ==
    IF supply = 0 THEN SqrtBig(a0 * a1)
    ELSE LET m0 == Quotient(a0 * supply, reserve0)
             m1 == Quotient(a1 * supply, reserve1)
         IN  IF m0 < m1 THEN m1 ELSE m0

Minted(a0, a1) ==
    IF supply = 0 THEN SqrtBig(a0 * a1)
    ELSE Minimum(Quotient(a0 * supply, reserve0), Quotient(a1 * supply, reserve1))

(* A reserve of zero beside a supply is divided by, which panics: the      *)
(* transaction rolls back.                                                 *)
AddLiquidity(u, a0, a1) ==
    /\ supply # 0 => reserve0 # 0 /\ reserve1 # 0
    /\ Minted(a0, a1) > 0
    /\ {reserve0 + a0, reserve1 + a1, supply + Minted(a0, a1)} \subseteq Bounded
    /\ reserve0' = reserve0 + a0
    /\ reserve1' = reserve1 + a1
    /\ supply' = supply + Minted(a0, a1)
    /\ lpTokens' = [lpTokens EXCEPT ![u] = @ + Minted(a0, a1)]
    /\ UNCHANGED <<removal, raced>>

(* The SELECT of removeLiquidity takes its snapshot. *)
StartRemoval(r, amount) ==
    /\ removal[r] = NoRemoval
    /\ removal' = [removal EXCEPT ![r] = [amount |-> amount, saw |-> lpTokens[Requester[r]]]]
    /\ UNCHANGED <<reserve0, reserve1, supply, lpTokens, raced>>

(* Mutant of Share: what is owed is rounded up.                            *)
ShareRoundedUp(amount, reserve) == Quotient(amount * reserve + supply - 1, supply)

Share(amount, reserve) == Quotient(amount * reserve, supply)

(* The user's other requests have changed its tokens since the snapshot.   *)
Stale(r) == removal[r].saw # lpTokens[Requester[r]]

(* Mutant of Enough: the tokens of all users count. *)
EnoughInPool(r) == removal[r].amount <= supply

Enough(r) == removal[r].amount <= removal[r].saw

(* The lock is granted: the pool is as it is now.  A supply of zero is     *)
(* divided by, which panics: the transaction rolls back.                   *)
CommitRemoval(r) ==
    LET amount == removal[r].amount
    IN  /\ removal[r] # NoRemoval
        /\ Enough(r) /\ supply # 0
        /\ reserve0' = reserve0 - Share(amount, reserve0)
        /\ reserve1' = reserve1 - Share(amount, reserve1)
        /\ supply' = supply - amount
        /\ lpTokens' = [lpTokens EXCEPT ![Requester[r]] =
                            IF @ = 0 THEN 0 ELSE removal[r].saw - amount]
        /\ {reserve0', reserve1', supply'} \subseteq Bounded
        /\ removal' = [removal EXCEPT ![r] = NoRemoval]
        /\ raced' = raced + (IF Stale(r) THEN 1 ELSE 0)
        /\ raced' <= MaxRaced

RefuseRemoval(r) ==
    /\ removal[r] # NoRemoval
    /\ ~Enough(r) \/ supply = 0
    /\ removal' = [removal EXCEPT ![r] = NoRemoval]
    /\ UNCHANGED <<reserve0, reserve1, supply, lpTokens, raced>>

PoolInit ==
    /\ reserve0 = 0 /\ reserve1 = 0 /\ supply = 0
    /\ lpTokens = [u \in Providers |-> 0]
    /\ removal = [r \in Removals |-> NoRemoval]
    /\ raced = 0

PoolNext ==
    \/ \E u \in Providers, a0, a1 \in Deposits : AddLiquidity(u, a0, a1)
    \/ \E r \in Removals :
          \/ \E amount \in Burns : StartRemoval(r, amount)
          \/ CommitRemoval(r)
          \/ RefuseRemoval(r)

PoolSpec == PoolInit /\ [][PoolNext]_poolVars

PoolTypeOK ==
    /\ {reserve0, reserve1, supply} \subseteq Bounded
    /\ lpTokens \in [Providers -> Nat]
    /\ removal \in [Removals -> [amount : Nat, saw : Nat]]
    /\ raced \in 0 .. MaxRaced

(* Until a removal acts on tokens its user has changed meanwhile: the LP   *)
(* tokens of the users are the pool's supply, and they are backed.  There  *)
(* is some of both tokens exactly as long as LP tokens are out, so no      *)
(* division by a reserve or by the supply can panic (addLiquidity divides  *)
(* by both reserves whenever the supply is not zero).                      *)
PoolBacked ==
    raced = 0 =>
        /\ Sum(lpTokens, NumProviders) = supply
        /\ \/ supply = 0 /\ reserve0 = 0 /\ reserve1 = 0
           \/ supply > 0 /\ reserve0 > 0 /\ reserve1 > 0

(* Rounding always favours those who stay: no deposit or withdrawal makes  *)
(* an LP token worth less of either token than it was, a removal that      *)
(* raced included (what that one breaks is who owns how many).             *)
NeverDiluted ==
    [][supply > 0 => /\ reserve0' * supply >= reserve0 * supply'
                     /\ reserve1' * supply >= reserve1 * supply']_poolVars

=============================================================================
