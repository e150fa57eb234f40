---------------------------- MODULE SingleUseGrant ----------------------------
(***************************************************************************)
(* What an admission authority promises, without counters, audit trail or  *)
(* clock (docs/admission_receipt_protocol.md, "Lifecycle"): a grant of     *)
(* capacity is open, then held by at most one holder, then used once or    *)
(* closed; and the grants that are open, held or used never add up to more *)
(* than the budget of the pool they draw on.                               *)
(***************************************************************************)
EXTENDS Integers, FiniteSets

CONSTANTS Receipt, Pool, Budget, NoCharge

VARIABLES
  grant,   \* "none", "open", "held", "used" or "closed", per receipt
  charge   \* the pool a receipt draws on and how much

grantVars == <<grant, charge>>

\* The units of capacity of pool p taken by receipts that hold or have used it.
Taken(p) ==
  UNION {{r} \X (1 .. charge[r].cost) :
           r \in {q \in Receipt : grant[q] \in {"open", "held", "used"} /\ charge[q].pool = p}}

GInit ==
  /\ grant = [r \in Receipt |-> "none"]
  /\ charge = [r \in Receipt |-> NoCharge]

Grant(r, p, c) ==
  /\ grant[r] = "none"
  /\ Cardinality(Taken(p)) + c <= Budget
  /\ grant' = [grant EXCEPT ![r] = "open"]
  /\ charge' = [charge EXCEPT ![r] = [pool |-> p, cost |-> c]]

Move(r, from, to) ==
  /\ grant[r] \in from
  /\ grant' = [grant EXCEPT ![r] = to]
  /\ UNCHANGED charge

Claim(r) == Move(r, {"open"}, "held")
Use(r)   == Move(r, {"held"}, "used")
Close(r) == Move(r, {"open", "held"}, "closed")

GNext ==
  \E r \in Receipt :
    \/ \E p \in Pool : \E c \in 0 .. Budget : Grant(r, p, c)
    \/ Claim(r) \/ Use(r) \/ Close(r)

GSpec == GInit /\ [][GNext]_grantVars
=============================================================================
