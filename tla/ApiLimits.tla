------------------------------ MODULE ApiLimits ------------------------------
(***************************************************************************)
(* Requests on their way through the limits of the system.  The request    *)
(* limiter of the API wraps every route (src/api/src/lib.rs, start); a     *)
(* request that it lets through runs the route create, with its quota on   *)
(* new accounts, or the route pay_invoice, which asks the bank, with its   *)
(* limit on payments.  All requests are of one client and one user.        *)
(***************************************************************************)
EXTENDS Integers, FiniteSets, ApiClock

CONSTANTS Requests,       \* requests for one of the two routes
          MaxRequests,    \* quota_size
          RateInterval,   \* quota_replenishment_interval_millis, in seconds
          Quota,          \* creation_quota
          QuotaInterval,  \* creation_quota_interval_seconds
          RequestLimit,   \* request_limit of the bank
          BankInterval    \* replenishment_interval of the bank, in seconds

ASSUME LimitsAssumption ==
  /\ IsFiniteSet(Requests) /\ MaxRequests \in Nat \ {0} /\ Quota \in Nat \ {0}
  /\ RateInterval \in Nat /\ QuotaInterval \in Nat \ {0} /\ MaxTime \in Nat
  /\ RequestLimit \in Nat \ {0} /\ BankInterval \in Nat

VARIABLES entry, timers, request, seen, admitted,                  \* of RateLimit
          enabled, created, intervalStart, call, counted, late,    \* of CreationLimiter
          counter, lastRequest, payment, passes                    \* of RequestLimiter

Rate == INSTANCE RateLimit WITH Interval <- RateInterval
Creation == INSTANCE CreationLimiter WITH Calls <- Requests, Interval <- QuotaInterval
Bank == INSTANCE RequestLimiter WITH Payments <- Requests, Interval <- BankInterval

rateVars == <<entry, timers, request, seen, admitted>>
creationVars == <<enabled, created, intervalStart, call, counted, late>>
paymentVars == <<counter, lastRequest, payment, passes>>
limitsVars == <<rateVars, creationVars, paymentVars, now>>

LimitsInit == Rate!Init /\ Creation!Init /\ Bank!Init /\ now = 0

LimitsTick ==
  now < MaxTime /\ now' = now + 1 /\ UNCHANGED <<rateVars, creationVars, paymentVars>>

(* The middleware calls the route, one or the other, when it lets the      *)
(* request through.                                                        *)
Route(r) ==
  /\ request[r] = "passed"
  /\ \/ payment[r] = "new" /\ Creation!Step(r) /\ UNCHANGED paymentVars
     \/ call[r] = "new" /\ Bank!Step(r) /\ UNCHANGED creationVars
  /\ UNCHANGED rateVars

Limit(r) == Rate!Step(r) /\ UNCHANGED <<creationVars, paymentVars>>

Replenish == \E t \in timers : Rate!Remove(t) /\ UNCHANGED <<creationVars, paymentVars>>

LimitsNext ==
  \/ LimitsTick
  \/ \E r \in Requests : Limit(r)
  \/ Replenish
  \/ \E r \in Requests : Route(r)
  \/ Creation!SetEnabled /\ UNCHANGED <<rateVars, paymentVars>>

(* Time passes and the actor system delivers the messages that are due.    *)
LimitsSpec ==
  LimitsInit /\ [][LimitsNext]_limitsVars /\ WF_limitsVars(LimitsTick) /\ WF_limitsVars(Replenish)

(* Types: the request that sets an entry is charged to it, and the count   *)
(* of created accounts does not go below zero.                             *)
LimitsTypeOK == Rate!TypeOK /\ Creation!TypeOK /\ Bank!TypeOK /\ now \in 0 .. MaxTime

(* A client is over its limit only when it has made as many requests as    *)
(* the limit allows, however Get, Set and Update of its requests           *)
(* interleave: what another request would read as 0 was used up.           *)
LimitIsEarned == entry # Rate!NoEntry => entry + Cardinality(admitted) >= MaxRequests

(* A client at its limit gets a new quota: its entry goes away (the timer  *)
(* of Set).                                                                *)
QuotaComesBack == entry = 0 ~> entry = Rate!NoEntry

(* No place is lost: the counter never exceeds the calls of this interval  *)
(* that hold one, so failed registrations do not use up the quota, and a   *)
(* place given back late does not bring it below zero (increase and        *)
(* decrease around the two database calls of create).                      *)
NoPlaceLost == created \in 0 .. Cardinality(counted)

(* No more accounts of one interval than the quota, except one for each    *)
(* call of an earlier interval that failed in this one (decrease).         *)
QuotaHolds == Cardinality({c \in counted : call[c] = "created"}) <= Quota + late

(* In one interval the bank's handler runs for a user at most once more    *)
(* than the limit says (the request that begins the interval is not        *)
(* counted), the second runs of payments in fiat included.                 *)
BankLimitHolds == Cardinality(passes) <= RequestLimit + 1

(* A payment is refused for the limit, on arrival or back from the dealer, *)
(* only when the limit was used up by checks that passed in this interval: *)
(* refused requests, which are counted too, and earlier intervals never    *)
(* bring a user over it.                                                   *)
RefusedAtLimit ==
  [][\A r \in Requests :
       payment[r] # "refused" /\ payment'[r] = "refused" =>
         Cardinality(passes) >= RequestLimit /\ now - lastRequest < BankInterval]_limitsVars
==============================================================================
