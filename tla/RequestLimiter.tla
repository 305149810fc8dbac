--------------------------- MODULE RequestLimiter ---------------------------
(***************************************************************************)
(* The bank's limit on the payments that one user asks for                 *)
(* (src/bank/src/bank_engine.rs, check_withdrawal_request_rate_limit).     *)
(* The handler of PaymentRequest begins with the check, and a payment from *)
(* a fiat account runs the handler twice: on arrival, and when the dealer  *)
(* sends it back with a rate.  The limit on invoices is the same code on a *)
(* counter of its own, where no request comes back.  ApiLimits puts this   *)
(* behind the request limiter of the API.                                  *)
(***************************************************************************)
EXTENDS Integers, FiniteSets

CONSTANTS Payments,      \* requests of the user for the route pay_invoice
          RequestLimit,  \* request_limit
          Interval,      \* replenishment_interval, in seconds
          MaxTime        \* bound on the clock

VARIABLES counter,      \* requests counted in this interval
          lastRequest,  \* when the interval began, or Never
          payment,      \* where each request is
          now,          \* the clock, in seconds
          passes        \* history: the checks passed in this interval

Never == -1

Places == {"new", "at_dealer", "served", "refused"}

Init ==
  /\ counter = 0 /\ lastRequest = Never /\ passes = {}
  /\ payment = [p \in Payments |-> "new"]

\* Mutant: the counter is compared before it is increased.
OverLimit_Before(n) == n > RequestLimit

\* Mutant: the last request that the limit allows is refused.
OverLimit_Early(n) == n + 1 >= RequestLimit

OverLimit(n) == n + 1 > RequestLimit

\* The check of a request that goes to `next` when it passes.  The first request
\* of the user makes the entry and is counted; a request that comes after the
\* interval begins a new one and is not.
Check(p, next) ==
  LET begin   == IF lastRequest = Never THEN now ELSE lastRequest
      running == now - begin < Interval
      refused == running /\ OverLimit(counter)
  IN  /\ counter' = IF running THEN counter + 1 ELSE 0
      /\ lastRequest' = IF running THEN begin ELSE now
      /\ payment' = [payment EXCEPT ![p] = IF refused THEN "refused" ELSE next]
      /\ passes' = (IF running THEN passes ELSE {})
                     \cup (IF refused THEN {} ELSE {<<p, next>>})

\* A payment in BTC is served, one in fiat goes to the dealer for a rate.
Receive(p) ==
  /\ payment[p] = "new"
  /\ \E next \in {"served", "at_dealer"} : Check(p, next)
  /\ UNCHANGED now

\* The dealer's answer runs the handler again.
Quoted(p) ==
  /\ payment[p] = "at_dealer" /\ Check(p, "served")
  /\ UNCHANGED now

Step(p) == Receive(p) \/ Quoted(p)

TypeOK ==
  /\ counter \in Nat /\ lastRequest \in {Never} \cup 0 .. MaxTime
  /\ payment \in [Payments -> Places]
  /\ passes \subseteq Payments \X Places
=============================================================================
