------------------------------ MODULE RateLimit ------------------------------
(***************************************************************************)
(* The request limiter of the API (src/actix-ratelimit: middleware.rs and  *)
(* stores/memory.rs), for the requests of one client; the entries of two   *)
(* clients never meet.  Each worker thread of the server has a store actor *)
(* of its own on one shared map, so the messages Get, Expire, Update and   *)
(* Set of two requests interleave, and every Set leaves a timer that       *)
(* removes whatever entry the client then has.                             *)
(***************************************************************************)
EXTENDS Integers, FiniteSets

CONSTANTS Requests,     \* requests of the client
          MaxRequests,  \* max_requests
          Interval,     \* interval, in seconds
          MaxTime       \* bound on the clock

VARIABLES entry,     \* requests left to the client, or NoEntry
          timers,    \* pending Remove messages: the request that set them and when they are due
          request,   \* the next message of each request, or its outcome
          seen,      \* what Get answered
          now,       \* the clock, in seconds
          admitted   \* requests let through since the client last had no entry

NoEntry == -1

Steps == {"get", "set", "expire", "update", "passed", "too_many", "error"}

Init ==
  /\ entry = NoEntry /\ timers = {} /\ admitted = {}
  /\ request = [r \in Requests |-> "get"]
  /\ seen = [r \in Requests |-> NoEntry]

Goes(r, step) == request' = [request EXCEPT ![r] = step]

(* The store looks the entry up twice, and an entry removed in between is  *)
(* an error: the outcome of an entry removed between Get and Expire.       *)
Get(r) ==
  /\ request[r] = "get"
  /\ seen' = [seen EXCEPT ![r] = entry]
  /\ Goes(r, IF entry = NoEntry THEN "set" ELSE "expire")
  /\ UNCHANGED <<entry, timers, now, admitted>>

(* The answer of Expire only fills a header, but a missing entry is an     *)
(* error; whether the client is over its limit is decided on what Get      *)
(* answered.                                                               *)
Expire(r) ==
  /\ request[r] = "expire"
  /\ \/ entry = NoEntry /\ Goes(r, "error")
     \/ entry # NoEntry /\ seen[r] = 0 /\ Goes(r, "too_many")
     \/ entry # NoEntry /\ seen[r] # 0 /\ Goes(r, "update")
  /\ UNCHANGED <<entry, timers, seen, now, admitted>>

Decremented(n) == IF n > 1 THEN n - 1 ELSE 0

Update(r) ==
  /\ request[r] = "update"
  /\ \/ entry = NoEntry /\ Goes(r, "error") /\ UNCHANGED <<entry, admitted>>
     \/ /\ entry # NoEntry /\ Goes(r, "passed")
        /\ entry' = Decremented(entry) /\ admitted' = admitted \cup {r}
  /\ UNCHANGED <<timers, seen, now>>

(* Mutant: the entry is set without a timer to remove it.                  *)
SetNoTimer(r) ==
  /\ request[r] = "set" /\ now + Interval <= MaxTime
  /\ entry' = MaxRequests - 1 /\ admitted' = admitted \cup {r}
  /\ Goes(r, "passed")
  /\ UNCHANGED <<timers, seen, now>>

(* Mutant: the first request of a window is charged twice.                 *)
SetChargedTwice(r) ==
  /\ request[r] = "set" /\ now + Interval <= MaxTime
  /\ entry' = MaxRequests - 2 /\ admitted' = admitted \cup {r}
  /\ timers' = timers \cup {[by |-> r, due |-> now + Interval]}
  /\ Goes(r, "passed")
  /\ UNCHANGED <<seen, now>>

(* insert overwrites the entry that another request has set meanwhile.     *)
(* The clock is bounded, so no entry is set whose timer would never fire.  *)
Set(r) ==
  /\ request[r] = "set" /\ now + Interval <= MaxTime
  /\ entry' = MaxRequests - 1 /\ admitted' = admitted \cup {r}
  /\ timers' = timers \cup {[by |-> r, due |-> now + Interval]}
  /\ Goes(r, "passed")
  /\ UNCHANGED <<seen, now>>

(* A timer that is due removes the entry, if there still is one, whoever   *)
(* set it.                                                                 *)
Remove(t) ==
  /\ t \in timers /\ now >= t.due
  /\ timers' = timers \ {t}
  /\ entry' = NoEntry /\ admitted' = {}
  /\ UNCHANGED <<request, seen, now>>

Step(r) == Get(r) \/ Expire(r) \/ Update(r) \/ Set(r)

(* Types; the request that sets an entry is charged to it.                 *)
TypeOK ==
  /\ entry \in {NoEntry} \cup 0 .. MaxRequests - 1
  /\ timers \subseteq [by : Requests, due : 0 .. MaxTime]
  /\ request \in [Requests -> Steps]
  /\ seen \in [Requests -> {NoEntry} \cup 0 .. MaxRequests - 1]
  /\ admitted \subseteq Requests
==============================================================================
