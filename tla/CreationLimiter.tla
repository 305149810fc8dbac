--------------------------- MODULE CreationLimiter ---------------------------
(***************************************************************************)
(* The quota on new accounts (src/api/src/lib.rs, CreationLimiter) and the *)
(* route that uses it (src/api/src/routes/auth.rs, create).  A call takes  *)
(* the limiter's mutex once to count itself, works on the database without *)
(* it, and takes it again to give its place back when the database failed. *)
(* Calls run on several worker threads.  ApiLimits puts this behind the    *)
(* request limiter of the API.                                             *)
(***************************************************************************)
EXTENDS Integers, FiniteSets

CONSTANTS Calls,      \* calls of the route create
          Quota,      \* creation_quota
          Interval,   \* creation_quota_interval_seconds
          MaxTime     \* bound on the clock

VARIABLES enabled,        \* creation_enabled
          created,        \* created
          intervalStart,  \* last_interval_start
          call,           \* where each call is
          now,            \* the clock, in seconds
          counted,        \* calls counted in this interval and not given back
          late            \* places given back in this interval by calls of an earlier one

(* A refused call has left nothing behind; a failing one has yet to take   *)
(* the mutex again.                                                        *)
Places == {"new", "counted", "failing", "created", "failed", "refused"}

Init ==
  /\ enabled = TRUE /\ created = 0 /\ intervalStart = 0
  /\ call = [c \in Calls |-> "new"]
  /\ counted = {} /\ late = 0

Elapsed == now - intervalStart >= Interval

(* Mutant: one account more than the quota.                                *)
IncreaseOffByOne(c) ==
  LET n    == IF Elapsed THEN 0 ELSE created
      held == IF Elapsed THEN {} ELSE counted
  IN  /\ intervalStart' = IF Elapsed THEN now ELSE intervalStart
      /\ late' = IF Elapsed THEN 0 ELSE late
      /\ created' = IF n <= Quota THEN n + 1 ELSE n
      /\ counted' = IF n <= Quota THEN held \cup {c} ELSE held
      /\ call' = [call EXCEPT ![c] = IF n <= Quota THEN "counted" ELSE "refused"]

(* A new interval begins with the first call after the old one elapsed.    *)
Increase(c) ==
  LET n    == IF Elapsed THEN 0 ELSE created
      held == IF Elapsed THEN {} ELSE counted
  IN  /\ intervalStart' = IF Elapsed THEN now ELSE intervalStart
      /\ late' = IF Elapsed THEN 0 ELSE late
      /\ \/ /\ n < Quota
            /\ created' = n + 1 /\ counted' = held \cup {c}
            /\ call' = [call EXCEPT ![c] = "counted"]
         \/ /\ n >= Quota
            /\ created' = n /\ counted' = held
            /\ call' = [call EXCEPT ![c] = "refused"]

(* The check of the flag and increase are under one lock.                  *)
Create(c) ==
  /\ call[c] = "new"
  /\ \/ ~enabled /\ call' = [call EXCEPT ![c] = "refused"] /\ UNCHANGED <<created, intervalStart, counted, late>>
     \/ enabled /\ Increase(c)
  /\ UNCHANGED <<enabled, now>>

(* The row of the user is inserted, or there is no connection or the       *)
(* insertion fails, for instance because the name is taken.                *)
Insert(c) ==
  /\ call[c] = "counted"
  /\ \E outcome \in {"created", "failing"} : call' = [call EXCEPT ![c] = outcome]
  /\ UNCHANGED <<enabled, created, intervalStart, now, counted, late>>

(* Mutant: a failed call keeps its place.                                  *)
DecreaseForgotten(c) ==
  /\ call[c] = "failing"
  /\ call' = [call EXCEPT ![c] = "failed"]
  /\ counted' = counted \ {c}
  /\ UNCHANGED <<enabled, created, intervalStart, now, late>>

(* decrease does not know in which interval its call was counted.          *)
Decrease(c) ==
  /\ call[c] = "failing"
  /\ call' = [call EXCEPT ![c] = "failed"]
  /\ created' = IF created > 0 THEN created - 1 ELSE 0
  /\ counted' = counted \ {c}
  /\ late' = IF c \in counted \/ created = 0 THEN late ELSE late + 1
  /\ UNCHANGED <<enabled, intervalStart, now>>

(* disable_create and enable_create of an administrator.                   *)
SetEnabled ==
  /\ enabled' = ~enabled
  /\ UNCHANGED <<created, intervalStart, call, now, counted, late>>

Step(c) == Create(c) \/ Insert(c) \/ Decrease(c)

(* Types, and calls of this interval hold or are about to give back a      *)
(* place.                                                                  *)
TypeOK ==
  /\ enabled \in BOOLEAN /\ created \in Nat /\ intervalStart \in 0 .. MaxTime
  /\ call \in [Calls -> Places]
  /\ counted \subseteq {c \in Calls : call[c] \in {"counted", "failing", "created"}}
  /\ late \in Nat
==============================================================================
