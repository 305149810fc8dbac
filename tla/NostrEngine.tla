---------------------------- MODULE NostrEngine ----------------------------
(***************************************************************************)
(* The nostr engine: the profiles it caches and stores, the requests for   *)
(* a profile that wait for the relays, and the indexer that asks the       *)
(* relays for the profiles of the past and subscribes to the new ones.     *)
(*                                                                         *)
(* A profile is told apart by its time of creation, in seconds, by the     *)
(* outcome of its verification and by its body: the content, and the pay   *)
(* request that was validated when the update came.  The relays send any   *)
(* version of it, in any order and as often as they like.  The events      *)
(* channel is first in, first out, and an update that it refuses because   *)
(* it is full, or that is in it when the process stops, is as if it had    *)
(* not come: an update or a request happens here when the handler takes it *)
(* from the channel.  The ranges that the indexer asks for are passed over *)
(* when they are lost, and wait in the channel here too.                   *)
(*                                                                         *)
(* The tasks of the process end together when it stops.  The handler's     *)
(* task alone ends when a private message cannot be sent (an unwrap): the  *)
(* process is then up, but deaf.                                           *)
(***************************************************************************)
EXTENDS Integers, FiniteSets, Sequences, TLC

CONSTANTS
  Keys, Requests, Bodies,
  None,                 \* nothing: no profile, no outcome of a verification
  MaxCreated,           \* bound on the versions of a profile
  API_PROFILE_TIMEOUT,
  SECONDS_IN_HOUR,      \* the range that the indexer asks for at a time
  NAP,                  \* its sleep after a range, 5 seconds
  Historical,           \* nostr_historical_profile_indexer
  Faults,               \* what may fail: accesses to the database ("load",
                        \* "upsert", "search", "check"), "send" and "queue"
  FirstTime,            \* the time of the first start; profiles exist since 0
  MaxTime, MaxStarts    \* bounds on the clock and on the starts

ASSUME NostrAssumption ==
  /\ FirstTime \in Nat /\ MaxCreated \in Nat /\ API_PROFILE_TIMEOUT \in Nat \ {0}
  /\ NAP \in Nat \ {0} /\ SECONDS_IN_HOUR \in Nat /\ 2 * NAP <= SECONDS_IN_HOUR
  /\ Historical \in BOOLEAN /\ Faults \subseteq {"load", "upsert", "search", "check", "send", "queue"}

Profile == [created : 1 .. MaxCreated, verified : {None, TRUE, FALSE}, body : Bodies]
Entry == [time : Int, req : Requests]

ASSUME NoneAssumption == None \notin BOOLEAN \cup Profile /\ None \notin Entry

VARIABLES
  now, status,         \* the clock; "up", "deaf" or "down"
  cache,               \* nostr_profile_cache
  db,                  \* nostr_profile_records
  pending,             \* nostr_profile_pending
  lastCheck,           \* nostr_profile_indexer_times, stored
  phase, since, wake,  \* the indexer: where it is, range_since or the start of
                       \* the subscription, when it goes on
  waiting,             \* the starts of the ranges that are in the events channel
  covered,             \* history: the times asked for or subscribed to; those
                       \* that the next start asks for again are taken out
  missed,              \* history: whether a range was not asked for, or no one
                       \* was there to take the answers
  starts,              \* history: the starts of the process
  requested,           \* history: the requests made
  answers,             \* history: how many answers each one got
  told,                \* history: the version of each profile last answered
  dbFailed             \* history: whether a profile was not stored or loaded, or
                       \* the process stopped between answering and storing it

engineVars == <<cache, db, pending, requested, answers, told>>
indexVars == <<lastCheck, phase, since, wake, waiting, covered, missed>>
vars == <<now, status, engineVars, indexVars, starts, dbFailed>>

\* Whether an access to the database succeeds: try_get, then the query.
Db(access, ok) ==
  /\ ok \/ access \in Faults
  /\ dbFailed' = (dbFailed \/ (~ok /\ access \in {"load", "upsert"}))

-----------------------------------------------------------------------------
(***************************************************************************)
(* Profiles.                                                               *)
(***************************************************************************)
\* Mutant: the time of creation is not looked at.
Newer_Any(old, new) == TRUE

Newer(old, new) == old.created < new.created

coalesce(verified) == IF verified = None THEN FALSE ELSE verified

\* When the cache takes an update.
CacheTakes(old, new) ==
  \/ Newer(old, new)
  \/ old.created = new.created /\ old.verified # new.verified

\* Mutant: the outcome of a second verification is not stored.
UpsertTakes_NewerOnly(old, new) == Newer(old, new)

\* When the table takes it: an outcome that is missing counts as FALSE.
UpsertTakes(old, new) ==
  \/ Newer(old, new)
  \/ old.created = new.created /\ coalesce(old.verified) # coalesce(new.verified)

\* A table with an update of the profile of k, if it is new or the table takes it.
With(table, k, p, takes) ==
  IF table[k] = None \/ takes THEN [table EXCEPT ![k] = p] ELSE table

Answered(r, k, p) ==
  /\ answers' = [answers EXCEPT ![r] = @ + 1]
  /\ told' = [told EXCEPT ![k] = p.created]

\* Mutant: the young requests are the ones that are kept.
Retained_Young(entry) ==
  entry # None => now - entry.time < 2 * API_PROFILE_TIMEOUT

\* The pending requests that an update of any profile leaves.
Retained(entry) ==
  entry # None => now - entry.time >= 2 * API_PROFILE_TIMEOUT

\* reply_if_pending: whether an update of k that the cache takes answers someone.
Replies(k, p) ==
  /\ cache[k] # None => CacheTakes(cache[k], p)
  /\ pending[k] # None /\ now - pending[k].time < API_PROFILE_TIMEOUT

\* store_profile, with reply_if_pending and insert_profile_update.
store_profile(k, p) ==
  /\ status = "up"
  /\ cache' = With(cache, k, p, CacheTakes(cache[k], p))
  /\ IF Replies(k, p) THEN Answered(pending[k].req, k, p) ELSE UNCHANGED <<answers, told>>
  /\ \E ok \in BOOLEAN :
       Db("upsert", ok) /\ db' = IF ok THEN With(db, k, p, UpsertTakes(db[k], p)) ELSE db
  /\ pending' = [j \in Keys |-> IF Retained(pending[j]) THEN pending[j] ELSE None]
  /\ UNCHANGED <<now, status, indexVars, starts, requested>>

\* NostrProfileRequest: answered from the cache, or kept until the relays answer;
\* a second request for the same profile takes the place of the first.
NostrProfileRequest(r, k) ==
  /\ status = "up" /\ r \notin requested
  /\ requested' = requested \cup {r}
  /\ IF cache[k] # None THEN Answered(r, k, cache[k]) /\ UNCHANGED pending
     ELSE /\ pending' = [pending EXCEPT ![k] = [time |-> now, req |-> r]]
          /\ UNCHANGED <<answers, told>>
  /\ UNCHANGED <<now, status, cache, db, indexVars, starts, dbFailed>>

\* NostrProfileSearchRequest: answered from the database, or with an error.
NostrProfileSearchRequest(r, k) ==
  /\ status = "up" /\ r \notin requested
  /\ requested' = requested \cup {r}
  /\ \E ok \in BOOLEAN :
       /\ Db("search", ok)
       /\ IF ok /\ db[k] # None THEN Answered(r, k, db[k])
          ELSE answers' = [answers EXCEPT ![r] = @ + 1] /\ UNCHANGED told
  /\ UNCHANGED <<now, status, cache, db, pending, indexVars, starts>>

\* send_nostr_private_msg: its unwraps end the handler's task.
NostrPrivateMessage ==
  /\ status = "up" /\ "send" \in Faults
  /\ status' = "deaf" /\ missed' = TRUE
  /\ UNCHANGED <<now, engineVars, lastCheck, phase, since, wake, waiting, covered, starts,
                 dbFailed>>

-----------------------------------------------------------------------------
(***************************************************************************)
(* The indexer.                                                            *)
(***************************************************************************)
Earlier(a, b) == IF a < b THEN a ELSE b

\* store_last_check.
store_last_check(t) ==
  \E ok \in BOOLEAN : Db("check", ok) /\ lastCheck' = IF ok THEN t ELSE lastCheck

\* The profiles of the next range are asked for, up to now, by way of the
\* handler: when it is gone or its channel full, the range is passed over.
AskRange ==
  /\ status # "down" /\ phase = "range" /\ since < now
  /\ \/ /\ status = "up" /\ waiting' = Append(waiting, since) /\ missed' = missed
        /\ covered' = covered \cup (since .. Earlier(since + SECONDS_IN_HOUR, now))
     \/ /\ status = "deaf" \/ "queue" \in Faults
        /\ missed' = TRUE /\ UNCHANGED <<waiting, covered>>
  /\ phase' = "nap" /\ wake' = now + NAP
  /\ UNCHANGED <<now, status, engineVars, lastCheck, since, starts, dbFailed>>

\* InternalNostrProfileRequest: the handler takes a range and asks the relays.
RequestRange ==
  /\ status = "up" /\ waiting # << >>
  /\ waiting' = Tail(waiting)
  /\ UNCHANGED <<now, status, engineVars, lastCheck, phase, since, wake, covered, missed,
                 starts, dbFailed>>

\* Mutant: what is stored is the end of the range.
AfterRange_StoresEnd ==
  /\ status # "down" /\ phase = "nap" /\ wake <= now
  /\ store_last_check(since + SECONDS_IN_HOUR)
  /\ phase' = "range" /\ since' = since + SECONDS_IN_HOUR
  /\ UNCHANGED <<now, status, engineVars, wake, waiting, covered, missed, starts>>

\* The start of the range is stored after the sleep, then the next one follows.
AfterRange ==
  /\ status # "down" /\ phase = "nap" /\ wake <= now
  /\ store_last_check(since)
  /\ phase' = "range" /\ since' = since + SECONDS_IN_HOUR
  /\ UNCHANGED <<now, status, engineVars, wake, waiting, covered, missed, starts>>

\* The past is done with, or is not asked for: subscribe from now on.
Subscribe ==
  /\ status # "down"
  /\ phase = "subscribe" \/ (phase = "range" /\ since >= now)
  /\ phase' = "subscribed" /\ since' = now /\ wake' = now + SECONDS_IN_HOUR
  /\ covered' = covered \cup {now}
  /\ UNCHANGED <<now, status, engineVars, lastCheck, waiting, missed, starts, dbFailed>>

\* Every hour the subscription moves on, its start is stored.
SubscriptionMoves ==
  /\ status # "down" /\ phase = "subscribed" /\ wake <= now
  /\ store_last_check(since)
  /\ phase' = "subscribe"
  /\ UNCHANGED <<now, status, engineVars, since, wake, waiting, covered, missed, starts>>

-----------------------------------------------------------------------------
\* A range in the channel that the next start does not ask for again.
RangeLost == waiting # << >> /\ lastCheck # None /\ Head(waiting) < lastCheck

Stops ==
  /\ status # "down" /\ starts < MaxStarts
  /\ status' = "down"
  /\ pending' = [k \in Keys |-> None]
  /\ cache' = [k \in Keys |-> None]
  /\ phase' = "off" /\ since' = 0 /\ wake' = 0 /\ waiting' = << >>
  /\ missed' = (missed \/ RangeLost)
  /\ covered' = {t \in covered : lastCheck # None /\ t < lastCheck}
  /\ UNCHANGED <<now, db, requested, lastCheck, starts>>

Crash == Stops /\ UNCHANGED <<answers, told, dbFailed>>

\* The process stops in store_profile: the answer is out, the profile not stored.
CrashInStore(k, p) ==
  /\ status = "up" /\ Replies(k, p)
  /\ Answered(pending[k].req, k, p)
  /\ Stops /\ dbFailed' = TRUE

\* main, spawn_profile_indexer and initialize_profile_cache: without the time of
\* the last check the process does not start, without the profiles it does.
Start ==
  /\ status = "down"
  /\ status' = "up" /\ starts' = starts + 1
  /\ \E ok \in BOOLEAN : Db("load", ok) /\ cache' = IF ok THEN db ELSE cache
  /\ phase' = IF Historical THEN "range" ELSE "subscribe"
  /\ since' = IF lastCheck = None THEN 0 ELSE lastCheck
  /\ UNCHANGED <<now, db, pending, requested, answers, told, lastCheck, wake, waiting,
                 covered, missed>>

\* The indexer's steps take no time but its sleeps.
Due == phase \in {"range", "subscribe"} \/ (phase \in {"nap", "subscribed"} /\ wake <= now)

Tick ==
  /\ now < MaxTime /\ ~Due
  /\ now' = now + 1
  /\ covered' = IF phase = "subscribed" THEN covered \cup {now'} ELSE covered
  /\ UNCHANGED <<status, engineVars, lastCheck, phase, since, wake, waiting, missed, starts,
                 dbFailed>>

Init ==
  /\ now = FirstTime /\ status = "down" /\ starts = 0
  /\ cache = [k \in Keys |-> None] /\ db = [k \in Keys |-> None]
  /\ pending = [k \in Keys |-> None]
  /\ lastCheck = None /\ phase = "off" /\ since = 0 /\ wake = 0
  /\ waiting = << >> /\ covered = {} /\ missed = FALSE
  /\ requested = {} /\ answers = [r \in Requests |-> 0]
  /\ told = [k \in Keys |-> 0] /\ dbFailed = FALSE

Next ==
  \/ \E k \in Keys : \/ \E p \in Profile : store_profile(k, p) \/ CrashInStore(k, p)
                     \/ \E r \in Requests : \/ NostrProfileRequest(r, k)
                                            \/ NostrProfileSearchRequest(r, k)
  \/ NostrPrivateMessage
  \/ AskRange \/ RequestRange \/ AfterRange \/ Subscribe \/ SubscriptionMoves
  \/ Crash \/ Start \/ Tick

Spec == Init /\ [][Next]_vars

-----------------------------------------------------------------------------
(***************************************************************************)
(* Properties.                                                             *)
(***************************************************************************)
\* Until a profile cannot be stored or loaded, the cache of a running engine holds
\* what the table holds, although the two decide on their own whether to take an
\* update: a restart loses nothing, but for a second version of the same time
\* when neither it nor the one before is verified.  That one the cache may take
\* (no outcome and the outcome FALSE are different) and the table does not.
StoreFollowsCache ==
  (status = "up" /\ ~dbFailed) =>
    \A k \in Keys :
      \/ db[k] = cache[k]
      \/ /\ db[k] # None /\ cache[k] # None /\ db[k].created = cache[k].created
         /\ db[k].verified # TRUE /\ cache[k].verified # TRUE

\* A request gets at most one answer, although answering does not take it off the
\* pending ones and later updates of the profile look it up again.
AnsweredOnce == \A r \in Requests : answers[r] <= 1

\* The answers about a profile never go back to an older version, whether they
\* come from the cache, from the relays or from the database, and across
\* restarts, until a profile could not be stored or loaded, or the process
\* stopped between answering with an update and storing it.
AnswersNeverGoBack ==
  [][dbFailed' \/ \A k \in Keys : told[k] <= told'[k]]_vars

\* With the historical indexer, all of the past before the time stored as last
\* checked was asked for or subscribed to, whatever crashes and failed writes
\* came between, but for the sleeps after the last ranges that follow a start,
\* which end in the present: at most two of them are not made up for, each of
\* NAP - 1 units of time.  (Once the handler is gone, its channel was full, or
\* the process stopped with a range in the channel that the stored time had
\* passed, that time has moved on without it.)
IndexComplete ==
  (Historical /\ ~missed /\ lastCheck # None) =>
    Cardinality((0 .. lastCheck - 1) \ covered) <= 2 * (NAP - 1) * starts
=============================================================================
