---------------------------- MODULE NostrProofs ----------------------------
(***************************************************************************)
(* The nostr engine, for every set of profiles and requests and every      *)
(* timeout: each request is answered once, the table follows the cache,    *)
(* answers never go back to an older profile, and the index of the past    *)
(* misses no more than the sleeps before a subscription.                   *)
(***************************************************************************)
EXTENDS NostrEngine, FiniteSetTheorems, TLAPS

\* The shape of the tables, and of the requests that wait.
TablesOK ==
  /\ cache \in [Keys -> Profile \cup {None}] /\ db \in [Keys -> Profile \cup {None}]
  /\ dbFailed \in BOOLEAN

PendingOK ==
  /\ now \in Int /\ requested \subseteq Requests
  /\ pending \in [Keys -> Entry \cup {None}] /\ answers \in [Requests -> Nat]

\* A request that waits has no answer yet and waits for one profile; what was
\* never asked for has none either.
WaitsUnanswered ==
  /\ \A k \in Keys : pending[k] # None =>
       /\ pending[k].req \in requested /\ answers[pending[k].req] = 0
       /\ \A j \in Keys : pending[j] # None /\ pending[j].req = pending[k].req => j = k
  /\ \A r \in Requests \ requested : answers[r] = 0

\* The newest version that was answered is no newer than the one in the table.
ToldIsStored ==
  /\ told \in [Keys -> Nat]
  /\ ~dbFailed => \A k \in Keys : IF db[k] = None THEN told[k] = 0 ELSE told[k] <= db[k].created

AnswersInv == PendingOK /\ WaitsUnanswered /\ AnsweredOnce
TablesInv == TablesOK /\ StoreFollowsCache
NostrInv == TablesInv /\ ToldIsStored

-----------------------------------------------------------------------------
\* A step that leaves the requests alone.
LEMMA AnswersFrame ==
  ASSUME AnswersInv, now' \in Int, UNCHANGED <<pending, requested, answers>>
  PROVE  AnswersInv'
BY DEF AnswersInv, PendingOK, WaitsUnanswered, AnsweredOnce

\* An update answers a young request and then drops it; the others keep waiting.
LEMMA StoreAnswers ==
  ASSUME AnswersInv, NEW k \in Keys, NEW p \in Profile, store_profile(k, p)
  PROVE  AnswersInv'
<1>0. /\ PendingOK /\ WaitsUnanswered /\ AnsweredOnce /\ UNCHANGED <<now, requested>>
      /\ API_PROFILE_TIMEOUT \in Nat \ {0}
  BY NostrAssumption DEF AnswersInv, store_profile
<1>1. /\ pending' = [j \in Keys |-> IF Retained(pending[j]) THEN pending[j] ELSE None]
      /\ \/ UNCHANGED answers
         \/ /\ pending[k] # None /\ now - pending[k].time < API_PROFILE_TIMEOUT
            /\ answers' = [answers EXCEPT ![pending[k].req] = @ + 1]
  BY Zenon DEF store_profile, Replies, Answered
<1>2. pending' \in [Keys -> Entry \cup {None}]
  BY <1>0, <1>1 DEF PendingOK
<1>3. \A j \in Keys : pending'[j] # None => pending'[j] = pending[j] /\ Retained(pending[j])
  BY <1>1
<1>4. CASE UNCHANGED answers
  BY <1>0, <1>2, <1>3, <1>4 DEF AnswersInv, PendingOK, WaitsUnanswered, AnsweredOnce
<1>5. CASE /\ pending[k] # None /\ now - pending[k].time < API_PROFILE_TIMEOUT
           /\ answers' = [answers EXCEPT ![pending[k].req] = @ + 1]
  <2>1. PICK r \in Requests : r = pending[k].req /\ answers[r] = 0 /\ r \in requested
    BY <1>0, <1>5 DEF WaitsUnanswered, PendingOK
  <2>2. answers' \in [Requests -> Nat] /\ \A s \in Requests : answers'[s] = IF s = r THEN 1 ELSE answers[s]
    BY <1>0, <1>5, <2>1 DEF PendingOK
  <2>3. pending[k].time \in Int
    BY <1>0, <1>5 DEF PendingOK, Entry
  <2>4. ~Retained(pending[k])
    BY <1>0, <1>5, <2>3, SMTT(20) DEF Retained, PendingOK
  <2>5. \A j \in Keys : pending'[j] # None => pending'[j].req # r
    BY <1>0, <1>3, <1>5, <2>1, <2>4 DEF WaitsUnanswered
  <2>6. AnsweredOnce'
    BY <1>0, <2>2 DEF AnsweredOnce
  <2>7. WaitsUnanswered'
    <3>1. ASSUME NEW j \in Keys, pending'[j] # None
          PROVE  /\ pending'[j].req \in requested' /\ answers'[pending'[j].req] = 0
                 /\ \A i \in Keys : pending'[i] # None /\ pending'[i].req = pending'[j].req => i = j
      <4>1. /\ pending'[j] = pending[j] /\ pending[j].req \in requested /\ pending[j].req # r
            /\ answers[pending[j].req] = 0
        BY <1>0, <1>3, <2>5, <3>1 DEF WaitsUnanswered
      <4>2. answers'[pending[j].req] = 0
        BY <1>0, <2>2, <4>1 DEF PendingOK
      <4> QED
        BY <1>0, <1>3, <3>1, <4>1, <4>2 DEF WaitsUnanswered
    <3>2. \A s \in Requests \ requested' : answers'[s] = 0
      BY <1>0, <2>1, <2>2 DEF WaitsUnanswered
    <3> QED
      BY <3>1, <3>2, SMTT(20) DEF WaitsUnanswered
  <2>8. PendingOK'
    BY <1>0, <1>2, <2>2 DEF PendingOK
  <2> QED
    BY <2>6, <2>7, <2>8 DEF AnswersInv
<1> QED
  BY <1>1, <1>4, <1>5

\* A request is answered at once, or waits for the relays.
LEMMA RequestAnswers ==
  ASSUME AnswersInv, NEW k \in Keys, NEW r \in Requests,
         NostrProfileRequest(r, k) \/ NostrProfileSearchRequest(r, k)
  PROVE  AnswersInv'
<1>0. PendingOK /\ WaitsUnanswered /\ AnsweredOnce
  BY SMTT(20) DEF AnswersInv
<1>1. r \notin requested /\ requested' = requested \cup {r} /\ UNCHANGED now /\ answers[r] = 0
  BY <1>0, SMTT(20) DEF NostrProfileRequest, NostrProfileSearchRequest, WaitsUnanswered
<1>2. CASE answers' = [answers EXCEPT ![r] = @ + 1] /\ UNCHANGED pending
  <2>1. answers' \in [Requests -> Nat] /\ \A s \in Requests : answers'[s] = IF s = r THEN 1 ELSE answers[s]
    BY <1>0, <1>1, <1>2, SMTT(20) DEF PendingOK
  <2> QED
    BY <1>0, <1>1, <1>2, <2>1 DEF AnswersInv, PendingOK, WaitsUnanswered, AnsweredOnce
<1>3. CASE pending' = [pending EXCEPT ![k] = [time |-> now, req |-> r]] /\ UNCHANGED answers
  <2>1. [time |-> now, req |-> r] \in Entry
    BY <1>0 DEF Entry, PendingOK
  <2>2. /\ pending' \in [Keys -> Entry \cup {None}]
        /\ \A j \in Keys : pending'[j] = IF j = k THEN [time |-> now, req |-> r] ELSE pending[j]
    BY <1>0, <1>3, <2>1 DEF PendingOK
  <2> QED
    BY <1>0, <1>1, <1>3, <2>2 DEF AnswersInv, PendingOK, WaitsUnanswered, AnsweredOnce
<1> QED
  BY <1>2, <1>3 DEF NostrProfileRequest, NostrProfileSearchRequest, Answered

\* A crash forgets the requests that wait, the one just answered among them.
LEMMA CrashAnswers ==
  ASSUME AnswersInv, Stops,
         \/ UNCHANGED answers
         \/ \E k \in Keys : pending[k] # None /\ answers' = [answers EXCEPT ![pending[k].req] = @ + 1]
  PROVE  AnswersInv'
<1>0. /\ PendingOK /\ WaitsUnanswered /\ AnsweredOnce /\ UNCHANGED <<now, requested>>
      /\ pending' = [k \in Keys |-> None]
  BY SMTT(20) DEF AnswersInv, Stops
<1>1. CASE UNCHANGED answers
  BY <1>0, <1>1 DEF AnswersInv, PendingOK, WaitsUnanswered, AnsweredOnce
<1>2. CASE \E k \in Keys : pending[k] # None /\ answers' = [answers EXCEPT ![pending[k].req] = @ + 1]
  <2>1. PICK r \in Requests : /\ answers[r] = 0 /\ r \in requested
                             /\ answers' = [answers EXCEPT ![r] = @ + 1]
    BY <1>0, <1>2 DEF WaitsUnanswered, PendingOK
  <2>2. answers' \in [Requests -> Nat] /\ \A s \in Requests : answers'[s] = IF s = r THEN 1 ELSE answers[s]
    BY <1>0, <2>1 DEF PendingOK
  <2> QED
    BY <1>0, <2>1, <2>2 DEF AnswersInv, PendingOK, WaitsUnanswered, AnsweredOnce
<1> QED
  BY <1>1, <1>2

\* Every step keeps a request from being answered twice.
LEMMA NextAnswers == AnswersInv /\ [Next]_vars => AnswersInv'
<1> SUFFICES ASSUME AnswersInv, [Next]_vars PROVE AnswersInv'
  OBVIOUS
<1>1. ASSUME \/ NostrPrivateMessage \/ AskRange \/ RequestRange \/ AfterRange \/ Subscribe
             \/ SubscriptionMoves \/ Start \/ Tick \/ UNCHANGED vars
      PROVE  AnswersInv'
  <2>1. UNCHANGED <<pending, requested, answers>>
    BY <1>1, Zenon DEF NostrPrivateMessage, AskRange, RequestRange, AfterRange, Subscribe,
                       SubscriptionMoves, Start, Tick, vars, engineVars
  <2>2. now' = now \/ now' = now + 1
    BY <1>1, Zenon DEF NostrPrivateMessage, AskRange, RequestRange, AfterRange, Subscribe,
                       SubscriptionMoves, Start, Tick, vars
  <2>3. now' \in Int
    BY <2>2 DEF AnswersInv, PendingOK
  <2> QED
    BY <2>1, <2>3, AnswersFrame
<1>2. ASSUME Crash \/ \E k \in Keys, p \in Profile : CrashInStore(k, p) PROVE AnswersInv'
  <2>1. Stops
    BY <1>2, Zenon DEF Crash, CrashInStore
  <2>2. \/ UNCHANGED answers
        \/ \E k \in Keys : pending[k] # None /\ answers' = [answers EXCEPT ![pending[k].req] = @ + 1]
    BY <1>2, Zenon DEF Crash, CrashInStore, Replies, Answered
  <2> QED
    BY <2>1, <2>2, CrashAnswers, Zenon
<1> QED
  BY <1>1, <1>2, StoreAnswers, RequestAnswers DEF Next

\* A request gets at most one answer, for every timeout above zero: the
\* requests that store_profile answers are among those that it drops.
THEOREM NostrAnswersOnce == Spec => []AnsweredOnce
<1>1. Init => AnswersInv
  BY NostrAssumption DEF Init, AnswersInv, PendingOK, WaitsUnanswered, AnsweredOnce
<1>2. AnswersInv /\ [Next]_vars => AnswersInv'
  BY NextAnswers
<1>3. AnswersInv => AnsweredOnce
  BY DEF AnswersInv
<1> QED
  BY <1>1, <1>2, <1>3, PTL DEF Spec

-----------------------------------------------------------------------------
\* Where a profile is taken.
LEMMA WithFacts ==
  ASSUME NEW table \in [Keys -> Profile \cup {None}], NEW k \in Keys, NEW p \in Profile
  PROVE  /\ With(table, k, p, CacheTakes(table[k], p)) \in [Keys -> Profile \cup {None}]
         /\ With(table, k, p, UpsertTakes(table[k], p)) \in [Keys -> Profile \cup {None}]
         /\ \A j \in Keys : j # k => /\ With(table, k, p, CacheTakes(table[k], p))[j] = table[j]
                                     /\ With(table, k, p, UpsertTakes(table[k], p))[j] = table[j]
         /\ With(table, k, p, CacheTakes(table[k], p))[k]
              = IF table[k] = None \/ CacheTakes(table[k], p) THEN p ELSE table[k]
         /\ With(table, k, p, UpsertTakes(table[k], p))[k]
              = IF table[k] = None \/ UpsertTakes(table[k], p) THEN p ELSE table[k]
BY DEF With

\* Cache and table hold the same profile, or two of the same time neither of
\* which is verified.
Same(c, d) ==
  \/ d = c
  \/ /\ d # None /\ c # None /\ d.created = c.created
     /\ d.verified # TRUE /\ c.verified # TRUE

\* When two profiles count as verified, or as not, alike.
LEMMA Coalesced ==
  ASSUME NEW c \in Profile, NEW d \in Profile
  PROVE  coalesce(c.verified) = coalesce(d.verified) <=> (c.verified = TRUE <=> d.verified = TRUE)
<1>1. /\ c.verified \in {None, TRUE, FALSE} /\ d.verified \in {None, TRUE, FALSE}
      /\ None # TRUE /\ None # FALSE
  BY NoneAssumption, Zenon DEF Profile
<1> QED
  BY <1>1, Zenon DEF coalesce

\* The two decide differently, to the same effect but for profiles of the same
\* time that are not verified.
LEMMA TakesAgree ==
  ASSUME NEW c \in Profile \cup {None}, NEW d \in Profile \cup {None}, NEW p \in Profile, Same(c, d)
  PROVE  Same(IF c = None \/ CacheTakes(c, p) THEN p ELSE c,
              IF d = None \/ UpsertTakes(d, p) THEN p ELSE d)
<1>1. p # None
  BY NoneAssumption, Zenon
<1>2. CASE c = None
  <2>1. d = None
    BY <1>2, Zenon DEF Same
  <2> QED
    BY <1>2, <2>1, Zenon DEF Same
<1>3. CASE c # None
  <2>1. c \in Profile /\ d \in Profile /\ d # None /\ d.created = c.created
    BY <1>3, Zenon DEF Same
  <2>2. (d.verified = TRUE <=> c.verified = TRUE) /\ (d # c => d.verified # TRUE)
    BY <1>3, Zenon DEF Same
  <2>3. CASE UpsertTakes(d, p)
    <3>1. CacheTakes(c, p)
      <4>1. coalesce(d.verified) = coalesce(c.verified)
        BY <2>1, <2>2, Coalesced, Zenon
      <4> QED
        BY <2>1, <2>3, <4>1, Zenon DEF UpsertTakes, CacheTakes, Newer
    <3> QED
      BY <2>3, <3>1, Zenon DEF Same
  <2>4. CASE ~UpsertTakes(d, p) /\ CacheTakes(c, p)
    <3>1. p.created = c.created /\ coalesce(d.verified) = coalesce(p.verified) /\ c.verified # p.verified
      BY <2>1, <2>4, Zenon DEF UpsertTakes, CacheTakes, Newer
    <3>2. d.verified = TRUE <=> p.verified = TRUE
      BY <2>1, <3>1, Coalesced, Zenon
    <3>3. d.verified # TRUE /\ p.verified # TRUE
      BY <2>2, <3>1, <3>2, Zenon
    <3> QED
      BY <1>1, <2>1, <2>4, <3>1, <3>3, Zenon DEF Same
  <2>5. CASE ~UpsertTakes(d, p) /\ ~CacheTakes(c, p)
    BY <1>3, <2>1, <2>5, Zenon
  <2> QED
    BY <2>3, <2>4, <2>5
<1> QED
  BY <1>2, <1>3

\* StoreFollowsCache, in terms of Same.
LEMMA FollowsIsSame ==
  /\ StoreFollowsCache <=> (status = "up" /\ ~dbFailed => \A k \in Keys : Same(cache[k], db[k]))
  /\ StoreFollowsCache' <=> (status' = "up" /\ ~dbFailed' => \A k \in Keys : Same(cache'[k], db'[k]))
BY DEF StoreFollowsCache, Same

\* An update keeps cache and table alike, or the engine knows it is not stored.
LEMMA StoreTables ==
  ASSUME TablesInv, NEW k \in Keys, NEW p \in Profile, store_profile(k, p)
  PROVE  TablesInv'
<1>0. TablesOK /\ StoreFollowsCache /\ status = "up" /\ status' = "up"
  BY DEF TablesInv, store_profile
<1>1. PICK ok \in BOOLEAN : /\ dbFailed' = (dbFailed \/ ~ok)
                            /\ db' = IF ok THEN With(db, k, p, UpsertTakes(db[k], p)) ELSE db
  BY DEF store_profile, Db
<1>2. cache' = With(cache, k, p, CacheTakes(cache[k], p))
  BY DEF store_profile
<1>3. TablesOK'
  BY <1>0, <1>1, <1>2, WithFacts, Zenon DEF TablesOK
<1>4. ASSUME ~dbFailed', NEW j \in Keys PROVE Same(cache'[j], db'[j])
  <2>1. Same(cache[j], db[j]) /\ ok
    BY <1>0, <1>1, <1>4, FollowsIsSame, Zenon DEF TablesOK
  <2>2. CASE j # k
    <3>1. cache'[j] = cache[j] /\ db'[j] = db[j]
      <4>1. db' = With(db, k, p, UpsertTakes(db[k], p))
        BY <1>1, <2>1, Zenon
      <4>2. db \in [Keys -> Profile \cup {None}] /\ cache \in [Keys -> Profile \cup {None}]
        BY <1>0 DEF TablesOK
      <4>3. With(db, k, p, UpsertTakes(db[k], p))[j] = db[j] /\ With(cache, k, p, CacheTakes(cache[k], p))[j] = cache[j]
        BY <2>2, <4>2, SMTT(20) DEF With
      <4> QED
        BY <1>2, <4>1, <4>3
    <3> QED
      BY <2>1, <3>1
  <2>3. CASE j = k
    <3>1. /\ cache'[j] = IF cache[j] = None \/ CacheTakes(cache[j], p) THEN p ELSE cache[j]
          /\ db'[j] = IF db[j] = None \/ UpsertTakes(db[j], p) THEN p ELSE db[j]
      <4>1. db' = With(db, k, p, UpsertTakes(db[k], p))
        BY <1>1, <2>1, Zenon
      <4>2. db \in [Keys -> Profile \cup {None}] /\ cache \in [Keys -> Profile \cup {None}]
        BY <1>0 DEF TablesOK
      <4>3. /\ With(cache, k, p, CacheTakes(cache[k], p))[k]
                 = IF cache[k] = None \/ CacheTakes(cache[k], p) THEN p ELSE cache[k]
            /\ With(db, k, p, UpsertTakes(db[k], p))[k]
                 = IF db[k] = None \/ UpsertTakes(db[k], p) THEN p ELSE db[k]
        BY <4>2 DEF With
      <4> QED
        BY <1>2, <2>3, <4>1, <4>3, Zenon
    <3>2. cache[j] \in Profile \cup {None} /\ db[j] \in Profile \cup {None}
      BY <1>0 DEF TablesOK
    <3> QED
      BY <2>1, <3>1, <3>2, TakesAgree
  <2> QED
    BY <2>2, <2>3
<1> QED
  BY <1>3, <1>4, FollowsIsSame, SMTT(20) DEF TablesInv

\* Every step keeps them alike: a start loads the one from the other.
LEMMA NextTables == TablesInv /\ [Next]_vars => TablesInv'
<1> SUFFICES ASSUME TablesInv, [Next]_vars PROVE TablesInv'
  OBVIOUS
<1>0. TablesOK /\ StoreFollowsCache
  BY DEF TablesInv
<1>1. ASSUME UNCHANGED <<cache, db>>, dbFailed' \in BOOLEAN, dbFailed => dbFailed',
             status' = "up" => status = "up"
      PROVE  TablesInv'
  BY <1>0, <1>1, FollowsIsSame, SMTT(20) DEF TablesInv, TablesOK
<1>2. ASSUME NEW k \in Keys, NEW r \in Requests,
             NostrProfileRequest(r, k) \/ NostrProfileSearchRequest(r, k)
      PROVE  TablesInv'
  BY <1>0, <1>1, <1>2, SMTT(20) DEF NostrProfileRequest, NostrProfileSearchRequest, Db, TablesOK
<1>3. ASSUME NostrPrivateMessage \/ AskRange \/ RequestRange \/ AfterRange \/ Subscribe
               \/ SubscriptionMoves \/ Tick \/ UNCHANGED vars
      PROVE  TablesInv'
  <2>1. UNCHANGED <<cache, db>> /\ (status' = "up" => status = "up")
    BY <1>3, SMTT(20) DEF NostrPrivateMessage, AskRange, RequestRange, AfterRange, Subscribe,
                SubscriptionMoves, Tick, vars, engineVars
  <2>2. dbFailed' = dbFailed \/ \E ok \in BOOLEAN : dbFailed' = (dbFailed \/ (~ok /\ FALSE))
    BY <1>3, SMTT(20) DEF NostrPrivateMessage, AskRange, RequestRange, AfterRange, Subscribe,
                SubscriptionMoves, Tick, vars, store_last_check, Db
  <2> QED
    BY <1>0, <1>1, <2>1, <2>2, SMTT(20) DEF TablesOK
<1>4. ASSUME Crash \/ \E k \in Keys, p \in Profile : CrashInStore(k, p) PROVE TablesInv'
  <2>1. Stops /\ (dbFailed' = dbFailed \/ dbFailed' = TRUE)
    BY <1>4, Zenon DEF Crash, CrashInStore
  <2>2. dbFailed' \in BOOLEAN
    BY <1>0, <2>1, Zenon DEF TablesOK
  <2> QED
    BY <1>0, <2>1, <2>2, SMTT(20) DEF Stops, TablesInv, TablesOK, StoreFollowsCache
<1>5. ASSUME Start PROVE TablesInv'
  <2>1. PICK ok \in BOOLEAN : /\ dbFailed' = (dbFailed \/ ~ok) /\ db' = db
                              /\ cache' = IF ok THEN db ELSE cache
    BY <1>5 DEF Start, Db
  <2>2. \A k \in Keys : Same(db[k], db[k])
    BY DEF Same
  <2> QED
    BY <1>0, <2>1, <2>2, FollowsIsSame, Zenon DEF TablesInv, TablesOK
<1> QED
  BY <1>1, <1>2, <1>3, <1>4, <1>5, StoreTables DEF Next

\* As long as every profile is stored, what the cache of a running engine
\* answers is what a restart would load, for every set of profiles, but for a
\* later one of two unverified profiles of the same time (store_profile, upsert).
THEOREM NostrStoreFollows == Spec => []StoreFollowsCache
<1>1. Init => TablesInv
  BY Zenon DEF Init, TablesInv, TablesOK, StoreFollowsCache
<1>2. TablesInv /\ [Next]_vars => TablesInv'
  BY NextTables
<1>3. TablesInv => StoreFollowsCache
  BY DEF TablesInv
<1> QED
  BY <1>1, <1>2, <1>3, PTL DEF Spec

-----------------------------------------------------------------------------
\* An answer about a profile tells no less than the ones before it.
LEMMA AnswerGrows ==
  ASSUME told \in [Keys -> Nat], NEW k \in Keys, NEW r, NEW p \in Profile, told[k] <= p.created,
         Answered(r, k, p)
  PROVE  /\ told' \in [Keys -> Nat] /\ told'[k] = p.created
         /\ \A j \in Keys : told[j] <= told'[j] /\ (j # k => told'[j] = told[j])
<1>1. p.created \in Nat
  BY NostrAssumption DEF Profile
<1>2. told' = [told EXCEPT ![k] = p.created]
  BY DEF Answered
<1> QED
  BY <1>1, <1>2

\* Profiles are told apart from nothing, and have a time.
LEMMA ProfileFacts == \A p \in Profile : p # None /\ p.created \in Nat
<1>1. \A p \in Profile : p # None
  BY NoneAssumption, Zenon
<1>2. \A p \in Profile : p.created \in Nat
  BY NostrAssumption DEF Profile
<1> QED
  BY <1>1, <1>2

\* What may be said of the answers of a step: they keep the invariant, and go
\* back to no older version.
ToldStep == ToldIsStored' /\ (dbFailed' \/ \A k \in Keys : told[k] <= told'[k])

\* An answer from the cache.
LEMMA RequestTold ==
  ASSUME NostrInv, NEW k \in Keys, NEW r \in Requests, NostrProfileRequest(r, k)
  PROVE  ToldStep
<1>0. TablesOK /\ StoreFollowsCache /\ ToldIsStored /\ status = "up" /\ UNCHANGED <<db, dbFailed>>
  BY DEF NostrInv, TablesInv, NostrProfileRequest
<1>1. CASE UNCHANGED told
  BY <1>0, <1>1 DEF ToldStep, ToldIsStored
<1>2. CASE cache[k] # None /\ Answered(r, k, cache[k])
  <2>1. PICK p \in Profile : p = cache[k]
    BY <1>0, <1>2, SMTT(20) DEF TablesOK
  <2>2. told \in [Keys -> Nat] /\ told' = [told EXCEPT ![k] = p.created] /\ p.created \in Nat
    BY <1>0, <1>2, <2>1, ProfileFacts DEF ToldIsStored, Answered
  <2>3. CASE dbFailed
    BY <1>0, <2>2, <2>3, SMTT(20) DEF ToldStep, ToldIsStored, TablesOK
  <2>4. CASE ~dbFailed
    <3>1. Same(cache[k], db[k])
      BY <1>0, <2>4, FollowsIsSame
    <3>2. db[k] # None /\ db[k].created = p.created
      BY <1>2, <2>1, <3>1, Zenon DEF Same
    <3>3. told[k] <= p.created
      BY <1>0, <2>4, <3>2, SMTT(20) DEF ToldIsStored
    <3>4. /\ told' \in [Keys -> Nat] /\ told'[k] = p.created
          /\ \A j \in Keys : told[j] <= told'[j] /\ (j # k => told'[j] = told[j])
      BY <1>2, <2>1, <2>2, <3>3, AnswerGrows, SMTT(20)
    <3>5. \A j \in Keys : IF db[j] = None THEN told'[j] = 0 ELSE told'[j] <= db[j].created
      BY <1>0, <2>2, <2>4, <3>2, <3>4 DEF ToldIsStored
    <3> QED
      BY <1>0, <3>4, <3>5, SMTT(20) DEF ToldStep, ToldIsStored
  <2> QED
    BY <2>3, <2>4
<1> QED
  BY <1>1, <1>2 DEF NostrProfileRequest

\* An answer from the database.
LEMMA SearchTold ==
  ASSUME NostrInv, NEW k \in Keys, NEW r \in Requests, NostrProfileSearchRequest(r, k)
  PROVE  ToldStep
<1>0. TablesOK /\ ToldIsStored /\ UNCHANGED db
  BY DEF NostrInv, TablesInv, NostrProfileSearchRequest
<1>a. dbFailed' = dbFailed
  BY <1>0 DEF NostrProfileSearchRequest, Db, TablesOK
<1>1. CASE UNCHANGED told
  BY <1>0, <1>1, <1>a DEF ToldStep, ToldIsStored
<1>2. CASE db[k] # None /\ Answered(r, k, db[k])
  <2>1. PICK p \in Profile : p = db[k]
    BY <1>0, <1>2 DEF TablesOK
  <2>2. told \in [Keys -> Nat] /\ told' = [told EXCEPT ![k] = p.created] /\ p.created \in Nat
    BY <1>0, <1>2, <2>1, ProfileFacts, SMTT(20) DEF ToldIsStored, Answered
  <2>3. CASE dbFailed
    BY <1>0, <1>a, <2>2, <2>3, SMTT(20) DEF ToldStep, ToldIsStored, TablesOK
  <2>4. CASE ~dbFailed
    <3>1. told[k] <= p.created
      BY <1>0, <1>2, <2>1, <2>4, SMTT(20) DEF ToldIsStored
    <3>2. /\ told' \in [Keys -> Nat] /\ told'[k] = p.created
          /\ \A j \in Keys : told[j] <= told'[j] /\ (j # k => told'[j] = told[j])
      BY <1>2, <2>1, <2>2, <3>1, AnswerGrows, SMTT(20)
    <3>3. \A j \in Keys : IF db[j] = None THEN told'[j] = 0 ELSE told'[j] <= db[j].created
      BY <1>0, <1>2, <2>1, <2>2, <2>4, <3>2 DEF ToldIsStored
    <3> QED
      BY <1>0, <1>a, <3>2, <3>3, SMTT(20) DEF ToldStep, ToldIsStored
  <2> QED
    BY <2>3, <2>4
<1> QED
  BY <1>1, <1>2 DEF NostrProfileSearchRequest

\* An answer with the update the relays sent.
LEMMA StoreTold ==
  ASSUME NostrInv, NEW k \in Keys, NEW p \in Profile, store_profile(k, p)
  PROVE  ToldStep
<1>0. TablesOK /\ StoreFollowsCache /\ ToldIsStored /\ status = "up"
  BY SMTT(20) DEF NostrInv, TablesInv, store_profile
<1>1. PICK ok \in BOOLEAN : /\ dbFailed' = (dbFailed \/ ~ok)
                            /\ db' = IF ok THEN With(db, k, p, UpsertTakes(db[k], p)) ELSE db
  BY DEF store_profile, Db
<1>2. /\ db \in [Keys -> Profile \cup {None}] /\ cache \in [Keys -> Profile \cup {None}]
      /\ told \in [Keys -> Nat] /\ p.created \in Nat /\ p # None
  BY <1>0, ProfileFacts, SMTT(20) DEF TablesOK, ToldIsStored
<1>3. \/ UNCHANGED told
      \/ /\ cache[k] = None \/ CacheTakes(cache[k], p)
         /\ Answered(pending[k].req, k, p)
  BY Zenon DEF store_profile, Replies
<1>4. told' \in [Keys -> Nat]
  BY <1>2, <1>3 DEF Answered
<1>5. CASE dbFailed'
  BY <1>4, <1>5, SMTT(20) DEF ToldStep, ToldIsStored
<1>6. CASE ~dbFailed'
  <2>1. ok /\ ~dbFailed
    BY <1>1, <1>6, Zenon
  <2>2. db' = With(db, k, p, UpsertTakes(db[k], p))
    BY <1>1, <2>1
  <2>3. /\ \A j \in Keys : j # k => db'[j] = db[j]
        /\ db'[k] = IF db[k] = None \/ UpsertTakes(db[k], p) THEN p ELSE db[k]
    BY <1>2, <2>2 DEF With
  <2>4. Same(cache[k], db[k])
    BY <1>0, <2>1, FollowsIsSame, SMTT(20)
  <2>5. IF db[k] = None THEN told[k] = 0 ELSE told[k] <= db[k].created
    BY <1>0, <2>1 DEF ToldIsStored
  <2>6. db[k] # None => db[k].created \in Nat
    BY <1>2, ProfileFacts
  <2>7. /\ db'[k] # None /\ told[k] <= db'[k].created
    <3>1. CASE db[k] = None \/ UpsertTakes(db[k], p)
      <4>1. UpsertTakes(db[k], p) => db[k].created < p.created \/ db[k].created = p.created
        BY SMTT(20) DEF UpsertTakes, Newer
      <4> QED
        BY <1>2, <2>3, <2>5, <2>6, <3>1, <4>1, SMTT(20)
    <3>2. CASE ~(db[k] = None \/ UpsertTakes(db[k], p))
      BY <2>3, <2>5, <3>2
    <3> QED
      BY <3>1, <3>2, SMTT(20)
  <2>8. CASE UNCHANGED told
    <3>1. \A j \in Keys : IF db'[j] = None THEN told'[j] = 0 ELSE told'[j] <= db'[j].created
      BY <1>0, <2>1, <2>3, <2>7, <2>8, SMTT(20) DEF ToldIsStored
    <3> QED
      BY <1>2, <1>4, <2>8, <3>1, SMTT(20) DEF ToldStep, ToldIsStored
  <2>9. CASE /\ cache[k] = None \/ CacheTakes(cache[k], p)
             /\ Answered(pending[k].req, k, p)
    <3>1. told[k] <= p.created /\ db'[k].created = p.created
      <4>1. CASE cache[k] = None
        <5>1. db[k] = None
          BY <2>4, <4>1, Zenon DEF Same
        <5> QED
          BY <1>2, <2>3, <2>5, <5>1
      <4>2. CASE cache[k] # None /\ CacheTakes(cache[k], p)
        <5>1. db[k] # None /\ db[k].created = cache[k].created
          BY <2>4, <4>2, Zenon DEF Same
        <5>2. db[k].created < p.created \/ db[k].created = p.created
          BY <4>2, <5>1, Zenon DEF CacheTakes, Newer
        <5>3. told[k] <= p.created
          BY <1>2, <2>5, <2>6, <5>1, <5>2, SMTT(20)
        <5>4. db[k].created < p.created => UpsertTakes(db[k], p)
          BY SMTT(20) DEF UpsertTakes, Newer
        <5>5. db'[k].created = p.created
          BY <2>3, <5>1, <5>2, <5>4, SMTT(20)
        <5> QED
          BY <5>3, <5>5
      <4> QED
        BY <2>9, <4>1, <4>2, SMTT(20)
    <3>2. /\ told'[k] = p.created
          /\ \A j \in Keys : told[j] <= told'[j] /\ (j # k => told'[j] = told[j])
      BY <1>2, <2>9, <3>1, AnswerGrows, SMTT(20)
    <3>3. \A j \in Keys : IF db'[j] = None THEN told'[j] = 0 ELSE told'[j] <= db'[j].created
      BY <1>0, <1>2, <2>1, <2>3, <2>7, <3>1, <3>2, SMTT(20) DEF ToldIsStored
    <3> QED
      BY <1>4, <3>2, <3>3, SMTT(20) DEF ToldStep, ToldIsStored
  <2> QED
    BY <1>3, <2>8, <2>9
<1> QED
  BY <1>5, <1>6, SMTT(20)

\* No step takes an answer back, and every one keeps the invariant.
LEMMA NextTold == NostrInv /\ [Next]_vars => NostrInv' /\ (dbFailed' \/ \A k \in Keys : told[k] <= told'[k])
<1> SUFFICES ASSUME NostrInv, [Next]_vars
             PROVE  NostrInv' /\ (dbFailed' \/ \A k \in Keys : told[k] <= told'[k])
  OBVIOUS
<1>1. TablesInv'
  BY NextTables DEF NostrInv
<1>2. ASSUME \/ NostrPrivateMessage \/ AskRange \/ RequestRange \/ AfterRange \/ Subscribe
             \/ SubscriptionMoves \/ Crash \/ Start \/ Tick \/ UNCHANGED vars
      PROVE  ToldStep
  <2>1. UNCHANGED <<db, told>>
    BY <1>2, Zenon DEF NostrPrivateMessage, AskRange, RequestRange, AfterRange, Subscribe,
                       SubscriptionMoves, Crash, Stops, Start, Tick, vars, engineVars
  <2>2. dbFailed => dbFailed'
    BY <1>2, Zenon DEF NostrPrivateMessage, AskRange, RequestRange, AfterRange, Subscribe,
                SubscriptionMoves, Crash, Start, Tick, vars, store_last_check, Db
  <2> QED
    BY <2>1, <2>2 DEF ToldStep, NostrInv, ToldIsStored
<1>3. ASSUME NEW k \in Keys, NEW p \in Profile, CrashInStore(k, p) PROVE ToldStep
  <2>1. dbFailed' /\ told' = [told EXCEPT ![k] = p.created]
    BY <1>3, Zenon DEF CrashInStore, Answered
  <2>2. told \in [Keys -> Nat] /\ p.created \in Nat
    BY ProfileFacts, SMTT(20) DEF NostrInv, ToldIsStored
  <2>3. told' \in [Keys -> Nat]
    BY <2>1, <2>2
  <2> QED
    BY <2>1, <2>3, Zenon DEF ToldStep, ToldIsStored
<1>4. ToldStep
  BY <1>2, <1>3, StoreTold, RequestTold, SearchTold DEF Next
<1> QED
  BY <1>1, <1>4 DEF NostrInv, ToldStep

\* Until a profile cannot be stored or loaded, or is answered with and lost before
\* it is stored, no answer about a profile goes back to an older version, across
\* cache, table, relays and restarts.
THEOREM NostrNeverGoesBack == Spec => AnswersNeverGoBack
<1>1. Init => NostrInv
  <2>1. Init => TablesInv
    BY Zenon DEF Init, TablesInv, TablesOK, StoreFollowsCache
  <2>2. Init => ToldIsStored
    BY DEF Init, ToldIsStored
  <2> QED
    BY <2>1, <2>2 DEF NostrInv
<1>2. NostrInv /\ [Next]_vars => NostrInv' /\ [dbFailed' \/ \A k \in Keys : told[k] <= told'[k]]_vars
  BY NextTold
<1> QED
  BY <1>1, <1>2, PTL DEF Spec, AnswersNeverGoBack

-----------------------------------------------------------------------------
(***************************************************************************)
(* The index of the past.  IndexPhase says, for every phase of the         *)
(* indexer, how much of the past before the range or the subscription may  *)
(* be missing: no more than earlier starts left out, until a range ends in *)
(* the present; one sleep more when another range follows, which then is   *)
(* the last; and one more when the subscription begins.                    *)
(***************************************************************************)
\* At most n times before t are missing in C.
AtMost(C, t, n) == Cardinality((0 .. t - 1) \ C) <= n

\* What n starts may leave out.
LeftOut(n) == 2 * (NAP - 1) * n

IndexTypes ==
  /\ now \in Nat /\ starts \in Nat /\ since \in Nat /\ wake \in Nat /\ missed \in BOOLEAN
  /\ lastCheck # None => lastCheck \in Nat
  /\ status = "down" <=> phase = "off"
  /\ phase \in {"off", "range", "nap", "subscribe", "subscribed"}
  /\ phase # "off" => starts > 0

\* A range that starts at `from`, after which the indexer goes on at `next`.
RangeOK(from, next) ==
  \/ AtMost(covered, from, LeftOut(starts - 1))
  \/ /\ AtMost(covered, from, LeftOut(starts - 1) + NAP - 1)
     /\ from + SECONDS_IN_HOUR > next

IndexPhase ==
  /\ lastCheck # None => lastCheck <= now /\ AtMost(covered, lastCheck, LeftOut(starts))
  /\ phase = "range" => IF since < now THEN RangeOK(since, now + NAP)
                        ELSE AtMost(covered, now, LeftOut(starts))
  /\ phase = "nap" =>
       /\ since < wake - NAP /\ wake - NAP <= now /\ now <= wake
       /\ since .. Earlier(since + SECONDS_IN_HOUR, wake - NAP) \subseteq covered
       /\ RangeOK(since, wake)
  /\ phase \in {"subscribe", "subscribed"} =>
       /\ since <= now /\ since .. now \subseteq covered
       /\ AtMost(covered, since, LeftOut(starts))

IndexInv == IndexTypes /\ (Historical /\ ~missed => IndexPhase)

\* One more start may leave out two more sleeps.
LEMMA LeftOutGrows ==
  ASSUME NEW n \in Nat
  PROVE  /\ LeftOut(n) \in Nat /\ LeftOut(n + 1) = LeftOut(n) + 2 * (NAP - 1)
         /\ n > 0 => n - 1 \in Nat /\ LeftOut(n) = LeftOut(n - 1) + 2 * (NAP - 1)
<1>1. PICK c \in Nat : c = 2 * (NAP - 1)
  BY NostrAssumption
<1>2. \A m \in Nat : LeftOut(m) = c * m
  BY <1>1 DEF LeftOut
<1>3. \A m \in Nat : c * m \in Nat /\ c * (m + 1) = c * m + c
  OBVIOUS
<1>4. LeftOut(n) \in Nat /\ LeftOut(n + 1) = LeftOut(n) + c
  BY <1>2, <1>3
<1>5. ASSUME n > 0 PROVE n - 1 \in Nat /\ LeftOut(n) = LeftOut(n - 1) + c
  <2>1. n - 1 \in Nat /\ (n - 1) + 1 = n
    BY <1>5
  <2> QED
    BY <1>2, <1>3, <2>1
<1> QED
  BY <1>1, <1>4, <1>5

\* What is asked for later makes up for no less.
LEMMA AtMostLater ==
  ASSUME NEW C, NEW D, C \subseteq D, NEW t \in Nat, NEW n \in Nat, NEW m \in Nat, n <= m,
         AtMost(C, t, n)
  PROVE  AtMost(D, t, m)
<1>1. IsFiniteSet(0 .. t - 1)
  BY FS_Interval
<1>2. /\ IsFiniteSet((0 .. t - 1) \ C) /\ IsFiniteSet((0 .. t - 1) \ D)
  BY <1>1, FS_Subset
<1>3. Cardinality((0 .. t - 1) \ D) <= Cardinality((0 .. t - 1) \ C)
  BY <1>2, FS_Subset
<1>4. Cardinality((0 .. t - 1) \ C) \in Nat /\ Cardinality((0 .. t - 1) \ D) \in Nat
  BY <1>2, FS_CardinalityType, SMTT(20)
<1> QED
  BY <1>3, <1>4 DEF AtMost

\* All times from t to a are in C.
Covers(C, t, a) == \A x \in Nat : t <= x /\ x <= a => x \in C

\* If they are, no more than the times between a and u can be missing too.
LEMMA AtMostFarther ==
  ASSUME NEW C, NEW t \in Nat, NEW u \in Nat, NEW n \in Nat, NEW m \in Nat, NEW a \in Int,
         Covers(C, t, a), n <= m, u - 1 - a <= m - n, AtMost(C, t, n)
  PROVE  AtMost(C, u, m)
<1> DEFINE A == (0 .. t - 1) \ C
           B == (0 .. u - 1) \ C
           V == a + 1 .. u - 1
<1>1. IsFiniteSet(0 .. t - 1) /\ IsFiniteSet(0 .. u - 1)
  BY FS_Interval
<1>2. IsFiniteSet(A) /\ IsFiniteSet(B)
  BY <1>1, FS_Subset
<1>3. IsFiniteSet(V) /\ Cardinality(V) <= m - n /\ Cardinality(V) \in Nat
  <2>1. IsFiniteSet(V) /\ Cardinality(V) = IF a + 1 > u - 1 THEN 0 ELSE (u - 1) - (a + 1) + 1
    BY FS_Interval
  <2> QED
    BY <2>1
<1>4. B \subseteq A \cup V
  BY DEF Covers
<1> HIDE DEF A, B, V
<1>5. IsFiniteSet(A \cup V) /\ IsFiniteSet(A \cap V)
  BY <1>2, <1>3, FS_Union, FS_Subset, Zenon
<1>6. /\ Cardinality(A) \in Nat /\ Cardinality(B) \in Nat
      /\ Cardinality(A \cap V) \in Nat /\ Cardinality(A \cup V) \in Nat
  BY <1>2, <1>5, FS_CardinalityType, SMTT(20)
<1>7. Cardinality(A \cup V) = Cardinality(A) + Cardinality(V) - Cardinality(A \cap V)
  BY <1>2, <1>3, FS_Union, SMTT(20)
<1>8. Cardinality(B) <= Cardinality(A \cup V)
  BY <1>4, <1>5, FS_Subset
<1> QED
  BY <1>3, <1>6, <1>7, <1>8, SMTT(20) DEF AtMost, A, B

\* The next range is asked for.
LEMMA AskRangeIndex ==
  ASSUME IndexInv, AskRange
  PROVE  IndexInv'
<1>1. /\ IndexTypes /\ phase = "range" /\ since < now /\ status # "down"
      /\ phase' = "nap" /\ wake' = now + NAP /\ UNCHANGED <<now, status, lastCheck, since, starts>>
      /\ NAP \in Nat \ {0} /\ SECONDS_IN_HOUR \in Nat
  BY NostrAssumption DEF IndexInv, AskRange
<1>2. IndexTypes'
  <2>1. missed' = missed \/ missed' = TRUE
    BY Zenon DEF AskRange
  <2>2. missed' \in BOOLEAN
    BY <1>1, <2>1, Zenon DEF IndexTypes
  <2> QED
    BY <1>1, <2>2 DEF IndexTypes
<1>3. ASSUME Historical, ~missed' PROVE IndexPhase'
  <2>1. /\ IndexPhase /\ covered \subseteq covered'
        /\ since .. Earlier(since + SECONDS_IN_HOUR, now) \subseteq covered'
    BY <1>3 DEF AskRange, IndexInv
  <2>2. LeftOut(starts - 1) \in Nat /\ LeftOut(starts) \in Nat
    BY <1>1, LeftOutGrows, SMTT(20) DEF IndexTypes
  <2>3. lastCheck # None => lastCheck <= now /\ AtMost(covered', lastCheck, LeftOut(starts))
    BY <1>1, <2>1, <2>2, AtMostLater, SMTT(20) DEF IndexPhase, IndexTypes
  <2>4. RangeOK(since, now + NAP)
    BY <1>1, <2>1, SMTT(20) DEF IndexPhase
  <2>5. RangeOK(since, now + NAP)'
    BY <1>1, <2>1, <2>2, <2>4, AtMostLater, SMTT(20) DEF RangeOK, IndexTypes
  <2> QED
    BY <1>1, <2>1, <2>3, <2>5, SMTT(20) DEF IndexPhase, IndexTypes, RangeOK
<1> QED
  BY <1>2, <1>3, SMTT(20) DEF IndexInv

\* The start of the range is stored, or is not, and the next range follows: if
\* this one ended in the present, the sleep after it may be missing.
LEMMA AfterRangeIndex ==
  ASSUME IndexInv, AfterRange
  PROVE  IndexInv'
<1>1. /\ IndexTypes /\ phase = "nap" /\ wake <= now /\ status # "down"
      /\ phase' = "range" /\ since' = since + SECONDS_IN_HOUR
      /\ UNCHANGED <<now, status, wake, covered, missed, starts>>
      /\ lastCheck' = since \/ lastCheck' = lastCheck
      /\ NAP \in Nat \ {0} /\ SECONDS_IN_HOUR \in Nat /\ 2 * NAP <= SECONDS_IN_HOUR
  BY NostrAssumption DEF IndexInv, AfterRange, store_last_check
<1>2. IndexTypes'
  BY <1>1 DEF IndexTypes
<1>3. ASSUME Historical, ~missed' PROVE IndexPhase'
  <2>1. IndexPhase /\ now = wake /\ since < wake - NAP /\ RangeOK(since, wake)
        /\ since .. Earlier(since + SECONDS_IN_HOUR, wake - NAP) \subseteq covered
    BY <1>1, <1>3 DEF IndexPhase, IndexInv, IndexTypes
  <2>2. PICK b \in Nat : b = LeftOut(starts - 1) /\ LeftOut(starts) = b + 2 * (NAP - 1)
    BY <1>1, LeftOutGrows, Zenon DEF IndexTypes
  <2>3. AtMost(covered, since, b + NAP - 1) /\ AtMost(covered, since, LeftOut(starts))
    BY <1>1, <2>1, <2>2, AtMostLater, SMTT(20) DEF RangeOK, IndexTypes
  <2>4. lastCheck' # None => lastCheck' <= now /\ AtMost(covered, lastCheck', LeftOut(starts))
    BY <1>1, <2>1, <2>3, SMTT(20) DEF IndexPhase, IndexTypes
  <2>5. CASE since' <= now - NAP
    <3>1. AtMost(covered, since, b) /\ since' < now
      BY <1>1, <2>1, <2>2, <2>5, SMTT(20) DEF RangeOK, IndexTypes
    <3>2. Covers(covered, since, since' - 1)
      BY <1>1, <2>1, <2>5, SMTT(20) DEF Covers, Earlier, IndexTypes
    <3>3. AtMost(covered, since', b)
      BY <1>1, <3>1, <3>2, AtMostFarther, SMTT(20) DEF IndexTypes
    <3> QED
      BY <1>1, <2>2, <2>4, <3>1, <3>3, SMTT(20) DEF IndexPhase, RangeOK
  <2>6. CASE now - NAP < since' /\ since' < now
    <3>1. AtMost(covered, since, b)
      BY <1>1, <2>1, <2>2, <2>6, SMTT(20) DEF RangeOK, IndexTypes
    <3>2. Covers(covered, since, now - NAP)
      BY <1>1, <2>1, <2>6, SMTT(20) DEF Covers, Earlier, IndexTypes
    <3>3. AtMost(covered, since', b + NAP - 1)
      BY <1>1, <2>6, <3>1, <3>2, AtMostFarther, SMTT(20) DEF IndexTypes
    <3>4. since' + SECONDS_IN_HOUR > now + NAP
      BY <1>1, <2>6, SMTT(20) DEF IndexTypes
    <3> QED
      BY <1>1, <2>2, <2>4, <2>6, <3>3, <3>4, SMTT(20) DEF IndexPhase, RangeOK
  <2>7. CASE since' >= now
    <3>1. Covers(covered, since, now - NAP)
      BY <1>1, <2>1, <2>7, SMTT(20) DEF Covers, Earlier, IndexTypes
    <3>2. AtMost(covered, now, LeftOut(starts))
      BY <1>1, <2>1, <2>2, <2>3, <3>1, AtMostFarther, SMTT(20) DEF IndexTypes
    <3> QED
      BY <1>1, <2>2, <2>4, <2>7, <3>2, SMTT(20) DEF IndexPhase, IndexTypes
  <2> QED
    BY <1>1, <2>5, <2>6, <2>7, SMTT(20) DEF IndexTypes
<1> QED
  BY <1>2, <1>3 DEF IndexInv

\* The subscription begins where the ranges ended, or where the one before it
\* ends.
LEMMA SubscribeIndex ==
  ASSUME IndexInv, Subscribe
  PROVE  IndexInv'
<1>1. /\ IndexTypes /\ (phase = "subscribe" \/ (phase = "range" /\ since >= now))
      /\ status # "down" /\ phase' = "subscribed" /\ since' = now /\ wake' = now + SECONDS_IN_HOUR
      /\ covered' = covered \cup {now} /\ UNCHANGED <<now, status, lastCheck, missed, starts>>
      /\ SECONDS_IN_HOUR \in Nat
  BY NostrAssumption DEF IndexInv, Subscribe
<1>2. IndexTypes'
  BY <1>1, SMTT(20) DEF IndexTypes
<1>3. ASSUME Historical, ~missed' PROVE IndexPhase'
  <2>1. IndexPhase /\ LeftOut(starts) \in Nat
    BY <1>1, <1>3, LeftOutGrows DEF IndexInv, IndexTypes
  <2>2. AtMost(covered, now, LeftOut(starts))
    <3>1. CASE phase = "range" /\ since >= now
      BY <1>1, <2>1, <3>1, SMTT(20) DEF IndexPhase, IndexTypes
    <3>2. CASE phase = "subscribe"
      <4>1. /\ since <= now /\ AtMost(covered, since, LeftOut(starts))
            /\ Covers(covered, since, now - 1)
        BY <1>1, <2>1, <3>2, SMTT(20) DEF IndexPhase, IndexTypes, Covers
      <4> QED
        BY <1>1, <2>1, <4>1, AtMostFarther, SMTT(20) DEF IndexTypes
    <3> QED
      BY <1>1, <3>1, <3>2, SMTT(20)
  <2>3. /\ AtMost(covered', now, LeftOut(starts))
        /\ lastCheck # None => lastCheck <= now /\ AtMost(covered', lastCheck, LeftOut(starts))
    BY <1>1, <2>1, <2>2, AtMostLater DEF IndexPhase, IndexTypes
  <2> QED
    BY <1>1, <2>3, SMTT(20) DEF IndexPhase, IndexTypes
<1> QED
  BY <1>2, <1>3, SMTT(20) DEF IndexInv

\* The start of a subscription is stored, or is not.
LEMMA SubscriptionMovesIndex ==
  ASSUME IndexInv, SubscriptionMoves
  PROVE  IndexInv'
<1>1. /\ IndexTypes /\ phase = "subscribed" /\ status # "down" /\ phase' = "subscribe"
      /\ UNCHANGED <<now, status, since, wake, covered, missed, starts>>
      /\ lastCheck' = since \/ lastCheck' = lastCheck
  BY DEF IndexInv, SubscriptionMoves, store_last_check
<1>2. IndexTypes'
  BY <1>1, SMTT(20) DEF IndexTypes
<1>3. (Historical /\ ~missed => IndexPhase) => (Historical /\ ~missed' => IndexPhase')
  BY <1>1 DEF IndexPhase, IndexTypes
<1> QED
  BY <1>2, <1>3 DEF IndexInv

\* A crash forgets where the indexer was, and what the next start asks for; a start goes on from the stored time,
\* and may leave out as much again.
LEMMA RestartIndex ==
  ASSUME IndexInv, Stops \/ Start
  PROVE  IndexInv'
<1>1. CASE Stops
  <2>1. /\ IndexTypes /\ status' = "down" /\ phase' = "off" /\ since' = 0 /\ wake' = 0
        /\ covered' = {t \in covered : lastCheck # None /\ t < lastCheck}
        /\ UNCHANGED <<now, lastCheck, starts>>
    BY <1>1 DEF IndexInv, Stops
  <2>2. missed' \in BOOLEAN /\ (~missed' => ~missed)
    BY <1>1, Zenon DEF Stops
  <2>3. IndexTypes'
    BY <2>1, <2>2, SMTT(20) DEF IndexTypes
  <2>4. ASSUME Historical, ~missed' PROVE IndexPhase'
    <3>1. lastCheck # None => lastCheck <= now /\ AtMost(covered, lastCheck, LeftOut(starts))
      BY <2>2, <2>4, Zenon DEF IndexInv, IndexPhase
    <3>2. lastCheck # None => (0 .. lastCheck - 1) \ covered' = (0 .. lastCheck - 1) \ covered
      BY <2>1, SMTT(20) DEF IndexTypes
    <3>3. lastCheck # None => AtMost(covered', lastCheck, LeftOut(starts))
      BY <3>1, <3>2, Zenon DEF AtMost
    <3> QED
      BY <2>1, <3>1, <3>3, SMTT(20) DEF IndexPhase
  <2> QED
    BY <2>3, <2>4, SMTT(20) DEF IndexInv
<1>2. CASE Start
  <2>1. /\ IndexTypes /\ status = "down" /\ status' = "up" /\ starts' = starts + 1
        /\ phase' = (IF Historical THEN "range" ELSE "subscribe")
        /\ since' = IF lastCheck = None THEN 0 ELSE lastCheck
        /\ UNCHANGED <<now, lastCheck, wake, covered, missed>>
        /\ NAP \in Nat \ {0}
    BY <1>2, NostrAssumption DEF IndexInv, Start
  <2>2. IndexTypes'
    BY <2>1, SMTT(20) DEF IndexTypes
  <2>3. ASSUME Historical, ~missed' PROVE IndexPhase'
    <3>1. IndexPhase /\ LeftOut(starts) \in Nat /\ LeftOut(starts + 1) \in Nat
          /\ LeftOut(starts) <= LeftOut(starts + 1)
      BY <2>1, <2>3, LeftOutGrows DEF IndexInv, IndexTypes
    <3>2. AtMost(covered, 0, 0)
      <4>1. (0 .. 0 - 1) \ covered = {}
        BY SMTT(20)
      <4> QED
        BY <4>1, FS_EmptySet DEF AtMost
    <3>3. since' \in Nat /\ since' <= now /\ AtMost(covered, since', LeftOut(starts))
      BY <2>1, <3>1, <3>2, AtMostLater, SMTT(20) DEF IndexPhase, IndexTypes
    <3>4. /\ AtMost(covered, since', LeftOut(starts + 1))
          /\ lastCheck # None => lastCheck <= now /\ AtMost(covered, lastCheck, LeftOut(starts + 1))
      BY <2>1, <3>1, <3>3, AtMostLater, SMTT(20) DEF IndexPhase, IndexTypes
    <3>5. starts' - 1 = starts
      BY <2>1 DEF IndexTypes
    <3> QED
      BY <2>1, <2>3, <3>3, <3>4, <3>5, SMTT(20) DEF IndexPhase, IndexTypes, RangeOK
  <2> QED
    BY <2>2, <2>3, SMTT(20) DEF IndexInv
<1> QED
  BY <1>1, <1>2, SMTT(20)

\* Time passes while the indexer sleeps or is subscribed.
LEMMA TickIndex ==
  ASSUME IndexInv, Tick
  PROVE  IndexInv'
<1>1. /\ IndexTypes /\ now' = now + 1 /\ ~Due
      /\ covered' = IF phase = "subscribed" THEN covered \cup {now'} ELSE covered
      /\ UNCHANGED <<status, lastCheck, phase, since, wake, missed, starts>>
  BY DEF IndexInv, Tick
<1>2. IndexTypes' /\ covered \subseteq covered'
  BY <1>1 DEF IndexTypes
<1>3. ASSUME Historical, ~missed' PROVE IndexPhase'
  <2>1. IndexPhase /\ LeftOut(starts) \in Nat
    BY <1>1, <1>3, LeftOutGrows, SMTT(20) DEF IndexInv, IndexTypes
  <2>2. lastCheck # None => lastCheck <= now' /\ AtMost(covered', lastCheck, LeftOut(starts))
    BY <1>1, <1>2, <2>1, AtMostLater, SMTT(20) DEF IndexPhase, IndexTypes
  <2>3. CASE phase = "nap"
    <3>1. now' <= wake /\ wake - NAP <= now' /\ covered' = covered
      BY <1>1, <2>1, <2>3, NostrAssumption, SMTT(20) DEF IndexPhase, IndexTypes, Due
    <3> QED
      BY <1>1, <2>1, <2>2, <2>3, <3>1, SMTT(20) DEF IndexPhase, RangeOK
  <2>4. CASE phase = "subscribed"
    <3>1. AtMost(covered', since, LeftOut(starts))
      BY <1>1, <1>2, <2>1, <2>4, AtMostLater, SMTT(20) DEF IndexPhase, IndexTypes
    <3> QED
      BY <1>1, <2>1, <2>2, <2>4, <3>1, SMTT(20) DEF IndexPhase, IndexTypes
  <2>5. CASE phase = "off"
    BY <1>1, <2>2, <2>5, SMTT(20) DEF IndexPhase
  <2> QED
    BY <1>1, <2>3, <2>4, <2>5, SMTT(20) DEF Due, IndexTypes
<1> QED
  BY <1>2, <1>3 DEF IndexInv

\* Every step keeps the index as complete as its phase says.
LEMMA NextIndex == IndexInv /\ [Next]_vars => IndexInv'
<1> SUFFICES ASSUME IndexInv, [Next]_vars PROVE IndexInv'
  BY SMTT(20)
<1>a. ASSUME UNCHANGED <<now, status, lastCheck, phase, since, wake, covered, missed, starts>>
      PROVE  IndexInv'
  BY <1>a DEF IndexInv, IndexTypes, IndexPhase, RangeOK
<1>1. ASSUME \/ \E k \in Keys : \/ \E p \in Profile : store_profile(k, p)
                                \/ \E r \in Requests : \/ NostrProfileRequest(r, k)
                                                       \/ NostrProfileSearchRequest(r, k)
             \/ UNCHANGED vars
      PROVE  IndexInv'
  <2>1. UNCHANGED <<now, status, indexVars, starts>>
    BY <1>1, Zenon DEF store_profile, NostrProfileRequest, NostrProfileSearchRequest, vars
  <2> QED
    BY <1>a, <2>1, Zenon DEF indexVars
<1>2. CASE NostrPrivateMessage
  BY <1>2 DEF IndexInv, IndexTypes, NostrPrivateMessage
<1>3. CASE RequestRange
  BY <1>a, <1>3, Zenon DEF RequestRange
<1>4. ASSUME Crash \/ Start \/ \E k \in Keys, p \in Profile : CrashInStore(k, p) PROVE IndexInv'
  BY <1>4, RestartIndex, Zenon DEF Crash, CrashInStore
<1> QED
  BY <1>1, <1>2, <1>3, <1>4, AskRangeIndex, AfterRangeIndex, SubscribeIndex, SubscriptionMovesIndex,
     TickIndex, Zenon DEF Next

\* Of the past before the stored time nothing is missing but the sleeps before
\* the subscriptions, for every length of the ranges and the sleeps, any number
\* of starts and whatever fails (profile_indexer).
THEOREM NostrIndexComplete == Spec => []IndexComplete
<1>1. Init => IndexInv
  <2>1. Init => missed \in BOOLEAN /\ (status = "down" <=> phase = "off")
    BY Zenon DEF Init
  <2>2. Init => IndexTypes
    BY <2>1, NostrAssumption, SMTT(20) DEF Init, IndexTypes
  <2>3. Init => IndexPhase
    BY DEF Init, IndexPhase
  <2> QED
    BY <2>2, <2>3 DEF IndexInv
<1>2. IndexInv => IndexComplete
  BY DEF IndexInv, IndexPhase, IndexComplete, AtMost, LeftOut
<1> QED
  BY <1>1, <1>2, NextIndex, PTL DEF Spec
=============================================================================
