------------------------------ MODULE ApiProofs ------------------------------
(***************************************************************************)
(* The answers of the API: for any number of calls, any capacity of the    *)
(* channels and any limits of the filter list, no answer taken by the      *)
(* reader is missed by a route that still waits, and routes with ids of    *)
(* their own get their own answers.  And the limiters: for any requests,   *)
(* limits and intervals, they refuse only when the limit is used up and    *)
(* let through no more than they say.                                      *)
(***************************************************************************)
EXTENDS ApiComms, ApiLimits, FiniteSetTheorems, TLAPS

\* The prover of a step that names none.
USE Zenon

(* In the initial state nothing has been asked.                            *)
LEMMA InitInv == Init => Inv
<1> SUFFICES ASSUME Init PROVE Inv
  OBVIOUS
<1>1. TypeOK
  <2>1. route \in [Routes -> {"idle", "waiting", "answered", "timeout"}] /\ since \in [Routes -> Nat]
    BY DEF Init
  <2>2. mail \in [Routes -> SUBSET Answers]
    BY DEF Init
  <2>3. waiting \in [Routes -> Nat \cup {NotListed}]
    BY DEF Init
  <2>4. inbox \in Seq(Routes) /\ ring \in Seq(Answers)
    BY SMT DEF Init
  <2>5. reader \in {"takes", "collects", "ended"} /\ taken \in Nat /\ now \in Nat /\ lagged \in BOOLEAN
    BY DEF Init
  <2> QED
    BY <2>1, <2>2, <2>3, <2>4, <2>5 DEF Init, TypeOK
<1>2. Filtered
  BY SMT DEF Init, Filtered
<1>3. Ordered
  BY SMT DEF Init, Ordered, InRing
<1>4. Expected
  BY DEF Init, Expected, InTime
<1>5. AnswerNotMissed
  BY DEF Init, AnswerNotMissed
<1> QED
  BY <1>1, <1>2, <1>3, <1>4, <1>5 DEF Inv

(* A tick only makes calls late.                                           *)
LEMMA TickInv == Inv /\ Tick => Inv'
<1> SUFFICES ASSUME Inv, Tick PROVE Inv'
  OBVIOUS
<1> USE DEF Inv, Tick, routeVars, actorVars, bankVars, readerVars
<1>1. now' = now + 1 /\ now \in Nat
  BY DEF TypeOK
<1>2. TypeOK'
  BY <1>1, SMT DEF TypeOK
<1>3. Filtered'
  BY DEF Filtered
<1>4. Ordered'
  BY <1>1, SMT DEF Ordered, InRing, TypeOK
<1>5. \A r \in Routes : InTime(r)' => InTime(r)
  BY <1>1, CommsAssumption, SMTT(20) DEF InTime, TypeOK
<1>6. \A r \in Routes : (Reached(r)' <=> Reached(r)) /\ (InRing(r)' <=> InRing(r))
  BY DEF Reached, InRing
<1>7. Expected'
  BY <1>5, <1>6 DEF Expected
<1>8. AnswerNotMissed'
  BY <1>5, <1>6 DEF AnswerNotMissed, TypeOK
<1> QED
  BY <1>2, <1>3, <1>4, <1>7, <1>8

(* A call begins with nothing known of it.                                 *)
LEMMA CallInv == ASSUME NEW r \in Routes, Inv, Call(r) PROVE Inv'
<1> USE DEF Inv, Call, bankVars, readerVars
<1>1. TypeOK'
  <2>1. inbox' \in Seq(Routes)
    BY SMT DEF TypeOK
  <2> QED
    BY <2>1 DEF TypeOK
<1>2. Filtered'
  BY DEF Filtered
<1>3. Ordered'
  BY SMTT(20) DEF Ordered, InRing, TypeOK
<1>4. \A s \in Routes \ {r} : InTime(s)' <=> InTime(s)
  BY DEF InTime, TypeOK
<1>5. \A s \in Routes : (Reached(s)' <=> Reached(s)) /\ (InRing(s)' <=> InRing(s))
  BY DEF Reached, InRing
<1>6. r \notin asked \cup sending \cup heard /\ ~InRing(r)
  BY DEF Ordered
<1>7. Expected'
  BY <1>4, <1>5, <1>6 DEF Expected
<1>8. AnswerNotMissed'
  BY <1>4, <1>5, <1>6 DEF AnswerNotMissed, TypeOK
<1> QED
  BY <1>1, <1>2, <1>3, <1>7, <1>8

(* The actor lists a filter; the call it belongs to has begun.             *)
LEMMA ListInv == Inv /\ List => Inv'
<1> SUFFICES ASSUME Inv, List PROVE Inv'
  OBVIOUS
<1> USE DEF Inv, List, routeVars, bankVars, readerVars
<1> DEFINE r == Head(inbox)
<1>1. /\ inbox \in Seq(Routes) /\ inbox # <<>> /\ r \in Routes /\ Tail(inbox) \in Seq(Routes)
      /\ r = inbox[1] /\ 1 \in DOMAIN inbox
      /\ \A i \in DOMAIN Tail(inbox) : i + 1 \in DOMAIN inbox /\ Tail(inbox)[i] = inbox[i + 1]
  BY SMT DEF TypeOK
<1>2. route[r] # "idle"
  BY <1>1 DEF Ordered
<1>3. /\ inbox' = Tail(inbox) /\ sending' = {r} /\ waiting' = [waiting EXCEPT ![r] = now] /\ sending = {}
      /\ UNCHANGED <<route, since, mail, asked, ring, lagged, reader, taken, tasks, heard, now>>
  OBVIOUS
<1> HIDE DEF r, List
<1>4. TypeOK'
  BY <1>1, <1>3 DEF TypeOK
<1>5. Filtered'
  BY <1>3 DEF Filtered
<1>6. \A s \in Routes : /\ InTime(s)' <=> InTime(s)
                        /\ Reached(s)' <=> Reached(s)
                        /\ InRing(s)' <=> InRing(s)
  BY <1>3 DEF Reached, InRing, InTime
<1>7. \A s \in Routes \ {r} : waiting'[s] = waiting[s]
  BY <1>1, <1>3 DEF TypeOK
<1>8. waiting'[r] = now /\ now \in Nat /\ now # NotListed
  BY <1>1, <1>3, SMT DEF TypeOK, NotListed
<1>9. Ordered'
  <2>1. \A i \in DOMAIN inbox' : route[inbox'[i]] # "idle"
    BY <1>1, <1>3 DEF Ordered
  <2>2. \A s \in Routes : since[s] <= now /\ (waiting'[s] # NotListed => since[s] <= waiting'[s])
    BY <1>7, <1>8 DEF Ordered
  <2>3. \A s \in Routes : route[s] = "idle" =>
          s \notin asked \cup {r} \cup heard /\ waiting'[s] = NotListed /\ ~InRing(s)
    BY <1>2, <1>7 DEF Ordered
  <2> QED
    BY <1>3, <1>6, <2>1, <2>2, <2>3 DEF Ordered
<1>10. Expected'
  BY <1>3, <1>6, <1>7, <1>8 DEF Expected
<1>11. AnswerNotMissed'
  BY <1>3, <1>6 DEF AnswerNotMissed, TypeOK
<1> QED
  BY <1>4, <1>5, <1>9, <1>10, <1>11

(* A request moves from the actor to the bank.                             *)
LEMMA SendInv == Inv /\ Send => Inv'
<1> SUFFICES ASSUME Inv, Send PROVE Inv'
  OBVIOUS
<1> USE DEF Inv, Send, routeVars, readerVars
<1>1. TypeOK'
  BY DEF TypeOK
<1>2. Filtered'
  BY DEF Filtered
<1>3. \A s \in Routes : /\ InTime(s)' <=> InTime(s)
                        /\ Reached(s)' <=> Reached(s)
                        /\ InRing(s)' <=> InRing(s)
  BY DEF Reached, InRing, InTime
<1>4. Ordered'
  BY <1>3 DEF Ordered
<1>5. Expected'
  BY <1>3 DEF Expected
<1>6. AnswerNotMissed'
  BY <1>3 DEF AnswerNotMissed, TypeOK
<1> QED
  BY <1>1, <1>2, <1>4, <1>5, <1>6

(* The answer to r is broadcast; it may overwrite another one.             *)
LEMMA BroadcastInv == ASSUME NEW r \in Routes, Inv, Broadcast(r) PROVE Inv'
<1> USE DEF Inv
<1>1. PICK k \in AnswerKinds(r) :
        LET m == [kind |-> k, id |-> IdOf[r], of |-> r]
        IN  \/ Len(ring) < Capacity /\ ring' = Append(ring, m) /\ UNCHANGED lagged
            \/ Len(ring) >= Capacity /\ ring' = Append(Tail(ring), m) /\ lagged' = TRUE
  BY DEF Broadcast
<1>2. PICK m : m = [kind |-> k, id |-> IdOf[r], of |-> r]
  OBVIOUS
<1>3. WellFormed(m) /\ m \in Answers /\ m.of = r
  BY <1>2, CommsAssumption DEF WellFormed, Answers, AnswerKinds, Kinds
<1>4. /\ r \in asked /\ asked' = asked \ {r}
      /\ UNCHANGED <<route, since, mail, inbox, sending, waiting, reader, taken, tasks, heard, now>>
  BY DEF Broadcast, routeVars, actorVars, readerVars
<1>5. /\ ring' \in Seq(Answers) /\ lagged' \in BOOLEAN
      /\ \A i \in DOMAIN ring' : ring'[i] = m \/ \E j \in DOMAIN ring : ring'[i] = ring[j]
  <2>1. ring \in Seq(Answers)
    BY DEF TypeOK
  <2>2. CASE ring' = Append(ring, m) /\ UNCHANGED lagged
    BY <1>3, <2>1, <2>2, SMT DEF TypeOK
  <2>3. CASE Len(ring) >= Capacity /\ ring' = Append(Tail(ring), m) /\ lagged' = TRUE
    <3>1. ring # <<>>
      BY <2>3, CommsAssumption, SMT
    <3>2. Tail(ring) \in Seq(Answers) /\ \A i \in DOMAIN Tail(ring) : i + 1 \in DOMAIN ring /\ Tail(ring)[i] = ring[i + 1]
      BY <2>1, <3>1, SMT
    <3> QED
      BY <1>3, <2>3, <3>2, SMT
  <2> QED
    BY <1>1, <1>2, <2>2, <2>3
<1>6. TypeOK'
  BY <1>4, <1>5 DEF TypeOK
<1>7. Filtered'
  BY <1>3, <1>4, <1>5 DEF Filtered
<1>8. \A s \in Routes : /\ InTime(s)' <=> InTime(s)
                        /\ Reached(s)' <=> Reached(s)
                        /\ InRing(s)' => InRing(s) \/ s = r
  BY <1>3, <1>4, <1>5 DEF Reached, InRing, InTime
<1>9. Ordered'
  BY <1>4, <1>8 DEF Ordered
<1>10. Expected'
  BY <1>4, <1>8 DEF Expected
<1>11. AnswerNotMissed'
  BY <1>4, <1>8 DEF AnswerNotMissed, TypeOK
<1> QED
  BY <1>6, <1>7, <1>9, <1>10, <1>11

(* The reader takes a message: the route that asked is listed or reached,  *)
(* and its filter accepts the answer.                                      *)
LEMMA TakeInv == Inv /\ Take => Inv'
<1> SUFFICES ASSUME Inv, Take PROVE Inv'
  OBVIOUS
<1> USE DEF Inv
<1>1. PICK m : m = Head(ring)
  OBVIOUS
<1>2. PICK D : D = Drained(m)
  OBVIOUS
<1>3. /\ ring # <<>> /\ ring' = Tail(ring)
      /\ tasks' = tasks \cup {[to |-> s, answer |-> m] : s \in D}
      /\ waiting' = [s \in Routes |-> IF s \in D THEN NotListed ELSE waiting[s]]
      /\ heard' = heard \cup {m.of}
      /\ reader' = "collects" /\ taken' = now
      /\ UNCHANGED <<route, since, mail, inbox, sending, asked, lagged, now>>
  BY <1>1, <1>2 DEF Take, routeVars, actorVars
<1>4. /\ ring \in Seq(Answers) /\ 1 \in DOMAIN ring /\ m = ring[1] /\ Tail(ring) \in Seq(Answers)
      /\ \A i \in DOMAIN Tail(ring) : i + 1 \in DOMAIN ring /\ Tail(ring)[i] = ring[i + 1]
  BY <1>1, <1>3, SMT DEF TypeOK
<1>5. WellFormed(m)
  BY <1>4 DEF Filtered
<1>6. m \in Answers /\ m.of \in Routes /\ Accepts(m.of, m)
  BY <1>5 DEF WellFormed, Answers, Accepts
<1>7. D \subseteq Routes /\ \A s \in Routes : s \in D <=> waiting[s] # NotListed /\ Accepts(s, m)
  BY <1>2 DEF Drained, Listed
<1>8. \A t \in tasks' : t \in tasks \/ (t.to \in D /\ t.answer = m /\ t \in [to : Routes, answer : Answers])
  BY <1>3, <1>6, <1>7, SMT
<1>9. \A s \in D : \E t \in tasks' : t.to = s
  <2> SUFFICES ASSUME NEW s \in D PROVE \E t \in tasks' : t.to = s
    OBVIOUS
  <2>1. [to |-> s, answer |-> m] \in tasks'
    BY <1>3
  <2> QED
    BY <2>1
<1>10. TypeOK'
  BY <1>3, <1>4, <1>6, <1>8 DEF TypeOK
<1>11. Filtered'
  <2>1. \A i \in DOMAIN ring' : WellFormed(ring'[i])
    BY <1>3, <1>4 DEF Filtered
  <2>2. \A t \in tasks' : WellFormed(t.answer) /\ Accepts(t.to, t.answer)
    BY <1>5, <1>7, <1>8 DEF Filtered
  <2> QED
    BY <1>3, <2>1, <2>2 DEF Filtered
<1>12. \A s \in Routes : InTime(s)' <=> InTime(s)
  BY <1>3 DEF InTime
<1>13. \A s \in Routes : Reached(s) \/ s \in D => Reached(s)'
  BY <1>3, <1>9 DEF Reached
<1>14. \A s \in Routes : InRing(s)' => InRing(s)
  BY <1>3, <1>4 DEF InRing
<1>15. InRing(m.of)
  BY <1>4 DEF InRing
<1>16. \A s \in Routes : waiting'[s] = IF s \in D THEN NotListed ELSE waiting[s]
  BY <1>3
<1>17. Ordered'
  BY <1>3, <1>14, <1>15, <1>16, SMT DEF Ordered, TypeOK
<1>18. Expected'
  BY <1>3, <1>12, <1>13, <1>14, <1>16 DEF Expected
<1>19. AnswerNotMissed'
  <2>1. InTime(m.of) => Reached(m.of)'
    BY <1>6, <1>7, <1>13, <1>15 DEF Expected
  <2> QED
    BY <1>3, <1>6, <1>12, <1>13, <2>1 DEF AnswerNotMissed, TypeOK
<1> QED
  BY <1>10, <1>11, <1>17, <1>18, <1>19

(* The clean-up drops only filters whose routes have waited too long.      *)
LEMMA CollectInv == Inv /\ Collect => Inv'
<1> SUFFICES ASSUME Inv, Collect PROVE Inv'
  OBVIOUS
<1> USE DEF Inv
<1>1. /\ reader' = "takes"
      /\ UNCHANGED <<route, since, mail, inbox, sending, asked, ring, lagged, taken, tasks, heard, now>>
  BY DEF Collect, routeVars, actorVars, bankVars
<1>2. \/ waiting' = waiting
      \/ waiting' = [s \in Routes |-> IF s \in Expired THEN NotListed ELSE waiting[s]]
  BY DEF Collect
<1>3. \A s \in Routes : waiting'[s] = waiting[s] \/ (s \in Expired /\ waiting'[s] = NotListed)
  BY <1>2 DEF TypeOK
<1>4. waiting' \in [Routes -> Nat \cup {NotListed}]
  BY <1>2 DEF TypeOK
<1>5. \A s \in Routes : s \in Expired => ~InTime(s)
  BY CommsAssumption, SMTT(20) DEF Expired, Listed, InTime, Ordered, TypeOK
<1>6. TypeOK'
  BY <1>1, <1>4 DEF TypeOK
<1>7. Filtered'
  BY <1>1 DEF Filtered
<1>8. \A s \in Routes : /\ InTime(s)' <=> InTime(s)
                        /\ Reached(s)' <=> Reached(s)
                        /\ InRing(s)' <=> InRing(s)
  BY <1>1 DEF Reached, InRing, InTime
<1>9. Ordered'
  BY <1>1, <1>3, <1>8 DEF Ordered
<1>10. Expected'
  BY <1>1, <1>3, <1>5, <1>8 DEF Expected
<1>11. AnswerNotMissed'
  BY <1>1, <1>8 DEF AnswerNotMissed, TypeOK
<1> QED
  BY <1>6, <1>7, <1>9, <1>10, <1>11

(* The end of the reader leaves everything where it is.                    *)
LEMMA ReaderEndsInv == Inv /\ ReaderEnds => Inv'
<1> SUFFICES ASSUME Inv, ReaderEnds PROVE Inv'
  OBVIOUS
<1> USE DEF Inv, ReaderEnds, routeVars, actorVars, bankVars
<1>1. TypeOK'
  BY DEF TypeOK
<1>2. Filtered'
  BY DEF Filtered
<1>3. \A s \in Routes : /\ InTime(s)' <=> InTime(s)
                        /\ Reached(s)' <=> Reached(s)
                        /\ InRing(s)' <=> InRing(s)
  BY DEF Reached, InRing, InTime
<1>4. Ordered' /\ Expected' /\ AnswerNotMissed'
  BY <1>3 DEF Ordered, Expected, AnswerNotMissed, TypeOK
<1> QED
  BY <1>1, <1>2, <1>4

(* A spawned send ends in the channel of a route that still waits.         *)
LEMMA DeliverInv == ASSUME NEW t \in tasks, Inv, Deliver(t) PROVE Inv'
<1> USE DEF Inv
<1>1. /\ tasks' = tasks \ {t}
      /\ UNCHANGED <<route, since, inbox, sending, waiting, asked, ring, lagged, reader, taken, heard, now>>
      /\ \/ route[t.to] = "waiting" /\ mail' = [mail EXCEPT ![t.to] = {t.answer}]
         \/ route[t.to] # "waiting" /\ mail' = mail
  BY DEF Deliver, actorVars, bankVars
<1>2. t.to \in Routes /\ t.answer \in Answers /\ WellFormed(t.answer) /\ Accepts(t.to, t.answer)
  BY DEF TypeOK, Filtered
<1>3. /\ \A s \in Routes : mail'[s] = mail[s] \/ (s = t.to /\ mail'[s] = {t.answer})
      /\ route[t.to] = "waiting" => mail'[t.to] = {t.answer}
  BY <1>1, <1>2 DEF TypeOK
<1>4. TypeOK'
  <2>1. mail' \in [Routes -> SUBSET Answers]
    <3>1. {t.answer} \in SUBSET Answers
      BY <1>2
    <3> QED
      BY <1>1, <1>2, <3>1 DEF TypeOK
  <2> QED
    BY <1>1, <2>1 DEF TypeOK
<1>5. Filtered'
  <2>1. \A s \in Routes : \A m \in mail'[s] : WellFormed(m) /\ Accepts(s, m)
    BY <1>2, <1>3 DEF Filtered
  <2> QED
    BY <1>1, <2>1 DEF Filtered
<1>6. \A s \in Routes : (InTime(s)' <=> InTime(s)) /\ (InRing(s)' <=> InRing(s))
  BY <1>1 DEF InRing, InTime
<1>7. \A s \in Routes : InTime(s) /\ Reached(s) => Reached(s)'
  BY <1>1, <1>2, <1>3 DEF Reached, InTime
<1>8. Ordered'
  BY <1>1, <1>6 DEF Ordered
<1>9. Expected'
  BY <1>1, <1>6, <1>7 DEF Expected
<1>10. AnswerNotMissed'
  BY <1>1, <1>6, <1>7 DEF AnswerNotMissed, TypeOK
<1> QED
  BY <1>4, <1>5, <1>8, <1>9, <1>10

(* A call that has ended no longer waits.                                  *)
LEMMA EndInv == ASSUME NEW r \in Routes, Inv, Receive(r) \/ TimeOut(r) PROVE Inv'
<1> USE DEF Inv
<1>1. PICK end \in {"answered", "timeout"} :
        /\ route' = [route EXCEPT ![r] = end] /\ route[r] = "waiting"
        /\ UNCHANGED <<since, mail, inbox, sending, waiting, asked, ring, lagged, reader, taken, tasks, heard, now>>
  BY DEF Receive, TimeOut, actorVars, bankVars, readerVars
<1>2. TypeOK'
  BY <1>1 DEF TypeOK
<1>3. Filtered'
  BY <1>1 DEF Filtered
<1>4. \A s \in Routes : /\ InTime(s)' => InTime(s)
                        /\ Reached(s)' <=> Reached(s)
                        /\ InRing(s)' <=> InRing(s)
  BY <1>1 DEF Reached, InRing, InTime, TypeOK
<1>5. Ordered'
  <2>1. \A s \in Routes : route'[s] = "idle" => route[s] = "idle"
    BY <1>1 DEF TypeOK
  <2>2. \A i \in DOMAIN inbox : inbox[i] \in Routes
    BY SMT DEF TypeOK
  <2> QED
    BY <1>1, <1>4, <2>1, <2>2 DEF Ordered
<1>6. Expected'
  BY <1>1, <1>4 DEF Expected
<1>7. AnswerNotMissed'
  BY <1>1, <1>4 DEF AnswerNotMissed, TypeOK
<1> QED
  BY <1>2, <1>3, <1>5, <1>6, <1>7

(* Nothing the invariant speaks of changes in a stuttering step.           *)
LEMMA StutterInv == Inv /\ UNCHANGED vars => Inv'
<1> SUFFICES ASSUME Inv, UNCHANGED vars PROVE Inv'
  OBVIOUS
<1> USE DEF Inv, vars, routeVars, actorVars, bankVars, readerVars
<1>1. TypeOK' /\ Filtered'
  BY DEF TypeOK, Filtered
<1>2. \A s \in Routes : /\ InTime(s)' <=> InTime(s)
                        /\ Reached(s)' <=> Reached(s)
                        /\ InRing(s)' <=> InRing(s)
  BY DEF Reached, InRing, InTime
<1>3. Ordered' /\ Expected' /\ AnswerNotMissed'
  BY <1>2 DEF Ordered, Expected, AnswerNotMissed, TypeOK
<1> QED
  BY <1>1, <1>3

(* The invariant of the comms actor, its reader and the waiting routes     *)
(* holds for any number of calls and any capacities, limits and waits.     *)
THEOREM CommsInvariant == Spec => []Inv
<1>1. Inv /\ [Next]_vars => Inv'
  <2> SUFFICES ASSUME Inv, [Next]_vars PROVE Inv'
    OBVIOUS
  <2> QED
    BY TickInv, ListInv, SendInv, TakeInv, ReaderEndsInv, CollectInv, CallInv, BroadcastInv, EndInv,
       DeliverInv, StutterInv DEF Next
<1> QED
  BY <1>1, InitInv, PTL DEF Spec

(* No route that still waits, and waits no longer than filters live,       *)
(* misses an answer that the reader has taken.                             *)
THEOREM NoAnswerMissed == Spec => []AnswerNotMissed
<1>1. Inv => AnswerNotMissed
  BY DEF Inv
<1> QED
  BY <1>1, CommsInvariant, PTL

(* The filters of the routes that draw fresh ids let through the answer to *)
(* the route's own request and no other.                                   *)
THEOREM RoutesGetOwnAnswer == Spec => []OwnAnswer
<1>1. Inv => OwnAnswer
  <2> SUFFICES ASSUME Inv, NEW r \in Routes, KindOf[r] \in {"payment", "plain"}, NEW m \in mail[r]
               PROVE  m.of = r
    BY DEF OwnAnswer
  <2>1. WellFormed(m) /\ Accepts(r, m)
    BY DEF Inv, Filtered
  <2>2. m.of \in Routes /\ m.id = IdOf[m.of] /\ m.id = IdOf[r]
    BY <2>1 DEF WellFormed, Accepts, Answers
  <2>3. KindOf[r] = "plain" => KindOf[m.of] # "withdrawal"
    BY <2>1 DEF WellFormed, Accepts, AnswerKinds
  <2> QED
    BY <2>2, <2>3, CommsAssumption
<1> QED
  BY <1>1, CommsInvariant, PTL

-----------------------------------------------------------------------------
(***************************************************************************)
(* The limiters of ApiLimits.                                              *)
(***************************************************************************)
\* A request is let through once, so a window charges each request once.
RateInv ==
  /\ Rate!TypeOK
  /\ entry # Rate!NoEntry => entry + Cardinality(admitted) >= MaxRequests
  /\ IsFiniteSet(admitted) /\ \A r \in admitted : request[r] = "passed"

\* The places of this interval are those on the counter and those that calls of
\* an earlier interval gave back.
CreationInv ==
  /\ Creation!TypeOK /\ IsFiniteSet(counted)
  /\ created <= Cardinality(counted) /\ Cardinality(counted) <= created + late /\ created <= Quota

\* The counter is one behind the checks that passed at most, and ahead of them
\* only at the limit; a request passes each of its two checks once.
BankInv ==
  /\ Bank!TypeOK /\ IsFiniteSet(passes)
  /\ Cardinality(passes) <= counter + 1 /\ Cardinality(passes) <= RequestLimit + 1
  /\ Cardinality(passes) >= counter \/ Cardinality(passes) >= RequestLimit
  /\ lastRequest = Bank!Never => counter = 0
  /\ \A p \in Requests, x \in Bank!Places :
       <<p, x>> \in passes => payment[p] # "new" /\ (x = "served" => payment[p] = "served")

\* The inductive invariant of the limiters.
LimitsInv == RateInv /\ CreationInv /\ BankInv /\ now \in 0 .. MaxTime

(* What the finite sets of the limiters count.                             *)
LEMMA OneMore ==
  ASSUME NEW S, NEW x, IsFiniteSet(S), x \notin S
  PROVE  /\ Cardinality(S) \in Nat /\ IsFiniteSet(S \cup {x})
         /\ Cardinality(S \cup {x}) = Cardinality(S) + 1
BY FS_AddElement, FS_CardinalityType

LEMMA LimitsInitInv ==
  ASSUME LimitsInit
  PROVE  LimitsInv
<1> USE LimitsAssumption DEF LimitsInit
<1>1. RateInv
  BY FS_EmptySet DEF RateInv, Rate!Init, Rate!TypeOK, Rate!NoEntry, Rate!Steps
<1>2. CreationInv
  <2>1. counted = {} /\ IsFiniteSet(counted) /\ Cardinality(counted) = 0
    BY FS_EmptySet DEF Creation!Init
  <2>2. Creation!TypeOK
    BY SMT DEF Creation!Init, Creation!TypeOK, Creation!Places
  <2> QED
    BY <2>1, <2>2, SMT DEF CreationInv, Creation!Init
<1>3. BankInv
  <2>1. passes = {} /\ IsFiniteSet(passes) /\ Cardinality(passes) = 0
    BY FS_EmptySet DEF Bank!Init
  <2>2. Bank!TypeOK
    BY DEF Bank!Init, Bank!TypeOK, Bank!Places, Bank!Never
  <2> QED
    BY <2>1, <2>2, SMT DEF BankInv, Bank!Init
<1> QED
  BY <1>1, <1>2, <1>3, SMTT(20) DEF LimitsInv

(* A window that a request opens or is charged to stays earned.            *)
LEMMA Charged ==
  ASSUME RateInv, now \in 0 .. MaxTime, NEW r \in Requests,
         request[r] \in {"set", "update"}, Rate!Goes(r, "passed"), admitted' = admitted \cup {r},
         seen' = seen, timers' \subseteq [by : Requests, due : 0 .. MaxTime],
         \/ entry' = MaxRequests - 1
         \/ entry # Rate!NoEntry /\ entry' = Rate!Decremented(entry)
  PROVE  RateInv'
<1>1. r \notin admitted
  BY DEF RateInv
<1>2. /\ Cardinality(admitted) \in Nat /\ IsFiniteSet(admitted')
      /\ Cardinality(admitted') = Cardinality(admitted) + 1
  BY <1>1, OneMore DEF RateInv
<1>3. entry' \in 0 .. MaxRequests - 1
  BY LimitsAssumption, SMT DEF RateInv, Rate!TypeOK, Rate!NoEntry, Rate!Decremented
<1>4. entry' + (Cardinality(admitted) + 1) >= MaxRequests
  <2>1. CASE entry' = MaxRequests - 1
    BY <1>2, <2>1, LimitsAssumption, SMTT(20)
  <2>2. CASE entry # Rate!NoEntry /\ entry' = Rate!Decremented(entry)
    <3>1. entry \in Nat /\ entry + Cardinality(admitted) >= MaxRequests
      BY <2>2, LimitsAssumption, SMTT(20) DEF RateInv, Rate!TypeOK
    <3> QED
      BY <1>2, <2>2, <3>1, LimitsAssumption, SMTT(20) DEF Rate!Decremented
  <2> QED
    BY <2>1, <2>2
<1>5. request' \in [Requests -> Rate!Steps] /\ \A q \in admitted' : request'[q] = "passed"
  BY DEF RateInv, Rate!TypeOK, Rate!Goes, Rate!Steps
<1>6. admitted' \subseteq Requests
  BY DEF RateInv, Rate!TypeOK
<1>7. Rate!TypeOK'
  BY <1>3, <1>5, <1>6 DEF RateInv, Rate!TypeOK
<1> QED
  BY <1>2, <1>4, <1>5, <1>7 DEF RateInv

(* The messages of a request to the store.                                 *)
LEMMA RateStep ==
  ASSUME RateInv, now \in 0 .. MaxTime, NEW r \in Requests, Rate!Step(r)
  PROVE  RateInv'
<1> USE LimitsAssumption
<1>1. ASSUME NEW step \in Rate!Steps, Rate!Goes(r, step), request[r] # "passed",
             UNCHANGED <<entry, timers, admitted>>, seen' \in [Requests -> {Rate!NoEntry} \cup 0 .. MaxRequests - 1]
      PROVE  RateInv'
  BY <1>1 DEF RateInv, Rate!TypeOK, Rate!Goes
<1>2. CASE Rate!Get(r)
  BY <1>1, <1>2 DEF Rate!Get, Rate!Steps, RateInv, Rate!TypeOK
<1>3. CASE Rate!Expire(r)
  BY <1>1, <1>3 DEF Rate!Expire, Rate!Steps, RateInv, Rate!TypeOK
<1>4. CASE Rate!Update(r)
  <2>1. CASE entry = Rate!NoEntry
    BY <1>1, <1>4, <2>1 DEF Rate!Update, Rate!Steps, RateInv, Rate!TypeOK
  <2>2. CASE entry # Rate!NoEntry
    <3>1. timers' \subseteq [by : Requests, due : 0 .. MaxTime]
      BY <1>4 DEF Rate!Update, RateInv, Rate!TypeOK
    <3> QED
      BY <1>4, <2>2, <3>1, Charged DEF Rate!Update
  <2> QED
    BY <2>1, <2>2
<1>5. CASE Rate!Set(r)
  <2>1. timers' \subseteq [by : Requests, due : 0 .. MaxTime]
    BY <1>5, SMTT(20) DEF Rate!Set, RateInv, Rate!TypeOK
  <2> QED
    BY <1>5, <2>1, Charged DEF Rate!Set
<1> QED
  BY <1>2, <1>3, <1>4, <1>5 DEF Rate!Step

(* A timer that fires ends the window.                                     *)
LEMMA RateRemove ==
  ASSUME RateInv, NEW t \in timers, Rate!Remove(t)
  PROVE  RateInv'
BY FS_EmptySet DEF Rate!Remove, RateInv, Rate!TypeOK

(* A call takes a place, uses it or gives it back.                         *)
LEMMA CreationStep ==
  ASSUME CreationInv, now \in 0 .. MaxTime, NEW c \in Requests, Creation!Step(c)
  PROVE  CreationInv'
<1> USE LimitsAssumption
<1>1. /\ enabled \in BOOLEAN /\ created \in Nat /\ late \in Nat /\ intervalStart \in 0 .. MaxTime
      /\ call \in [Requests -> Creation!Places]
      /\ counted \subseteq {d \in Requests : call[d] \in {"counted", "failing", "created"}}
      /\ IsFiniteSet(counted) /\ Cardinality(counted) \in Nat
      /\ created <= Cardinality(counted) /\ created <= Quota /\ Cardinality(counted) <= created + late
  BY FS_CardinalityType DEF CreationInv, Creation!TypeOK
<1>2. ASSUME enabled' \in BOOLEAN, intervalStart' \in 0 .. MaxTime, late' \in Nat, created' \in 0 .. Quota,
             call' \in [Requests -> Creation!Places],
             counted' \subseteq {d \in Requests : call'[d] \in {"counted", "failing", "created"}},
             IsFiniteSet(counted'), Cardinality(counted') \in Nat,
             created' <= Cardinality(counted'), Cardinality(counted') <= created' + late'
      PROVE  CreationInv'
  BY <1>2, SMTT(20) DEF CreationInv, Creation!TypeOK
<1>3. CASE Creation!Create(c) /\ ~enabled
  BY <1>1, <1>2, <1>3, SMTT(20) DEF Creation!Create, Creation!Places
<1>4. CASE Creation!Create(c) /\ enabled
  <2> DEFINE n == IF Creation!Elapsed THEN 0 ELSE created
             held == IF Creation!Elapsed THEN {} ELSE counted
             k == IF Creation!Elapsed THEN 0 ELSE late
  <2>1. /\ n \in Nat /\ k \in Nat /\ IsFiniteSet(held) /\ Cardinality(held) \in Nat /\ c \notin held
        /\ n <= Cardinality(held) /\ n <= Quota /\ Cardinality(held) <= n + k /\ held \subseteq counted
    BY <1>1, <1>4, FS_EmptySet, SMTT(20) DEF Creation!Create
  <2>2. /\ call[c] = "new" /\ enabled' = enabled /\ late' = k
        /\ intervalStart' = IF Creation!Elapsed THEN now ELSE intervalStart
        /\ \/ /\ n < Quota /\ created' = n + 1 /\ counted' = held \cup {c}
              /\ call' = [call EXCEPT ![c] = "counted"]
           \/ n >= Quota /\ created' = n /\ counted' = held /\ call' = [call EXCEPT ![c] = "refused"]
    BY <1>4 DEF Creation!Create, Creation!Increase
  <2> HIDE DEF n, held, k
  <2>3. intervalStart' \in 0 .. MaxTime /\ enabled' \in BOOLEAN
    BY <1>1, <2>2
  <2>4. CASE /\ n < Quota /\ created' = n + 1 /\ counted' = held \cup {c}
             /\ call' = [call EXCEPT ![c] = "counted"]
    <3>1. IsFiniteSet(counted') /\ Cardinality(counted') = Cardinality(held) + 1
      BY <2>1, <2>4, OneMore
    <3>2. /\ call' \in [Requests -> Creation!Places]
          /\ counted' \subseteq {d \in Requests : call'[d] \in {"counted", "failing", "created"}}
      BY <1>1, <2>1, <2>4 DEF Creation!Places
    <3>3. created' \in 0 .. Quota
      BY <2>1, <2>4, SMTT(20)
    <3> QED
      BY <1>2, <2>1, <2>2, <2>3, <2>4, <3>1, <3>2, <3>3, SMTT(20)
  <2>5. CASE n >= Quota /\ created' = n /\ counted' = held /\ call' = [call EXCEPT ![c] = "refused"]
    <3>1. /\ call' \in [Requests -> Creation!Places]
          /\ counted' \subseteq {d \in Requests : call'[d] \in {"counted", "failing", "created"}}
      BY <1>1, <2>1, <2>5 DEF Creation!Places
    <3>2. created' \in 0 .. Quota
      BY <2>1, <2>5, SMTT(20)
    <3> QED
      BY <1>2, <2>1, <2>2, <2>3, <2>5, <3>1, <3>2
  <2> QED
    BY <2>2, <2>4, <2>5
<1>5. CASE Creation!Insert(c)
  <2>1. PICK outcome \in {"created", "failing"} : call' = [call EXCEPT ![c] = outcome]
    BY <1>5 DEF Creation!Insert
  <2>2. /\ call' \in [Requests -> Creation!Places]
        /\ counted' \subseteq {d \in Requests : call'[d] \in {"counted", "failing", "created"}}
    BY <1>1, <1>5, <2>1 DEF Creation!Places, Creation!Insert
  <2>3. created' \in 0 .. Quota
    BY <1>1, <1>5, SMTT(20) DEF Creation!Insert
  <2> QED
    BY <1>1, <1>2, <1>5, <2>2, <2>3 DEF Creation!Insert
<1>6. CASE Creation!Decrease(c)
  <2>1. /\ call' = [call EXCEPT ![c] = "failed"] /\ counted' = counted \ {c}
        /\ UNCHANGED <<enabled, intervalStart>>
        /\ created' = IF created > 0 THEN created - 1 ELSE 0
        /\ late' = IF c \in counted \/ created = 0 THEN late ELSE late + 1
    BY <1>6 DEF Creation!Decrease
  <2>2. /\ IsFiniteSet(counted')
        /\ Cardinality(counted') = IF c \in counted THEN Cardinality(counted) - 1 ELSE Cardinality(counted)
    BY <1>1, <2>1, FS_RemoveElement
  <2>3. c \in counted => Cardinality(counted) >= 1
    BY <1>1, FS_EmptySet, SMTT(20)
  <2>4. /\ call' \in [Requests -> Creation!Places]
        /\ counted' \subseteq {d \in Requests : call'[d] \in {"counted", "failing", "created"}}
    BY <1>1, <2>1 DEF Creation!Places
  <2>5. created' \in 0 .. Quota /\ late' \in Nat
    BY <1>1, <2>1, SMTT(20)
  <2>6. Cardinality(counted') \in Nat /\ created' <= Cardinality(counted') /\ Cardinality(counted') <= created' + late'
    BY <1>1, <2>1, <2>2, <2>3, SMTT(20)
  <2> QED
    BY <1>1, <1>2, <2>1, <2>2, <2>4, <2>5, <2>6
<1> QED
  BY <1>3, <1>4, <1>5, <1>6 DEF Creation!Step, Creation!Create

(* An administrator closes or opens the registration.                      *)
LEMMA CreationSwitch ==
  ASSUME CreationInv, Creation!SetEnabled
  PROVE  CreationInv'
BY DEF CreationInv, Creation!SetEnabled, Creation!TypeOK

(* The check of one run of the payment handler.                            *)
LEMMA CheckStep ==
  ASSUME BankInv, now \in 0 .. MaxTime, NEW p \in Requests,
         NEW next \in {"served", "at_dealer"}, Bank!Check(p, next),
         payment[p] = "new" \/ (payment[p] = "at_dealer" /\ next = "served")
  PROVE  /\ BankInv'
         /\ \A q \in Requests : payment[q] # "refused" /\ payment'[q] = "refused" =>
              Cardinality(passes) >= RequestLimit /\ now - lastRequest < BankInterval
<1> DEFINE begin == IF lastRequest = Bank!Never THEN now ELSE lastRequest
           running == now - begin < BankInterval
           refused == running /\ counter + 1 > RequestLimit
           kept == IF running THEN passes ELSE {}
<1> RequestLimit \in Nat \ {0} /\ BankInterval \in Nat /\ MaxTime \in Nat
  BY LimitsAssumption
<1>1. /\ counter' = (IF running THEN counter + 1 ELSE 0)
      /\ lastRequest' = (IF running THEN begin ELSE now)
      /\ payment' = [payment EXCEPT ![p] = IF refused THEN "refused" ELSE next]
      /\ passes' = kept \cup (IF refused THEN {} ELSE {<<p, next>>})
  BY DEF Bank!Check, Bank!OverLimit
<1>2. /\ counter \in Nat /\ lastRequest \in {Bank!Never} \cup 0 .. MaxTime
      /\ payment \in [Requests -> Bank!Places] /\ passes \subseteq Requests \X Bank!Places
      /\ IsFiniteSet(passes) /\ Cardinality(passes) \in Nat
  BY FS_CardinalityType DEF BankInv, Bank!TypeOK
<1>3. /\ Cardinality(passes) <= counter + 1 /\ Cardinality(passes) <= RequestLimit + 1
      /\ Cardinality(passes) >= counter \/ Cardinality(passes) >= RequestLimit
      /\ lastRequest = Bank!Never => counter = 0
  BY DEF BankInv
<1>4. \A q \in Requests, x \in Bank!Places :
        <<q, x>> \in passes => payment[q] # "new" /\ (x = "served" => payment[q] = "served")
  BY DEF BankInv
<1>5. p \in Requests /\ next \in Bank!Places /\ <<p, next>> \notin passes /\ <<p, "served">> \notin passes
  BY <1>4 DEF Bank!Places
<1>6. lastRequest' \in 0 .. MaxTime /\ lastRequest' # Bank!Never
  BY <1>1, <1>2, SMTT(20) DEF Bank!Never
<1> HIDE DEF begin
<1>7. refused => Cardinality(passes) >= RequestLimit
  BY <1>2, <1>3, SMTT(20)
<1>8. refused => lastRequest # Bank!Never
  BY <1>3, SMTT(20)
<1>9. /\ IsFiniteSet(kept) /\ Cardinality(kept) \in Nat /\ <<p, next>> \notin kept /\ kept \subseteq passes
      /\ running => kept = passes
      /\ ~running => Cardinality(kept) = 0
  BY <1>2, <1>5, FS_EmptySet, SMTT(20)
<1>10. ASSUME ~refused
       PROVE  IsFiniteSet(passes') /\ Cardinality(passes') = Cardinality(kept) + 1
  BY <1>1, <1>9, <1>10, OneMore
<1>11. ASSUME refused
       PROVE  IsFiniteSet(passes') /\ Cardinality(passes') = Cardinality(passes) /\ counter' = counter + 1
  <2>1. passes' = passes
    BY <1>1, <1>11
  <2> QED
    BY <1>1, <1>2, <1>11, <2>1
<1> HIDE DEF kept
<1>12. /\ counter' \in Nat /\ IsFiniteSet(passes')
       /\ Cardinality(passes') <= counter' + 1 /\ Cardinality(passes') <= RequestLimit + 1
       /\ Cardinality(passes') >= counter' \/ Cardinality(passes') >= RequestLimit
  <2>1. CASE refused
    BY <1>2, <1>3, <1>7, <1>11, <2>1, SMTT(20)
  <2>2. CASE ~refused /\ running
    <3>1. Cardinality(passes') = Cardinality(passes) + 1 /\ counter' = counter + 1 /\ counter + 1 <= RequestLimit
      BY <1>1, <1>2, <1>9, <1>10, <2>2, SMTT(20)
    <3> QED
      BY <1>2, <1>3, <1>10, <2>2, <3>1, SMTT(20)
  <2>3. CASE ~running
    BY <1>1, <1>9, <1>10, <2>3, SMTT(20)
  <2> QED
    BY <2>1, <2>2, <2>3
<1> HIDE DEF running
<1>13. payment' \in [Requests -> Bank!Places] /\ passes' \subseteq Requests \X Bank!Places
  BY <1>1, <1>2, <1>5, <1>9, SMTT(20) DEF Bank!Places
<1>14. ASSUME NEW q \in Requests, NEW x \in Bank!Places, <<q, x>> \in passes'
       PROVE  payment'[q] # "new" /\ (x = "served" => payment'[q] = "served")
  <2>1. CASE <<q, x>> \in passes
    BY <1>1, <1>2, <1>4, <1>5, <2>1 DEF Bank!Places
  <2>2. CASE ~refused /\ <<q, x>> = <<p, next>>
    BY <1>1, <1>2, <2>2
  <2> QED
    BY <1>1, <1>9, <1>14, <2>1, <2>2
<1>15. Bank!TypeOK'
  BY <1>6, <1>12, <1>13 DEF Bank!TypeOK
<1>16. BankInv'
  BY <1>6, <1>12, <1>14, <1>15 DEF BankInv
<1>17. ASSUME NEW q \in Requests, payment[q] # "refused", payment'[q] = "refused"
       PROVE  refused
  BY <1>1, <1>2, <1>17
<1>18. refused => now - lastRequest < BankInterval
  BY <1>8 DEF running, begin
<1> QED
  BY <1>7, <1>16, <1>17, <1>18

(* A payment on arrival, or back from the dealer.                          *)
LEMMA BankStep ==
  ASSUME BankInv, now \in 0 .. MaxTime, NEW p \in Requests, Bank!Step(p)
  PROVE  /\ BankInv'
         /\ \A q \in Requests : payment[q] # "refused" /\ payment'[q] = "refused" =>
              Cardinality(passes) >= RequestLimit /\ now - lastRequest < BankInterval
<1>1. PICK next \in {"served", "at_dealer"} :
        /\ Bank!Check(p, next)
        /\ payment[p] = "new" \/ (payment[p] = "at_dealer" /\ next = "served")
  BY DEF Bank!Step, Bank!Receive, Bank!Quoted
<1> QED
  BY <1>1, CheckStep

(* A limiter that no step of its own touches.                              *)
LEMMA RateFrame ==
  ASSUME RateInv, UNCHANGED rateVars
  PROVE  RateInv'
BY DEF RateInv, rateVars, Rate!TypeOK

LEMMA CreationFrame ==
  ASSUME CreationInv, UNCHANGED creationVars
  PROVE  CreationInv'
BY DEF CreationInv, creationVars, Creation!TypeOK

LEMMA BankFrame ==
  ASSUME BankInv, UNCHANGED paymentVars
  PROVE  BankInv'
BY DEF BankInv, paymentVars, Bank!TypeOK

(* Every step of the composition keeps the three invariants, and refuses a *)
(* payment only at the limit.                                              *)
LEMMA LimitsNextInv ==
  ASSUME LimitsInv, [LimitsNext]_limitsVars
  PROVE  /\ LimitsInv'
         /\ \A q \in Requests : payment[q] # "refused" /\ payment'[q] = "refused" =>
              Cardinality(passes) >= RequestLimit /\ now - lastRequest < BankInterval
<1> RateInv /\ CreationInv /\ BankInv /\ now \in 0 .. MaxTime /\ MaxTime \in Nat
  BY LimitsAssumption DEF LimitsInv
<1>0. ASSUME UNCHANGED payment
      PROVE  \A q \in Requests : ~(payment[q] # "refused" /\ payment'[q] = "refused")
  BY <1>0
<1>1. CASE LimitsTick
  <2>1. now' \in 0 .. MaxTime
    BY <1>1, SMT DEF LimitsTick
  <2>2. UNCHANGED <<rateVars, creationVars, paymentVars>>
    BY <1>1 DEF LimitsTick
  <2> QED
    BY <1>0, <2>1, <2>2, RateFrame, CreationFrame, BankFrame DEF LimitsInv, paymentVars
<1>2. ASSUME NEW r \in Requests, Limit(r)
      PROVE  LimitsInv' /\ UNCHANGED payment
  <2>1. RateInv' /\ now' = now
    BY <1>2, RateStep DEF Limit, Rate!Step, Rate!Get, Rate!Expire, Rate!Update,
                          Rate!Set
  <2>2. CreationInv' /\ BankInv' /\ UNCHANGED payment
    BY <1>2, CreationFrame, BankFrame DEF Limit, paymentVars
  <2> QED
    BY <2>1, <2>2 DEF LimitsInv
<1>3. CASE Replenish
  <2>1. RateInv' /\ now' = now
    BY <1>3, RateRemove DEF Replenish, Rate!Remove
  <2>2. CreationInv' /\ BankInv' /\ UNCHANGED payment
    BY <1>3, CreationFrame, BankFrame DEF Replenish, paymentVars
  <2> QED
    BY <1>0, <2>1, <2>2 DEF LimitsInv
<1>4. ASSUME NEW r \in Requests, Route(r)
      PROVE  /\ LimitsInv'
             /\ \A q \in Requests : payment[q] # "refused" /\ payment'[q] = "refused" =>
                  Cardinality(passes) >= RequestLimit /\ now - lastRequest < BankInterval
  <2>1. RateInv'
    BY <1>4, RateFrame DEF Route
  <2>2. CASE Creation!Step(r) /\ UNCHANGED paymentVars
    <3>1. CreationInv' /\ BankInv' /\ UNCHANGED payment
      BY <2>2, CreationStep, BankFrame DEF paymentVars
    <3>2. now' = now
      BY <2>2 DEF Creation!Step, Creation!Create, Creation!Insert, Creation!Decrease
    <3> QED
      BY <1>0, <2>1, <3>1, <3>2 DEF LimitsInv
  <2>3. CASE Bank!Step(r) /\ UNCHANGED creationVars
    <3>1. CreationInv'
      BY <2>3, CreationFrame
    <3>2. now' = now
      BY <2>3 DEF Bank!Step, Bank!Receive, Bank!Quoted
    <3> QED
      BY <2>1, <2>3, <3>1, <3>2, BankStep DEF LimitsInv
  <2> QED
    BY <1>4, <2>2, <2>3 DEF Route
<1>5. CASE Creation!SetEnabled /\ UNCHANGED <<rateVars, paymentVars>>
  <2>1. CreationInv' /\ now' = now
    BY <1>5, CreationSwitch DEF Creation!SetEnabled
  <2>2. RateInv' /\ BankInv' /\ UNCHANGED payment
    BY <1>5, RateFrame, BankFrame DEF paymentVars
  <2> QED
    BY <1>0, <2>1, <2>2 DEF LimitsInv
<1>6. CASE UNCHANGED limitsVars
  <2>1. UNCHANGED <<rateVars, creationVars, paymentVars, now, payment>>
    BY <1>6 DEF limitsVars, paymentVars
  <2> QED
    BY <1>0, <2>1, RateFrame, CreationFrame, BankFrame DEF LimitsInv
<1> QED
  BY <1>0, <1>1, <1>2, <1>3, <1>4, <1>5, <1>6 DEF LimitsNext

(* The limiters keep their invariant, for any requests, limits and         *)
(* intervals.                                                              *)
THEOREM LimitsInvariant == LimitsSpec => []LimitsInv
<1>1. LimitsInit => LimitsInv
  BY LimitsInitInv
<1>2. LimitsInv /\ [LimitsNext]_limitsVars => LimitsInv'
  BY LimitsNextInv
<1> QED
  BY <1>1, <1>2, PTL DEF LimitsSpec

(* A client is over its limit only when it has used it up, however the     *)
(* messages of its requests interleave (actix-ratelimit's middleware and   *)
(* memory store).                                                          *)
THEOREM ClientLimitIsEarned == LimitsSpec => []LimitIsEarned
<1>1. LimitsInv => LimitIsEarned
  BY DEF LimitsInv, RateInv, LimitIsEarned
<1> QED
  BY <1>1, LimitsInvariant, PTL

(* A failed registration does not use up the quota, and a place given back *)
(* late does not bring the counter below zero (increase and decrease).     *)
THEOREM CreationLosesNoPlace == LimitsSpec => []NoPlaceLost
<1>1. LimitsInv => NoPlaceLost
  <2> SUFFICES ASSUME LimitsInv PROVE NoPlaceLost
    OBVIOUS
  <2>1. created \in Nat /\ Cardinality(counted) \in Nat /\ created <= Cardinality(counted)
    BY FS_CardinalityType DEF LimitsInv, CreationInv, Creation!TypeOK
  <2> QED
    BY <2>1, SMTT(20) DEF NoPlaceLost
<1> QED
  BY <1>1, LimitsInvariant, PTL

(* No more accounts than the quota in one interval, but for one for each   *)
(* call of an earlier interval that failed in this one (decrease).         *)
THEOREM CreationQuotaHolds == LimitsSpec => []QuotaHolds
<1>1. LimitsInv => QuotaHolds
  <2> SUFFICES ASSUME LimitsInv PROVE QuotaHolds
    OBVIOUS
  <2> DEFINE new == {c \in counted : call[c] = "created"}
  <2>1. IsFiniteSet(counted) /\ new \in SUBSET counted
    BY DEF LimitsInv, CreationInv
  <2>2. Cardinality(counted) \in Nat /\ Cardinality(new) \in Nat /\ Cardinality(new) <= Cardinality(counted)
    BY <2>1, FS_Subset, FS_CardinalityType
  <2>3. created \in Nat /\ late \in Nat /\ created <= Quota /\ Cardinality(counted) <= created + late
    BY DEF LimitsInv, CreationInv, Creation!TypeOK
  <2>4. Cardinality(new) <= Quota + late
    BY <2>2, <2>3, LimitsAssumption, SMTT(20)
  <2> QED
    BY <2>4 DEF QuotaHolds
<1> QED
  BY <1>1, LimitsInvariant, PTL

(* The bank's handler runs at most once more than the limit says in one    *)
(* interval, the second runs of payments in fiat included                  *)
(* (check_withdrawal_request_rate_limit).                                  *)
THEOREM BankHoldsLimit == LimitsSpec => []BankLimitHolds
<1>1. LimitsInv => BankLimitHolds
  BY DEF LimitsInv, BankInv, BankLimitHolds
<1> QED
  BY <1>1, LimitsInvariant, PTL

(* A payment is refused for the limit only when checks that passed in this *)
(* interval used it up: refused requests and earlier intervals never bring *)
(* a user over it.                                                         *)
THEOREM BankRefusesAtLimit == LimitsSpec => RefusedAtLimit
<1> DEFINE Justified ==
             \A r \in Requests : payment[r] # "refused" /\ payment'[r] = "refused" =>
               Cardinality(passes) >= RequestLimit /\ now - lastRequest < BankInterval
<1>1. LimitsInv /\ [LimitsNext]_limitsVars => [Justified]_limitsVars
  BY LimitsNextInv
<1> QED
  BY <1>1, LimitsInvariant, PTL DEF LimitsSpec, RefusedAtLimit
=============================================================================
