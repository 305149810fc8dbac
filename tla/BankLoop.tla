------------------------------ MODULE BankLoop ------------------------------
(***************************************************************************)
(* The bank's main loop (start, in src/bank/src/lib.rs): one thread takes  *)
(* at most one message from each of its sources in turn, audits the ledger *)
(* every few seconds and panics when it is not balanced.                   *)
(*                                                                         *)
(* Two of the channels lead from the loop to itself: the loopback, for the *)
(* swaps of dollar-cost averaging and the withdrawals by link, and the     *)
(* journal.  They are bounded, and sending to one that is full blocks the  *)
(* only thread that could empty it.                                        *)
(*                                                                         *)
(* The messages of customers are told apart by what they leave in these    *)
(* channels and in the rows of swaps; module Bank has what they do to the  *)
(* ledger.                                                                 *)
(***************************************************************************)
EXTENDS Treasury, Sequences, Functions

CONSTANTS
  Intervals,    \* the intervals of dca_task, in its order
  DcaSettings,  \* DcaSettings[i]: the users to swap for in interval i, in order
  LoopbackSize, JournalSize,  \* the capacity of the channels
  MaxMessages   \* bound on the messages that reach the loop

ASSUME LoopAssumption ==
  /\ Intervals \in Seq(DOMAIN DcaSettings) /\ DcaSettings \in [DOMAIN DcaSettings -> Seq(Users)]
  /\ LoopbackSize \in Nat /\ JournalSize \in Nat /\ MaxMessages \in Nat

VARIABLES
  status,     \* "up", "blocked" in a send to itself, or "down"
  at,         \* the source the loop turns to next
  dca,        \* the intervals that dca_task reported
  loopback,   \* users to swap for, and withdrawals
  journal,    \* how many transactions wait to be written to the journal
  messages,   \* how many messages came from outside
  owed,       \* history: how many swaps are due to each user and not asked for
  dropped     \* history: how many of them will not be, the settings being unread

dcaHistory == <<owed, dropped>>
loopVars == <<status, at, dca, loopback, journal, messages, dcaHistory>>
vars == <<treasuryVars, loopVars>>

Withdrawal == 0
Sources == <<"payment", "api", "invoice", "dca", "dealer", "loopback", "journal", "cli", "audit">>
After(s) == LET i == CHOOSE i \in DOMAIN Sources : Sources[i] = s
            IN IF i = Len(Sources) THEN Head(Sources) ELSE Sources[i + 1]

Init ==
  /\ TreasuryInit
  /\ status = "up" /\ at = Head(Sources)
  /\ dca = <<>> /\ loopback = <<>> /\ journal = 0 /\ messages = 0
  /\ owed = [u \in Users |-> 0] /\ dropped = owed

-----------------------------------------------------------------------------
Turn(s) == status = "up" /\ at = s /\ at' = After(s)
Message(s) == Turn(s) /\ messages < MaxMessages /\ messages' = messages + 1

\* Mutant: the channel takes one message less.
SendLoopback_OneLess(sent) ==
  LET all == loopback \o sent
  IN IF Len(all) < LoopbackSize
     THEN loopback' = all /\ status' = "up"
     ELSE loopback' = SubSeq(all, 1, LoopbackSize) /\ status' = "blocked"

\* The listener: a send to a full channel never returns.
SendLoopback(sent) ==
  LET all == loopback \o sent
  IN IF Len(all) <= LoopbackSize
     THEN loopback' = all /\ status' = "up"
     ELSE loopback' = SubSeq(all, 1, LoopbackSize) /\ status' = "blocked"

SendJournal ==
  IF journal < JournalSize
  THEN journal' = journal + 1 /\ status' = "up"
  ELSE journal' = journal /\ status' = "blocked"

\* The rows that transactions leave for get_user_totals.
Swaps == \E u \in Users, value \in SwapValues : SwapRow(u, value)
FiatPayment ==
  \E u \in Users, value \in PaymentValues, rate \in PaymentRates : PaymentRow(u, value, rate)
FiatRefund == \E u \in Users, value \in PaymentValues : RefundRow(u, value)
NoRow == UNCHANGED rowVars

\* The result of a payment: a refund makes a transaction, with a row if the
\* payment was made in fiat; a success makes none.
PaymentResult ==
  /\ Message("payment")
  /\ \/ SendJournal /\ (FiatRefund \/ NoRow)
     \/ /\ \E u \in Users, value \in PaymentValues : PaymentOver(u, value)
        /\ UNCHANGED <<totals, listed, journal, status>>
  /\ UNCHANGED <<ledger, stored, lostSave, karmaVars, dca, loopback, dcaHistory>>

\* A request that makes a transaction at once: a transfer, a payment in Bitcoin.
ApiTransaction ==
  /\ Message("api") /\ SendJournal
  /\ UNCHANGED <<treasuryVars, dca, loopback, dcaHistory>>

PayLnurlWithdrawalRequest ==
  /\ Message("api") /\ SendLoopback(<<Withdrawal>>)
  /\ UNCHANGED <<treasuryVars, dca, journal, dcaHistory>>

InvoiceSettled ==
  /\ Message("invoice") /\ SendJournal
  /\ UNCHANGED <<treasuryVars, dca, loopback, dcaHistory>>

\* An answer of the dealer with a rate: a swap, a deposit into fiat or a
\* payment from a fiat account goes through.
DealerQuote ==
  /\ Message("dealer") /\ SendJournal
  /\ Swaps \/ FiatPayment
  /\ UNCHANGED <<ledger, stored, lostSave, karmaVars, dca, loopback, dcaHistory>>

\* How often u is in a sequence of users to swap for.
Count(u, seq) == SumTo([k \in DOMAIN seq |-> IF seq[k] = u THEN 1 ELSE 0], Len(seq))

\* What the settings of a sequence of intervals hold for u.
DueIn(u, intervals) ==
  SumTo([k \in DOMAIN intervals |-> Count(u, DcaSettings[intervals[k]])], Len(intervals))

\* Mutant: get_by_interval does not look at the interval.
DcaRebalance_AnyInterval ==
  /\ Turn("dca") /\ dca # <<>> /\ dca' = Tail(dca)
  /\ \E i \in Range(Intervals) : SendLoopback(DcaSettings[i])
  /\ UNCHANGED <<treasuryVars, journal, messages, dcaHistory>>

(***************************************************************************)
(* DcaRebalance: a swap for each of the interval's users is sent to the    *)
(* loopback; they are dropped when the settings cannot be read.            *)
(***************************************************************************)
DcaRebalance ==
  /\ Turn("dca") /\ dca # <<>> /\ dca' = Tail(dca)
  /\ LET due == DcaSettings[Head(dca)]
     IN \/ SendLoopback(due) /\ UNCHANGED dropped
        \/ /\ "dca" \in Faults
           /\ dropped' = [u \in Users |-> dropped[u] + Count(u, due)]
           /\ UNCHANGED <<loopback, status>>
  /\ UNCHANGED <<treasuryVars, journal, messages, owed>>

\* A report of karma; when the totals cannot be had nothing changes.
Karma ==
  /\ Message("dealer")
  /\ \/ \E karma \in KarmaReports, died \in BOOLEAN :
          /\ KarmaBalance(karma, died)
          /\ status' = IF died THEN "down" ELSE "up"
     \/ "totals" \in Faults /\ UNCHANGED <<treasuryVars, status>>
  /\ UNCHANGED <<dca, loopback, journal, dcaHistory>>

\* A SwapRequest goes to the dealer; the PaymentRequest of a withdrawal is
\* served as any other and may make a transaction, from a fiat account too.
Loopback ==
  /\ Turn("loopback") /\ loopback # <<>> /\ loopback' = Tail(loopback)
  /\ IF Head(loopback) = Withdrawal
     THEN /\ \/ SendJournal /\ (FiatPayment \/ NoRow)
             \/ UNCHANGED <<journal, status, rowVars>>
          /\ owed' = owed
     ELSE /\ owed' = [owed EXCEPT ![Head(loopback)] = @ - 1]
          /\ UNCHANGED <<journal, status, rowVars>>
  /\ UNCHANGED <<ledger, stored, lostSave, karmaVars, dca, messages, dropped>>

WriteJournal ==
  /\ Turn("journal") /\ journal > 0 /\ journal' = journal - 1
  /\ UNCHANGED <<treasuryVars, status, dca, loopback, messages, dcaHistory>>

Cli ==
  /\ Message("cli")
  /\ \E out \in Named, in \in Named, amount \in Amounts : MakeTx(out, in, amount)
  /\ UNCHANGED <<status, dca, loopback, journal, dcaHistory>>

\* Mutant: the audit only writes a warning.
Audit_Warns ==
  /\ Turn("audit")
  /\ UNCHANGED <<treasuryVars, status, dca, loopback, journal, messages, dcaHistory>>

\* The audit, when it is due.
Audit ==
  /\ Turn("audit")
  /\ status' = IF Reconciles(ledger) THEN "up" ELSE "down"
  /\ UNCHANGED <<treasuryVars, dca, loopback, journal, messages, dcaHistory>>

\* Mutant: the reports of dca_task may be passed over.
Nothing_PassesDca ==
  /\ Turn(at)
  /\ at = "loopback" => loopback = <<>>
  /\ at = "journal" => journal = 0
  /\ UNCHANGED <<treasuryVars, status, dca, loopback, journal, messages, dcaHistory>>

\* try_recv finds nothing, or the audit is not due yet.
Nothing ==
  /\ Turn(at)
  /\ at = "dca" => dca = <<>>
  /\ at = "loopback" => loopback = <<>>
  /\ at = "journal" => journal = 0
  /\ UNCHANGED <<treasuryVars, status, dca, loopback, journal, messages, dcaHistory>>

-----------------------------------------------------------------------------
\* The choices of n intervals, in the order of Intervals.
Ended(n) ==
  {ended \in [1..n -> DOMAIN Intervals] : \A j, k \in 1..n : j < k => ended[j] < ended[k]}

(***************************************************************************)
(* dca_task reports in one pass every interval that has ended; all end at  *)
(* multiples of a day.  What one day left in the loopback is gone a day    *)
(* later: that takes the loop as many turns.                               *)
(***************************************************************************)
DcaTask ==
  /\ status = "up" /\ dca = <<>> /\ loopback = <<>>
  /\ messages < MaxMessages /\ messages' = messages + 1
  /\ \E n \in 1 .. Len(Intervals) : \E ended \in Ended(n) :
       dca' = [k \in 1..n |-> Intervals[ended[k]]]
  /\ owed' = [u \in Users |-> owed[u] + DueIn(u, dca')]
  /\ UNCHANGED <<treasuryVars, status, at, loopback, journal, dropped>>

Crash ==
  /\ "restart" \in Faults /\ status # "down" /\ status' = "down"
  /\ UNCHANGED <<treasuryVars, at, dca, loopback, journal, messages, dcaHistory>>

\* The bank starts if the accounts it loads pass the audit.  The tasks that
\* waited for the results of payments are gone.
Start ==
  /\ status = "down" /\ Reconciles(init_accounts(stored))
  /\ ledger' = init_accounts(stored) /\ stored' = init_accounts(stored)
  /\ status' = "up" /\ at' = Head(Sources)
  /\ dca' = <<>> /\ loopback' = <<>> /\ journal' = 0
  /\ owed' = [u \in Users |-> 0] /\ dropped' = owed' /\ paying' = NoPayments
  /\ UNCHANGED <<totals, listed, lostSave, karmaVars, messages>>

LoopStep ==
  \/ PaymentResult \/ ApiTransaction \/ PayLnurlWithdrawalRequest \/ InvoiceSettled
  \/ DealerQuote \/ DcaRebalance \/ Karma \/ Loopback \/ WriteJournal \/ Cli
  \/ Audit \/ Nothing

Next == LoopStep \/ DcaTask \/ Crash \/ Start

Spec == Init /\ [][Next]_vars

(***************************************************************************)
(* The loop never waits for a source, and the clock of the audit runs.     *)
(***************************************************************************)
LiveSpec == Spec /\ WF_vars(LoopStep) /\ SF_vars(Audit)

-----------------------------------------------------------------------------
\* Bitcoin is neither made nor lost, the insurance fund included: whatever the
\* operator moves, in whatever order, the audited accounts of process_make_tx
\* are off by what the fund holds and by nothing else.  A new start, which
\* forgets the fund's account, does not forget its money.
FundedBooks ==
  /\ NetBalance(ledger, BTC) + ledger[Fund] = 0
  /\ ~lostSave => NetBalance(stored, BTC) + stored[Fund] = 0

\* distribute_karma never shares a unit of karma twice: together the users
\* have at most the largest balance the exchange reported, unless it was last
\* shared over totals of both signs (refunds count in full against payments
\* that were cut): the parts above zero then add up to more than the whole.
KarmaBacked ==
  ~lostSave /\ ~skewed => SumTo(KarmaOf(ledger), NumUsers) <= mostKarma

\* A bank that stopped can start again: the rows it left pass the audit at
\* start-up unless the operator overdrew a user, an account was not saved, a
\* report of karma was mirrored and not shared (it fell, or the handler
\* panicked), or was shared over totals of both signs.
StartsAgain ==
  /\ ~lostSave /\ ~openKarma /\ ~skewed
  /\ \A u \in Users, c \in Currency : stored[UserAccount(u, c)] >= 0
  => Reconciles(init_accounts(stored))

\* The loopback never blocks the loop as long as it has room for the swaps of
\* all intervals and one withdrawal (they are drained one a turn while
\* DcaRebalance and PayLnurlWithdrawalRequest fill it).
SwapsOf(intervals) ==
  SumTo([k \in DOMAIN intervals |-> Len(DcaSettings[intervals[k]])], Len(intervals))
LoopbackFits ==
  SwapsOf(Intervals) < LoopbackSize /\ status = "blocked" => journal = JournalSize

\* Every swap that fell due waits in exactly one place until the dealer is asked
\* for it, or was dropped by DcaRebalance because the settings could not be
\* read: none is asked for twice, no other is forgotten by a bank that is up.
DcaExact ==
  status = "up" => \A u \in Users :
    owed[u] = Count(u, loopback) + DueIn(u, dca) + dropped[u]

\* A swap that fell due is asked for, unless it is dropped, or the bank stops or
\* blocks first.
DcaAsked == \A u \in Users : owed[u] > dropped[u] ~> (owed[u] = dropped[u] \/ status # "up")

\* A ledger that is off does not stay in use: the audit stops the bank, unless
\* the next transactions put it right.
AuditStops == ~Reconciles(ledger) ~> (Reconciles(ledger) \/ status # "up")
=============================================================================
