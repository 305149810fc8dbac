------------------------------ MODULE Treasury ------------------------------
(***************************************************************************)
(* Money that moves without a customer asking: the transactions that the   *)
(* operator orders from the command line (process_make_tx), the karma that *)
(* the exchange pays the dealer and the bank shares among its users        *)
(* (KarmaBalance, distribute_karma), and the loading of the accounts when  *)
(* the bank starts (init_accounts).                                        *)
(*                                                                         *)
(* Two accounts join those of Ledger.  The insurance fund is not one of    *)
(* the accounts the audit adds up, and Ledger::new gives it a new id at    *)
(* every start: the row it leaves behind is then loaded as one more        *)
(* Internal Bitcoin account of the dealer, so DealerAccount(BTC) is the    *)
(* sum of those.  KarmaExternal mirrors the karma held at the exchange.    *)
(***************************************************************************)
EXTENDS Ledger

CONSTANTS
  KKP,           \* the currency of karma, one of Fiat
  Amounts,       \* the amounts that the operator moves
  KarmaReports,  \* the balances that the exchange may report
  SwapValues,    \* what a swap, or a deposit into fiat, is worth in Bitcoin
  PaymentValues, \* what a payment from a fiat account takes in Bitcoin
  PaymentRates,  \* the rates of those payments, from Bitcoin
  InitTotals,    \* the totals of users that earlier rows may add up to
  RateUnit,      \* how many units of its last decimal a Rate of 1 has
  Faults         \* what may fail: "row", "save", "totals", "dca", "restart"

ASSUME TreasuryAssumption ==
  /\ KKP \in Fiat /\ Amounts \subseteq Nat /\ KarmaReports \subseteq Nat
  /\ SwapValues \subseteq Nat /\ PaymentValues \subseteq Nat
  /\ \A t \in InitTotals : DOMAIN t \subseteq Users /\ t \in [DOMAIN t -> Int]
  /\ RateUnit \in Nat \ {0} /\ PaymentRates \subseteq (Nat \ {0}) \X (Nat \ {0})

Fund == <<DEALER_UID, BTC, "Fund">>
KarmaExternal == <<DEALER_UID, KKP, "External">>
AllAccounts == Accounts \cup {Fund, KarmaExternal}

VARIABLES
  ledger,     \* the balances in memory
  stored,     \* the rows of the accounts table
  totals,     \* what the rows add up to for each user, in Bitcoin
  listed,     \* the users with rows
  paying,     \* how many payments from fiat accounts are under way, by user and value
  lostSave,   \* history: an account was not saved
  openKarma,  \* history: the last balance reported was mirrored but not shared
  skewed,     \* history: karma was last shared over totals of both signs
  mostKarma   \* history: the largest balance reported

rowVars == <<totals, listed, paying>>
karmaVars == <<openKarma, skewed, mostKarma>>
treasuryVars == <<ledger, stored, lostSave, rowVars, karmaVars>>

NoPayments == [p \in Users \X PaymentValues |-> 0]

\* The accounts are empty; there may be rows of earlier days.
TreasuryInit ==
  /\ ledger = [a \in AllAccounts |-> 0]
  /\ stored = ledger
  /\ \E t \in InitTotals :
       listed = DOMAIN t /\ totals = [u \in Users |-> IF u \in listed THEN t[u] ELSE 0]
  /\ paying = NoPayments
  /\ lostSave = FALSE /\ openKarma = FALSE /\ skewed = FALSE /\ mostKarma = 0

-----------------------------------------------------------------------------
(***************************************************************************)
(* update_account, for each account touched: it gives up without a word    *)
(* when it gets no connection.                                             *)
(***************************************************************************)
update_account(books, touched) ==
  \E saved \in IF "save" \in Faults THEN SUBSET touched ELSE {touched} :
    /\ ledger' = books
    /\ stored' = [a \in AllAccounts |-> IF a \in saved THEN books[a] ELSE stored[a]]
    /\ lostSave' = (lostSave \/ saved # touched)

-----------------------------------------------------------------------------
(***************************************************************************)
(* process_make_tx.  The operator names two accounts; those of a user, the *)
(* bank's liabilities and the fund are found.  Nobody asks what is on the  *)
(* account that pays.                                                      *)
(***************************************************************************)
Named == { UserAccount(u, c) : u \in Users, c \in Currency } \cup {BankLiability, Fund}

\* Mutant: the currencies are not compared.
Refused_NotForCurrency(out, in, amount) ==
  \/ out = in
  \/ in = Fund /\ out # BankLiability
  \/ out = Fund /\ in # BankLiability
  \/ ~Postable(amount)

Refused(out, in, amount) ==
  \/ out = in
  \/ in = Fund /\ out # BankLiability
  \/ out = Fund /\ in # BankLiability
  \/ out[2] # in[2]
  \/ ~Postable(amount)

MakeTx(out, in, amount) ==
  /\ \/ /\ Refused(out, in, amount) \/ "row" \in Faults
        /\ UNCHANGED <<ledger, stored, lostSave>>
     \/ /\ ~Refused(out, in, amount)
        /\ update_account(Post(ledger, out, in, amount), {out, in})
  /\ UNCHANGED <<rowVars, karmaVars>>

-----------------------------------------------------------------------------
(***************************************************************************)
(* get_user_totals adds up the rows between Bitcoin and a fiat currency:   *)
(* swaps, deposits into fiat and payments from fiat count for their user,  *)
(* refunds against.  The row of a payment holds what the fiat charged is   *)
(* worth, so its value was cut twice, by Money::exchange and by            *)
(* Rate::inverse; the row of its refund holds the whole value.  A user     *)
(* whose payments fail may end up below zero.                              *)
(***************************************************************************)
InverseRate(rate) == <<(RateUnit * rate[2]) \div rate[1], RateUnit>>
PaymentRowValue(value, rate) == Exchange(Exchange(value, rate), InverseRate(rate))

Counted(u, value) ==
  totals' = [totals EXCEPT ![u] = @ + value] /\ listed' = listed \cup {u}

SwapRow(u, value) == Counted(u, value) /\ UNCHANGED paying

PaymentRow(u, value, rate) ==
  /\ Counted(u, PaymentRowValue(value, rate))
  /\ paying' = [paying EXCEPT ![<<u, value>>] = @ + 1]

\* The result of a payment, once: a refund has a row, a success has none.
PaymentOver(u, value) ==
  paying[<<u, value>>] > 0 /\ paying' = [paying EXCEPT ![<<u, value>>] = @ - 1]
RefundRow(u, value) == PaymentOver(u, value) /\ Counted(u, -value)

TotalSwapped == SumTo(totals, NumUsers)
KarmaOf(l) == [u \in Users |-> l[UserAccount(u, KKP)]]

\* The ratio of a total to the sum of all: dividing by a negative sum turns
\* the signs.
Weight == [u \in Users |-> IF TotalSwapped < 0 THEN -totals[u] ELSE totals[u]]
Scale == IF TotalSwapped < 0 THEN -TotalSwapped ELSE TotalSwapped

\* Everyone's part of the amount, truncated towards zero.
Received(amount) == [u \in Users |->
  IF u \notin listed THEN 0
  ELSE IF Weight[u] >= 0 THEN (Weight[u] * amount) \div Scale
  ELSE -(((-Weight[u]) * amount) \div Scale)]

\* A part below zero is taken from nobody, yet what is left for the dealer is
\* the amount less all the parts.
Credited(amount) ==
  [u \in Users |-> IF Received(amount)[u] > 0 THEN Received(amount)[u] ELSE 0]

distribute_karma(l, amount) ==
  LET credited == Credited(amount)
      paid == [a \in AllAccounts |->
                 IF \E u \in Users : a = UserAccount(u, KKP) THEN l[a] + credited[a[1]] ELSE l[a]]
  IN [paid EXCEPT ![DealerAccount(KKP)] = amount - SumTo(Received(amount), NumUsers)]

\* Division by a total of zero, when every swap was refunded.
Panics == listed # {} /\ TotalSwapped = 0

\* Some of the totals are positive and some are negative.
Mixed == \E u \in Users : Weight[u] < 0

\* Mutant: the whole balance is shared, again at every report.
Diff_Whole(karma) == karma

\* What of the balance reported the users do not have yet.
Diff(karma) == karma - SumTo(KarmaOf(ledger), NumUsers)

\* The accounts that sharing the difference touches.
Touched(karma) == {KarmaExternal, DealerAccount(KKP)}
                    \cup { UserAccount(u, KKP) : u \in { v \in Users : Received(Diff(karma))[v] > 0 } }

(***************************************************************************)
(* Dealer::KarmaBalance.  The mirror is set and saved before anything is   *)
(* shared, so a panic in between leaves it behind.  `died` tells that the  *)
(* handler panics.                                                         *)
(***************************************************************************)
KarmaBalance(karma, died) ==
  LET mirrored == [ledger EXCEPT ![KarmaExternal] = -karma]
  IN /\ died = (Diff(karma) > 0 /\ Panics)
     /\ IF Diff(karma) > 0 /\ ~Panics
        THEN /\ update_account(distribute_karma(mirrored, Diff(karma)), Touched(karma))
             /\ openKarma' = FALSE /\ skewed' = Mixed
        ELSE /\ update_account(mirrored, {KarmaExternal})
             /\ openKarma' = (openKarma \/ mirrored # ledger) /\ skewed' = skewed
     /\ mostKarma' = IF karma > mostKarma THEN karma ELSE mostKarma
     /\ UNCHANGED rowVars

-----------------------------------------------------------------------------
\* Mutant: the row of the fund is not loaded.
init_accounts_ForgetsFund(rows) == [rows EXCEPT ![Fund] = 0]

\* init_accounts, with a new insurance fund.
init_accounts(rows) ==
  [rows EXCEPT ![DealerAccount(BTC)] = @ + rows[Fund], ![Fund] = 0]

(***************************************************************************)
(* The audit, over the accounts of reconcile_ledger in Ledger and the      *)
(* mirror, which is one of the dealer's.                                   *)
(***************************************************************************)
Reconciles(l) ==
  /\ \A u \in Users, c \in Currency : l[UserAccount(u, c)] >= 0
  /\ \A c \in Currency : NetBalance(l, c) + (IF c = KKP THEN l[KarmaExternal] ELSE 0) = 0
=============================================================================
