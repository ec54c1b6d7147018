---------------------------- MODULE EscrowKeeper ----------------------------
(***************************************************************************)
(* The keeper of x/escrow (src/x/escrow/keeper/keeper.go) as operators     *)
(* from a store to an outcome.  The module declares no variables: the      *)
(* specifications Escrow (the keeper on its own) and Marketplace (the      *)
(* keeper below the deployment and market handlers) apply the same         *)
(* operators to their own state.                                           *)
(*                                                                         *)
(* A store s is a record with at least the fields                          *)
(*   account, payment   the objects of the KV store, by identifier;        *)
(*   module             the coins of the escrow module's bank account;     *)
(*   wallet             the coins the owners of accounts can deposit (the  *)
(*                      bank is external: one number stands for all their  *)
(*                      wallets; coins paid to the owner of a payment      *)
(*                      leave the model, Withdrawn counts them);           *)
(*   height             ctx.BlockHeight().                                 *)
(* An outcome carries the store st the call leaves behind and err, which   *)
(* is "none" when the call returns nil.  A panic of the coin arithmetic    *)
(* is an err as well: both make the transaction revert, and the model      *)
(* checker shows that neither happens.                                     *)
(*                                                                         *)
(* Calls that end accounts or payments run the registered hooks as the     *)
(* last thing they do.  The field hooks of the outcome says which: those   *)
(* of the accounts, then those of the payments, whose new state is state.  *)
(* The module that registers hooks runs them (MarketKeepers).              *)
(***************************************************************************)
EXTENDS Integers, FiniteSets, FiniteSetsExt

CONSTANTS
    AccountIDs,     \* identifiers an escrow account may have
    PaymentIDs,     \* identifiers a payment may have
    AccountOf,      \* AccountOf[p]: the account payment p draws on
    KeyIndex        \* KeyIndex[p]: position of p among the KV keys of its account

ASSUME EscrowIdentifiers ==
    /\ IsFiniteSet(PaymentIDs)
    /\ AccountOf \in [PaymentIDs -> AccountIDs]
    /\ KeyIndex \in [PaymentIDs -> Nat]
    /\ \A p, q \in PaymentIDs :
          AccountOf[p] = AccountOf[q] /\ KeyIndex[p] = KeyIndex[q] => p = q

-----------------------------------------------------------------------------
(* Stored objects. "none" is the state of an object the store does not have. *)

States == {"none", "open", "closed", "overdrawn"}

Account == [state : States, balance : Nat, transferred : Nat, settledAt : Nat]

Payment == [state : States, rate : Nat, balance : Nat, withdrawn : Nat]

NoAccount == [state |-> "none", balance |-> 0, transferred |-> 0, settledAt |-> 0]

NoPayment == [state |-> "none", rate |-> 0, balance |-> 0, withdrawn |-> 0]

NoHooks == [accounts |-> {}, payments |-> {}, state |-> "none"]

Return(s) == [st |-> s, err |-> "none", hooks |-> NoHooks]

Fail(s, e) == [st |-> s, err |-> e, hooks |-> NoHooks]

\* The call returns nil once the hooks of as and ps have run on s.
ReturnAfterHooks(s, as, ps, state) ==
    [st |-> s, err |-> "none",
     hooks |-> [accounts |-> as, payments |-> ps, state |-> state]]

SumOver(f, S) == MapThenSumSet(LAMBDA x : f[x], S)

AccountPayments(a) == {p \in PaymentIDs : AccountOf[p] = a}

AccountOpenPayments(s, a) ==
    {p \in AccountPayments(a) : s.payment[p].state = "open"}

-----------------------------------------------------------------------------
(* The bank keeper, external: coins move or the call fails. *)

SendCoinsFromAccountToModule(s, amount) ==
    IF s.wallet - amount \in Nat
    THEN Return([s EXCEPT !.wallet = s.wallet - amount, !.module = s.module + amount])
    ELSE Fail(s, "ErrInsufficientFunds")

\* To the owner of an account.
RefundFromModule(s, amount) ==
    IF s.module - amount \in Nat
    THEN Return([s EXCEPT !.module = s.module - amount, !.wallet = s.wallet + amount])
    ELSE Fail(s, "ErrInsufficientFunds")

\* To the owner of a payment.
PayFromModule(s, amount) ==
    IF s.module - amount \in Nat
    THEN Return([s EXCEPT !.module = s.module - amount])
    ELSE Fail(s, "ErrInsufficientFunds")

-----------------------------------------------------------------------------
(* Settlement arithmetic. *)

\* Variant: the number of blocks is not limited to those that have passed.
UncappedFullBlocks(balance, blockRate, heightDelta) == balance \div blockRate

\* Blocks that the balance pays in full, at most the blocks that have passed.
NumFullBlocks(balance, blockRate, heightDelta) ==
    IF balance \div blockRate > heightDelta THEN heightDelta ELSE balance \div blockRate

\* Share of what remains in proportion to a payment's rate, rounded down.
WeightedShare(remaining, rate, blockRate) == (remaining * rate) \div blockRate

\* Variant: the coins that equal parts leave over are not handed out.
EvenShareWithoutOverflow(remaining, count, idx) == remaining \div count

\* Variant: the first payment gets all that the rounding left over.
FirstTakesAll(remaining, count, idx) == IF idx = 0 THEN remaining ELSE 0

\* Share of what the rounding left over: equal parts, and one coin more for
\* the first payments in key order until nothing is left.
EvenShare(remaining, count, idx) ==
    (remaining \div count) + (IF idx < remaining % count THEN 1 ELSE 0)

Position(ps, p) == Cardinality({q \in ps : KeyIndex[q] < KeyIndex[p]})

\* What a settlement has given each payment so far (paid) and left in the
\* account (left), after handing out share.  A negative coin panics.
Give(x, ps, share) ==
    LET Given(left) ==
            [overdrawn |-> x.overdrawn,
             paid      |-> [p \in ps |-> x.paid[p] + share[p]],
             left      |-> left,
             err       |-> IF left \in Nat THEN x.err ELSE "panic"]
    IN  Given(x.left - SumOver(share, ps))

\* n full blocks are paid; the account is overdrawn if more have passed.
AccountSettleFullblocks(balance, ps, rate, blockRate, heightDelta, n) ==
    LET left == balance - blockRate * n
    IN  [overdrawn |-> n # heightDelta,
         paid      |-> [p \in ps |-> rate[p] * n],
         left      |-> left,
         err       |-> IF left \in Nat THEN "none" ELSE "panic"]

AccountSettleDistributeWeighted(x, ps, rate, blockRate) ==
    Give(x, ps, [p \in ps |-> WeightedShare(x.left, rate[p], blockRate)])

AccountSettleDistributeEvenly(x, ps) ==
    Give(x, ps, [p \in ps |-> EvenShare(x.left, Cardinality(ps), Position(ps, p))])

\* "Invalid settlement: %v remains"
CheckNothingRemains(x) ==
    IF x.err = "none" /\ x.left # 0 THEN [x EXCEPT !.err = "ErrInvalidSettlement"] ELSE x

\* The two further distributions of an overdrawn account.
SettleOverdrawn(x, ps, rate, blockRate) ==
    IF x.err # "none" \/ ~x.overdrawn THEN x
    ELSE CheckNothingRemains(
            AccountSettleDistributeEvenly(
                AccountSettleDistributeWeighted(x, ps, rate, blockRate), ps))

SettleAtRate(balance, ps, rate, blockRate, heightDelta) ==
    IF blockRate \notin Nat \ {0}
    THEN [overdrawn |-> FALSE, paid |-> rate, left |-> balance, err |-> "panic"]
    ELSE SettleOverdrawn(
            AccountSettleFullblocks(balance, ps, rate, blockRate, heightDelta,
                NumFullBlocks(balance, blockRate, heightDelta)),
            ps, rate, blockRate)

\* What settling balance over heightDelta blocks gives each open payment
\* (paid) and leaves in the account (left), and whether the account could not
\* pay all the blocks (overdrawn).  err is not "none" when the code panics (a
\* division by zero, a negative coin) or returns ErrInvalidSettlement.
Settlement(balance, ps, rate, heightDelta) ==
    SettleAtRate(balance, ps, rate, SumOver(rate, ps), heightDelta)

-----------------------------------------------------------------------------
(* Paying out. Neither operation stores the object when its balance is zero. *)

AccountWithdraw(s, a, state) ==
    LET sent == RefundFromModule(s, s.account[a].balance)
    IN  IF s.account[a].balance = 0 THEN Return(s)
        ELSE IF sent.err # "none" THEN sent
        ELSE Return([sent.st EXCEPT !.account[a] =
                        [@ EXCEPT !.state = state, !.balance = 0]])

\* paymentWithdraw on each payment of ps, whose state in memory is state.
PaymentsWithdraw(s, ps, state) ==
    LET Save(due, sent) ==
            IF sent.err # "none" THEN sent
            ELSE Return([sent.st EXCEPT !.payment = [p \in PaymentIDs |->
                    IF p \in due
                    THEN [state     |-> state,
                          rate      |-> s.payment[p].rate,
                          balance   |-> 0,
                          withdrawn |-> s.payment[p].withdrawn + s.payment[p].balance]
                    ELSE s.payment[p]]])
        Send(due) ==
            IF due = {} THEN Return(s)
            ELSE Save(due, PayFromModule(s,
                        SumOver([p \in due |-> s.payment[p].balance], due)))
    IN  Send({p \in ps : s.payment[p].balance # 0})

-----------------------------------------------------------------------------
(* doAccountSettle.  Besides st, err and hooks the outcome has overdrawn and *)
(* the payments it settled: none when the account was settled in this block. *)

\* Variant: Transferred is not updated.
PayOutForgetsTransferred(s, a, ps, paid, left) ==
    [s EXCEPT
        !.account[a] = [@ EXCEPT !.settledAt = s.height, !.balance = left],
        !.payment = [p \in PaymentIDs |->
            IF p \in ps
            THEN [s.payment[p] EXCEPT !.balance = @ + paid[p]]
            ELSE s.payment[p]]]

\* The store once a settlement of account a has given its open payments ps the
\* amounts paid and has left the amount left: before the states change.
PayOut(s, a, ps, paid, left) ==
    [s EXCEPT
        !.account[a] = [state       |-> s.account[a].state,
                        balance     |-> left,
                        transferred |-> s.account[a].transferred
                                        + (s.account[a].balance - left),
                        settledAt   |-> s.height],
        !.payment = [p \in PaymentIDs |->
            IF p \in ps
            THEN [s.payment[p] EXCEPT !.balance = @ + paid[p]]
            ELSE s.payment[p]]]

\* Variant: only the account is saved as overdrawn.
OverdrawAccountOnly(s, a, ps) ==
    PaymentsWithdraw([s EXCEPT !.account[a].state = "overdrawn"], ps, "open")

\* The account and its open payments are saved as overdrawn; then each payment
\* is paid out.
Overdraw(s, a, ps) ==
    PaymentsWithdraw(
        [s EXCEPT !.account[a].state = "overdrawn",
                  !.payment = [p \in PaymentIDs |->
                      IF p \in ps THEN [s.payment[p] EXCEPT !.state = "overdrawn"]
                                  ELSE s.payment[p]]],
        ps, "overdrawn")

Settled(r, overdrawn, ps) ==
    [st |-> r.st, err |-> r.err, hooks |-> r.hooks, overdrawn |-> overdrawn,
     payments |-> ps]

\* The open payments ps have been due for heightDelta blocks.
SettlePayments(s, a, ps, heightDelta) ==
    LET Overdrawn(gone) ==
            IF gone.err # "none" THEN Settled(gone, FALSE, {})
            ELSE Settled(ReturnAfterHooks(gone.st, {a}, ps, "overdrawn"), TRUE, ps)
        Paid(paid, x) ==
            IF x.overdrawn THEN Overdrawn(Overdraw(paid, a, ps))
            ELSE Settled(Return(paid), FALSE, ps)
        Distribute(x) ==
            IF x.err # "none" THEN Settled(Fail(s, x.err), FALSE, {})
            ELSE Paid(PayOut(s, a, ps, x.paid, x.left), x)
    IN  IF ps = {}
        THEN Settled(Return([s EXCEPT !.account[a].settledAt = s.height]), FALSE, {})
        ELSE Distribute(Settlement(s.account[a].balance, ps,
                                   [p \in ps |-> s.payment[p].rate], heightDelta))

DoAccountSettle(s, a) ==
    IF s.account[a].state = "none" THEN Settled(Fail(s, "ErrAccountNotFound"), FALSE, {})
    ELSE IF s.account[a].state # "open"
    THEN Settled(Fail(s, "ErrAccountClosed"), FALSE, {})
    ELSE IF s.height = s.account[a].settledAt THEN Settled(Return(s), FALSE, {})
    ELSE SettlePayments(s, a, AccountOpenPayments(s, a), s.height - s.account[a].settledAt)

-----------------------------------------------------------------------------
(* The exported operations of the keeper. *)

AccountCreate(s, a, deposit) ==
    LET sent == SendCoinsFromAccountToModule(s, deposit)
    IN  IF s.account[a].state # "none" THEN Fail(s, "ErrAccountExists")
        ELSE IF sent.err # "none" THEN sent
        ELSE Return([sent.st EXCEPT !.account[a] =
                        [state |-> "open", balance |-> deposit, transferred |-> 0,
                         settledAt |-> s.height]])

\* Variant: the deposit replaces the balance.
AccountDepositReplaces(s, a, amount) ==
    LET sent == SendCoinsFromAccountToModule(s, amount)
    IN  IF s.account[a].state # "open" THEN Fail(s, "ErrAccountClosed")
        ELSE IF sent.err # "none" THEN sent
        ELSE Return([sent.st EXCEPT !.account[a].balance = amount])

\* The deposit does not settle the account first.
AccountDeposit(s, a, amount) ==
    LET sent == SendCoinsFromAccountToModule(s, amount)
    IN  IF s.account[a].state = "none" THEN Fail(s, "ErrAccountNotFound")
        ELSE IF s.account[a].state # "open" THEN Fail(s, "ErrAccountClosed")
        ELSE IF sent.err # "none" THEN sent
        ELSE Return([sent.st EXCEPT !.account[a].balance = @ + amount])

AccountSettle(s, a) == DoAccountSettle(s, a)

AccountClose(s, a) ==
    LET Close(r, payout) ==
            IF payout.err # "none" THEN payout
            ELSE ReturnAfterHooks(payout.st, {a}, r.payments, "closed")
        Pay(r, refund) ==
            IF refund.err # "none" THEN refund
            ELSE Close(r, PaymentsWithdraw(refund.st, r.payments, "closed"))
        Refund(r) ==
            IF r.err # "none" \/ r.overdrawn THEN r
            ELSE Pay(r, AccountWithdraw(r.st, a, "closed"))
    IN  Refund(DoAccountSettle(s, a))

PaymentCreate(s, p, rate) ==
    LET Create(r) ==
            IF r.err # "none" THEN r
            ELSE IF r.overdrawn THEN Fail(r.st, "ErrAccountOverdrawn")
            ELSE IF rate = 0 THEN Fail(r.st, "ErrPaymentRateZero")
            ELSE IF r.st.payment[p].state # "none" THEN Fail(r.st, "ErrPaymentExists")
            ELSE Return([r.st EXCEPT !.payment[p] =
                    [state |-> "open", rate |-> rate, balance |-> 0, withdrawn |-> 0]])
    IN  Create(DoAccountSettle(s, AccountOf[p]))

PaymentWithdraw(s, p) ==
    LET Pay(r) ==
            IF r.err # "none" \/ r.overdrawn THEN r
            ELSE PaymentsWithdraw(r.st, {p}, r.st.payment[p].state)
    IN  IF s.payment[p].state = "none" THEN Fail(s, "ErrPaymentNotFound")
        ELSE IF s.payment[p].state # "open" THEN Fail(s, "ErrPaymentClosed")
        ELSE Pay(AccountSettle(s, AccountOf[p]))

PaymentClose(s, p) ==
    LET Close(payout) ==
            IF payout.err # "none" THEN payout
            ELSE ReturnAfterHooks(payout.st, {}, {p}, "closed")
        Pay(r) ==
            IF r.err # "none" \/ r.overdrawn THEN r
            ELSE Close(PaymentsWithdraw(r.st, {p}, "closed"))
    IN  IF s.payment[p].state = "none" THEN Fail(s, "ErrPaymentNotFound")
        ELSE IF s.payment[p].state # "open" THEN Fail(s, "ErrPaymentClosed")
        ELSE Pay(AccountSettle(s, AccountOf[p]))
=============================================================================
