------------------------------- MODULE Escrow -------------------------------
(***************************************************************************)
(* The escrow keeper on its own: callers create, fund, settle and close    *)
(* accounts and payments in any order, several calls may fall into one     *)
(* block, and blocks pass in between.  No hooks are registered (those of   *)
(* the market are in Marketplace).  A call that returns an error reverts   *)
(* with its transaction, so only calls that return nil are steps.          *)
(***************************************************************************)
EXTENDS EscrowKeeper

CONSTANTS
    Amounts,        \* amounts a caller may deposit
    Rates,          \* rates a caller may give a payment
    Supply,         \* coins the owners of accounts hold at first
    MaxHeight       \* bound: the last block modelled

ASSUME EscrowBounds ==
    /\ Amounts \subseteq Nat
    /\ Rates \subseteq Nat
    /\ Supply \in Nat
    /\ MaxHeight \in Nat

VARIABLES
    account,        \* account[a]: the stored account object
    payment,        \* payment[p]: the stored payment object
    module,         \* bank balance of the escrow module account
    wallet,         \* coins the owners of accounts hold
    height,         \* height of the block being executed
    closed          \* history: the ids on which a Close call has returned nil

vars == <<account, payment, module, wallet, height, closed>>

Store == [account |-> account, payment |-> payment, module |-> module,
          wallet |-> wallet, height |-> height]

\* The call r succeeds and its writes are committed.
Commit(r) ==
    /\ r.err = "none"
    /\ account' = r.st.account
    /\ payment' = r.st.payment
    /\ module' = r.st.module
    /\ wallet' = r.st.wallet
    /\ UNCHANGED height

-----------------------------------------------------------------------------
Init ==
    /\ account = [a \in AccountIDs |-> NoAccount]
    /\ payment = [p \in PaymentIDs |-> NoPayment]
    /\ module = 0
    /\ wallet = Supply
    /\ height = 0
    /\ closed = {}

CreateAccount(a, deposit) ==
    /\ Commit(AccountCreate(Store, a, deposit))
    /\ UNCHANGED closed

Deposit(a, amount) ==
    /\ Commit(AccountDeposit(Store, a, amount))
    /\ UNCHANGED closed

Settle(a) ==
    /\ Commit(AccountSettle(Store, a))
    /\ UNCHANGED closed

CloseAccount(a) ==
    /\ Commit(AccountClose(Store, a))
    /\ closed' = closed \cup {a}

CreatePayment(p, rate) ==
    /\ Commit(PaymentCreate(Store, p, rate))
    /\ UNCHANGED closed

Withdraw(p) ==
    /\ Commit(PaymentWithdraw(Store, p))
    /\ UNCHANGED closed

ClosePayment(p) ==
    /\ Commit(PaymentClose(Store, p))
    /\ closed' = closed \cup {p}

NextBlock ==
    /\ height < MaxHeight
    /\ height' = height + 1
    /\ UNCHANGED <<account, payment, module, wallet, closed>>

Next ==
    \/ \E a \in AccountIDs : \/ \E x \in Amounts : CreateAccount(a, x)
                             \/ \E x \in Amounts : Deposit(a, x)
                             \/ Settle(a)
                             \/ CloseAccount(a)
    \/ \E p \in PaymentIDs : \/ \E r \in Rates : CreatePayment(p, r)
                             \/ Withdraw(p)
                             \/ ClosePayment(p)
    \/ NextBlock

Spec == Init /\ [][Next]_vars

-----------------------------------------------------------------------------
(* Properties *)

\* Every stored object is well formed and every amount is a natural number.
TypeOK ==
    /\ account \in [AccountIDs -> Account]
    /\ payment \in [PaymentIDs -> Payment]
    /\ module \in Nat
    /\ wallet \in Nat
    /\ height \in Nat
    /\ closed \subseteq AccountIDs \cup PaymentIDs

\* The module account holds exactly the coins the stored accounts and payments
\* say are theirs: no call creates, loses or pays out twice a coin
\* (every Send*Module* call of keeper.go against the balances it goes with).  And
\* what an account says it transferred is what its payments received, whether
\* they withdrew it or not (Transferred is updated three times in a settlement,
\* once per distribution step).
BooksBalance ==
    /\ module = SumOver([a \in AccountIDs |-> account[a].balance], AccountIDs)
                + SumOver([p \in PaymentIDs |-> payment[p].balance], PaymentIDs)
    /\ \A a \in AccountIDs :
          account[a].transferred =
              SumOver([p \in AccountPayments(a) |-> payment[p].balance + payment[p].withdrawn],
                      AccountPayments(a))

\* An overdrawn account has nothing left, and none of its payments is still
\* open or owed anything: the branch of doAccountSettle that distributes the
\* rest does so completely.
OverdrawnIsFinal ==
    \A a \in AccountIDs : account[a].state = "overdrawn" =>
        /\ account[a].balance = 0
        /\ \A p \in AccountPayments(a) :
              payment[p].state # "open" /\ payment[p].balance = 0

\* A payment is overdrawn only if the account it draws on is, and exists only
\* if the account does (the second check of ValidateGenesis, genesis.go:46).
PaymentsFollowAccount ==
    \A p \in PaymentIDs :
        /\ payment[p].state = "overdrawn" => account[AccountOf[p]].state = "overdrawn"
        /\ payment[p].state # "none" => account[AccountOf[p]].state # "none"

\* What a store keeps true, strong enough to be inductive: a payment that is
\* not open is paid out, an open payment's account is not overdrawn, an
\* overdrawn payment's account is, a payment's account exists; an overdrawn
\* account is empty, and no account was settled in a later block.
Coherent(s) ==
    /\ \A p \in PaymentIDs :
          /\ s.payment[p].state # "open" => s.payment[p].balance = 0
          /\ s.payment[p].state = "overdrawn" => s.account[AccountOf[p]].state = "overdrawn"
          /\ s.payment[p].state # "none" => s.account[AccountOf[p]].state # "none"
          /\ s.payment[p].state = "open" => s.account[AccountOf[p]].state # "overdrawn"
    /\ \A a \in AccountIDs :
          /\ s.account[a].state = "overdrawn" => s.account[a].balance = 0
          /\ s.account[a].settledAt <= s.height

\* The inductive invariant: doAccountSettle leaves an account and all its
\* payments in matching states, whichever operation called it.
IInv == TypeOK /\ Coherent(Store)

\* The account a can be settled in this block and in every later one: the coin
\* arithmetic does not panic and ErrInvalidSettlement (keeper.go:399) is not
\* returned, so an account can always be closed.
SettlementNeverFails ==
    \A a \in AccountIDs, h \in height..(MaxHeight + 1) :
        account[a].state = "open" =>
            DoAccountSettle([Store EXCEPT !.height = h], a).err = "none"

\* A step pays a payment at most its rate for each block since its account was
\* settled, also when the account is overdrawn and the rest is distributed;
\* and when the account is not overdrawn by the step, exactly that.
NeverOverpaid ==
    [][\A p \in PaymentIDs :
          LET a      == AccountOf[p]
              before == payment[p].balance + payment[p].withdrawn
              after  == payment'[p].balance + payment'[p].withdrawn
              due    == payment[p].rate * (account'[a].settledAt - account[a].settledAt)
          IN  payment[p].state = "open" =>
                  /\ after >= before
                  /\ after - before <= due
                  /\ account'[a].state # "overdrawn" => after - before = due]_vars

\* When an account is overdrawn, payments with the same rate get the same up to
\* one coin, whatever their place in the store.
EqualRatesEqualShares ==
    [][\A p, q \in PaymentIDs :
          LET Gain(x) == payment'[x].balance + payment'[x].withdrawn
                         - payment[x].balance - payment[x].withdrawn
          IN  /\ AccountOf[p] = AccountOf[q]
              /\ payment[p].state = "open" /\ payment[q].state = "open"
              /\ payment[p].rate = payment[q].rate
              /\ account[AccountOf[p]].state = "open"
              /\ account'[AccountOf[p]].state = "overdrawn"
              => Gain(p) - Gain(q) \in {-1, 0, 1}]_vars

\* A settlement pays what is due: never too much, exactly while the account lasts,
\* and to equal rates equal shares of the rest.
PaidAsDue == NeverOverpaid /\ EqualRatesEqualShares

\* A stored object that is closed or overdrawn never changes its state again,
\* and an object is never removed.
EndStatesAreFinal ==
    [][/\ \A a \in AccountIDs :
             /\ account[a].state \in {"closed", "overdrawn"} =>
                    account'[a].state = account[a].state
             /\ account[a].state # "none" => account'[a].state # "none"
       /\ \A p \in PaymentIDs :
             /\ payment[p].state \in {"closed", "overdrawn"} =>
                    payment'[p] = payment[p]
             /\ payment[p].state # "none" => payment'[p].state # "none"]_vars

\* The first check of ValidateGenesis ("ensure state is in sync with payment",
\* genesis.go:41-45): an open payment draws on an open account.  ExportGenesis
\* writes every stored payment and account, so it must hold of every state.
OpenPaymentsHaveOpenAccounts ==
    \A p \in PaymentIDs :
        payment[p].state = "open" => account[AccountOf[p]].state = "open"

\* What AccountClose or PaymentClose has returned nil for is closed: an account
\* takes "no deposits after closed", and one "can't withdraw from a closed
\* payment" (keeper_test.go).
ClosedIsClosed ==
    /\ \A a \in closed \cap AccountIDs : account[a].state # "open"
    /\ \A p \in closed \cap PaymentIDs : payment[p].state # "open"
=============================================================================
