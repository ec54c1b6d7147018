---------------------------- MODULE EscrowProofs ----------------------------
(***************************************************************************)
(* Proofs about the escrow keeper (module Escrow), for every set of        *)
(* accounts and payments, every amount and rate and any number of blocks.  *)
(*                                                                         *)
(* The argument: Coherent is what every store keeps true, Evolves is what  *)
(* no call may undo, and Good(s, t) says that t is a well-formed coherent  *)
(* store reached from s without undoing anything.  One lemma per keeper    *)
(* operation shows Good; all of them rest on DoAccountSettleFacts, since   *)
(* every operation but AccountCreate and AccountDeposit settles the        *)
(* account first.  Sums of coins stay opaque in these proofs: what they    *)
(* add up to is model-checked (BooksBalance, SettlementNeverFails).        *)
(***************************************************************************)
EXTENDS Escrow, FiniteSetTheorems, TLAPS

\* A well-formed store of the escrow keeper.
StoreType ==
    [account : [AccountIDs -> Account], payment : [PaymentIDs -> Payment],
     module : Nat, wallet : Nat, height : Nat]

\* A quotient of naturals, as in the full blocks a balance pays, is a natural.
LEMMA QuotientType ==
    ASSUME NEW x \in Nat, NEW y \in Nat \ {0}
    PROVE  x \div y \in Nat
OBVIOUS

\* A product of naturals, as in a rate times a number of blocks, is a natural.
LEMMA ProductType ==
    ASSUME NEW x \in Nat, NEW y \in Nat
    PROVE  x * y \in Nat
OBVIOUS

\* x is a distribution that did not panic: natural amounts have been given to
\* the payments ps and a natural amount is left.
Distributed(x, ps) == x.err = "none" /\ x.left \in Nat /\ x.paid \in [ps -> Nat]

\* Handing out natural shares without a panic keeps a distribution well formed
\* (accountSettleDistributeWeighted, accountSettleDistributeEvenly).
LEMMA GiveType ==
    ASSUME NEW ps, NEW x, Distributed(x, ps), NEW share \in [ps -> Nat],
           Give(x, ps, share).err = "none"
    PROVE  /\ Distributed(Give(x, ps, share), ps)
           /\ Give(x, ps, share).overdrawn = x.overdrawn
<1> DEFINE total == SumOver(share, ps)
           all == [p \in ps |-> x.paid[p] + share[p]]
           y == Give(x, ps, share)
<1>1. y = [overdrawn |-> x.overdrawn, paid |-> all, left |-> x.left - total,
           err |-> IF x.left - total \in Nat THEN x.err ELSE "panic"]
  BY DEF Give
<1>2. y.err = "none"
  OBVIOUS
<1>3. all \in [ps -> Nat]
  BY DEF Distributed
<1> HIDE DEF y, total, all
<1>4. /\ x.left - total \in Nat /\ y.overdrawn = x.overdrawn
      /\ y.left = x.left - total /\ y.paid = all
  BY <1>1, <1>2
<1> QED
  BY <1>2, <1>3, <1>4 DEF Distributed, y

\* accountSettleFullblocks pays natural amounts and leaves at most what there
\* was.
LEMMA FullblocksType ==
    ASSUME NEW balance \in Nat, NEW ps, NEW rate \in [ps -> Nat],
           NEW blockRate \in Nat \ {0}, NEW delta \in Nat, NEW n \in Nat,
           AccountSettleFullblocks(balance, ps, rate, blockRate, delta, n).err = "none"
    PROVE  LET x == AccountSettleFullblocks(balance, ps, rate, blockRate, delta, n)
           IN  Distributed(x, ps) /\ x.left <= balance
<1> DEFINE x == AccountSettleFullblocks(balance, ps, rate, blockRate, delta, n)
           left == balance - blockRate * n
           full == [p \in ps |-> rate[p] * n]
<1>1. x = [overdrawn |-> n # delta, paid |-> full, left |-> left,
           err |-> IF left \in Nat THEN "none" ELSE "panic"]
  BY DEF AccountSettleFullblocks
<1>2. x.err = "none"
  OBVIOUS
<1>3. full \in [ps -> Nat]
  BY ProductType
<1>4. left <= balance
  BY ProductType
<1> HIDE DEF x, left, full
<1>5. left \in Nat /\ x.left = left /\ x.paid = full
  BY <1>1, <1>2
<1> QED
  BY <1>2, <1>3, <1>4, <1>5 DEF Distributed, x

\* The two distributions of an overdrawn account, when the code accepts them,
\* hand out natural amounts and leave nothing.
LEMMA SettleOverdrawnType ==
    ASSUME NEW ps \in SUBSET PaymentIDs, ps # {}, NEW rate \in [ps -> Nat],
           NEW blockRate \in Nat \ {0}, NEW x, Distributed(x, ps), x.overdrawn,
           SettleOverdrawn(x, ps, rate, blockRate).err = "none"
    PROVE  LET z == SettleOverdrawn(x, ps, rate, blockRate)
           IN  Distributed(z, ps) /\ z.left = 0
<1> DEFINE weighted == [p \in ps |-> WeightedShare(x.left, rate[p], blockRate)]
           w == Give(x, ps, weighted)
           even == [p \in ps |-> EvenShare(w.left, Cardinality(ps), Position(ps, p))]
           e == Give(w, ps, even)
           z == SettleOverdrawn(x, ps, rate, blockRate)
<1>0. x.err = "none"
  BY DEF Distributed
<1>1. z = CheckNothingRemains(e)
  BY <1>0 DEF SettleOverdrawn, AccountSettleDistributeWeighted,
              AccountSettleDistributeEvenly
<1>2. z.err = "none"
  OBVIOUS
<1> HIDE DEF z
<1>3. e.err = "none" /\ e.left = 0 /\ z = e
  <2>1. e.err # "none" => z = e
    BY <1>1 DEF CheckNothingRemains
  <2>2. e.err = "none"
    BY <1>2, <2>1
  <2>3. e.left # 0 => z.err = "ErrInvalidSettlement"
    BY <1>1, <2>2 DEF CheckNothingRemains, Give
  <2> QED
    BY <1>1, <1>2, <2>2, <2>3 DEF CheckNothingRemains
<1>4. w.err = "none" /\ w.left \in Nat
  <2>1. e.err = IF w.left - SumOver(even, ps) \in Nat THEN w.err ELSE "panic"
    BY DEF Give
  <2>2. w.err = "none"
    <3> HIDE DEF e, w, even
    <3> QED
      BY <1>3, <2>1
  <2>3. /\ w.err = IF x.left - SumOver(weighted, ps) \in Nat THEN x.err ELSE "panic"
        /\ w.left = x.left - SumOver(weighted, ps)
    BY DEF Give
  <2> HIDE DEF w
  <2> QED
    BY <2>2, <2>3
<1>5. weighted \in [ps -> Nat]
  <2> SUFFICES ASSUME NEW p \in ps
               PROVE  WeightedShare(x.left, rate[p], blockRate) \in Nat
    OBVIOUS
  <2>1. x.left * rate[p] \in Nat
    BY ProductType DEF Distributed
  <2> QED
    BY <2>1, QuotientType DEF WeightedShare
<1> HIDE DEF weighted
<1>6. Distributed(w, ps)
  BY <1>4, <1>5, GiveType
<1> HIDE DEF w
<1>7. even \in [ps -> Nat]
  <2>1. Cardinality(ps) \in Nat \ {0}
    BY EscrowIdentifiers, FS_Subset, FS_CardinalityType, FS_EmptySet
  <2> SUFFICES ASSUME NEW p \in ps
               PROVE  EvenShare(w.left, Cardinality(ps), Position(ps, p)) \in Nat
    OBVIOUS
  <2> QED
    BY <1>4, <2>1, QuotientType DEF EvenShare
<1> HIDE DEF even
<1>8. Distributed(e, ps)
  BY <1>3, <1>6, <1>7, GiveType
<1> HIDE DEF e
<1> QED
  BY <1>3, <1>8 DEF z

\* A settlement that the code accepts hands out natural amounts, never leaves
\* more than there was, and leaves nothing when the account is overdrawn.
LEMMA SettlementType ==
    ASSUME NEW balance \in Nat, NEW ps \in SUBSET PaymentIDs, ps # {},
           NEW rate \in [ps -> Nat], NEW delta \in Nat,
           Settlement(balance, ps, rate, delta).err = "none"
    PROVE  LET x == Settlement(balance, ps, rate, delta)
           IN  /\ x.left \in Nat
               /\ x.left <= balance
               /\ x.overdrawn => x.left = 0
               /\ x.paid \in [ps -> Nat]
<1> DEFINE blockRate == SumOver(rate, ps)
           n == NumFullBlocks(balance, blockRate, delta)
           full == AccountSettleFullblocks(balance, ps, rate, blockRate, delta, n)
           x == Settlement(balance, ps, rate, delta)
<1>0. x.err = "none"
  OBVIOUS
<1>1. blockRate \in Nat \ {0}
  <2>1. blockRate \notin Nat \ {0} => x.err = "panic"
    BY DEF Settlement, SettleAtRate
  <2> HIDE DEF x
  <2> QED
    BY <1>0, <2>1
<1>2. x = SettleOverdrawn(full, ps, rate, blockRate)
  BY <1>1 DEF Settlement, SettleAtRate
<1> HIDE DEF x, blockRate
<1>3. n \in Nat
  BY <1>1, QuotientType DEF NumFullBlocks
<1> HIDE DEF n
<1>4. full.err = "none"
  <2> HIDE DEF full
  <2> QED
    BY <1>0, <1>2 DEF SettleOverdrawn
<1>5. Distributed(full, ps) /\ full.left <= balance
  BY <1>1, <1>3, <1>4, FullblocksType
<1> HIDE DEF full
<1>6. CASE ~full.overdrawn
  <2>1. x = full
    BY <1>2, <1>6 DEF SettleOverdrawn
  <2> QED
    BY <1>5, <1>6, <2>1 DEF Distributed, x
<1>7. CASE full.overdrawn
  <2>1. Distributed(x, ps) /\ x.left = 0
    BY <1>0, <1>1, <1>2, <1>5, <1>7, SettleOverdrawnType
  <2> QED
    BY <2>1 DEF Distributed, x
<1> QED
  BY <1>6, <1>7

-----------------------------------------------------------------------------
\* No object leaves an end state or the store, and the block does not change.
Evolves(s, t) ==
    /\ t.height = s.height
    /\ \A a \in AccountIDs :
          /\ s.account[a].state \in {"closed", "overdrawn"} =>
                 t.account[a].state = s.account[a].state
          /\ s.account[a].state # "none" => t.account[a].state # "none"
    /\ \A p \in PaymentIDs :
          /\ s.payment[p].state \in {"closed", "overdrawn"} => t.payment[p] = s.payment[p]
          /\ s.payment[p].state # "none" => t.payment[p].state # "none"

\* What every call that returns nil guarantees of the store it leaves.
Good(s, t) == t \in StoreType /\ Coherent(t) /\ Evolves(s, t)

\* paymentWithdraw on several payments: those that are owed something are paid
\* and saved in the given state, all the rest is as before.
LEMMA PaymentsWithdrawFacts ==
    ASSUME NEW s \in StoreType, NEW ps \in SUBSET PaymentIDs, NEW state \in States,
           PaymentsWithdraw(s, ps, state).err = "none"
    PROVE  LET t == PaymentsWithdraw(s, ps, state).st
           IN  /\ t \in StoreType
               /\ t.account = s.account
               /\ t.height = s.height
               /\ \A p \in PaymentIDs :
                     IF p \in ps /\ s.payment[p].balance # 0
                     THEN t.payment[p].state = state /\ t.payment[p].balance = 0
                     ELSE t.payment[p] = s.payment[p]
<1> DEFINE due   == {p \in ps : s.payment[p].balance # 0}
           total == SumOver([p \in due |-> s.payment[p].balance], due)
           sent  == PayFromModule(s, total)
           paid  == [p \in PaymentIDs |->
                        IF p \in due
                        THEN [state |-> state, rate |-> s.payment[p].rate, balance |-> 0,
                              withdrawn |-> s.payment[p].withdrawn + s.payment[p].balance]
                        ELSE s.payment[p]]
<1>1. CASE due = {}
  BY <1>1 DEF PaymentsWithdraw, Return
<1>2. CASE due # {}
  <2> HIDE DEF total
  <2>1. /\ s.module - total \in Nat
        /\ sent = Return([s EXCEPT !.module = s.module - total])
        /\ PaymentsWithdraw(s, ps, state) = Return([sent.st EXCEPT !.payment = paid])
    BY <1>2 DEF PaymentsWithdraw, PayFromModule, Return, Fail, total
  <2>2. paid \in [PaymentIDs -> Payment]
    <3> SUFFICES ASSUME NEW p \in PaymentIDs
                 PROVE  [state |-> state, rate |-> s.payment[p].rate, balance |-> 0,
                         withdrawn |-> s.payment[p].withdrawn + s.payment[p].balance]
                             \in Payment
      BY DEF StoreType
    <3>1. s.payment[p] \in Payment
      BY DEF StoreType
    <3> QED
      BY <3>1 DEF Payment
  <2>3. \A p \in PaymentIDs :
            IF p \in ps /\ s.payment[p].balance # 0
            THEN paid[p].state = state /\ paid[p].balance = 0
            ELSE paid[p] = s.payment[p]
    BY DEF StoreType, Payment
  <2> HIDE DEF paid, sent
  <2>4. PaymentsWithdraw(s, ps, state).st
            = [s EXCEPT !.module = s.module - total, !.payment = paid]
    BY <2>1 DEF Return, StoreType
  <2> QED
    BY <2>1, <2>2, <2>3, <2>4 DEF StoreType
<1> QED
  BY <1>1, <1>2

\* t is s after its account a has paid its open payments ps, with left to spare.
PaidOut(s, t, a, ps, left) ==
    /\ t \in StoreType
    /\ t.height = s.height
    /\ t.account[a].settledAt = s.height
    /\ t.account[a].balance = left
    /\ t.account[a].state = s.account[a].state
    /\ \A b \in AccountIDs \ {a} : t.account[b] = s.account[b]
    /\ \A p \in PaymentIDs :
          /\ t.payment[p].state = s.payment[p].state
          /\ p \notin ps => t.payment[p] = s.payment[p]

\* The distribution of a settlement touches one account's balance and height
\* and its open payments, and no state.
LEMMA PayOutFacts ==
    ASSUME NEW s \in StoreType, Coherent(s), NEW a \in AccountIDs,
           NEW ps \in SUBSET PaymentIDs, NEW paid \in [ps -> Nat],
           NEW left \in Nat, left <= s.account[a].balance
    PROVE  PaidOut(s, PayOut(s, a, ps, paid, left), a, ps, left)
<1> DEFINE acct == [state |-> s.account[a].state, balance |-> left,
                    transferred |-> s.account[a].transferred
                                    + (s.account[a].balance - left),
                    settledAt |-> s.height]
           pays == [p \in PaymentIDs |->
                        IF p \in ps
                        THEN [s.payment[p] EXCEPT !.balance = @ + paid[p]]
                        ELSE s.payment[p]]
<1>0. s.account[a] \in Account
  BY DEF StoreType
<1>1. acct \in Account
  BY <1>0 DEF StoreType, Account
<1>2. pays \in [PaymentIDs -> Payment]
  BY DEF StoreType, Payment
<1>3. \A p \in PaymentIDs :
          pays[p].state = s.payment[p].state /\ (p \notin ps => pays[p] = s.payment[p])
  BY DEF StoreType, Payment
<1>4. acct.settledAt = s.height /\ acct.balance = left /\ acct.state = s.account[a].state
  BY DEF StoreType, Account
<1>5. PayOut(s, a, ps, paid, left) = [s EXCEPT !.account = [s.account EXCEPT ![a] = acct],
                                      !.payment = pays]
  BY DEF PayOut, StoreType
<1> HIDE DEF acct, pays
<1> DEFINE t == PayOut(s, a, ps, paid, left)
           accts == [s.account EXCEPT ![a] = acct]
<1>6. /\ t \in StoreType
      /\ t.account = accts
      /\ t.payment = pays
      /\ t.height = s.height
  <2>1. accts \in [AccountIDs -> Account]
    BY <1>1 DEF StoreType
  <2> HIDE DEF accts
  <2>2. t = [s EXCEPT !.account = accts, !.payment = pays]
    BY <1>5 DEF accts
  <2> HIDE DEF t
  <2> QED
    BY <1>2, <2>1, <2>2 DEF StoreType
<1>7. t.account[a] = acct /\ \A b \in AccountIDs \ {a} : t.account[b] = s.account[b]
  BY <1>6 DEF StoreType
<1> HIDE DEF t
<1> QED
  BY <1>3, <1>4, <1>6, <1>7 DEF t, PaidOut

\* The ways doAccountSettle can return nil: already settled in this block, no
\* open payments, paid in full, overdrawn.
LEMMA SettleCases ==
    ASSUME NEW s \in StoreType, NEW a \in AccountIDs,
           DoAccountSettle(s, a).err = "none"
    PROVE  LET r     == DoAccountSettle(s, a)
               delta == s.height - s.account[a].settledAt
               ps    == AccountOpenPayments(s, a)
               x     == Settlement(s.account[a].balance, ps,
                                   [p \in ps |-> s.payment[p].rate], delta)
               paid  == PayOut(s, a, ps, x.paid, x.left)
               gone  == Overdraw(paid, a, ps)
           IN  /\ s.account[a].state = "open"
               /\ \/ /\ r.st = s
                     /\ r.overdrawn = FALSE /\ r.payments = {}
                  \/ /\ r.st = [s EXCEPT !.account[a].settledAt = s.height]
                     /\ r.overdrawn = FALSE /\ r.payments = {}
                  \/ /\ ps # {} /\ x.err = "none"
                     /\ r.st = paid
                     /\ r.overdrawn = FALSE /\ r.payments = ps
                  \/ /\ ps # {} /\ x.err = "none" /\ x.overdrawn
                     /\ gone.err = "none" /\ r.st = gone.st
                     /\ r.overdrawn = TRUE /\ r.payments = ps
<1> DEFINE acct  == s.account[a]
           delta == s.height - acct.settledAt
           ps    == AccountOpenPayments(s, a)
           x     == Settlement(acct.balance, ps, [p \in ps |-> s.payment[p].rate], delta)
           paid  == PayOut(s, a, ps, x.paid, x.left)
           gone  == Overdraw(paid, a, ps)
           r     == DoAccountSettle(s, a)
<1>0. r.err = "none"
  OBVIOUS
<1>1. acct.state = "open"
  <2>1. acct.state # "open" => r.err \in {"ErrAccountNotFound", "ErrAccountClosed"}
    BY DEF DoAccountSettle, Settled, Fail
  <2> HIDE DEF r
  <2> QED
    BY <1>0, <2>1
<1>2. CASE s.height = acct.settledAt
  <2>1. r = Settled(Return(s), FALSE, {})
    BY <1>1, <1>2 DEF DoAccountSettle
  <2> QED
    BY <1>1, <2>1 DEF Settled, Return
<1>3. CASE s.height # acct.settledAt /\ ps = {}
  <2>1. r = Settled(Return([s EXCEPT !.account[a].settledAt = s.height]), FALSE, {})
    BY <1>1, <1>3 DEF DoAccountSettle, SettlePayments
  <2> QED
    BY <1>1, <2>1 DEF Settled, Return
<1>4. CASE s.height # acct.settledAt /\ ps # {}
  <2>1. r = IF x.err # "none" THEN Settled(Fail(s, x.err), FALSE, {})
            ELSE IF ~x.overdrawn THEN Settled(Return(paid), FALSE, ps)
            ELSE IF gone.err # "none" THEN Settled(gone, FALSE, {})
            ELSE Settled(ReturnAfterHooks(gone.st, {a}, ps, "overdrawn"), TRUE, ps)
    BY <1>1, <1>4 DEF DoAccountSettle, SettlePayments
  <2> HIDE DEF r, gone, paid, x, ps
  <2>2. /\ x.err = "none"
        /\ \/ r.st = paid /\ r.overdrawn = FALSE /\ r.payments = ps
           \/ /\ x.overdrawn /\ gone.err = "none" /\ r.st = gone.st
              /\ r.overdrawn = TRUE /\ r.payments = ps
    BY <1>0, <2>1 DEF Settled, Return, Fail, ReturnAfterHooks
  <2> QED
    BY <1>1, <1>4, <2>2 DEF r, gone, paid, x, ps
<1> QED
  BY <1>2, <1>3, <1>4

\* The overdrawn branch of doAccountSettle saves the account and all its open
\* payments as overdrawn and leaves the payments nothing to withdraw.
LEMMA OverdrawFacts ==
    ASSUME NEW s \in StoreType, NEW a \in AccountIDs,
           NEW ps \in SUBSET PaymentIDs, Overdraw(s, a, ps).err = "none"
    PROVE  LET t == Overdraw(s, a, ps).st
           IN  /\ t \in StoreType
               /\ t.height = s.height
               /\ t.account[a].state = "overdrawn"
               /\ t.account[a].balance = s.account[a].balance
               /\ t.account[a].settledAt = s.account[a].settledAt
               /\ \A b \in AccountIDs \ {a} : t.account[b] = s.account[b]
               /\ \A p \in PaymentIDs :
                     IF p \in ps
                     THEN t.payment[p].state = "overdrawn" /\ t.payment[p].balance = 0
                     ELSE t.payment[p] = s.payment[p]
<1> DEFINE marked == [p \in PaymentIDs |->
                         IF p \in ps THEN [s.payment[p] EXCEPT !.state = "overdrawn"]
                                     ELSE s.payment[p]]
           u == [s EXCEPT !.account[a].state = "overdrawn", !.payment = marked]
           t == Overdraw(s, a, ps).st
<1>1. s.account[a] \in Account /\ s.payment \in [PaymentIDs -> Payment]
  BY DEF StoreType
<1>2. marked \in [PaymentIDs -> Payment]
  BY <1>1 DEF Payment, States
<1>3. \A p \in PaymentIDs :
          IF p \in ps THEN marked[p].state = "overdrawn" ELSE marked[p] = s.payment[p]
  BY <1>1 DEF Payment
<1> HIDE DEF marked
<1>4. /\ u \in StoreType
      /\ u.payment = marked
      /\ u.height = s.height
      /\ u.account[a] = [s.account[a] EXCEPT !.state = "overdrawn"]
      /\ \A b \in AccountIDs \ {a} : u.account[b] = s.account[b]
  BY <1>1, <1>2 DEF StoreType, Account, States
<1>5. /\ t \in StoreType
      /\ t.account = u.account
      /\ t.height = u.height
      /\ \A p \in PaymentIDs :
             IF p \in ps /\ u.payment[p].balance # 0
             THEN t.payment[p].state = "overdrawn" /\ t.payment[p].balance = 0
             ELSE t.payment[p] = u.payment[p]
  <2>1. Overdraw(s, a, ps) = PaymentsWithdraw(u, ps, "overdrawn")
    BY DEF Overdraw, marked
  <2> HIDE DEF u
  <2>2. PaymentsWithdraw(u, ps, "overdrawn").err = "none"
    BY <2>1
  <2>3. "overdrawn" \in States
    BY DEF States
  <2> QED
    BY <1>4, <2>1, <2>2, <2>3, PaymentsWithdrawFacts
<1> HIDE DEF u, t
<1>6. /\ t.account[a].state = "overdrawn"
      /\ t.account[a].balance = s.account[a].balance
      /\ t.account[a].settledAt = s.account[a].settledAt
  BY <1>1, <1>4, <1>5 DEF Account
<1>7. \A p \in PaymentIDs :
          IF p \in ps
          THEN t.payment[p].state = "overdrawn" /\ t.payment[p].balance = 0
          ELSE t.payment[p] = s.payment[p]
  BY <1>3, <1>4, <1>5
<1> QED
  BY <1>4, <1>5, <1>6, <1>7 DEF t

\* accountOpenPayments returns the stored open payments of the account.
LEMMA OpenPaymentsType ==
    ASSUME NEW s \in StoreType, NEW a \in AccountIDs
    PROVE  /\ AccountOpenPayments(s, a) \in SUBSET PaymentIDs
           /\ \A p \in PaymentIDs :
                 p \in AccountOpenPayments(s, a) <=>
                     AccountOf[p] = a /\ s.payment[p].state = "open"
           /\ [p \in AccountOpenPayments(s, a) |-> s.payment[p].rate]
                 \in [AccountOpenPayments(s, a) -> Nat]
  BY DEF AccountOpenPayments, AccountPayments, StoreType, Payment

\* Guarantees of consecutive calls compose.
LEMMA GoodTransitive ==
    ASSUME NEW s, NEW t, NEW u, Good(s, t), Good(t, u)
    PROVE  Good(s, u)
  BY DEF Good, Evolves

\* doAccountSettle leaves a good store; when it does not report the account
\* overdrawn, the account is open and no payment has changed its state.
LEMMA DoAccountSettleFacts ==
    ASSUME NEW s \in StoreType, Coherent(s), NEW a \in AccountIDs,
           DoAccountSettle(s, a).err = "none"
    PROVE  LET r == DoAccountSettle(s, a)
           IN  /\ Good(s, r.st)
               /\ s.account[a].state = "open"
               /\ r.payments \in SUBSET PaymentIDs
               /\ \A p \in r.payments : s.payment[p].state = "open" /\ AccountOf[p] = a
               /\ r.overdrawn \/ /\ r.st.account[a].state = "open"
                                 /\ \A p \in PaymentIDs :
                                       r.st.payment[p].state = s.payment[p].state
<1> DEFINE r     == DoAccountSettle(s, a)
           delta == s.height - s.account[a].settledAt
           ps    == AccountOpenPayments(s, a)
           x     == Settlement(s.account[a].balance, ps,
                               [p \in ps |-> s.payment[p].rate], delta)
           paid  == PayOut(s, a, ps, x.paid, x.left)
           gone  == Overdraw(paid, a, ps)
<1>1. /\ s.account[a].state = "open"
      /\ \/ /\ r.st = s
            /\ r.overdrawn = FALSE /\ r.payments = {}
         \/ /\ r.st = [s EXCEPT !.account[a].settledAt = s.height]
            /\ r.overdrawn = FALSE /\ r.payments = {}
         \/ /\ ps # {} /\ x.err = "none"
            /\ r.st = paid
            /\ r.overdrawn = FALSE /\ r.payments = ps
         \/ /\ ps # {} /\ x.err = "none" /\ x.overdrawn
            /\ gone.err = "none" /\ r.st = gone.st
            /\ r.overdrawn = TRUE /\ r.payments = ps
  BY SettleCases
<1>2. /\ ps \in SUBSET PaymentIDs
      /\ \A p \in PaymentIDs : p \in ps <=> AccountOf[p] = a /\ s.payment[p].state = "open"
      /\ [p \in ps |-> s.payment[p].rate] \in [ps -> Nat]
  BY OpenPaymentsType
<1>3. s.account[a] \in Account /\ delta \in Nat /\ s.account[a].balance \in Nat
  BY DEF StoreType, Account, Coherent
<1>4. ps # {} /\ x.err = "none" =>
          /\ x.left \in Nat
          /\ x.left <= s.account[a].balance
          /\ x.overdrawn => x.left = 0
          /\ x.paid \in [ps -> Nat]
  <2> HIDE DEF ps, delta
  <2> QED
    BY <1>2, <1>3, SettlementType
<1> HIDE DEF r, ps, x
<1>5. ps # {} /\ x.err = "none" => PaidOut(s, paid, a, ps, x.left)
  BY <1>2, <1>4, PayOutFacts
<1> HIDE DEF paid
<1>6. ps # {} /\ x.err = "none" /\ gone.err = "none" =>
          /\ gone.st \in StoreType
          /\ gone.st.height = paid.height
          /\ gone.st.account[a].state = "overdrawn"
          /\ gone.st.account[a].balance = paid.account[a].balance
          /\ gone.st.account[a].settledAt = paid.account[a].settledAt
          /\ \A b \in AccountIDs \ {a} : gone.st.account[b] = paid.account[b]
          /\ \A p \in PaymentIDs :
                IF p \in ps
                THEN gone.st.payment[p].state = "overdrawn" /\ gone.st.payment[p].balance = 0
                ELSE gone.st.payment[p] = paid.payment[p]
  BY <1>2, <1>5, OverdrawFacts DEF PaidOut
<1> HIDE DEF gone
<1>7. CASE r.st = s /\ r.overdrawn = FALSE /\ r.payments = {}
  BY <1>1, <1>7 DEF Good, Evolves, r
<1>8. CASE /\ r.st = [s EXCEPT !.account[a].settledAt = s.height]
           /\ r.overdrawn = FALSE /\ r.payments = {}
  <2> DEFINE t == [s EXCEPT !.account[a].settledAt = s.height]
  <2>1. t \in StoreType /\ t.height = s.height /\ t.payment = s.payment
    BY <1>3 DEF StoreType, Account
  <2>2. /\ \A b \in AccountIDs : /\ t.account[b].state = s.account[b].state
                                /\ t.account[b].balance = s.account[b].balance
        /\ t.account[a].settledAt = s.height
        /\ \A b \in AccountIDs \ {a} : t.account[b] = s.account[b]
    BY <1>3 DEF StoreType, Account
  <2> HIDE DEF t
  <2>3. Coherent(t)
    BY <2>1, <2>2, EscrowIdentifiers DEF Coherent, StoreType
  <2>4. Evolves(s, t)
    BY <2>1, <2>2 DEF Evolves
  <2>5. r.st = t
    BY <1>8 DEF t
  <2> QED
    BY <1>1, <1>8, <2>1, <2>2, <2>3, <2>4, <2>5 DEF Good, r
<1>9. CASE /\ ps # {} /\ x.err = "none" /\ r.st = paid
           /\ r.overdrawn = FALSE /\ r.payments = ps
  <2>1. Coherent(paid)
    BY <1>1, <1>2, <1>5, <1>9, EscrowIdentifiers DEF Coherent, StoreType, PaidOut
  <2>2. Evolves(s, paid)
    BY <1>1, <1>2, <1>5, <1>9 DEF Evolves, PaidOut
  <2> QED
    BY <1>1, <1>2, <1>5, <1>9, <2>1, <2>2 DEF Good, r, PaidOut
<1>10. CASE /\ ps # {} /\ x.err = "none" /\ x.overdrawn
            /\ gone.err = "none" /\ r.st = gone.st
            /\ r.overdrawn = TRUE /\ r.payments = ps
  <2> DEFINE t == gone.st
  <2>0. /\ t.height = s.height
        /\ t.account[a].state = "overdrawn"
        /\ t.account[a].balance = 0
        /\ t.account[a].settledAt = s.height
        /\ \A b \in AccountIDs \ {a} : t.account[b] = s.account[b]
        /\ \A p \in ps : t.payment[p].state = "overdrawn" /\ t.payment[p].balance = 0
        /\ \A p \in PaymentIDs \ ps : t.payment[p] = s.payment[p]
    BY <1>2, <1>4, <1>5, <1>6, <1>10 DEF PaidOut
  <2> HIDE DEF t
  <2>1. Coherent(t)
    <3>1. \A b \in AccountIDs :
              /\ t.account[b].state = "overdrawn" => t.account[b].balance = 0
              /\ t.account[b].settledAt <= t.height
      BY <2>0 DEF Coherent, StoreType
    <3>2. \A p \in PaymentIDs :
              /\ t.payment[p].state # "open" => t.payment[p].balance = 0
              /\ t.payment[p].state = "overdrawn" => t.account[AccountOf[p]].state = "overdrawn"
              /\ t.payment[p].state # "none" => t.account[AccountOf[p]].state # "none"
              /\ t.payment[p].state = "open" => t.account[AccountOf[p]].state # "overdrawn"
      BY <1>1, <1>2, <2>0, EscrowIdentifiers DEF Coherent
    <3> QED
      BY <3>1, <3>2 DEF Coherent
  <2>2. Evolves(s, gone.st)
    BY <1>1, <1>2, <1>5, <1>6, <1>10 DEF Evolves, PaidOut
  <2> QED
    BY <1>1, <1>2, <1>6, <1>10, <2>1, <2>2 DEF Good, r, t
<1> QED
  BY <1>1, <1>7, <1>8, <1>9, <1>10

-----------------------------------------------------------------------------
\* AccountCreate keeps every guarantee.
LEMMA AccountCreateGood ==
    ASSUME NEW s \in StoreType, Coherent(s), NEW a \in AccountIDs, NEW deposit \in Nat,
           AccountCreate(s, a, deposit).err = "none"
    PROVE  Good(s, AccountCreate(s, a, deposit).st)
<1> DEFINE acct == [state |-> "open", balance |-> deposit, transferred |-> 0,
                    settledAt |-> s.height]
           t == AccountCreate(s, a, deposit).st
           u == [s EXCEPT !.wallet = s.wallet - deposit, !.module = s.module + deposit]
<1>1. /\ s.account[a].state = "none"
      /\ s.wallet - deposit \in Nat
      /\ AccountCreate(s, a, deposit) = Return([u EXCEPT !.account[a] = acct])
  BY DEF AccountCreate, SendCoinsFromAccountToModule, Return, Fail
<1>2. acct \in Account /\ acct.state = "open" /\ acct.settledAt = s.height
  BY DEF Account, States, StoreType
<1>w. s.wallet - deposit \in Nat /\ s.wallet \in Nat /\ s.module + deposit \in Nat
  <2> HIDE DEF u
  <2> QED
    BY <1>1 DEF StoreType
<1>u. /\ u \in StoreType /\ u.height = s.height
      /\ u.payment = s.payment /\ u.account = s.account
  BY <1>w DEF StoreType
<1> HIDE DEF acct, u
<1>3. /\ t \in StoreType /\ t.height = s.height /\ t.payment = s.payment
      /\ t.account = [s.account EXCEPT ![a] = acct]
  BY <1>1, <1>2, <1>u DEF StoreType, Return
<1> HIDE DEF t
<1>4. t.account[a] = acct /\ \A b \in AccountIDs \ {a} : t.account[b] = s.account[b]
  BY <1>3 DEF StoreType
<1>5. Coherent(t)
  BY <1>1, <1>2, <1>3, <1>4, EscrowIdentifiers DEF Coherent, StoreType
<1>6. Evolves(s, t)
  BY <1>1, <1>3, <1>4 DEF Evolves
<1> QED
  BY <1>3, <1>5, <1>6 DEF Good, t

\* AccountDeposit keeps every guarantee, though it does not settle first.
LEMMA AccountDepositGood ==
    ASSUME NEW s \in StoreType, Coherent(s), NEW a \in AccountIDs, NEW amount \in Nat,
           AccountDeposit(s, a, amount).err = "none"
    PROVE  Good(s, AccountDeposit(s, a, amount).st)
<1> DEFINE acct == [s.account[a] EXCEPT !.balance = s.account[a].balance + amount]
           t == AccountDeposit(s, a, amount).st
           u == [s EXCEPT !.wallet = s.wallet - amount, !.module = s.module + amount]
<1>1. /\ s.account[a].state = "open"
      /\ s.wallet - amount \in Nat
      /\ AccountDeposit(s, a, amount) = Return([u EXCEPT !.account[a].balance = @ + amount])
  BY DEF AccountDeposit, SendCoinsFromAccountToModule, Return, Fail
<1>2. s.account[a] \in Account
  BY DEF StoreType
<1>3. /\ acct \in Account /\ acct.state = "open"
      /\ acct.settledAt = s.account[a].settledAt
  BY <1>1, <1>2 DEF Account
<1>w. s.wallet - amount \in Nat /\ s.wallet \in Nat /\ s.module + amount \in Nat
  <2> HIDE DEF u
  <2> QED
    BY <1>1 DEF StoreType
<1>u. /\ u \in StoreType /\ u.height = s.height
      /\ u.payment = s.payment /\ u.account = s.account
  BY <1>w DEF StoreType
<1> HIDE DEF u
<1>v. AccountDeposit(s, a, amount).st = [u EXCEPT !.account[a] = acct]
  BY <1>1, <1>2, <1>u DEF Return, StoreType
<1> HIDE DEF acct
<1>4. /\ t \in StoreType /\ t.height = s.height /\ t.payment = s.payment
      /\ t.account = [s.account EXCEPT ![a] = acct]
  BY <1>3, <1>u, <1>v DEF StoreType
<1> HIDE DEF t, acct
<1>5. t.account[a] = acct /\ \A b \in AccountIDs \ {a} : t.account[b] = s.account[b]
  BY <1>4 DEF StoreType
<1>6. Coherent(t)
  BY <1>1, <1>3, <1>4, <1>5, EscrowIdentifiers DEF Coherent, StoreType
<1>7. Evolves(s, t)
  BY <1>1, <1>3, <1>4, <1>5 DEF Evolves
<1> QED
  BY <1>4, <1>6, <1>7 DEF Good, t

\* Paying out open payments, whether they stay open or close, keeps every
\* guarantee.
LEMMA PaymentsWithdrawGood ==
    ASSUME NEW s \in StoreType, Coherent(s), NEW ps \in SUBSET PaymentIDs,
           NEW state \in {"open", "closed"},
           \A p \in ps : s.payment[p].state = "open",
           PaymentsWithdraw(s, ps, state).err = "none"
    PROVE  Good(s, PaymentsWithdraw(s, ps, state).st)
<1> DEFINE t == PaymentsWithdraw(s, ps, state).st
<1>1. state \in States
  BY DEF States
<1>2. /\ t \in StoreType
      /\ t.account = s.account
      /\ t.height = s.height
      /\ \A p \in PaymentIDs :
            IF p \in ps /\ s.payment[p].balance # 0
            THEN t.payment[p].state = state /\ t.payment[p].balance = 0
            ELSE t.payment[p] = s.payment[p]
  BY <1>1, PaymentsWithdrawFacts
<1> HIDE DEF t
<1>3. Coherent(t)
  BY <1>2 DEF Coherent
<1>4. Evolves(s, t)
  BY <1>2 DEF Evolves
<1> QED
  BY <1>2, <1>3, <1>4 DEF Good, t

\* Refunding an open account keeps every guarantee, also when its balance is
\* zero and it is not stored as closed.
LEMMA AccountWithdrawGood ==
    ASSUME NEW s \in StoreType, Coherent(s), NEW a \in AccountIDs,
           s.account[a].state = "open", AccountWithdraw(s, a, "closed").err = "none"
    PROVE  /\ Good(s, AccountWithdraw(s, a, "closed").st)
           /\ AccountWithdraw(s, a, "closed").st.payment = s.payment
<1> DEFINE acct == [s.account[a] EXCEPT !.state = "closed", !.balance = 0]
           t == AccountWithdraw(s, a, "closed").st
           b0 == s.account[a].balance
           u == [s EXCEPT !.module = s.module - b0, !.wallet = s.wallet + b0]
<1>1. CASE b0 = 0
  <2>1. t = s
    BY <1>1 DEF AccountWithdraw, Return
  <2> QED
    BY <2>1 DEF Good, Evolves
<1>2. CASE b0 # 0
  <2>1. /\ s.module - b0 \in Nat
        /\ AccountWithdraw(s, a, "closed") =
              Return([u EXCEPT !.account[a] = [@ EXCEPT !.state = "closed", !.balance = 0]])
    BY <1>2 DEF AccountWithdraw, RefundFromModule, Return, Fail
  <2>2. s.account[a] \in Account /\ b0 \in Nat
    BY DEF StoreType, Account
  <2>3. /\ acct \in Account /\ acct.state = "closed"
        /\ acct.settledAt = s.account[a].settledAt
    BY <2>2 DEF Account, States
  <2>w. s.module - b0 \in Nat /\ s.wallet + b0 \in Nat
    <3> HIDE DEF u
    <3> QED
      BY <2>1, <2>2 DEF StoreType
  <2>u. /\ u \in StoreType /\ u.height = s.height
        /\ u.payment = s.payment /\ u.account = s.account
    BY <2>w DEF StoreType
  <2> HIDE DEF u
  <2>v. AccountWithdraw(s, a, "closed").st = [u EXCEPT !.account[a] = acct]
    BY <2>1, <2>2, <2>u DEF Return, StoreType
  <2> HIDE DEF acct
  <2>4. /\ t \in StoreType /\ t.height = s.height /\ t.payment = s.payment
        /\ t.account = [s.account EXCEPT ![a] = acct]
    BY <2>3, <2>u, <2>v DEF StoreType
  <2> HIDE DEF t, acct
  <2>5. t.account[a] = acct /\ \A b \in AccountIDs \ {a} : t.account[b] = s.account[b]
    BY <2>4 DEF StoreType
  <2>6. Coherent(t)
    BY <2>3, <2>4, <2>5, EscrowIdentifiers DEF Coherent, StoreType
  <2>7. Evolves(s, t)
    BY <2>3, <2>4, <2>5 DEF Evolves
  <2> QED
    BY <2>4, <2>6, <2>7 DEF Good, t
<1> QED
  BY <1>1, <1>2

\* AccountSettle keeps every guarantee.
LEMMA AccountSettleGood ==
    ASSUME NEW s \in StoreType, Coherent(s), NEW a \in AccountIDs,
           AccountSettle(s, a).err = "none"
    PROVE  /\ Good(s, AccountSettle(s, a).st)
           /\ AccountSettle(s, a).overdrawn
              \/ \A p \in PaymentIDs :
                    AccountSettle(s, a).st.payment[p].state = s.payment[p].state
<1> DEFINE r == DoAccountSettle(s, a)
           q == AccountSettle(s, a)
<1>1. q.st = r.st /\ q.err = r.err /\ q.overdrawn = r.overdrawn
  BY DEF AccountSettle
<1>2. q.err = "none"
  OBVIOUS
<1> HIDE DEF q
<1>3. r.err = "none"
  BY <1>1, <1>2
<1>4. /\ Good(s, r.st)
      /\ r.overdrawn \/ \A p \in PaymentIDs : r.st.payment[p].state = s.payment[p].state
  BY <1>3, DoAccountSettleFacts
<1> HIDE DEF r
<1> QED
  BY <1>1, <1>4 DEF q

\* AccountClose keeps every guarantee, on the overdrawn path and on the
\* refunding one.
LEMMA AccountCloseGood ==
    ASSUME NEW s \in StoreType, Coherent(s), NEW a \in AccountIDs,
           AccountClose(s, a).err = "none"
    PROVE  Good(s, AccountClose(s, a).st)
<1> DEFINE r == DoAccountSettle(s, a)
           refund == AccountWithdraw(r.st, a, "closed")
           payout == PaymentsWithdraw(refund.st, r.payments, "closed")
           q == AccountClose(s, a)
<1>1. q.err = "none"
  OBVIOUS
<1>2. q = IF r.err # "none" \/ r.overdrawn THEN r
          ELSE IF refund.err # "none" THEN refund
          ELSE IF payout.err # "none" THEN payout
          ELSE ReturnAfterHooks(payout.st, {a}, r.payments, "closed")
  BY DEF AccountClose
<1> HIDE DEF q, payout, refund, r
<1>3. /\ r.err = "none"
      /\ \/ r.overdrawn /\ q.st = r.st
         \/ /\ ~r.overdrawn /\ refund.err = "none" /\ payout.err = "none"
            /\ q.st = payout.st
  BY <1>1, <1>2 DEF ReturnAfterHooks
<1>4. /\ Good(s, r.st)
      /\ r.payments \in SUBSET PaymentIDs
      /\ \A p \in r.payments : s.payment[p].state = "open"
      /\ r.overdrawn \/ /\ r.st.account[a].state = "open"
                        /\ \A p \in PaymentIDs : r.st.payment[p].state = s.payment[p].state
  BY <1>3, DoAccountSettleFacts DEF r
<1>5. CASE r.overdrawn
  BY <1>3, <1>4, <1>5 DEF q
<1>6. CASE ~r.overdrawn
  <2>1. r.st \in StoreType /\ Coherent(r.st) /\ r.st.account[a].state = "open"
    BY <1>4, <1>6 DEF Good
  <2>2. Good(r.st, refund.st) /\ refund.st.payment = r.st.payment
    BY <1>3, <1>6, <2>1, AccountWithdrawGood DEF refund
  <2>3. \A p \in r.payments : refund.st.payment[p].state = "open"
    BY <1>4, <1>6, <2>2
  <2>4. refund.st \in StoreType /\ Coherent(refund.st)
    BY <2>2 DEF Good
  <2>5. Good(refund.st, payout.st)
    BY <1>3, <1>4, <1>6, <2>3, <2>4, PaymentsWithdrawGood DEF payout
  <2>6. Good(s, payout.st)
    BY <1>4, <2>2, <2>5, GoodTransitive
  <2> QED
    BY <1>3, <1>6, <2>6 DEF q
<1> QED
  BY <1>5, <1>6

\* PaymentCreate keeps every guarantee: the account it settled first is open.
LEMMA PaymentCreateGood ==
    ASSUME NEW s \in StoreType, Coherent(s), NEW p \in PaymentIDs, NEW rate \in Nat,
           PaymentCreate(s, p, rate).err = "none"
    PROVE  Good(s, PaymentCreate(s, p, rate).st)
<1> DEFINE r == DoAccountSettle(s, AccountOf[p])
           new == [state |-> "open", rate |-> rate, balance |-> 0, withdrawn |-> 0]
           q == PaymentCreate(s, p, rate)
           t == [r.st EXCEPT !.payment[p] = new]
<1>0. AccountOf[p] \in AccountIDs
  BY EscrowIdentifiers
<1>1. q.err = "none"
  OBVIOUS
<1>2. q = IF r.err # "none" THEN r
          ELSE IF r.overdrawn THEN Fail(r.st, "ErrAccountOverdrawn")
          ELSE IF rate = 0 THEN Fail(r.st, "ErrPaymentRateZero")
          ELSE IF r.st.payment[p].state # "none" THEN Fail(r.st, "ErrPaymentExists")
          ELSE Return(t)
  BY DEF PaymentCreate
<1>3. new \in Payment /\ new.state = "open"
  BY DEF Payment, States
<1> HIDE DEF q, r, new, t
<1>4. /\ r.err = "none" /\ ~r.overdrawn
      /\ r.st.payment[p].state = "none" /\ q.st = t
  BY <1>1, <1>2 DEF Return, Fail
<1>5. Good(s, r.st) /\ r.st.account[AccountOf[p]].state = "open"
  BY <1>0, <1>4, DoAccountSettleFacts DEF r
<1>6. r.st \in StoreType /\ Coherent(r.st)
  BY <1>5 DEF Good
<1>7. /\ t \in StoreType /\ t.height = r.st.height /\ t.account = r.st.account
      /\ t.payment[p] = new
      /\ \A o \in PaymentIDs \ {p} : t.payment[o] = r.st.payment[o]
  BY <1>3, <1>6 DEF t, StoreType
<1>8. Coherent(t)
  BY <1>3, <1>5, <1>6, <1>7 DEF Coherent
<1>9. Evolves(r.st, t)
  BY <1>3, <1>4, <1>7 DEF Evolves
<1> QED
  BY <1>4, <1>5, <1>7, <1>8, <1>9, GoodTransitive DEF Good, q

\* PaymentWithdraw keeps every guarantee.
LEMMA PaymentWithdrawGood ==
    ASSUME NEW s \in StoreType, Coherent(s), NEW p \in PaymentIDs,
           PaymentWithdraw(s, p).err = "none"
    PROVE  Good(s, PaymentWithdraw(s, p).st)
<1> DEFINE r == AccountSettle(s, AccountOf[p])
           payout == PaymentsWithdraw(r.st, {p}, r.st.payment[p].state)
           q == PaymentWithdraw(s, p)
<1>0. AccountOf[p] \in AccountIDs
  BY EscrowIdentifiers
<1>1. q.err = "none"
  OBVIOUS
<1>2. q = IF s.payment[p].state = "none" THEN Fail(s, "ErrPaymentNotFound")
          ELSE IF s.payment[p].state # "open" THEN Fail(s, "ErrPaymentClosed")
          ELSE IF r.err # "none" \/ r.overdrawn THEN r
          ELSE payout
  BY DEF PaymentWithdraw
<1> HIDE DEF q, payout, r
<1>3. /\ s.payment[p].state = "open" /\ r.err = "none"
      /\ \/ r.overdrawn /\ q.st = r.st
         \/ ~r.overdrawn /\ payout.err = "none" /\ q.st = payout.st
  BY <1>1, <1>2 DEF Fail
<1>4. /\ Good(s, r.st)
      /\ r.overdrawn \/ r.st.payment[p].state = s.payment[p].state
  BY <1>0, <1>3, AccountSettleGood DEF r
<1>5. CASE r.overdrawn
  BY <1>3, <1>4, <1>5 DEF q
<1>6. CASE ~r.overdrawn
  <2>1. r.st \in StoreType /\ Coherent(r.st) /\ r.st.payment[p].state = "open"
    BY <1>3, <1>4, <1>6 DEF Good
  <2>2. payout = PaymentsWithdraw(r.st, {p}, "open")
    BY <2>1 DEF payout
  <2>3. Good(r.st, payout.st)
    BY <1>3, <1>6, <2>1, <2>2, PaymentsWithdrawGood
  <2> QED
    BY <1>3, <1>4, <1>6, <2>3, GoodTransitive DEF q
<1> QED
  BY <1>5, <1>6

\* PaymentClose keeps every guarantee.
LEMMA PaymentCloseGood ==
    ASSUME NEW s \in StoreType, Coherent(s), NEW p \in PaymentIDs,
           PaymentClose(s, p).err = "none"
    PROVE  Good(s, PaymentClose(s, p).st)
<1> DEFINE r == AccountSettle(s, AccountOf[p])
           payout == PaymentsWithdraw(r.st, {p}, "closed")
           q == PaymentClose(s, p)
<1>0. AccountOf[p] \in AccountIDs
  BY EscrowIdentifiers
<1>1. q.err = "none"
  OBVIOUS
<1>2. q = IF s.payment[p].state = "none" THEN Fail(s, "ErrPaymentNotFound")
          ELSE IF s.payment[p].state # "open" THEN Fail(s, "ErrPaymentClosed")
          ELSE IF r.err # "none" \/ r.overdrawn THEN r
          ELSE IF payout.err # "none" THEN payout
          ELSE ReturnAfterHooks(payout.st, {}, {p}, "closed")
  BY DEF PaymentClose
<1> HIDE DEF q, payout, r
<1>3. /\ s.payment[p].state = "open" /\ r.err = "none"
      /\ \/ r.overdrawn /\ q.st = r.st
         \/ ~r.overdrawn /\ payout.err = "none" /\ q.st = payout.st
  BY <1>1, <1>2 DEF ReturnAfterHooks, Fail
<1>4. /\ Good(s, r.st)
      /\ r.overdrawn \/ r.st.payment[p].state = s.payment[p].state
  BY <1>0, <1>3, AccountSettleGood DEF r
<1>5. CASE r.overdrawn
  BY <1>3, <1>4, <1>5 DEF q
<1>6. CASE ~r.overdrawn
  <2>1. r.st \in StoreType /\ Coherent(r.st) /\ r.st.payment[p].state = "open"
    BY <1>3, <1>4, <1>6 DEF Good
  <2>2. Good(r.st, payout.st)
    BY <1>3, <1>6, <2>1, PaymentsWithdrawGood DEF payout
  <2> QED
    BY <1>3, <1>4, <1>6, <2>2, GoodTransitive DEF q
<1> QED
  BY <1>5, <1>6

-----------------------------------------------------------------------------
\* Committing a call with these guarantees preserves the inductive invariant.
LEMMA CommitPreserves ==
    ASSUME IInv, NEW r, Commit(r), Good(Store, r.st),
           closed' \subseteq AccountIDs \cup PaymentIDs
    PROVE  IInv' /\ Evolves(Store, Store')
<1>1. r.st \in StoreType /\ Coherent(r.st) /\ Evolves(Store, r.st)
  BY DEF Good
<1>2. /\ Store'.account = r.st.account /\ Store'.payment = r.st.payment
      /\ Store'.height = height
  BY DEF Store, Commit
<1>3. r.st.height = height
  BY <1>1 DEF Evolves, Store
<1>4. TypeOK'
  BY <1>1 DEF TypeOK, IInv, Commit, StoreType
<1>5. Coherent(Store')
  BY <1>1, <1>2, <1>3 DEF Coherent
<1>6. Evolves(Store, Store')
  BY <1>1, <1>2, <1>3 DEF Evolves, Store
<1> QED
  BY <1>4, <1>5, <1>6 DEF IInv, Store

\* Every step preserves the inductive invariant, one case per operation of the
\* keeper, and undoes no end state.
LEMMA NextPreserves ==
    ASSUME IInv, Next
    PROVE  /\ IInv'
           /\ \/ Evolves(Store, Store')
              \/ UNCHANGED <<account, payment>>
<1>1. Store \in StoreType /\ Coherent(Store)
  BY DEF IInv, TypeOK, Store, StoreType
<1>2. closed \subseteq AccountIDs \cup PaymentIDs
  BY DEF IInv, TypeOK
<1>3. ASSUME NEW a \in AccountIDs, NEW x \in Amounts, CreateAccount(a, x)
      PROVE  IInv' /\ Evolves(Store, Store')
  <2> DEFINE r == AccountCreate(Store, a, x)
  <2>1. Commit(r) /\ closed' = closed /\ x \in Nat
    BY <1>3, EscrowBounds DEF CreateAccount
  <2>2. Good(Store, r.st)
    BY <1>1, <2>1, AccountCreateGood DEF Commit
  <2> QED
    BY <1>2, <2>1, <2>2, CommitPreserves
<1>4. ASSUME NEW a \in AccountIDs, NEW x \in Amounts, Deposit(a, x)
      PROVE  IInv' /\ Evolves(Store, Store')
  <2> DEFINE r == AccountDeposit(Store, a, x)
  <2>1. Commit(r) /\ closed' = closed /\ x \in Nat
    BY <1>4, EscrowBounds DEF Deposit
  <2>2. Good(Store, r.st)
    BY <1>1, <2>1, AccountDepositGood DEF Commit
  <2> QED
    BY <1>2, <2>1, <2>2, CommitPreserves
<1>5. ASSUME NEW a \in AccountIDs, Settle(a)
      PROVE  IInv' /\ Evolves(Store, Store')
  <2> DEFINE r == AccountSettle(Store, a)
  <2>1. Commit(r) /\ closed' = closed
    BY <1>5 DEF Settle
  <2>2. Good(Store, r.st)
    BY <1>1, <2>1, AccountSettleGood DEF Commit
  <2> QED
    BY <1>2, <2>1, <2>2, CommitPreserves
<1>6. ASSUME NEW a \in AccountIDs, CloseAccount(a)
      PROVE  IInv' /\ Evolves(Store, Store')
  <2> DEFINE r == AccountClose(Store, a)
  <2>1. Commit(r) /\ closed' = closed \cup {a}
    BY <1>6 DEF CloseAccount
  <2>2. Good(Store, r.st)
    BY <1>1, <2>1, AccountCloseGood DEF Commit
  <2>3. closed' \subseteq AccountIDs \cup PaymentIDs
    BY <1>2, <2>1
  <2> QED
    BY <2>1, <2>2, <2>3, CommitPreserves
<1>7. ASSUME NEW p \in PaymentIDs, NEW x \in Rates, CreatePayment(p, x)
      PROVE  IInv' /\ Evolves(Store, Store')
  <2> DEFINE r == PaymentCreate(Store, p, x)
  <2>1. Commit(r) /\ closed' = closed /\ x \in Nat
    BY <1>7, EscrowBounds DEF CreatePayment
  <2>2. Good(Store, r.st)
    BY <1>1, <2>1, PaymentCreateGood DEF Commit
  <2> QED
    BY <1>2, <2>1, <2>2, CommitPreserves
<1>8. ASSUME NEW p \in PaymentIDs, Withdraw(p)
      PROVE  IInv' /\ Evolves(Store, Store')
  <2> DEFINE r == PaymentWithdraw(Store, p)
  <2>1. Commit(r) /\ closed' = closed
    BY <1>8 DEF Withdraw
  <2>2. Good(Store, r.st)
    BY <1>1, <2>1, PaymentWithdrawGood DEF Commit
  <2> QED
    BY <1>2, <2>1, <2>2, CommitPreserves
<1>9. ASSUME NEW p \in PaymentIDs, ClosePayment(p)
      PROVE  IInv' /\ Evolves(Store, Store')
  <2> DEFINE r == PaymentClose(Store, p)
  <2>1. Commit(r) /\ closed' = closed \cup {p}
    BY <1>9 DEF ClosePayment
  <2>2. Good(Store, r.st)
    BY <1>1, <2>1, PaymentCloseGood DEF Commit
  <2>3. closed' \subseteq AccountIDs \cup PaymentIDs
    BY <1>2, <2>1
  <2> QED
    BY <2>1, <2>2, <2>3, CommitPreserves
<1>10. ASSUME NextBlock
       PROVE  IInv' /\ UNCHANGED <<account, payment>>
  BY <1>10 DEF NextBlock, IInv, TypeOK, Coherent, Store, Account
<1> QED
  BY <1>3, <1>4, <1>5, <1>6, <1>7, <1>8, <1>9, <1>10 DEF Next

\* The inductive invariant holds of every state the keeper reaches.
THEOREM Invariance == Spec => []IInv
<1>1. Init => IInv
  BY EscrowIdentifiers, EscrowBounds
     DEF Init, IInv, TypeOK, Coherent, Store, Account, Payment, States, NoAccount, NoPayment
<1>2. IInv /\ [Next]_vars => IInv'
  <2> SUFFICES ASSUME IInv, [Next]_vars PROVE IInv'
    OBVIOUS
  <2>1. CASE Next
    BY <2>1, NextPreserves
  <2>2. CASE UNCHANGED vars
    BY <2>2 DEF vars, IInv, TypeOK, Coherent, Store
  <2> QED
    BY <2>1, <2>2
<1> QED
  BY <1>1, <1>2, PTL DEF Spec

\* Every stored object stays well formed and no balance, transfer or height
\* becomes negative, through every call of keeper.go.
THEOREM TypeCorrect == Spec => []TypeOK
<1>1. IInv => TypeOK
  BY DEF IInv
<1> QED
  BY <1>1, Invariance, PTL

\* An overdrawn account is empty and has no payment that is open or owed
\* anything: doAccountSettle distributes the rest completely.
THEOREM OverdrawnFinal == Spec => []OverdrawnIsFinal
<1>1. IInv => OverdrawnIsFinal
  BY DEF IInv, Coherent, Store, OverdrawnIsFinal, AccountPayments
<1> QED
  BY <1>1, Invariance, PTL

\* A payment is overdrawn only with its account, and exists only with it (the
\* check of ValidateGenesis at genesis.go:46).
THEOREM PaymentsFollow == Spec => []PaymentsFollowAccount
<1>1. IInv => PaymentsFollowAccount
  BY DEF IInv, Coherent, Store, PaymentsFollowAccount
<1> QED
  BY <1>1, Invariance, PTL

\* No call of keeper.go changes the state of a closed or overdrawn account,
\* anything of a closed or overdrawn payment, or removes an object.
THEOREM EndStatesFinal == Spec => EndStatesAreFinal
<1> DEFINE Kept == /\ \A a \in AccountIDs :
                         /\ account[a].state \in {"closed", "overdrawn"} =>
                                account'[a].state = account[a].state
                         /\ account[a].state # "none" => account'[a].state # "none"
                   /\ \A p \in PaymentIDs :
                         /\ payment[p].state \in {"closed", "overdrawn"} =>
                                payment'[p] = payment[p]
                         /\ payment[p].state # "none" => payment'[p].state # "none"
<1>1. IInv /\ [Next]_vars => [Kept]_vars
  <2> SUFFICES ASSUME IInv, Next PROVE Kept
    BY DEF vars
  <2>1. CASE Evolves(Store, Store')
    BY <2>1 DEF Evolves, Store
  <2>2. CASE UNCHANGED <<account, payment>>
    BY <2>2
  <2> QED
    BY <2>1, <2>2, NextPreserves
<1> QED
  BY <1>1, Invariance, PTL DEF Spec, EndStatesAreFinal
=============================================================================
