--------------------------- MODULE CommissionBills ---------------------------
(***************************************************************************)
(* The money side of commissions (shopOrders/billSettlement.ts,            *)
(* commissionClawback.ts, commissionFinanceGuard.ts): a period's eligible  *)
(* commissions are put in a bill, the bill is paid, and an order returned  *)
(* later cancels its commission or, when that was paid, leaves a debt that *)
(* the next bills take off.                                                *)
(*                                                                         *)
(* Everything runs under one lock document that no process ever steals;    *)
(* what is hard is that a section may stop after any of its writes, and    *)
(* the next one, of any request, has to finish it.  An action is one write *)
(* with the reads before it.                                               *)
(***************************************************************************)
EXTENDS Integers, Sequences, FiniteSets, SequencesExt

CONSTANTS
  Rows,       \* commissions: an order, a product and a collaborator
  Collab,     \* row -> the collaborator (ctvCode)
  Period,     \* row -> the period in which it becomes eligible
  Amount,     \* row -> its amount
  Requests,   \* requests of staff and of order handlers
  Asked,      \* request -> what it asks for
  MaxBreaks,  \* bound: how many sections fail or die half way
  None,       \* no one, no period, no row
  Dead        \* a process that died with the lock

Collabs == {Collab[c] : c \in Rows}
Periods == {Period[c] : c \in Rows}

\* A bill to lock, a bill to pay, a row's order returned, or the page of the
\* bills, which only reconciles.
Kinds == [op : {"lock", "pay"}, p : Periods] \cup [op : {"return"}, c : Rows]
         \cup [op : {"refresh"}]

ASSUME BillsAssumption ==
  /\ IsFiniteSet(Rows)
  /\ Amount \in [Rows -> Nat \ {0}]
  /\ Asked \in [Requests -> Kinds]
  /\ MaxBreaks \in Nat
  /\ None \notin Rows \cup Periods \cup Requests \cup {Dead}
  /\ Dead \notin Requests

VARIABLES
  row,      \* commission rows
  bill,     \* period -> its bill
  order,    \* the periods whose bills exist, as they were locked
  account,  \* collaborator -> what the account keeps of the debt
  entry,    \* row -> its clawback in the ledger
  ledger,   \* the rows with a clawback, as they were entered
  offsets,  \* debt_offset entries of the ledger: bill, collaborator, amount
  section,  \* the lock and where its owner is
  req,      \* requests
  breaks    \* sections that stopped half way

books == <<row, bill, order, account, entry, ledger, offsets>>
billVars == <<row, bill, order, account, entry, ledger, offsets, section, req, breaks>>

-----------------------------------------------------------------------------
(* State *)

\* A payment is known by its bill, a collaborator being paid once in a bill.
Row == [status : {"eligible", "billed", "paid_out", "cancelled"},
        billed : BOOLEAN,                     \* billingPeriod is set
        by : Periods \cup {None}]             \* paymentOperationId

\* cash is paidAmount, returned the postPaymentAdjustments.
Line == [net : Nat, offset : Nat, paid : BOOLEAN, voided : BOOLEAN,
         cash : Nat, returned : SUBSET Rows]

NewLine(net) == [net |-> net, offset |-> 0, paid |-> FALSE, voided |-> FALSE,
                 cash |-> 0, returned |-> {}]

\* A line of a payment: recover says how much of each clawback has come back.
Paying == [net : Nat, offset : Nat, recover : [Rows -> Nat]]

\* Payments of collaborators, and bills with a line for each of others.
PaymentsOf(U) == [rows : SUBSET Rows, line : [U -> Paying]]

BillsOf(T, U) == [status : {"none", "locking", "locked", "paid", "cancelled"},
                  ids : SUBSET Rows, line : [T -> Line], rev : Nat,
                  pending : PaymentsOf(U) \cup {None}]  \* paymentPending

ASSUME NoneAssumption == \A U \in SUBSET Collabs : None \notin PaymentsOf(U)

NoBill == [status |-> "none", ids |-> {}, line |-> <<>>, rev |-> 0, pending |-> None]

NoEntry == [state |-> "none", recovered |-> 0]

NoSection == [by |-> None, phase |-> "recover", pc |-> "entries", p |-> None,
              c |-> None, t |-> None, todo |-> {}, over |-> TRUE]

NoRequest == [pc |-> "idle", rev |-> 0, amount |-> 0]

Clawbacks == {"debt", "flag"}
Payment == {"rows", "settle", "offset", "recovered", "close"}
Locking == {"bill", "lock"}

AreBills(b) ==
  /\ b = [p \in Periods |-> b[p]]
  /\ \A p \in Periods : \E T, U \in SUBSET Collabs : b[p] \in BillsOf(T, U)

BillsTypeOK ==
  /\ row \in [Rows -> Row]
  /\ AreBills(bill)
  /\ order \in Seq(Periods) /\ IsInjective(order)
  /\ account \in [Collabs -> [debt : Nat, entries : SUBSET Rows,
                              settled : SUBSET Periods]]
  /\ entry \in [Rows -> [state : {"none", "new", "applied"}, recovered : Nat]]
  /\ ledger \in Seq(Rows) /\ IsInjective(ledger)
  /\ Range(ledger) = {c \in Rows : entry[c].state # "none"}
  /\ offsets \subseteq Periods \X Collabs \X Nat
  /\ section \in [by : Requests \cup {None, Dead},
                  phase : {"recover", "work", "again", "last"},
                  pc : {"entries", "pending", "locking", "books", "work"}
                       \cup Clawbacks \cup Payment \cup Locking,
                  p : Periods \cup {None}, c : Rows \cup {None},
                  t : Collabs \cup {None}, todo : SUBSET Collabs, over : BOOLEAN]
  /\ req \in [Requests -> [pc : {"idle", "asked", "voided", "done"},
                           rev : Nat, amount : Nat]]
  /\ breaks \in 0..MaxBreaks

BillsInit ==
  /\ row = [c \in Rows |-> [status |-> "eligible", billed |-> FALSE, by |-> None]]
  /\ bill = [p \in Periods |-> NoBill]
  /\ order = <<>>
  /\ account = [t \in Collabs |-> [debt |-> 0, entries |-> {}, settled |-> {}]]
  /\ entry = [c \in Rows |-> NoEntry]
  /\ ledger = <<>>
  /\ offsets = {}
  /\ section = NoSection
  /\ req = [k \in Requests |-> NoRequest]
  /\ breaks = 0

Worth(S) == SumFunctionOnSet(Amount, S)
Least(a, b) == IF a <= b THEN a ELSE b
Minus(a, b) == IF a > b THEN a - b ELSE 0

Here(pc) == section.by \in Requests /\ section.pc = pc

\* The lines of a bill that wait to be paid, and what they come to.
Unpaid(p) ==
  {t \in DOMAIN bill[p].line : ~bill[p].line[t].paid /\ ~bill[p].line[t].voided}

NetOf(p) == SumFunction([t \in Unpaid(p) |-> bill[p].line[t].net])

\* The next write of the section, and what it keeps until then.
Goto(pc) == section' = [section EXCEPT !.pc = pc]

-----------------------------------------------------------------------------
(* withCommissionFinanceLock                                               *)

\* Staff confirm a payment with the revision and amount their page showed.
Ask(k) ==
  /\ Asked[k].op = "pay"
  /\ req[k].pc = "idle" /\ section.by # k
  /\ LET p == Asked[k].p IN
     /\ bill[p].status # "none"
     /\ req' = [req EXCEPT ![k] = [pc |-> "asked", rev |-> bill[p].rev,
                                   amount |-> NetOf(p)]]
  /\ UNCHANGED <<books, section, breaks>>

Acquire(k) ==
  /\ section.by = None
  /\ req[k].pc \in IF Asked[k].op = "pay" THEN {"asked"} ELSE {"idle", "voided"}
  /\ section' = [NoSection EXCEPT !.by = k]
  /\ UNCHANGED <<books, req, breaks>>

\* finance_busy: the request is sent again, from its start.
Busy(k) ==
  /\ section.by \notin {None, k}
  /\ req[k].pc \in {"asked", "voided"}
  /\ req' = [req EXCEPT ![k] = NoRequest]
  /\ UNCHANGED <<books, section, breaks>>

\* A call to the database fails and the lock is released, or the process
\* dies and the lock stays.
Break(k) ==
  /\ section.by = k
  /\ breaks < MaxBreaks
  /\ breaks' = breaks + 1
  /\ section' \in {NoSection, [NoSection EXCEPT !.by = Dead]}
  /\ req' = [req EXCEPT ![k] = NoRequest]
  /\ UNCHANGED books

\* Staff remove the lock of a dead process.
Unlock ==
  /\ section.by = Dead
  /\ section' = NoSection
  /\ UNCHANGED <<books, req, breaks>>

\* An error thrown in a section: nothing more is written.
Throw ==
  /\ section' = NoSection
  /\ req' = [req EXCEPT ![section.by] = NoRequest]

-----------------------------------------------------------------------------
(* The debt of a clawback: entered, added to the account once, flagged     *)

AddDebt ==
  LET c == section.c
      t == Collab[c]
  IN
  /\ Here("debt")
  /\ account' = IF c \in account[t].entries THEN account
       ELSE [account EXCEPT ![t].debt = @ + Amount[c], ![t].entries = @ \cup {c}]
  /\ Goto("flag")
  /\ UNCHANGED <<row, bill, order, entry, ledger, offsets, req, breaks>>

\* debtApplied; recovery goes on with the next entry.
FlagEntry ==
  /\ Here("flag")
  /\ entry' = [entry EXCEPT ![section.c].state = "applied"]
  /\ section' = IF section.phase = "work"
       THEN [section EXCEPT !.phase = "last", !.pc = "books", !.c = None]
       ELSE [section EXCEPT !.pc = "entries", !.c = None]
  /\ UNCHANGED <<row, bill, order, account, ledger, offsets, req, breaks>>

-----------------------------------------------------------------------------
(* finishPayment: what a payment recorded in the bill has left to write    *)

Op == bill[section.p].pending

Afterwards(todo) == IF todo = {} THEN "close" ELSE "settle"

\* Rows that are no longer billed make it throw: bill_payment_conflict.
PayRows ==
  LET paid == [c \in Rows |->
        IF c \in Op.rows /\ row[c].billed /\ Period[c] = section.p
                         /\ row[c].status = "billed"
          THEN [row[c] EXCEPT !.status = "paid_out", !.by = section.p] ELSE row[c]]
      todo == {t \in DOMAIN Op.line : Op.line[t].offset > 0}
  IN
  /\ Here("rows")
  /\ row' = paid
  /\ IF \A c \in Op.rows : paid[c].status = "paid_out" /\ paid[c].by = section.p
       THEN /\ section' = [section EXCEPT !.pc = Afterwards(todo), !.todo = todo]
            /\ UNCHANGED req
       ELSE Throw
  /\ UNCHANGED <<bill, order, account, entry, ledger, offsets, breaks>>

SettleThen(t, paid, throws) ==
  /\ Here("settle")
  /\ t \in section.todo
  /\ account' = paid
  /\ IF throws THEN Throw
     ELSE section' = [section EXCEPT !.pc = "offset", !.t = t] /\ UNCHANGED req
  /\ UNCHANGED <<row, bill, order, entry, ledger, offsets, breaks>>

Settled(t) == section.p \in account[t].settled

OffsetOff(t) ==
  [account EXCEPT ![t].debt = @ - Op.line[t].offset, ![t].settled = @ \cup {section.p}]

\* Mutant: a debt settled before the crash is taken off again.
SettleAgain(t) ==
  LET may == account[t].debt >= Op.line[t].offset
  IN  SettleThen(t, IF may THEN OffsetOff(t) ELSE account, ~may)

\* The debt and the payment's id in one update of the account.
Settle(t) ==
  LET may == account[t].debt >= Op.line[t].offset
  IN  SettleThen(t, IF may /\ ~Settled(t) THEN OffsetOff(t) ELSE account,
                    ~may /\ ~Settled(t))

OffsetEntry ==
  /\ Here("offset")
  /\ offsets' = offsets \cup {<<section.p, section.t, Op.line[section.t].offset>>}
  /\ Goto("recovered")
  /\ UNCHANGED <<row, bill, order, account, entry, ledger, req, breaks>>

\* Each clawback the debt came from is told how much of it has come back.
Recovered ==
  LET told == Op.line[section.t].recover
      todo == section.todo \ {section.t}
  IN
  /\ Here("recovered")
  /\ \/ \E c \in Rows :
          /\ entry[c].recovered < told[c]
          /\ entry' = [entry EXCEPT ![c].recovered = told[c]]
          /\ UNCHANGED section
     \/ /\ \A c \in Rows : entry[c].recovered >= told[c]
        /\ section' = [section EXCEPT !.pc = Afterwards(todo), !.t = None, !.todo = todo]
        /\ UNCHANGED entry
  /\ UNCHANGED <<row, bill, order, account, ledger, offsets, req, breaks>>

\* The bill's lines are written and the payment is no longer pending.
CloseBill ==
  LET lines == [t \in DOMAIN bill[section.p].line |->
        IF t \in DOMAIN Op.line
          THEN [bill[section.p].line[t] EXCEPT !.paid = TRUE, !.cash = Op.line[t].net,
                                               !.offset = Op.line[t].offset]
          ELSE bill[section.p].line[t]]
      closed == \A t \in DOMAIN lines : lines[t].paid \/ lines[t].voided
  IN
  /\ Here("close")
  /\ bill' = [bill EXCEPT ![section.p].line = lines,
                          ![section.p].status = IF closed THEN "paid" ELSE @,
                          ![section.p].rev = @ + 1,
                          ![section.p].pending = None]
  /\ section' = IF section.phase = "work"
       THEN [section EXCEPT !.phase = "last", !.pc = "books", !.p = None]
       ELSE [section EXCEPT !.pc = "pending", !.p = None]
  /\ UNCHANGED <<row, order, account, entry, ledger, offsets, req, breaks>>

-----------------------------------------------------------------------------
(* recover: clawbacks, then payments, then bills being locked              *)

Unapplied == {c \in Rows : entry[c].state = "new"}
PendingBills == {p \in Periods : bill[p].pending # None}
LockingBills == {p \in Periods : bill[p].status = "locking"}

\* Mutant: a payment that was not finished waits for its own retry.
RecoverNoPayments ==
  /\ \/ /\ Here("entries")
        /\ \/ \E c \in Unapplied : section' = [section EXCEPT !.pc = "debt", !.c = c]
           \/ Unapplied = {} /\ Goto("pending")
     \/ Here("pending") /\ Goto("locking")
     \/ /\ Here("locking")
        /\ \/ \E p \in LockingBills : section' = [section EXCEPT !.pc = "bill", !.p = p]
           \/ /\ LockingBills = {}
              /\ section' = [section EXCEPT !.pc = "books",
                    !.phase = IF @ = "again" THEN "last" ELSE @]
  /\ UNCHANGED <<books, req, breaks>>

\* The next thing of a kind to recover, or the next kind.
Recover ==
  /\ \/ /\ Here("entries")
        /\ \/ \E c \in Unapplied : section' = [section EXCEPT !.pc = "debt", !.c = c]
           \/ Unapplied = {} /\ Goto("pending")
     \/ /\ Here("pending")
        /\ \/ \E p \in PendingBills : section' = [section EXCEPT !.pc = "rows", !.p = p]
           \/ PendingBills = {} /\ Goto("locking")
     \/ /\ Here("locking")
        /\ \/ \E p \in LockingBills : section' = [section EXCEPT !.pc = "bill", !.p = p]
           \/ /\ LockingBills = {}
              /\ section' = [section EXCEPT !.pc = "books",
                    !.phase = IF @ = "again" THEN "last" ELSE @]
  /\ UNCHANGED <<books, req, breaks>>

\* The bill's rows are put in it, those that are still eligible.
BillRows ==
  /\ Here("bill")
  /\ row' = [c \in Rows |->
       IF c \in bill[section.p].ids /\ row[c].status = "eligible" /\ ~row[c].billed
         THEN [row[c] EXCEPT !.status = "billed", !.billed = TRUE] ELSE row[c]]
  /\ Goto("lock")
  /\ UNCHANGED <<bill, order, account, entry, ledger, offsets, req, breaks>>

LockBill ==
  /\ Here("lock")
  /\ bill' = [bill EXCEPT ![section.p].status = "locked"]
  /\ section' = [section EXCEPT !.pc = "locking", !.p = None]
  /\ UNCHANGED <<row, order, account, entry, ledger, offsets, req, breaks>>

-----------------------------------------------------------------------------
(* reconcileAll: every open bill after what has become of its rows         *)

InBill(p, t) == {c \in Rows : row[c].billed /\ Period[c] = p /\ Collab[c] = t}

Effective(p, t) ==
  Worth({c \in InBill(p, t) : row[c].status \in {"billed", "paid_out"}})

Returned(p, t) == {c \in Range(ledger) : InBill(p, t) \cap {c} # {}}

Open(p) ==
  \/ bill[p].status \in {"locked", "cancelled"}
  \/ bill[p].status = "paid" /\ (\E c \in Range(ledger) : Period[c] = p)

\* x comes before y in a sequence.
Before(seq, x, y) == \E i, j \in DOMAIN seq : i < j /\ seq[i] = x /\ seq[j] = y

\* Bills locked earlier take their share of a debt first.
Reserving(p, t) == {q \in Range(order) :
  Before(order, q, p) /\ Open(q) /\ t \in DOMAIN bill[q].line /\ ~bill[q].line[t].paid}

Reserved(p, t) == SumFunction([q \in Reserving(p, t) |-> Effective(q, t)])

\* Mutant: every bill counts on the whole debt.
OffsetUnreserved(p, t) == Least(Effective(p, t), account[t].debt)

\* Mutant: a bill takes off more than it is worth.
OffsetWhole(p, t) == Minus(account[t].debt, Reserved(p, t))

Offset(p, t) == Least(Effective(p, t), Minus(account[t].debt, Reserved(p, t)))

\* A line that was paid keeps what it says; returns are listed beside it.
Reconciled(p, t) ==
  LET was == bill[p].line[t] IN
  IF was.paid THEN [was EXCEPT !.returned = Returned(p, t)]
  ELSE [was EXCEPT !.net = Effective(p, t) - Offset(p, t), !.offset = Offset(p, t),
                   !.voided = Effective(p, t) = 0]

ReconciledBill(p) ==
  LET lines == [t \in DOMAIN bill[p].line |-> Reconciled(p, t)]
      closed == \A t \in DOMAIN lines : lines[t].paid \/ lines[t].voided
      new == [bill[p] EXCEPT !.line = lines,
        !.status = IF closed THEN IF \E t \in DOMAIN lines : lines[t].paid
                                    THEN "paid" ELSE "cancelled"
                   ELSE IF @ = "paid" THEN "paid" ELSE "locked"]
  IN  IF new = bill[p] THEN new ELSE [new EXCEPT !.rev = @ + 1]

ToReconcile == {i \in DOMAIN order :
                  Open(order[i]) /\ ReconciledBill(order[i]) # bill[order[i]]}

Reconcile ==
  /\ Here("books")
  /\ ToReconcile # {}
  /\ LET p == order[CHOOSE i \in ToReconcile : \A j \in ToReconcile : i <= j]
     IN  bill' = [bill EXCEPT ![p] = ReconciledBill(p)]
  /\ UNCHANGED <<row, order, account, entry, ledger, offsets, section, req, breaks>>

\* Before the work of the section, and after it, when the lock is released.
Reconciles ==
  /\ Here("books")
  /\ ToReconcile = {}
  /\ \/ /\ section.phase = "recover"
        /\ section' = [section EXCEPT !.phase = "work", !.pc = "work"]
        /\ UNCHANGED req
     \/ /\ section.phase = "last"
        /\ section' = NoSection
        /\ req' = [req EXCEPT ![section.by] = [NoRequest EXCEPT !.pc =
             IF ~section.over THEN "idle"
             ELSE IF Asked[section.by].op = "return" /\ req[section.by].pc = "idle"
               THEN "voided" ELSE "done"]]
  /\ UNCHANGED <<books, breaks>>

-----------------------------------------------------------------------------
(* The work of a section                                                   *)

Working(op) == Here("work") /\ Asked[section.by].op = op

\* A refused request, and the page of the bills, may be sent again.
Finished == [section EXCEPT !.phase = "last", !.pc = "books"]
Refused == [Finished EXCEPT !.over = FALSE]

Refresh ==
  /\ Working("refresh")
  /\ section' = Refused
  /\ UNCHANGED <<books, req, breaks>>

\* createLockedCommissionBill: the rows eligible now, then recover.
CreateBill ==
  LET p == Asked[section.by].p
      ids == {c \in Rows : row[c].status = "eligible" /\ ~row[c].billed /\ Period[c] = p}
      of(t) == Worth({c \in ids : Collab[c] = t})
  IN
  /\ Working("lock")
  /\ IF bill[p].status # "none" \/ ids = {}
       THEN section' = Refused /\ UNCHANGED <<bill, order>>
       ELSE /\ bill' = [bill EXCEPT ![p] = [NoBill EXCEPT !.status = "locking", !.ids = ids,
                          !.line = [t \in {Collab[c] : c \in ids} |-> NewLine(of(t))]]]
            /\ order' = Append(order, p)
            /\ section' = [section EXCEPT !.phase = "again", !.pc = "entries"]
  /\ UNCHANGED <<row, account, entry, ledger, offsets, req, breaks>>

Rest(c) == Amount[c] - entry[c].recovered

\* The clawbacks of a collaborator that have not come back in full.
Owing(t) ==
  {c \in Range(ledger) : Collab[c] = t /\ Rest(c) > 0 /\ entry[c].state = "applied"}

RestBefore(c) ==
  SumFunction([d \in {d \in Owing(Collab[c]) : Before(ledger, d, c)} |-> Rest(d)])

\* An offset is shared out over the clawbacks, the oldest first.
Recovery(t, offset) ==
  [c \in Rows |-> IF c \in Owing(t) /\ RestBefore(c) < offset
     THEN entry[c].recovered + Least(Rest(c), offset - RestBefore(c)) ELSE 0]

\* confirmCommissionBillPaid, of every line not paid yet.
ConfirmPayment ==
  LET k == section.by
      p == Asked[k].p
      b == bill[p]
      rows == {c \in Rows : row[c].billed /\ Period[c] = p /\ Collab[c] \in Unpaid(p)
                            /\ row[c].status = "billed"}
      line == [t \in Unpaid(p) |-> [net |-> b.line[t].net, offset |-> b.line[t].offset,
                 recover |-> Recovery(t, b.line[t].offset)]]
  IN
  /\ Working("pay")
  /\ IF /\ b.status = "locked" /\ Unpaid(p) # {} /\ rows # {}
        /\ req[k].rev = b.rev /\ req[k].amount = NetOf(p)
       THEN /\ bill' = [bill EXCEPT ![p].pending = [rows |-> rows, line |-> line]]
            /\ section' = [section EXCEPT !.pc = "rows", !.p = p]
       ELSE section' = Refused /\ UNCHANGED bill
  /\ UNCHANGED <<row, order, account, entry, ledger, offsets, req, breaks>>

\* Mutant: only a commission that is in no bill yet is cancelled.
CancelUnbilled ==
  LET c == Asked[section.by].c IN
  /\ Working("return")
  /\ req[section.by].pc = "idle"
  /\ row' = [row EXCEPT ![c].status = IF @ \in {"billed", "paid_out"} THEN @ ELSE "cancelled"]
  /\ section' = Finished
  /\ UNCHANGED <<bill, order, account, entry, ledger, offsets, req, breaks>>

\* cancelCommissionRows, the first section of a return.
CancelRow ==
  LET c == Asked[section.by].c IN
  /\ Working("return")
  /\ req[section.by].pc = "idle"
  /\ row' = [row EXCEPT ![c].status = IF @ = "paid_out" THEN @ ELSE "cancelled"]
  /\ section' = Finished
  /\ UNCHANGED <<bill, order, account, entry, ledger, offsets, req, breaks>>

\* clawbackPaidOutCommissions, the second, when the row has been paid.
Clawback ==
  LET c == Asked[section.by].c
      owed == row[c].status = "paid_out" /\ entry[c].state # "applied"
  IN
  /\ Working("return")
  /\ req[section.by].pc = "voided"
  /\ IF owed
       THEN /\ entry' = [entry EXCEPT ![c].state = "new"]
            /\ ledger' = IF entry[c].state = "none" THEN Append(ledger, c) ELSE ledger
            /\ section' = [section EXCEPT !.pc = "debt", !.c = c]
       ELSE section' = Finished /\ UNCHANGED <<entry, ledger>>
  /\ UNCHANGED <<row, bill, order, account, offsets, req, breaks>>

-----------------------------------------------------------------------------

BillsNext ==
  \/ \E k \in Requests : Ask(k) \/ Acquire(k) \/ Busy(k) \/ Break(k)
  \/ Unlock
  \/ AddDebt \/ FlagEntry
  \/ PayRows \/ (\E t \in Collabs : Settle(t)) \/ OffsetEntry \/ Recovered \/ CloseBill
  \/ Recover \/ BillRows \/ LockBill \/ Reconcile \/ Reconciles
  \/ Refresh \/ CreateBill \/ ConfirmPayment \/ CancelRow \/ Clawback

BillsSpec == BillsInit /\ [][BillsNext]_billVars

-----------------------------------------------------------------------------
(* Properties                                                              *)

\* No section is running and none left anything to be recovered.
AtRest ==
  /\ section.by = None
  /\ Unapplied = {} /\ PendingBills = {} /\ LockingBills = {}

OffsetsOf(t) == SumFunction([o \in {o \in offsets : o[2] = t} |-> o[3]])
CashOf(t) == SumFunction([p \in {p \in Periods : t \in DOMAIN bill[p].line} |->
                            bill[p].line[t].cash])
PaidRows(t) == {c \in Rows : Collab[c] = t /\ row[c].status = "paid_out"}
ClawedRows(t) == {c \in Range(ledger) : Collab[c] = t}

\* Whatever sections stopped half way, the shop has paid a collaborator
\* the commissions that are paid out, less those of returned orders, plus
\* what the collaborator still owes; and each payment counted a debt once.
MoneyBalances ==
  AtRest => \A t \in Collabs :
    /\ CashOf(t) + OffsetsOf(t) = Worth(PaidRows(t))
    /\ account[t].debt + OffsetsOf(t) = Worth(ClawedRows(t))
    /\ SumFunction([c \in ClawedRows(t) |-> entry[c].recovered]) = OffsetsOf(t)

\* A payment written in a bill can always be finished: its rows are still
\* billed or paid by it, and the debt it counts on is there or settled.
\* finishPayment throws otherwise, and so would every later section.
PaymentCanFinish ==
  \A p \in PendingBills :
    /\ \A c \in bill[p].pending.rows :
         row[c].status = "billed" \/ (row[c].status = "paid_out" /\ row[c].by = p)
    /\ \A t \in DOMAIN bill[p].pending.line :
         p \in account[t].settled \/ account[t].debt >= bill[p].pending.line[t].offset

Waiting(t) == {p \in Periods : /\ bill[p].status = "locked" /\ t \in DOMAIN bill[p].line
                               /\ ~bill[p].line[t].paid}

\* Bills that wait to be paid count on a debt once, all together
\* (tests/commission-bill-adjustments.test.ts:112).
DebtReservedOnce ==
  AtRest /\ ToReconcile = {} => \A t \in Collabs :
    SumFunction([p \in Waiting(t) |-> bill[p].line[t].offset]) <= account[t].debt

\* A returned order's commission is cancelled or has become a debt
\* (tests/commission-bill-adjustments.test.ts:215).
ReturnSettled ==
  \A k \in Requests : Asked[k].op = "return" /\ req[k].pc = "done" =>
    \/ row[Asked[k].c].status = "cancelled"
    \/ (row[Asked[k].c].status = "paid_out" /\ entry[Asked[k].c].state = "applied")
=============================================================================
