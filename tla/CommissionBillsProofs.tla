------------------------ MODULE CommissionBillsProofs ------------------------
(***************************************************************************)
(* Theorems about CommissionBills: its types, and its safety properties,   *)
(* for any commissions, collaborators, periods and requests.               *)
(*                                                                         *)
(* Typed is the type invariant with where the locals of a section point;   *)
(* Control adds where a section can be, what one that stopped may have     *)
(* left unfinished, and what a return has done; Finishing adds that a      *)
(* payment recorded in a bill was confirmed on books in order.  What an    *)
(* action does is stated once, as <Action>Done, of named bills, payments   *)
(* and rows, and the lemmas that it keeps an invariant start from there.   *)
(*                                                                         *)
(* That the money balances takes four more invariants, each of one pair of *)
(* books: PaidLines (a line and the rows it pays), NotedDebts (a line, the *)
(* settled ids of the account and the ledger's offsets), DebtsTally (an    *)
(* account's debt and the clawbacks entered) and RecoveredTally (what has  *)
(* come back of the clawbacks and what the lines took off).  Each holds    *)
(* between any two writes; MoneyBalances is what they say at rest.         *)
(***************************************************************************)
EXTENDS CommissionBills, Sums

-----------------------------------------------------------------------------
(* Bills and payments, whatever their collaborators *)

Payments == [rows : SUBSET Rows, line : UNION {[T -> Paying] : T \in SUBSET Collabs}]

Bill == [status : {"none", "locking", "locked", "paid", "cancelled"},
         ids : SUBSET Rows, line : UNION {[T -> Line] : T \in SUBSET Collabs},
         rev : Nat, pending : Payments \cup {None}]

LEMMA BillsAre ==
  /\ None \notin Payments
  /\ \A b : AreBills(b) <=> b \in [Periods -> Bill]
<1>1. \A op : op \in Payments <=> \E U \in SUBSET Collabs : op \in PaymentsOf(U)
  <2>1. \A op : op \in Payments => \E U \in SUBSET Collabs : op \in PaymentsOf(U)
    <3>1. SUFFICES ASSUME NEW op \in Payments
                   PROVE  \E U \in SUBSET Collabs : op \in PaymentsOf(U)
      OBVIOUS
    <3>2. PICK U \in SUBSET Collabs : op.line \in [U -> Paying]
      BY DEF Payments
    <3>3. op \in PaymentsOf(U)
      BY <3>2 DEF Payments, PaymentsOf
    <3> QED BY <3>3
  <2>2. \A U \in SUBSET Collabs : PaymentsOf(U) \subseteq Payments
    <3>1. SUFFICES ASSUME NEW U \in SUBSET Collabs
                   PROVE  PaymentsOf(U) \subseteq Payments
      OBVIOUS
    <3>2. [U -> Paying] \subseteq UNION {[T -> Paying] : T \in SUBSET Collabs}
      OBVIOUS
    <3> QED BY <3>2 DEF Payments, PaymentsOf
  <2> QED BY <2>1, <2>2
<1>2. None \notin Payments
  BY <1>1, NoneAssumption
<1>3. ASSUME NEW b \in Bill
      PROVE  \E T, U \in SUBSET Collabs : b \in BillsOf(T, U)
  <2>1. PICK T \in SUBSET Collabs : b.line \in [T -> Line]
    BY DEF Bill
  <2>2. PICK U \in SUBSET Collabs : b.pending \in PaymentsOf(U) \cup {None}
    <3>1. b.pending \in Payments \cup {None}
      BY DEF Bill
    <3> QED BY <1>1, <3>1
  <2>3. b \in BillsOf(T, U)
    BY <2>1, <2>2 DEF Bill, BillsOf
  <2> QED BY <2>3
<1>4. ASSUME NEW b, NEW T \in SUBSET Collabs, NEW U \in SUBSET Collabs, b \in BillsOf(T, U)
      PROVE  b \in Bill
  <2>1. b.line \in UNION {[S -> Line] : S \in SUBSET Collabs}
    BY <1>4 DEF BillsOf
  <2>2. b.pending \in Payments \cup {None}
    BY <1>1, <1>4 DEF BillsOf
  <2> QED BY <1>4, <2>1, <2>2 DEF BillsOf, Bill
<1>5. \A b : AreBills(b) <=> b \in [Periods -> Bill]
  BY <1>3, <1>4 DEF AreBills
<1> QED BY <1>2, <1>5

-----------------------------------------------------------------------------
(* The constants *)

LEMMA ConstantsAre ==
  /\ IsFiniteSet(Rows) /\ IsFiniteSet(Collabs) /\ IsFiniteSet(Periods)
  /\ \A c \in Rows : /\ Amount[c] \in Nat /\ Amount[c] > 0
                     /\ Collab[c] \in Collabs /\ Period[c] \in Periods
  /\ \A k \in Requests :
       /\ Asked[k].op \in {"lock", "pay", "return", "refresh"}
       /\ Asked[k].op \in {"lock", "pay"} => Asked[k].p \in Periods
       /\ Asked[k].op = "return" => Asked[k].c \in Rows
       /\ k # None /\ k # Dead
  /\ None \notin Rows /\ None \notin Periods /\ None # Dead /\ None \notin Payments
<1>1. ASSUME NEW f, NEW T, T = {f[c] : c \in Rows}
      PROVE  IsFiniteSet(T)
  <2> DEFINE g == [c \in Rows |-> f[c]]
  <2>1. g \in Surjection(Rows, T)
    BY <1>1 DEF Surjection
  <2>2. IsFiniteSet(Rows)
    BY BillsAssumption
  <2> HIDE DEF g
  <2> QED BY <2>1, <2>2, FS_Surjection
<1>2. IsFiniteSet(Collabs) /\ IsFiniteSet(Periods)
  BY <1>1 DEF Collabs, Periods
<1>3. ASSUME NEW k \in Requests
      PROVE  /\ Asked[k].op \in {"lock", "pay", "return", "refresh"}
             /\ Asked[k].op \in {"lock", "pay"} => Asked[k].p \in Periods
             /\ Asked[k].op = "return" => Asked[k].c \in Rows
  <2>1. Asked[k] \in Kinds
    BY BillsAssumption
  <2> QED BY <2>1 DEF Kinds
<1>4. \A k \in Requests : k # None /\ k # Dead
  BY BillsAssumption
<1>5. \A c \in Rows : /\ Amount[c] \in Nat /\ Amount[c] > 0
                     /\ Collab[c] \in Collabs /\ Period[c] \in Periods
  BY BillsAssumption DEF Collabs, Periods
<1> QED BY <1>2, <1>3, <1>4, <1>5, BillsAssumption, BillsAre

\* What a set of commissions is worth.
LEMMA WorthNat ==
  ASSUME NEW S \in SUBSET Rows
  PROVE  IsFiniteSet(S) /\ Worth(S) \in Nat
<1>1. IsFiniteSet(S)
  BY ConstantsAre, FS_Subset
<1>2. \A c \in S : Amount[c] \in Nat
  BY ConstantsAre
<1> QED BY <1>1, <1>2, SumNat DEF Worth

\* A sum over a function is one over its domain.
LEMMA SumAll ==
  ASSUME NEW f, NEW S, DOMAIN f = S
  PROVE  SumFunction(f) = SumFunctionOnSet(f, S)
  BY Zenon DEF SumFunction

-----------------------------------------------------------------------------
(* Types: the first layer *)

Lines == UNION {[T -> Line] : T \in SUBSET Collabs}

LEMMA LinesIs ==
  /\ \A l : l \in Lines <=> /\ DOMAIN l \subseteq Collabs
                            /\ l = [t \in DOMAIN l |-> l[t]]
                            /\ \A t \in DOMAIN l : l[t] \in Line
  /\ \A l : l \in UNION {[T -> Line] : T \in SUBSET Collabs} <=> l \in Lines
<1>1. ASSUME NEW l \in Lines
      PROVE  /\ DOMAIN l \subseteq Collabs
             /\ l = [t \in DOMAIN l |-> l[t]]
             /\ \A t \in DOMAIN l : l[t] \in Line
  <2>1. PICK T \in SUBSET Collabs : l \in [T -> Line]
    BY DEF Lines
  <2> QED BY <2>1
<1>2. ASSUME NEW l, DOMAIN l \subseteq Collabs,
             l = [t \in DOMAIN l |-> l[t]], \A t \in DOMAIN l : l[t] \in Line
      PROVE  l \in Lines
  <2>1. l \in [DOMAIN l -> Line]
    BY <1>2
  <2> QED BY <1>2, <2>1 DEF Lines
<1>3. \A l : l \in UNION {[T -> Line] : T \in SUBSET Collabs} <=> l \in Lines
  BY DEF Lines
<1>4. ASSUME NEW l
      PROVE  l \in Lines <=> /\ DOMAIN l \subseteq Collabs
                             /\ l = [t \in DOMAIN l |-> l[t]]
                             /\ \A t \in DOMAIN l : l[t] \in Line
  BY <1>1, <1>2
<1> QED BY <1>3, <1>4

\* Where the locals of a section at work point.
Placed ==
  /\ section.by \notin Requests => section.pc = "entries" /\ section.phase = "recover"
  /\ section.pc \in Clawbacks =>
       section.c \in Rows /\ entry[section.c].state = "new"
  /\ section.pc \in Payment \cup Locking => section.p \in Periods
  /\ section.pc \in Payment =>
       /\ bill[section.p].pending \in Payments
       /\ section.pc # "rows" => section.todo \subseteq DOMAIN bill[section.p].pending.line
  /\ section.pc \in {"offset", "recovered"} => section.t \in section.todo
  /\ \A p \in Periods : bill[p].pending # None =>
       DOMAIN bill[p].pending.line \subseteq DOMAIN bill[p].line

Typed == BillsTypeOK /\ Placed

Sections == [by : Requests \cup {None, Dead},
             phase : {"recover", "work", "again", "last"},
             pc : {"entries", "pending", "locking", "books", "work"}
                  \cup Clawbacks \cup Payment \cup Locking,
             p : Periods \cup {None}, c : Rows \cup {None},
             t : Collabs \cup {None}, todo : SUBSET Collabs, over : BOOLEAN]

Accounts == [debt : Nat, entries : SUBSET Rows, settled : SUBSET Periods]

Entries == [state : {"none", "new", "applied"}, recovered : Nat]

Reqs == [pc : {"idle", "asked", "voided", "done"}, rev : Nat, amount : Nat]

\* The type invariant, variable by variable.
LEMMA TypeParts ==
  BillsTypeOK <=>
    /\ row \in [Rows -> Row]
    /\ bill \in [Periods -> Bill]
    /\ order \in Seq(Periods) /\ IsInjective(order)
    /\ account \in [Collabs -> Accounts]
    /\ entry \in [Rows -> Entries]
    /\ ledger \in Seq(Rows) /\ IsInjective(ledger)
    /\ Range(ledger) = {c \in Rows : entry[c].state # "none"}
    /\ offsets \subseteq Periods \X Collabs \X Nat
    /\ section \in Sections
    /\ req \in [Requests -> Reqs]
    /\ breaks \in 0..MaxBreaks
  BY BillsAre DEF BillsTypeOK, Sections, Accounts, Entries, Reqs

LEMMA TypedInit == BillsInit => Typed
<1> SUFFICES ASSUME BillsInit PROVE Typed
  OBVIOUS
<1>1. NoBill \in Bill
  <2>1. <<>> \in [{} -> Line]
    OBVIOUS
  <2>2. <<>> \in Lines
    BY <2>1 DEF Lines
  <2>3. <<>> \in UNION {[T -> Line] : T \in SUBSET Collabs}
    BY <2>2, LinesIs, Zenon
  <2> QED BY <2>3 DEF NoBill, Bill
<1>2. IsInjective(<<>>)
  BY DEF IsInjective
<1>3. MaxBreaks \in Nat
  BY BillsAssumption
<1>4. BillsTypeOK
  <2>1. section \in Sections
    BY DEF BillsInit, NoSection, Sections
  <2>2. row \in [Rows -> Row] /\ account \in [Collabs -> Accounts] /\ entry \in [Rows -> Entries]
    BY DEF BillsInit, Row, Accounts, Entries, NoEntry
  <2>3. req \in [Requests -> Reqs]
    BY DEF BillsInit, NoRequest, Reqs
  <2>4. bill \in [Periods -> Bill]
    BY <1>1 DEF BillsInit
  <2>5. Range(ledger) = {c \in Rows : entry[c].state # "none"}
    BY DEF BillsInit, Range, NoEntry
  <2>6. ledger \in Seq(Rows) /\ order \in Seq(Periods)
    BY DEF BillsInit
  <2>7. IsInjective(ledger) /\ IsInjective(order) /\ offsets = {} /\ breaks = 0
    BY <1>2 DEF BillsInit
  <2> QED BY <1>3, <2>1, <2>2, <2>3, <2>4, <2>5, <2>6, <2>7, TypeParts
<1>5. Placed
  BY ConstantsAre DEF BillsInit, NoSection, NoBill, Placed, Clawbacks, Payment, Locking
<1> QED BY <1>4, <1>5 DEF Typed

\* What the types say of one of each.
LEMMA TypedAre ==
  ASSUME Typed
  PROVE  /\ \A c \in Rows : row[c] \in Row /\ entry[c] \in Entries
         /\ \A p \in Periods : bill[p] \in Bill /\ bill[p].line \in Lines
         /\ \A t \in Collabs : account[t] \in Accounts
         /\ \A k \in Requests : req[k] \in Reqs
         /\ section \in Sections
         /\ DOMAIN bill = Periods /\ DOMAIN row = Rows /\ DOMAIN account = Collabs
         /\ DOMAIN entry = Rows /\ DOMAIN req = Requests
         /\ section.pc \in Payment => bill[section.p].pending \in Payments
<1>1. \A p \in Periods : bill[p] \in Bill
  BY TypeParts DEF Typed
<1>2. ASSUME NEW p \in Periods
      PROVE  bill[p].line \in Lines
  <2>1. bill[p].line \in UNION {[T -> Line] : T \in SUBSET Collabs}
    BY <1>1 DEF Bill
  <2> QED BY <2>1, LinesIs, Zenon
<1>3. \A c \in Rows : row[c] \in Row /\ entry[c] \in Entries
  BY TypeParts DEF Typed
<1>4. \A t \in Collabs : account[t] \in Accounts
  BY TypeParts DEF Typed
<1>5. \A k \in Requests : req[k] \in Reqs
  BY TypeParts DEF Typed
<1>6. /\ section \in Sections
      /\ DOMAIN bill = Periods /\ DOMAIN row = Rows /\ DOMAIN account = Collabs
      /\ DOMAIN entry = Rows /\ DOMAIN req = Requests
  BY TypeParts DEF Typed
<1> QED BY <1>1, <1>2, <1>3, <1>4, <1>5, <1>6 DEF Typed, Placed

\* The lines of a payment.
LEMMA PaymentIs ==
  ASSUME NEW op \in Payments
  PROVE  /\ op.rows \subseteq Rows
         /\ DOMAIN op.line \subseteq Collabs
         /\ \A t \in DOMAIN op.line :
              /\ op.line[t].net \in Nat /\ op.line[t].offset \in Nat
              /\ DOMAIN op.line[t].recover = Rows
              /\ \A c \in Rows : op.line[t].recover[c] \in Nat
<1>1. op.rows \subseteq Rows
  BY DEF Payments
<1>2. PICK T \in SUBSET Collabs : op.line \in [T -> Paying]
  BY DEF Payments
<1>3. ASSUME NEW t \in DOMAIN op.line
      PROVE  /\ op.line[t].net \in Nat /\ op.line[t].offset \in Nat
             /\ DOMAIN op.line[t].recover = Rows
             /\ \A c \in Rows : op.line[t].recover[c] \in Nat
  <2>1. op.line[t] \in Paying
    BY <1>2, <1>3
  <2> QED BY <2>1 DEF Paying
<1> QED BY <1>1, <1>2, <1>3

\* One that has such lines.
LEMMA IsPayment ==
  ASSUME NEW op, NEW R \in SUBSET Rows, NEW T \in SUBSET Collabs, NEW f,
         op = [rows |-> R, line |-> [t \in T |-> f[t]]],
         \A t \in T : f[t] \in Paying
  PROVE  op \in Payments
<1>1. [t \in T |-> f[t]] \in [T -> Paying]
  OBVIOUS
<1>2. [t \in T |-> f[t]] \in UNION {[S -> Paying] : S \in SUBSET Collabs}
  BY <1>1
<1> QED BY <1>2 DEF Payments

\* Steps that leave the books as they are.
LEMMA TypedBooks ==
  ASSUME Typed, UNCHANGED books
  PROVE  section' \in Sections /\ req' \in [Requests -> Reqs] /\ breaks' \in 0..MaxBreaks
           => BillsTypeOK'
<1>1. /\ row' = row /\ bill' = bill /\ order' = order /\ account' = account
      /\ entry' = entry /\ ledger' = ledger /\ offsets' = offsets
  BY DEF books
<1> QED BY <1>1, TypeParts DEF Typed, BillsTypeOK, Sections, Reqs

LEMMA NoSectionIs ==
  /\ NoSection \in Sections
  /\ \A k \in Requests \cup {None, Dead} :
       /\ [NoSection EXCEPT !.by = k] \in Sections
       /\ [NoSection EXCEPT !.by = k].by = k
       /\ [NoSection EXCEPT !.by = k].pc = "entries"
       /\ [NoSection EXCEPT !.by = k].phase = "recover"
       /\ [NoSection EXCEPT !.by = k].over
  /\ NoSection.by = None /\ NoSection.pc = "entries" /\ NoSection.phase = "recover"
  /\ NoRequest \in Reqs
  BY DEF NoSection, Sections, NoRequest, Reqs

\* What a bill has waiting is a number.
LEMMA NetNat ==
  ASSUME Typed, NEW p \in Periods
  PROVE  NetOf(p) \in Nat /\ Unpaid(p) \in SUBSET Collabs
<1>1. bill[p].line \in Lines
  BY TypedAre
<1>2. /\ DOMAIN bill[p].line \subseteq Collabs
      /\ \A t \in DOMAIN bill[p].line : bill[p].line[t].net \in Nat
  BY <1>1, LinesIs DEF Line
<1>3. Unpaid(p) \in SUBSET Collabs /\ \A t \in Unpaid(p) : bill[p].line[t].net \in Nat
  BY <1>2 DEF Unpaid
<1>4. IsFiniteSet(Unpaid(p))
  BY <1>3, ConstantsAre, FS_Subset
<1> DEFINE f == [t \in Unpaid(p) |-> bill[p].line[t].net]
<1>5. DOMAIN f = Unpaid(p) /\ \A t \in Unpaid(p) : f[t] \in Nat
  BY <1>3
<1>6. NetOf(p) = SumFunctionOnSet(f, Unpaid(p))
  BY <1>5, SumAll DEF NetOf
<1> HIDE DEF f
<1> QED BY <1>3, <1>4, <1>5, <1>6, SumNat

-----------------------------------------------------------------------------
(* Each step keeps the types *)

LEMMA TypedRequests ==
  ASSUME Typed, NEW k \in Requests, Ask(k) \/ Acquire(k) \/ Busy(k) \/ Break(k) \/ Unlock
  PROVE  Typed'
<1>1. UNCHANGED books
  BY DEF Ask, Acquire, Busy, Break, Unlock
<1>2. /\ row' = row /\ bill' = bill /\ order' = order /\ account' = account
      /\ entry' = entry /\ ledger' = ledger /\ offsets' = offsets
  BY <1>1 DEF books
<1>3. section' \in Sections
  BY TypedAre, NoSectionIs DEF Ask, Acquire, Busy, Break, Unlock
<1>4. req' \in [Requests -> Reqs]
  <2>1. req \in [Requests -> Reqs]
    BY TypeParts DEF Typed
  <2>2. CASE Ask(k)
    <3>1. Asked[k].p \in Periods
      BY <2>2, ConstantsAre DEF Ask
    <3>2. PICK n \in Nat : n = NetOf(Asked[k].p)
      BY <3>1, NetNat
    <3>3. PICK r \in Nat : r = bill[Asked[k].p].rev
      BY <3>1, TypedAre DEF Bill
    <3>4. req' = [req EXCEPT ![k] = [pc |-> "asked", rev |-> r, amount |-> n]]
      BY <2>2, <3>2, <3>3 DEF Ask
    <3> QED BY <2>1, <3>4 DEF Reqs
  <2> QED BY <2>1, <2>2, NoSectionIs DEF Acquire, Busy, Break, Unlock
<1>5. breaks' \in 0..MaxBreaks
  <2>1. breaks \in 0..MaxBreaks /\ MaxBreaks \in Nat
    BY TypeParts, BillsAssumption DEF Typed
  <2> QED BY <2>1 DEF Ask, Acquire, Busy, Break, Unlock
<1>6. BillsTypeOK'
  BY <1>1, <1>3, <1>4, <1>5, TypedBooks
<1>7. Placed'
  <2>1. CASE UNCHANGED section
    BY <1>2, <2>1 DEF Typed, Placed
  <2>2. CASE section'.pc = "entries" /\ section'.phase = "recover"
    BY <1>2, <2>2 DEF Typed, Placed, Clawbacks, Payment, Locking
  <2>3. CASE Acquire(k)
    <3>1. section' = [NoSection EXCEPT !.by = k] /\ k \in Requests \cup {None, Dead}
      BY <2>3 DEF Acquire
    <3> QED BY <2>2, <3>1, NoSectionIs
  <2>4. CASE Break(k) \/ Unlock
    <3>1. \/ section' = NoSection
          \/ section' = [NoSection EXCEPT !.by = Dead] /\ Dead \in Requests \cup {None, Dead}
      BY <2>4 DEF Break, Unlock
    <3> QED BY <2>2, <3>1, NoSectionIs
  <2> QED BY <2>1, <2>3, <2>4 DEF Ask, Busy
<1> QED BY <1>6, <1>7 DEF Typed

\* A section that goes on.
LEMMA TypedGoto ==
  ASSUME Typed, NEW pc
  PROVE  /\ Goto(pc) => section'.pc = pc /\ section'.by = section.by
                        /\ section'.phase = section.phase /\ section'.p = section.p
                        /\ section'.c = section.c /\ section'.t = section.t
                        /\ section'.todo = section.todo /\ section'.over = section.over
         /\ Goto(pc) /\ pc \in {"entries", "pending", "locking", "books", "work"}
                  \cup Clawbacks \cup Payment \cup Locking => section' \in Sections
  BY TypedAre DEF Goto, Sections

LEMMA TypedAddDebt ==
  ASSUME Typed, AddDebt
  PROVE  Typed'
<1>1. section.c \in Rows
  BY DEF Typed, Placed, AddDebt, Here, Clawbacks
<1>2. account \in [Collabs -> Accounts]
  BY TypeParts DEF Typed
<1>3. Collab[section.c] \in Collabs /\ Amount[section.c] \in Nat
  BY <1>1, ConstantsAre
<1>4. account' \in [Collabs -> Accounts]
  <2>1. PICK c \in Rows, t \in Collabs, n \in Nat :
          c = section.c /\ t = Collab[section.c] /\ n = Amount[section.c]
    BY <1>1, <1>3
  <2>2. \/ account' = account
        \/ account' = [account EXCEPT ![t].debt = @ + n, ![t].entries = @ \cup {c}]
    BY <2>1 DEF AddDebt
  <2> QED BY <1>2, <2>2 DEF Accounts
<1>5. section' \in Sections
  BY TypedGoto DEF AddDebt, Clawbacks
<1>6. BillsTypeOK'
  BY <1>4, <1>5, TypeParts, BillsAre DEF Typed, AddDebt, BillsTypeOK, Sections, Accounts
<1>7. Placed'
  BY <1>1, TypedGoto DEF Placed, Typed, AddDebt, Here, Clawbacks, Payment, Locking
<1> QED BY <1>6, <1>7 DEF Typed

LEMMA TypedFlagEntry ==
  ASSUME Typed, FlagEntry
  PROVE  Typed'
<1>1. section.c \in Rows /\ entry[section.c].state = "new"
  BY DEF Typed, Placed, FlagEntry, Here, Clawbacks
<1>2. entry \in [Rows -> Entries]
  BY TypeParts DEF Typed
<1>3. entry' \in [Rows -> Entries]
  BY <1>1, <1>2 DEF FlagEntry, Entries
<1>4. {c \in Rows : entry'[c].state # "none"} = {c \in Rows : entry[c].state # "none"}
  BY <1>1, <1>2 DEF FlagEntry, Entries
<1>5. section' \in Sections
  BY TypedAre DEF FlagEntry, Sections
<1>6. BillsTypeOK'
  BY <1>3, <1>4, <1>5, TypeParts, BillsAre
  DEF Typed, FlagEntry, BillsTypeOK, Sections, Entries
<1>7. Placed'
  BY TypedAre DEF Placed, Typed, FlagEntry, Here, Sections, Clawbacks, Payment, Locking
<1> QED BY <1>6, <1>7 DEF Typed

\* A payment that was recorded in a bill and is being finished.
Finishes(p, op) ==
  /\ section.p = p /\ p \in Periods
  /\ bill[p].pending = op /\ op \in Payments
  /\ bill[section.p].pending = op
  /\ DOMAIN op.line \subseteq DOMAIN bill[p].line
  /\ section.pc # "rows" => section.todo \subseteq DOMAIN op.line

LEMMA FinishesOne ==
  ASSUME Typed, section.pc \in Payment
  PROVE  \E p \in Periods, op \in Payments : Finishes(p, op)
<1>1. /\ section.p \in Periods /\ bill[section.p].pending \in Payments
      /\ DOMAIN bill[section.p].pending.line \subseteq DOMAIN bill[section.p].line
      /\ section.pc # "rows" => section.todo \subseteq DOMAIN bill[section.p].pending.line
  BY ConstantsAre DEF Typed, Placed
<1> QED BY <1>1 DEF Finishes

PayRowsDone(p, op) ==
  /\ row' \in [Rows -> Row]
  /\ \A c \in Rows :
       IF c \in op.rows /\ row[c].billed /\ Period[c] = p /\ row[c].status = "billed"
       THEN row'[c].status = "paid_out" /\ row'[c].billed /\ row'[c].by = p
       ELSE row'[c] = row[c]
  /\ \/ /\ \A c \in op.rows : row'[c].status = "paid_out" /\ row'[c].by = p
        /\ section'.by = section.by /\ section'.phase = section.phase
        /\ section'.p = section.p /\ section'.over = section.over
        /\ section'.c = section.c
        /\ section'.todo = {t \in DOMAIN op.line : op.line[t].offset > 0}
        /\ section'.pc = IF section'.todo = {} THEN "close" ELSE "settle"
        /\ section' \in Sections
        /\ UNCHANGED req
     \/ /\ ~\A c \in op.rows : row'[c].status = "paid_out" /\ row'[c].by = p
        /\ section' = NoSection
        /\ req' = [req EXCEPT ![section.by] = NoRequest]
  /\ UNCHANGED <<bill, order, account, entry, ledger, offsets, breaks>>

LEMMA PayRowsDoes ==
  ASSUME Typed, PayRows
  PROVE  /\ section.by \in Requests /\ section.pc = "rows"
         /\ \E p \in Periods, op \in Payments : Finishes(p, op) /\ PayRowsDone(p, op)
<1>1. section.by \in Requests /\ section.pc = "rows"
  BY DEF PayRows, Here
<1>2. PICK p \in Periods, op \in Payments : Finishes(p, op)
  BY <1>1, FinishesOne DEF Payment
<1>3. /\ section.p = p /\ Op = op /\ op.rows \subseteq Rows /\ DOMAIN op.line \subseteq Collabs
  BY <1>2, PaymentIs DEF Finishes, Op
<1> DEFINE paid == [c \in Rows |->
             IF c \in op.rows /\ row[c].billed /\ Period[c] = p /\ row[c].status = "billed"
               THEN [row[c] EXCEPT !.status = "paid_out", !.by = p] ELSE row[c]]
           todo == {t \in DOMAIN op.line : op.line[t].offset > 0}
<1>4. /\ row' = paid
      /\ IF \A c \in op.rows : paid[c].status = "paid_out" /\ paid[c].by = p
           THEN /\ section' = [section EXCEPT !.pc = Afterwards(todo), !.todo = todo]
                /\ UNCHANGED req
           ELSE Throw
      /\ UNCHANGED <<bill, order, account, entry, ledger, offsets, breaks>>
  BY <1>3 DEF PayRows
<1>5. \A c \in Rows : row[c] \in Row
  BY TypedAre
<1>6. /\ paid \in [Rows -> Row]
      /\ \A c \in Rows :
           IF c \in op.rows /\ row[c].billed /\ Period[c] = p /\ row[c].status = "billed"
           THEN paid[c].status = "paid_out" /\ paid[c].billed /\ paid[c].by = p
           ELSE paid[c] = row[c]
  BY <1>5 DEF Row
<1>7. todo \in SUBSET Collabs
  BY <1>3
<1> HIDE DEF paid
<1>8. ASSUME \A c \in op.rows : row'[c].status = "paid_out" /\ row'[c].by = p
      PROVE  /\ section'.by = section.by /\ section'.phase = section.phase
             /\ section'.p = section.p /\ section'.over = section.over
             /\ section'.c = section.c
             /\ section'.todo = todo
             /\ section'.pc = IF section'.todo = {} THEN "close" ELSE "settle"
             /\ section' \in Sections
             /\ UNCHANGED req
  <2> HIDE DEF todo
  <2>1. section' = [section EXCEPT !.pc = Afterwards(todo), !.todo = todo] /\ UNCHANGED req
    BY <1>4, <1>8
  <2> QED BY <1>7, <2>1, TypedAre DEF Afterwards, Sections, Payment
<1>9. ASSUME ~\A c \in op.rows : row'[c].status = "paid_out" /\ row'[c].by = p
      PROVE  section' = NoSection /\ req' = [req EXCEPT ![section.by] = NoRequest]
  BY <1>4, <1>9 DEF Throw
<1>10. PayRowsDone(p, op)
  BY <1>4, <1>6, <1>8, <1>9 DEF PayRowsDone
<1> QED BY <1>1, <1>2, <1>10

LEMMA TypedPayRows ==
  ASSUME Typed, PayRows
  PROVE  Typed'
<1>1. PICK p \in Periods, op \in Payments : Finishes(p, op) /\ PayRowsDone(p, op)
  BY PayRowsDoes
<1>2. section.by \in Requests
  BY PayRowsDoes
<1>3. req' \in [Requests -> Reqs] /\ section' \in Sections
  BY <1>1, <1>2, TypeParts, NoSectionIs DEF Typed, PayRowsDone
<1>4. BillsTypeOK'
  BY <1>1, <1>3, TypeParts, BillsAre DEF Typed, PayRowsDone, BillsTypeOK, Sections, Reqs
<1>5. Placed'
  <2>1. CASE section' = NoSection
    <3>1. section'.by = None /\ section'.pc = "entries" /\ section'.phase = "recover"
      BY <2>1, NoSectionIs
    <3>2. UNCHANGED bill
      BY <1>1 DEF PayRowsDone
    <3> QED BY <3>1, <3>2 DEF Typed, Placed, Clawbacks, Payment, Locking
  <2>2. CASE section' # NoSection
    BY <1>1, <1>2, <2>2
    DEF Typed, Placed, Finishes, PayRowsDone, Clawbacks, Payment, Locking
  <2> QED BY <2>1, <2>2
<1> QED BY <1>4, <1>5 DEF Typed

SettleDone(p, op, t) ==
  /\ account' \in [Collabs -> Accounts]
  /\ \A u \in Collabs : u # t => account'[u] = account[u]
  /\ \/ /\ account[t].debt >= op.line[t].offset /\ p \notin account[t].settled
        /\ account'[t].debt = account[t].debt - op.line[t].offset
        /\ account'[t].entries = account[t].entries
        /\ account'[t].settled = account[t].settled \cup {p}
     \/ p \in account[t].settled /\ account'[t] = account[t]
     \/ /\ p \notin account[t].settled /\ account[t].debt < op.line[t].offset
        /\ account'[t] = account[t]
  /\ \/ /\ p \in account'[t].settled
        /\ section'.by = section.by /\ section'.phase = section.phase
        /\ section'.p = section.p /\ section'.over = section.over
        /\ section'.c = section.c /\ section'.todo = section.todo
        /\ section'.pc = "offset" /\ section'.t = t
        /\ section' \in Sections
        /\ UNCHANGED req
     \/ /\ p \notin account[t].settled /\ account[t].debt < op.line[t].offset
        /\ section' = NoSection
        /\ req' = [req EXCEPT ![section.by] = NoRequest]
  /\ UNCHANGED <<row, bill, order, entry, ledger, offsets, breaks>>

LEMMA SettleDoes ==
  ASSUME Typed, NEW t \in Collabs, Settle(t)
  PROVE  /\ section.by \in Requests /\ section.pc = "settle" /\ t \in section.todo
         /\ \E p \in Periods, op \in Payments : Finishes(p, op) /\ SettleDone(p, op, t)
<1>1. section.by \in Requests /\ section.pc = "settle" /\ t \in section.todo
  BY DEF Settle, SettleThen, Here
<1>2. PICK p \in Periods, op \in Payments : Finishes(p, op)
  BY <1>1, FinishesOne DEF Payment
<1>3. section.p = p /\ Op = op
  BY <1>2 DEF Finishes, Op
<1>4. t \in DOMAIN op.line
  BY <1>1, <1>2 DEF Finishes
<1>5. PICK f \in Nat : f = op.line[t].offset
  BY <1>4, PaymentIs
<1>6. account \in [Collabs -> Accounts]
  BY TypeParts DEF Typed
<1> DEFINE may == account[t].debt >= f
           known == p \in account[t].settled
           off == [account EXCEPT ![t].debt = @ - f, ![t].settled = @ \cup {p}]
<1>7. /\ account' = IF may /\ ~known THEN off ELSE account
      /\ IF ~may /\ ~known THEN Throw
         ELSE section' = [section EXCEPT !.pc = "offset", !.t = t] /\ UNCHANGED req
      /\ UNCHANGED <<row, bill, order, entry, ledger, offsets, breaks>>
  BY <1>3, <1>5 DEF Settle, SettleThen, Settled, OffsetOff
<1>8. account[t].debt \in Nat /\ account[t].settled \in SUBSET Periods
  BY <1>6 DEF Accounts
<1>9. /\ \A u \in Collabs : u # t => off[u] = account[u]
      /\ off[t].debt = account[t].debt - f /\ off[t].entries = account[t].entries
      /\ off[t].settled = account[t].settled \cup {p}
      /\ may => off \in [Collabs -> Accounts]
  <2> DEFINE new == [account[t] EXCEPT !.debt = @ - f, !.settled = @ \cup {p}]
  <2>1. off = [account EXCEPT ![t] = new]
    BY <1>6 DEF Accounts
  <2>2. /\ new.debt = account[t].debt - f /\ new.entries = account[t].entries
        /\ new.settled = account[t].settled \cup {p}
    BY <1>6 DEF Accounts
  <2>3. ASSUME may
        PROVE  new \in Accounts
    <3>1. PICK d \in Nat : d = account[t].debt - f
      BY <1>8, <2>3
    <3>2. PICK S \in SUBSET Periods : S = account[t].settled \cup {p}
      BY <1>8
    <3>3. new = [account[t] EXCEPT !.debt = d, !.settled = S]
      BY <3>1, <3>2
    <3>4. account[t] \in Accounts
      BY <1>6
    <3> HIDE DEF new
    <3> QED BY <3>3, <3>4 DEF Accounts
  <2> HIDE DEF new, off
  <2> QED BY <1>6, <2>1, <2>2, <2>3
<1> HIDE DEF off
<1>10. /\ account' \in [Collabs -> Accounts]
       /\ \A u \in Collabs : u # t => account'[u] = account[u]
       /\ \/ /\ account[t].debt >= f /\ p \notin account[t].settled
             /\ account'[t].debt = account[t].debt - f
             /\ account'[t].entries = account[t].entries
             /\ account'[t].settled = account[t].settled \cup {p}
          \/ p \in account[t].settled /\ account'[t] = account[t]
          \/ /\ p \notin account[t].settled /\ account[t].debt < f
             /\ account'[t] = account[t]
  BY <1>6, <1>7, <1>8, <1>9
<1>11. \/ /\ p \in account'[t].settled
          /\ section' = [section EXCEPT !.pc = "offset", !.t = t] /\ UNCHANGED req
       \/ p \notin account[t].settled /\ account[t].debt < f /\ Throw
  BY <1>6, <1>7, <1>8, <1>9
<1>12. section' = [section EXCEPT !.pc = "offset", !.t = t] =>
        /\ section'.by = section.by /\ section'.phase = section.phase
        /\ section'.p = section.p /\ section'.over = section.over
        /\ section'.c = section.c /\ section'.todo = section.todo
        /\ section'.pc = "offset" /\ section'.t = t
        /\ section' \in Sections
  BY TypedAre DEF Sections, Payment
<1>13. SettleDone(p, op, t)
  BY <1>5, <1>7, <1>10, <1>11, <1>12 DEF SettleDone, Throw
<1> QED BY <1>1, <1>2, <1>13

LEMMA TypedSettle ==
  ASSUME Typed, NEW t \in Collabs, Settle(t)
  PROVE  Typed'
<1>1. PICK p \in Periods, op \in Payments : Finishes(p, op) /\ SettleDone(p, op, t)
  BY SettleDoes
<1>2. section.by \in Requests /\ t \in section.todo
  BY SettleDoes
<1>3. req' \in [Requests -> Reqs] /\ section' \in Sections
  BY <1>1, <1>2, TypeParts, NoSectionIs DEF Typed, SettleDone
<1>4. BillsTypeOK'
  BY <1>1, <1>3, TypeParts, BillsAre
  DEF Typed, SettleDone, BillsTypeOK, Sections, Reqs, Accounts
<1>5. Placed'
  <2>1. CASE section' = NoSection
    <3>1. section'.by = None /\ section'.pc = "entries" /\ section'.phase = "recover"
      BY <2>1, NoSectionIs
    <3>2. UNCHANGED bill
      BY <1>1 DEF SettleDone
    <3> QED BY <3>1, <3>2 DEF Typed, Placed, Clawbacks, Payment, Locking
  <2>2. CASE section' # NoSection
    <3>1. /\ section'.pc = "offset" /\ section'.by = section.by /\ section'.p = section.p
          /\ section'.todo = section.todo /\ section'.t = t
      BY <1>1, <2>2 DEF SettleDone
    <3>2. UNCHANGED bill /\ section.pc = "settle"
      BY <1>1, SettleDoes DEF SettleDone
    <3> QED BY <1>1, <1>2, <3>1, <3>2
            DEF Typed, Placed, Finishes, Clawbacks, Payment, Locking
  <2> QED BY <2>1, <2>2
<1> QED BY <1>4, <1>5 DEF Typed

OffsetEntryDone(p, op, t) ==
  /\ t \in DOMAIN op.line /\ t \in Collabs /\ t = section.t
  /\ offsets' = offsets \cup {<<p, t, op.line[t].offset>>}
  /\ section'.by = section.by /\ section'.phase = section.phase
  /\ section'.p = section.p /\ section'.over = section.over
  /\ section'.c = section.c /\ section'.todo = section.todo
  /\ section'.pc = "recovered" /\ section'.t = section.t
  /\ section' \in Sections
  /\ UNCHANGED <<row, bill, order, account, entry, ledger, req, breaks>>

LEMMA OffsetEntryDoes ==
  ASSUME Typed, OffsetEntry
  PROVE  /\ section.by \in Requests /\ section.pc = "offset"
         /\ \E p \in Periods, op \in Payments, t \in Collabs :
              Finishes(p, op) /\ OffsetEntryDone(p, op, t)
<1>1. section.by \in Requests /\ section.pc = "offset"
  BY DEF OffsetEntry, Here
<1>2. PICK p \in Periods, op \in Payments : Finishes(p, op)
  BY <1>1, FinishesOne DEF Payment
<1>3. section.p = p /\ Op = op
  BY <1>2 DEF Finishes, Op
<1>4. section.t \in DOMAIN op.line /\ section.t \in Collabs
  BY <1>1, <1>2, PaymentIs DEF Finishes, Typed, Placed
<1>5. OffsetEntryDone(p, op, section.t)
  BY <1>3, <1>4, TypedGoto DEF OffsetEntry, OffsetEntryDone, Payment
<1> QED BY <1>1, <1>2, <1>4, <1>5

LEMMA TypedOffsetEntry ==
  ASSUME Typed, OffsetEntry
  PROVE  Typed'
<1>1. PICK p \in Periods, op \in Payments, t \in Collabs :
        Finishes(p, op) /\ OffsetEntryDone(p, op, t)
  BY OffsetEntryDoes
<1>2. section.by \in Requests /\ section.pc = "offset"
  BY OffsetEntryDoes
<1>3. op.line[t].offset \in Nat
  BY <1>1, PaymentIs DEF OffsetEntryDone
<1>4. offsets' \subseteq Periods \X Collabs \X Nat
  BY <1>1, <1>3, TypeParts DEF Typed, OffsetEntryDone
<1>5. BillsTypeOK'
  BY <1>1, <1>4, TypeParts, BillsAre DEF Typed, OffsetEntryDone, BillsTypeOK, Sections
<1>6. Placed'
  BY <1>1, <1>2
  DEF Typed, Placed, Finishes, OffsetEntryDone, Clawbacks, Payment, Locking
<1> QED BY <1>5, <1>6 DEF Typed

RecoveredDone(p, op, t) ==
  /\ t \in DOMAIN op.line /\ t \in Collabs /\ t = section.t
  /\ \/ /\ \E c \in Rows :
             /\ entry[c].recovered < op.line[t].recover[c]
             /\ entry' = [entry EXCEPT ![c].recovered = op.line[t].recover[c]]
        /\ UNCHANGED section
     \/ /\ \A c \in Rows : entry[c].recovered >= op.line[t].recover[c]
        /\ section'.by = section.by /\ section'.phase = section.phase
        /\ section'.p = section.p /\ section'.over = section.over
        /\ section'.c = section.c /\ section'.todo = section.todo \ {t}
        /\ section'.pc = IF section'.todo = {} THEN "close" ELSE "settle"
        /\ section' \in Sections
        /\ UNCHANGED entry
  /\ UNCHANGED <<row, bill, order, account, ledger, offsets, req, breaks>>

LEMMA RecoveredDoes ==
  ASSUME Typed, Recovered
  PROVE  /\ section.by \in Requests /\ section.pc = "recovered"
         /\ \E p \in Periods, op \in Payments, t \in Collabs :
              Finishes(p, op) /\ RecoveredDone(p, op, t)
<1>1. section.by \in Requests /\ section.pc = "recovered"
  BY DEF Recovered, Here
<1>2. PICK p \in Periods, op \in Payments : Finishes(p, op)
  BY <1>1, FinishesOne DEF Payment
<1>3. section.p = p /\ Op = op
  BY <1>2 DEF Finishes, Op
<1>4. section.t \in DOMAIN op.line /\ section.t \in Collabs
  BY <1>1, <1>2, PaymentIs DEF Finishes, Typed, Placed
<1>5. PICK t \in Collabs : t = section.t
  BY <1>4
<1> DEFINE todo == section.todo \ {t}
<1>7. /\ \/ /\ \E c \in Rows :
                 /\ entry[c].recovered < op.line[t].recover[c]
                 /\ entry' = [entry EXCEPT ![c].recovered = op.line[t].recover[c]]
            /\ UNCHANGED section
         \/ /\ \A c \in Rows : entry[c].recovered >= op.line[t].recover[c]
            /\ section' = [section EXCEPT !.pc = Afterwards(todo), !.t = None, !.todo = todo]
            /\ UNCHANGED entry
      /\ UNCHANGED <<row, bill, order, account, ledger, offsets, req, breaks>>
  <2>1. Op.line[section.t].recover = op.line[t].recover
    BY <1>3, <1>5
  <2> QED BY <1>5, <2>1 DEF Recovered
<1>8. todo \in SUBSET Collabs
  BY TypedAre DEF Sections
<1>9. section' = [section EXCEPT !.pc = Afterwards(todo), !.t = None, !.todo = todo] =>
        /\ section'.by = section.by /\ section'.phase = section.phase
        /\ section'.p = section.p /\ section'.over = section.over
        /\ section'.c = section.c /\ section'.todo = todo
        /\ section'.pc = IF section'.todo = {} THEN "close" ELSE "settle"
        /\ section' \in Sections
  <2> HIDE DEF todo
  <2> QED BY <1>8, TypedAre DEF Afterwards, Sections, Payment
<1>10. RecoveredDone(p, op, t)
  BY <1>4, <1>5, <1>7, <1>9 DEF RecoveredDone
<1> QED BY <1>1, <1>2, <1>10

LEMMA TypedRecovered ==
  ASSUME Typed, Recovered
  PROVE  Typed'
<1>1. PICK p \in Periods, op \in Payments, t \in Collabs :
        Finishes(p, op) /\ RecoveredDone(p, op, t)
  BY RecoveredDoes
<1>2. section.by \in Requests /\ section.pc = "recovered"
  BY RecoveredDoes
<1>3. entry \in [Rows -> Entries]
  BY TypeParts DEF Typed
<1>4. entry' \in [Rows -> Entries] /\ \A c \in Rows : entry'[c].state = entry[c].state
  <2>1. CASE UNCHANGED entry
    BY <1>3, <2>1
  <2>2. CASE \E c \in Rows :
             /\ entry' = [entry EXCEPT ![c].recovered = op.line[t].recover[c]]
    <3>1. PICK c \in Rows : entry' = [entry EXCEPT ![c].recovered = op.line[t].recover[c]]
      BY <2>2
    <3>2. PICK n \in Nat : n = op.line[t].recover[c]
      BY <1>1, <3>1, PaymentIs DEF RecoveredDone
    <3>3. entry' = [entry EXCEPT ![c].recovered = n]
      BY <3>1, <3>2
    <3> QED BY <1>3, <3>3 DEF Entries
  <2> QED BY <1>1, <2>1, <2>2 DEF RecoveredDone
<1>5. section' \in Sections
  BY <1>1, TypedAre DEF RecoveredDone
<1>6. {c \in Rows : entry'[c].state # "none"} = {c \in Rows : entry[c].state # "none"}
  BY <1>4
<1>7. BillsTypeOK'
  BY <1>1, <1>4, <1>5, <1>6, TypeParts, BillsAre
  DEF Typed, RecoveredDone, BillsTypeOK, Sections, Entries
<1>8. Placed'
  <2>1. section'.pc \in {"recovered", "close", "settle"} /\ section'.by = section.by
        /\ section'.p = section.p /\ section'.todo \subseteq section.todo
    BY <1>1, <1>2 DEF RecoveredDone
  <2>2. section'.pc = "recovered" => section' = section
    BY <1>1 DEF RecoveredDone
  <2> QED BY <1>1, <1>2, <2>1, <2>2
          DEF Typed, Placed, Finishes, RecoveredDone, Clawbacks, Payment, Locking
<1> QED BY <1>7, <1>8 DEF Typed

CloseBillDone(p, op) ==
  /\ bill' \in [Periods -> Bill]
  /\ \A q \in Periods : q # p => bill'[q] = bill[q]
  /\ bill'[p].pending = None /\ bill'[p].ids = bill[p].ids
  /\ bill'[p].status \in {"paid", bill[p].status}
  /\ DOMAIN bill'[p].line = DOMAIN bill[p].line
  /\ \A t \in DOMAIN bill[p].line :
       IF t \in DOMAIN op.line
       THEN /\ bill'[p].line[t].paid
            /\ bill'[p].line[t].cash = op.line[t].net
            /\ bill'[p].line[t].offset = op.line[t].offset
       ELSE bill'[p].line[t] = bill[p].line[t]
  /\ section'.by = section.by /\ section'.over = section.over
  /\ \/ section.phase = "work" /\ section'.phase = "last" /\ section'.pc = "books"
     \/ section.phase # "work" /\ section'.phase = section.phase /\ section'.pc = "pending"
  /\ section' \in Sections
  /\ UNCHANGED <<row, order, account, entry, ledger, offsets, req, breaks>>

LEMMA CloseBillDoes ==
  ASSUME Typed, CloseBill
  PROVE  /\ section.by \in Requests /\ section.pc = "close"
         /\ \E p \in Periods, op \in Payments : Finishes(p, op) /\ CloseBillDone(p, op)
<1>1. section.by \in Requests /\ section.pc = "close"
  BY DEF CloseBill, Here
<1>2. PICK p \in Periods, op \in Payments : Finishes(p, op)
  BY <1>1, FinishesOne DEF Payment
<1>3. section.p = p /\ Op = op
  BY <1>2 DEF Finishes, Op
<1> DEFINE lines == [t \in DOMAIN bill[p].line |->
             IF t \in DOMAIN op.line
               THEN [bill[p].line[t] EXCEPT !.paid = TRUE, !.cash = op.line[t].net,
                                            !.offset = op.line[t].offset]
               ELSE bill[p].line[t]]
           closed == \A t \in DOMAIN lines : lines[t].paid \/ lines[t].voided
           new == [bill[p] EXCEPT !.line = lines,
                     !.status = IF closed THEN "paid" ELSE @, !.rev = @ + 1, !.pending = None]
<1>4. /\ bill' = [bill EXCEPT ![p].line = lines, ![p].status = IF closed THEN "paid" ELSE @,
                    ![p].rev = @ + 1, ![p].pending = None]
      /\ section' = IF section.phase = "work"
           THEN [section EXCEPT !.phase = "last", !.pc = "books", !.p = None]
           ELSE [section EXCEPT !.pc = "pending", !.p = None]
      /\ UNCHANGED <<row, order, account, entry, ledger, offsets, req, breaks>>
  BY <1>3 DEF CloseBill
<1>5. bill[p] \in Bill /\ bill[p].line \in Lines /\ bill \in [Periods -> Bill]
  BY TypedAre, TypeParts DEF Typed
<1>6. /\ DOMAIN lines = DOMAIN bill[p].line
      /\ \A t \in DOMAIN bill[p].line : lines[t] \in Line
      /\ \A t \in DOMAIN bill[p].line :
           IF t \in DOMAIN op.line
           THEN /\ lines[t].paid /\ lines[t].cash = op.line[t].net
                /\ lines[t].offset = op.line[t].offset
           ELSE lines[t] = bill[p].line[t]
  <2>1. \A t \in DOMAIN bill[p].line : bill[p].line[t] \in Line
    BY <1>5, LinesIs
  <2>2. \A t \in DOMAIN op.line : op.line[t].net \in Nat /\ op.line[t].offset \in Nat
    BY PaymentIs
  <2> QED BY <2>1, <2>2 DEF Line
<1>7. lines \in Lines /\ lines \in UNION {[T -> Line] : T \in SUBSET Collabs}
  <2>1. DOMAIN lines \subseteq Collabs
    BY <1>5, <1>6, LinesIs
  <2>2. lines = [t \in DOMAIN lines |-> lines[t]]
    OBVIOUS
  <2> HIDE DEF lines
  <2>3. lines \in Lines
    BY <1>6, <2>1, <2>2, LinesIs
  <2> QED BY <2>3, LinesIs, Zenon
<1>8. bill' = [bill EXCEPT ![p] = new]
  <2> HIDE DEF lines, closed
  <2> QED BY <1>4, <1>5 DEF Bill
<1>9. /\ new \in Bill /\ new.line = lines /\ new.pending = None /\ new.ids = bill[p].ids
      /\ new.status \in {"paid", bill[p].status}
  <2>1. PICK st \in {"paid", bill[p].status} :
          st = IF closed THEN "paid" ELSE bill[p].status
    <3> HIDE DEF closed
    <3> QED OBVIOUS
  <2>2. PICK r \in Nat : r = bill[p].rev + 1
    BY <1>5 DEF Bill
  <2>3. bill[p].status \in {"none", "locking", "locked", "paid", "cancelled"}
    BY <1>5 DEF Bill
  <2>4. st \in {"none", "locking", "locked", "paid", "cancelled"}
    BY <2>1, <2>3
  <2> HIDE DEF lines, closed
  <2>5. new = [bill[p] EXCEPT !.line = lines, !.status = st, !.rev = r, !.pending = None]
    BY <1>5, <2>1, <2>2 DEF Bill
  <2> HIDE DEF new
  <2>6. new \in Bill
    BY <1>5, <1>7, <2>4, <2>5 DEF Bill
  <2> QED BY <1>5, <2>1, <2>5, <2>6 DEF Bill
<1> HIDE DEF lines, closed, new
<1>10. /\ bill' \in [Periods -> Bill] /\ bill'[p] = new
       /\ \A q \in Periods : q # p => bill'[q] = bill[q]
  BY <1>5, <1>8, <1>9
<1>11. /\ section'.by = section.by /\ section'.over = section.over
       /\ \/ section.phase = "work" /\ section'.phase = "last" /\ section'.pc = "books"
          \/ section.phase # "work" /\ section'.phase = section.phase /\ section'.pc = "pending"
       /\ section' \in Sections
  BY <1>4, TypedAre DEF Sections
<1>12. CloseBillDone(p, op)
  BY <1>4, <1>6, <1>9, <1>10, <1>11 DEF CloseBillDone
<1> QED BY <1>1, <1>2, <1>12

LEMMA TypedCloseBill ==
  ASSUME Typed, CloseBill
  PROVE  Typed'
<1>1. PICK p \in Periods, op \in Payments : Finishes(p, op) /\ CloseBillDone(p, op)
  BY CloseBillDoes
<1>2. section.by \in Requests
  BY CloseBillDoes
<1>3. BillsTypeOK'
  BY <1>1, TypeParts, BillsAre DEF Typed, CloseBillDone, BillsTypeOK, Sections
<1>4. Placed'
  <2>1. \A q \in Periods : bill'[q].pending # None =>
          bill'[q].pending = bill[q].pending /\ bill'[q].line = bill[q].line
    BY <1>1 DEF CloseBillDone
  <2> QED BY <1>1, <1>2, <2>1
          DEF Typed, Placed, CloseBillDone, Clawbacks, Payment, Locking
<1> QED BY <1>3, <1>4 DEF Typed

LEMMA TypedRecover ==
  ASSUME Typed, Recover
  PROVE  Typed'
<1>1. UNCHANGED <<books, req, breaks>> /\ section.by \in Requests
  BY DEF Recover, Here
<1>2. /\ row' = row /\ bill' = bill /\ order' = order /\ account' = account
      /\ entry' = entry /\ ledger' = ledger /\ offsets' = offsets
  BY <1>1 DEF books
<1>3. section \in Sections
  BY TypedAre
<1>4. Unapplied \in SUBSET Rows /\ PendingBills \in SUBSET Periods /\ LockingBills \in SUBSET Periods
  BY DEF Unapplied, PendingBills, LockingBills
<1>5. section' \in Sections
  <2>1. CASE \E c \in Unapplied : section' = [section EXCEPT !.pc = "debt", !.c = c]
    BY <1>3, <1>4, <2>1 DEF Sections, Clawbacks
  <2>2. CASE \E p \in PendingBills : section' = [section EXCEPT !.pc = "rows", !.p = p]
    BY <1>3, <1>4, <2>2 DEF Sections, Payment
  <2>3. CASE \E p \in LockingBills : section' = [section EXCEPT !.pc = "bill", !.p = p]
    BY <1>3, <1>4, <2>3 DEF Sections, Locking
  <2>4. CASE Goto("pending") \/ Goto("locking")
    BY <1>3, <2>4 DEF Goto, Sections
  <2>5. CASE section' = [section EXCEPT !.pc = "books",
                    !.phase = IF @ = "again" THEN "last" ELSE @]
    BY <1>3, <2>5 DEF Sections
  <2> QED BY <2>1, <2>2, <2>3, <2>4, <2>5 DEF Recover
<1>6. BillsTypeOK'
  BY <1>1, <1>5, TypedBooks, TypeParts DEF Typed
<1>7. Placed'
  <2>1. CASE \E c \in Unapplied : section' = [section EXCEPT !.pc = "debt", !.c = c]
    BY <1>1, <1>2, <1>3, <2>1
    DEF Unapplied, Sections, Typed, Placed, Clawbacks, Payment, Locking
  <2>2. CASE \E p \in PendingBills : section' = [section EXCEPT !.pc = "rows", !.p = p]
    <3>1. PICK p \in Periods : /\ bill[p].pending # None
                               /\ section' = [section EXCEPT !.pc = "rows", !.p = p]
      BY <2>2 DEF PendingBills
    <3>2. bill[p].pending \in Payments
      BY <3>1, TypedAre DEF Bill
    <3> QED BY <1>1, <1>2, <1>3, <3>1, <3>2
            DEF Sections, Typed, Placed, Clawbacks, Payment, Locking
  <2>3. CASE \E p \in LockingBills : section' = [section EXCEPT !.pc = "bill", !.p = p]
    BY <1>1, <1>2, <1>3, <2>3
    DEF LockingBills, Sections, Typed, Placed, Clawbacks, Payment, Locking
  <2>4. CASE Goto("pending") \/ Goto("locking")
    BY <1>1, <1>2, <1>3, <2>4
    DEF Goto, Sections, Typed, Placed, Clawbacks, Payment, Locking
  <2>5. CASE section' = [section EXCEPT !.pc = "books",
                    !.phase = IF @ = "again" THEN "last" ELSE @]
    BY <1>1, <1>2, <1>3, <2>5 DEF Sections, Typed, Placed, Clawbacks, Payment, Locking
  <2> QED BY <2>1, <2>2, <2>3, <2>4, <2>5 DEF Recover
<1> QED BY <1>6, <1>7 DEF Typed

BillRowsDone(p) ==
  /\ row' \in [Rows -> Row]
  /\ \A c \in Rows :
       IF c \in bill[p].ids /\ row[c].status = "eligible" /\ ~row[c].billed
       THEN row'[c].status = "billed" /\ row'[c].billed
       ELSE row'[c] = row[c]
  /\ section'.by = section.by /\ section'.phase = section.phase
  /\ section'.p = section.p /\ section'.over = section.over
  /\ section'.pc = "lock" /\ section' \in Sections
  /\ UNCHANGED <<bill, order, account, entry, ledger, offsets, req, breaks>>

LEMMA BillRowsDoes ==
  ASSUME Typed, BillRows
  PROVE  /\ section.by \in Requests /\ section.pc = "bill"
         /\ section.p \in Periods /\ BillRowsDone(section.p)
<1>1. section.by \in Requests /\ section.pc = "bill" /\ section.p \in Periods
  BY DEF BillRows, Here, Typed, Placed, Locking
<1>2. \A c \in Rows : row[c] \in Row
  BY TypedAre
<1>3. /\ row' \in [Rows -> Row]
      /\ \A c \in Rows :
           IF c \in bill[section.p].ids /\ row[c].status = "eligible" /\ ~row[c].billed
           THEN row'[c].status = "billed" /\ row'[c].billed
           ELSE row'[c] = row[c]
  BY <1>2 DEF BillRows, Row
<1> QED BY <1>1, <1>3, TypedGoto DEF BillRows, BillRowsDone, Locking

LEMMA TypedBillRows ==
  ASSUME Typed, BillRows
  PROVE  Typed'
<1>1. section.by \in Requests /\ section.pc = "bill"
      /\ section.p \in Periods /\ BillRowsDone(section.p)
  BY BillRowsDoes
<1>2. BillsTypeOK'
  BY <1>1, TypeParts, BillsAre DEF Typed, BillRowsDone, BillsTypeOK, Sections
<1>3. Placed'
  BY <1>1 DEF Typed, Placed, BillRowsDone, Clawbacks, Payment, Locking
<1> QED BY <1>2, <1>3 DEF Typed

LockBillDone(p) ==
  /\ bill' \in [Periods -> Bill]
  /\ \A q \in Periods : q # p => bill'[q] = bill[q]
  /\ bill'[p].status = "locked" /\ bill'[p].ids = bill[p].ids
  /\ bill'[p].line = bill[p].line /\ bill'[p].pending = bill[p].pending
  /\ section'.by = section.by /\ section'.phase = section.phase
  /\ section'.over = section.over
  /\ section'.pc = "locking" /\ section' \in Sections
  /\ UNCHANGED <<row, order, account, entry, ledger, offsets, req, breaks>>

LEMMA LockBillDoes ==
  ASSUME Typed, LockBill
  PROVE  /\ section.by \in Requests /\ section.pc = "lock"
         /\ section.p \in Periods /\ LockBillDone(section.p)
<1>1. section.by \in Requests /\ section.pc = "lock" /\ section.p \in Periods
  BY DEF LockBill, Here, Typed, Placed, Locking
<1>2. bill \in [Periods -> Bill]
  BY TypeParts DEF Typed
<1>3. PICK p \in Periods : p = section.p
  BY <1>1
<1>4. bill' = [bill EXCEPT ![p] = [bill[p] EXCEPT !.status = "locked"]]
  BY <1>2, <1>3 DEF LockBill, Bill
<1> DEFINE new == [bill[p] EXCEPT !.status = "locked"]
<1>5. /\ new \in Bill /\ new.status = "locked" /\ new.ids = bill[p].ids
      /\ new.line = bill[p].line /\ new.pending = bill[p].pending
  BY <1>2 DEF Bill
<1> HIDE DEF new
<1>6. /\ bill' \in [Periods -> Bill] /\ bill'[p] = new
      /\ \A q \in Periods : q # p => bill'[q] = bill[q]
  BY <1>2, <1>4, <1>5 DEF new
<1>7. /\ section'.by = section.by /\ section'.phase = section.phase
      /\ section'.over = section.over
      /\ section'.pc = "locking" /\ section' \in Sections
  BY TypedAre DEF LockBill, Sections
<1>8. LockBillDone(p)
  BY <1>5, <1>6, <1>7 DEF LockBill, LockBillDone
<1> QED BY <1>1, <1>3, <1>8

LEMMA TypedLockBill ==
  ASSUME Typed, LockBill
  PROVE  Typed'
<1>1. section.by \in Requests /\ section.pc = "lock"
      /\ section.p \in Periods /\ LockBillDone(section.p)
  BY LockBillDoes
<1>2. BillsTypeOK'
  BY <1>1, TypeParts, BillsAre DEF Typed, LockBillDone, BillsTypeOK, Sections
<1>3. Placed'
  <2>1. \A q \in Periods : bill'[q].pending = bill[q].pending /\ bill'[q].line = bill[q].line
    BY <1>1 DEF LockBillDone
  <2> QED BY <1>1, <2>1 DEF Typed, Placed, LockBillDone, Clawbacks, Payment, Locking
<1> QED BY <1>2, <1>3 DEF Typed

-----------------------------------------------------------------------------
(* Reconciling *)

LEMMA EffectiveNat ==
  ASSUME NEW p, NEW t
  PROVE  Effective(p, t) \in Nat
<1> DEFINE S == {c \in InBill(p, t) : row[c].status \in {"billed", "paid_out"}}
<1>1. S \in SUBSET Rows
  BY DEF InBill
<1> HIDE DEF S
<1>2. Worth(S) \in Nat
  BY <1>1, WorthNat
<1> QED BY <1>2 DEF Effective, S

LEMMA ReservedNat ==
  ASSUME Typed, NEW p, NEW t
  PROVE  /\ Reserved(p, t) \in Nat
         /\ Reserving(p, t) \in SUBSET Periods /\ IsFiniteSet(Reserving(p, t))
         /\ Reserved(p, t) =
              SumFunctionOnSet([q \in Reserving(p, t) |-> Effective(q, t)], Reserving(p, t))
<1>1. Reserving(p, t) \in SUBSET Periods
  BY TypeParts DEF Typed, Reserving, Range
<1>2. IsFiniteSet(Reserving(p, t))
  BY <1>1, ConstantsAre, FS_Subset
<1> DEFINE f == [q \in Reserving(p, t) |-> Effective(q, t)]
<1>3. DOMAIN f = Reserving(p, t) /\ \A q \in Reserving(p, t) : f[q] \in Nat
  BY EffectiveNat
<1>4. Reserved(p, t) = SumFunctionOnSet(f, Reserving(p, t))
  BY <1>3, SumAll DEF Reserved
<1> HIDE DEF f
<1>5. SumFunctionOnSet(f, Reserving(p, t)) \in Nat
  BY <1>2, <1>3, SumNat
<1> QED BY <1>1, <1>2, <1>4, <1>5 DEF f

LEMMA OffsetIs ==
  ASSUME Typed, NEW p, NEW t \in Collabs
  PROVE  /\ Offset(p, t) \in Nat
         /\ Offset(p, t) <= Effective(p, t)
         /\ Offset(p, t) <= account[t].debt
         /\ Reserved(p, t) + Offset(p, t) <= account[t].debt \/ Offset(p, t) = 0
<1>1. PICK d \in Nat : d = account[t].debt
  BY TypedAre DEF Accounts
<1>2. PICK e \in Nat : e = Effective(p, t)
  BY EffectiveNat
<1>3. PICK r \in Nat : r = Reserved(p, t)
  BY ReservedNat
<1>4. Offset(p, t) = Least(e, Minus(d, r))
  BY <1>1, <1>2, <1>3 DEF Offset
<1> QED BY <1>1, <1>2, <1>3, <1>4 DEF Least, Minus

\* What reconciling makes of one line.
LineReconciled(p, t, new) ==
  LET was == bill[p].line[t] IN
  /\ new \in Line
  /\ new.paid <=> was.paid
  /\ new.cash = was.cash
  /\ was.paid => new.net = was.net /\ new.offset = was.offset
  /\ ~was.paid => /\ new.net = Effective(p, t) - Offset(p, t)
                  /\ new.offset = Offset(p, t)
                  /\ new.voided <=> Effective(p, t) = 0

LEMMA ReconciledDoes ==
  ASSUME Typed, NEW p \in Periods, NEW t \in DOMAIN bill[p].line
  PROVE  LineReconciled(p, t, Reconciled(p, t))
<1>1. bill[p].line[t] \in Line /\ t \in Collabs
  BY TypedAre, LinesIs
<1> DEFINE was == bill[p].line[t]
<1>2. Returned(p, t) \in SUBSET Rows
  BY TypeParts DEF Typed, Returned, Range
<1>3. CASE was.paid
  <2>1. Reconciled(p, t) = [was EXCEPT !.returned = Returned(p, t)]
    BY <1>3 DEF Reconciled
  <2>2. PICK S \in SUBSET Rows : S = Returned(p, t)
    BY <1>2
  <2> QED BY <1>1, <1>3, <2>1, <2>2 DEF LineReconciled, Line
<1>4. CASE ~was.paid
  <2>1. PICK e \in Nat : e = Effective(p, t)
    BY EffectiveNat
  <2>2. PICK f \in Nat : f = Offset(p, t) /\ f <= e
    BY <1>1, <2>1, OffsetIs
  <2>3. PICK n \in Nat : n = e - f
    BY <2>1, <2>2
  <2>4. PICK v \in BOOLEAN : v <=> e = 0
    <3>1. (e = 0) \in BOOLEAN
      OBVIOUS
    <3> QED BY <3>1
  <2>5. Reconciled(p, t) = [was EXCEPT !.net = n, !.offset = f, !.voided = v]
    <3>1. v = (e = 0)
      BY <2>4
    <3> QED BY <1>4, <2>1, <2>2, <2>3, <3>1 DEF Reconciled
  <2> QED BY <1>1, <1>4, <2>1, <2>2, <2>3, <2>4, <2>5 DEF LineReconciled, Line
<1> QED BY <1>3, <1>4

\* Of some indices one is the least, and one the last.
LEMMA LeastIndex ==
  ASSUME NEW n \in Nat, NEW T \in SUBSET (1..n), T # {}
  PROVE  \E m \in T : \A j \in T : m <= j
<1> DEFINE N == 1..n
           Below == {1..j : j \in T}
<1>1. PICK s \in Below : \A r \in Below : r \subseteq s => r = s
  <2>1. IsFiniteSet(N)
    BY FS_Interval
  <2>2. \A j \in T : 1..j \subseteq 1..n
    OBVIOUS
  <2>3. Below \in SUBSET SUBSET N
    BY <2>2, Zenon
  <2>4. Below # {}
    OBVIOUS
  <2> HIDE DEF N, Below
  <2> QED BY <2>1, <2>3, <2>4, LeastSet
<1>2. PICK m \in T : s = 1..m
  BY <1>1
<1>3. ASSUME NEW j \in T
      PROVE  m <= j
  <2>1. CASE j <= m
    <3>1. 1..j \subseteq 1..m
      BY <2>1
    <3>2. 1..j = 1..m
      BY <1>1, <1>2, <3>1
    <3>3. m \in 1..m
      OBVIOUS
    <3> QED BY <3>2, <3>3
  <2> QED BY <2>1
<1> QED BY <1>3

LEMMA LastIndex ==
  ASSUME NEW n \in Nat, NEW T \in SUBSET (1..n), T # {}
  PROVE  \E m \in T : \A j \in T : j <= m
<1> DEFINE R == {n + 1 - j : j \in T}
<1>1. R \in SUBSET (1..n) /\ R # {}
  <2>1. \A j \in T : n + 1 - j \in 1..n
    OBVIOUS
  <2>2. \A r \in R : r \in 1..n
    BY <2>1
  <2>3. PICK j \in T : TRUE
    OBVIOUS
  <2>4. n + 1 - j \in R
    OBVIOUS
  <2> HIDE DEF R
  <2> QED BY <2>2, <2>4
<1>2. \E m \in R : \A j \in R : m <= j
  <2> HIDE DEF R
  <2> QED BY <1>1, LeastIndex
<1>3. PICK m \in T : \A j \in R : n + 1 - m <= j
  BY <1>2
<1>4. \A j \in T : n + 1 - m <= n + 1 - j
  BY <1>3
<1>5. \A j \in T : j <= m
  BY <1>4
<1> QED BY <1>5

\* What reconciling makes of a bill.
BillReconciled(p, new) ==
  /\ new \in Bill
  /\ new.pending = bill[p].pending /\ new.ids = bill[p].ids
  /\ DOMAIN new.line = DOMAIN bill[p].line
  /\ \A t \in DOMAIN bill[p].line : LineReconciled(p, t, new.line[t])
  /\ new.status \in {"locked", "paid", "cancelled"}

LEMMA ReconciledBillDoes ==
  ASSUME Typed, NEW p \in Periods
  PROVE  BillReconciled(p, ReconciledBill(p))
<1> DEFINE lines == [t \in DOMAIN bill[p].line |-> Reconciled(p, t)]
           closed == \A t \in DOMAIN lines : lines[t].paid \/ lines[t].voided
           some == \E t \in DOMAIN lines : lines[t].paid
           new == [bill[p] EXCEPT !.line = lines,
             !.status = IF closed THEN IF some THEN "paid" ELSE "cancelled"
                        ELSE IF @ = "paid" THEN "paid" ELSE "locked"]
<1>1. bill[p] \in Bill /\ bill[p].line \in Lines
  BY TypedAre
<1>2. \A t \in DOMAIN bill[p].line : LineReconciled(p, t, lines[t])
  BY ReconciledDoes
<1>3. lines \in UNION {[T -> Line] : T \in SUBSET Collabs}
  <2>1. DOMAIN lines \subseteq Collabs /\ \A t \in DOMAIN lines : lines[t] \in Line
    BY <1>1, <1>2, LinesIs DEF LineReconciled
  <2>2. lines = [t \in DOMAIN lines |-> lines[t]]
    OBVIOUS
  <2> HIDE DEF lines
  <2>3. lines \in Lines
    BY <2>1, <2>2, LinesIs
  <2> QED BY <2>3, LinesIs, Zenon
<1>4. DOMAIN lines = DOMAIN bill[p].line
  OBVIOUS
<1>5. ReconciledBill(p) = IF new = bill[p] THEN new ELSE [new EXCEPT !.rev = @ + 1]
  BY DEF ReconciledBill
<1> HIDE DEF lines, closed, some
<1>6. /\ new \in Bill /\ new.pending = bill[p].pending /\ new.ids = bill[p].ids
      /\ new.line = lines /\ new.status \in {"locked", "paid", "cancelled"}
      /\ new.rev = bill[p].rev
  <2>1. PICK st \in {"locked", "paid", "cancelled"} :
          st = IF closed THEN IF some THEN "paid" ELSE "cancelled"
               ELSE IF bill[p].status = "paid" THEN "paid" ELSE "locked"
    OBVIOUS
  <2>2. new = [bill[p] EXCEPT !.line = lines, !.status = st]
    BY <1>1, <2>1 DEF Bill
  <2> HIDE DEF new
  <2> QED BY <1>1, <1>3, <2>2 DEF Bill
<1> HIDE DEF new
<1>7. BillReconciled(p, new)
  BY <1>2, <1>4, <1>6 DEF BillReconciled
<1>8. BillReconciled(p, [new EXCEPT !.rev = @ + 1])
  <2>1. PICK r \in Nat : r = new.rev + 1
    BY <1>6 DEF Bill
  <2>2. [new EXCEPT !.rev = @ + 1] = [new EXCEPT !.rev = r]
    BY <1>6, <2>1 DEF Bill
  <2>3. /\ [new EXCEPT !.rev = r] \in Bill
        /\ [new EXCEPT !.rev = r].pending = new.pending
        /\ [new EXCEPT !.rev = r].ids = new.ids
        /\ [new EXCEPT !.rev = r].line = new.line
        /\ [new EXCEPT !.rev = r].status = new.status
    BY <1>6 DEF Bill
  <2> QED BY <1>2, <1>4, <1>6, <2>2, <2>3 DEF BillReconciled
<1> QED BY <1>5, <1>7, <1>8

\* A bill that reconciling leaves as it is says what its rows are worth.
LEMMA ReconciledSays ==
  ASSUME Typed, NEW p \in Periods, ReconciledBill(p) = bill[p],
         NEW t \in DOMAIN bill[p].line, ~bill[p].line[t].paid
  PROVE  /\ t \in Collabs
         /\ bill[p].line[t].net = Effective(p, t) - Offset(p, t)
         /\ bill[p].line[t].offset = Offset(p, t)
         /\ bill[p].line[t].voided <=> Effective(p, t) = 0
<1>1. t \in Collabs
  BY TypedAre, LinesIs
<1>2. LineReconciled(p, t, bill[p].line[t])
  BY ReconciledBillDoes DEF BillReconciled
<1> QED BY <1>1, <1>2 DEF LineReconciled

ReconcileDone(p) ==
  /\ p \in Periods /\ p \in Range(order) /\ Open(p)
  /\ bill' \in [Periods -> Bill]
  /\ \A q \in Periods : q # p => bill'[q] = bill[q]
  /\ BillReconciled(p, bill'[p])
  /\ UNCHANGED <<row, order, account, entry, ledger, offsets, section, req, breaks>>

LEMMA ReconcileDoes ==
  ASSUME Typed, Reconcile
  PROVE  /\ section.by \in Requests /\ section.pc = "books"
         /\ \E p \in Periods : ReconcileDone(p)
<1> DEFINE first == CHOOSE i \in ToReconcile : \A j \in ToReconcile : i <= j
           p == order[first]
<1>1. /\ section.by \in Requests /\ section.pc = "books" /\ ToReconcile # {}
      /\ bill' = [bill EXCEPT ![p] = ReconciledBill(p)]
      /\ UNCHANGED <<row, order, account, entry, ledger, offsets, section, req, breaks>>
  BY DEF Reconcile, Here
<1>2. first \in ToReconcile
  <2>1. Len(order) \in Nat /\ ToReconcile \in SUBSET (1..Len(order))
    BY TypeParts DEF Typed, ToReconcile
  <2>2. \E m \in ToReconcile : \A j \in ToReconcile : m <= j
    BY <1>1, <2>1, LeastIndex
  <2> QED BY <2>2
<1> HIDE DEF first
<1>3. p \in Periods /\ p \in Range(order) /\ Open(p)
  BY <1>2, TypeParts DEF Typed, ToReconcile, Range
<1>4. BillReconciled(p, ReconciledBill(p)) /\ bill \in [Periods -> Bill]
  BY <1>3, ReconciledBillDoes, TypeParts DEF Typed
<1>5. ReconciledBill(p) \in Bill
  BY <1>4 DEF BillReconciled
<1>6. /\ bill' \in [Periods -> Bill] /\ bill'[p] = ReconciledBill(p)
      /\ \A q \in Periods : q # p => bill'[q] = bill[q]
  <2> HIDE DEF p
  <2> QED BY <1>1, <1>3, <1>4, <1>5
<1>7. ReconcileDone(p)
  BY <1>1, <1>3, <1>4, <1>6 DEF ReconcileDone
<1> QED BY <1>1, <1>3, <1>7

LEMMA TypedReconcile ==
  ASSUME Typed, Reconcile
  PROVE  Typed'
<1>1. PICK p \in Periods : ReconcileDone(p)
  BY ReconcileDoes
<1>2. section.pc = "books" /\ section.by \in Requests
  BY ReconcileDoes
<1>3. BillsTypeOK'
  BY <1>1, TypeParts, BillsAre DEF Typed, ReconcileDone, BillsTypeOK
<1>4. Placed'
  <2>1. \A q \in Periods : /\ bill'[q].pending = bill[q].pending
                           /\ DOMAIN bill'[q].line = DOMAIN bill[q].line
    BY <1>1 DEF ReconcileDone, BillReconciled
  <2> QED BY <1>1, <1>2, <2>1
          DEF Typed, Placed, ReconcileDone, Clawbacks, Payment, Locking
<1> QED BY <1>3, <1>4 DEF Typed

LEMMA TypedReconciles ==
  ASSUME Typed, Reconciles
  PROVE  Typed'
<1>1. UNCHANGED <<books, breaks>> /\ section.by \in Requests
  BY DEF Reconciles, Here
<1>2. /\ row' = row /\ bill' = bill /\ order' = order /\ account' = account
      /\ entry' = entry /\ ledger' = ledger /\ offsets' = offsets
  BY <1>1 DEF books
<1>3. section' \in Sections /\ (section'.pc = "work" \/ section' = NoSection)
      /\ (section'.by = section.by \/ section' = NoSection)
  BY TypedAre, NoSectionIs DEF Reconciles, Sections
<1>4. req' \in [Requests -> Reqs]
  <2>1. req \in [Requests -> Reqs]
    BY TypeParts DEF Typed
  <2>2. \A x \in {"idle", "voided", "done"} : [NoRequest EXCEPT !.pc = x] \in Reqs
    BY DEF NoRequest, Reqs
  <2>3. CASE UNCHANGED req
    BY <2>1, <2>3
  <2>4. CASE req' = [req EXCEPT ![section.by] = [NoRequest EXCEPT !.pc =
             IF ~section.over THEN "idle"
             ELSE IF Asked[section.by].op = "return" /\ req[section.by].pc = "idle"
               THEN "voided" ELSE "done"]]
    <3>1. PICK x \in {"idle", "voided", "done"} : x = IF ~section.over THEN "idle"
             ELSE IF Asked[section.by].op = "return" /\ req[section.by].pc = "idle"
               THEN "voided" ELSE "done"
      OBVIOUS
    <3>2. req' = [req EXCEPT ![section.by] = [NoRequest EXCEPT !.pc = x]]
      BY <2>4, <3>1
    <3> QED BY <1>1, <2>1, <2>2, <3>2
  <2> QED BY <2>3, <2>4 DEF Reconciles
<1>5. BillsTypeOK'
  BY <1>1, <1>3, <1>4, TypedBooks, TypeParts DEF Typed
<1>6. Placed'
  BY <1>1, <1>2, <1>3, NoSectionIs DEF Typed, Placed, Clawbacks, Payment, Locking
<1> QED BY <1>5, <1>6 DEF Typed

\* The bills that exist are the ones in the order they were locked in.
Covered ==
  /\ \A p \in Periods : bill[p].status # "none" <=> p \in Range(order)
  /\ \A p \in Periods : bill[p].pending # None => bill[p].status # "none"

LEMMA AppendOnce ==
  ASSUME NEW S, NEW seq \in Seq(S), IsInjective(seq), NEW x \in S, x \notin Range(seq)
  PROVE  /\ Append(seq, x) \in Seq(S) /\ IsInjective(Append(seq, x))
         /\ Range(Append(seq, x)) = Range(seq) \cup {x}
<1> DEFINE new == Append(seq, x)
           n == Len(seq)
<1>1. /\ n \in Nat /\ DOMAIN seq = 1..n
      /\ new \in Seq(S) /\ DOMAIN new = 1..(n + 1)
      /\ \A i \in 1..n : new[i] = seq[i] /\ new[n + 1] = x
  OBVIOUS
<1>2. new[n + 1] = x
  OBVIOUS
<1> HIDE DEF new, n
<1>3. \A i \in 1..n : seq[i] # x
  BY <1>1 DEF Range
<1>4. \A i \in 1..(n + 1) : i \in 1..n \/ i = n + 1
  BY <1>1
<1>5. IsInjective(new)
  <2>1. SUFFICES ASSUME NEW a \in 1..(n + 1), NEW b \in 1..(n + 1), new[a] = new[b]
                 PROVE  a = b
    BY <1>1 DEF IsInjective
  <2>2. CASE a \in 1..n /\ b \in 1..n
    BY <1>1, <2>1, <2>2 DEF IsInjective
  <2> QED BY <1>1, <1>2, <1>3, <1>4, <2>1, <2>2
<1>6. Range(new) = Range(seq) \cup {x}
  <2>1. \A y \in Range(new) : y \in Range(seq) \cup {x}
    BY <1>1, <1>2, <1>4 DEF Range
  <2>2. \A y \in Range(seq) : y \in Range(new)
    <3>1. \A i \in 1..n : i \in 1..(n + 1)
      BY <1>1
    <3> QED BY <1>1, <3>1 DEF Range
  <2>3. x \in Range(new)
    <3>1. n + 1 \in 1..(n + 1)
      BY <1>1
    <3> QED BY <1>1, <1>2, <3>1 DEF Range
  <2> QED BY <2>1, <2>2, <2>3
<1> QED BY <1>1, <1>5, <1>6 DEF new

-----------------------------------------------------------------------------
(* The work of a section *)

\* The section has done its work, and reconciles before it ends.
Worked(over) ==
  /\ section'.by = section.by /\ section'.phase = "last" /\ section'.pc = "books"
  /\ section'.over <=> over
  /\ section' \in Sections

LEMMA WorkedIs ==
  ASSUME Typed
  PROVE  /\ section' = Finished => Worked(section.over)
         /\ section' = Refused => Worked(FALSE)
  BY TypedAre DEF Finished, Refused, Worked, Sections

LEMMA WorkingIs ==
  ASSUME NEW op, Working(op)
  PROVE  /\ section.by \in Requests /\ section.pc = "work" /\ Asked[section.by].op = op
         /\ op = "return" => Asked[section.by].c \in Rows
         /\ op \in {"lock", "pay"} => Asked[section.by].p \in Periods
  BY ConstantsAre DEF Working, Here

\* The rows that a bill locked now takes.
Eligible(p) == {c \in Rows : row[c].status = "eligible" /\ ~row[c].billed /\ Period[c] = p}

CreateBillDone(p) ==
  /\ \/ UNCHANGED <<bill, order>> /\ Worked(FALSE)
     \/ /\ bill[p].status = "none" /\ Eligible(p) # {}
        /\ bill' \in [Periods -> Bill]
        /\ \A q \in Periods : q # p => bill'[q] = bill[q]
        /\ bill'[p].status = "locking" /\ bill'[p].ids = Eligible(p) /\ bill'[p].pending = None
        /\ DOMAIN bill'[p].line = {Collab[c] : c \in Eligible(p)}
        /\ \A t \in DOMAIN bill'[p].line :
             bill'[p].line[t] = NewLine(Worth({c \in Eligible(p) : Collab[c] = t}))
        /\ order' = Append(order, p)
        /\ section'.by = section.by /\ section'.over = section.over
        /\ section'.phase = "again" /\ section'.pc = "entries" /\ section' \in Sections
  /\ UNCHANGED <<row, account, entry, ledger, offsets, req, breaks>>

LEMMA CreateBillDoes ==
  ASSUME Typed, CreateBill
  PROVE  /\ section.by \in Requests /\ section.pc = "work"
         /\ Asked[section.by].op = "lock"
         /\ \E p \in Periods : p = Asked[section.by].p /\ CreateBillDone(p)
<1>1. /\ section.by \in Requests /\ section.pc = "work" /\ Asked[section.by].op = "lock"
      /\ Asked[section.by].p \in Periods
  BY WorkingIs DEF CreateBill
<1>2. PICK p \in Periods : p = Asked[section.by].p
  BY <1>1
<1> DEFINE line == [t \in {Collab[c] : c \in Eligible(p)} |->
                      NewLine(Worth({c \in Eligible(p) : Collab[c] = t}))]
           new == [NoBill EXCEPT !.status = "locking", !.ids = Eligible(p), !.line = line]
<1>3. /\ IF bill[p].status # "none" \/ Eligible(p) = {}
           THEN section' = Refused /\ UNCHANGED <<bill, order>>
           ELSE /\ bill' = [bill EXCEPT ![p] = new]
                /\ order' = Append(order, p)
                /\ section' = [section EXCEPT !.phase = "again", !.pc = "entries"]
      /\ UNCHANGED <<row, account, entry, ledger, offsets, req, breaks>>
  BY <1>2 DEF CreateBill, Eligible
<1>4. Eligible(p) \in SUBSET Rows
  BY DEF Eligible
<1>5. /\ DOMAIN line = {Collab[c] : c \in Eligible(p)}
      /\ \A t \in DOMAIN line : line[t] = NewLine(Worth({c \in Eligible(p) : Collab[c] = t}))
  OBVIOUS
<1>6. line \in UNION {[T -> Line] : T \in SUBSET Collabs}
  <2>1. DOMAIN line \subseteq Collabs
    BY <1>4, ConstantsAre
  <2>2. \A t \in DOMAIN line : line[t] \in Line
    <3>1. ASSUME NEW t
          PROVE  NewLine(Worth({c \in Eligible(p) : Collab[c] = t})) \in Line
      <4>1. {c \in Eligible(p) : Collab[c] = t} \in SUBSET Rows
        BY <1>4
      <4>2. PICK n \in Nat : n = Worth({c \in Eligible(p) : Collab[c] = t})
        BY <4>1, WorthNat
      <4>3. NewLine(n) \in Line
        BY DEF NewLine, Line
      <4> QED BY <4>2, <4>3
    <3> QED BY <1>5, <3>1
  <2>3. line = [t \in DOMAIN line |-> line[t]]
    OBVIOUS
  <2> HIDE DEF line
  <2>4. line \in Lines
    BY <2>1, <2>2, <2>3, LinesIs
  <2> QED BY <2>4, LinesIs, Zenon
<1> HIDE DEF line
<1>7. /\ new \in Bill /\ new.status = "locking" /\ new.ids = Eligible(p)
      /\ new.pending = None /\ new.line = line
  BY <1>4, <1>6 DEF NoBill, Bill
<1> HIDE DEF new
<1>8. bill' = [bill EXCEPT ![p] = new] =>
        /\ bill' \in [Periods -> Bill] /\ bill'[p] = new
        /\ \A q \in Periods : q # p => bill'[q] = bill[q]
  BY <1>7, TypeParts DEF Typed
<1>9. section' = [section EXCEPT !.phase = "again", !.pc = "entries"] =>
        /\ section'.by = section.by /\ section'.over = section.over
        /\ section'.phase = "again" /\ section'.pc = "entries" /\ section' \in Sections
  BY TypedAre DEF Sections
<1>10. CASE bill[p].status # "none" \/ Eligible(p) = {}
  <2>1. CreateBillDone(p)
    BY <1>3, <1>10, WorkedIs DEF CreateBillDone
  <2> QED BY <1>1, <1>2, <2>1
<1>11. CASE ~(bill[p].status # "none" \/ Eligible(p) = {})
  <2>1. /\ bill' = [bill EXCEPT ![p] = new]
        /\ order' = Append(order, p)
        /\ section' = [section EXCEPT !.phase = "again", !.pc = "entries"]
        /\ UNCHANGED <<row, account, entry, ledger, offsets, req, breaks>>
    BY <1>3, <1>11
  <2>2. bill'[p] = new /\ bill'[p].line = line
    BY <1>7, <1>8, <2>1
  <2>3. bill[p].status = "none" /\ Eligible(p) # {}
    BY <1>11
  <2>5. /\ DOMAIN bill'[p].line = {Collab[c] : c \in Eligible(p)}
        /\ \A t \in DOMAIN bill'[p].line :
             bill'[p].line[t] = NewLine(Worth({c \in Eligible(p) : Collab[c] = t}))
    BY <1>5, <2>2
  <2>6. /\ bill'[p].status = "locking" /\ bill'[p].ids = Eligible(p) /\ bill'[p].pending = None
    BY <1>7, <2>2
  <2>7. /\ bill' \in [Periods -> Bill] /\ \A q \in Periods : q # p => bill'[q] = bill[q]
    BY <1>8, <2>1
  <2>4. CreateBillDone(p)
    BY <1>9, <2>1, <2>3, <2>5, <2>6, <2>7 DEF CreateBillDone
  <2> QED BY <1>1, <1>2, <2>4
<1> QED BY <1>10, <1>11

LEMMA TypedCreateBill ==
  ASSUME Typed, Covered, CreateBill
  PROVE  Typed'
<1>1. PICK p \in Periods : p = Asked[section.by].p /\ CreateBillDone(p)
  BY CreateBillDoes
<1>2. section.by \in Requests /\ section.pc = "work"
  BY CreateBillDoes
<1>3. section' \in Sections
  BY <1>1 DEF CreateBillDone, Worked
<1>4. bill' \in [Periods -> Bill] /\ order' \in Seq(Periods) /\ IsInjective(order')
  <2>1. bill \in [Periods -> Bill] /\ order \in Seq(Periods) /\ IsInjective(order)
    BY TypeParts DEF Typed
  <2>2. CASE UNCHANGED <<bill, order>>
    BY <2>1, <2>2
  <2>3. CASE bill[p].status = "none" /\ order' = Append(order, p) /\ bill' \in [Periods -> Bill]
    <3>1. p \notin Range(order)
      BY <2>3 DEF Covered
    <3> QED BY <2>1, <2>3, <3>1, AppendOnce
  <2> QED BY <1>1, <2>2, <2>3 DEF CreateBillDone
<1>5. BillsTypeOK'
  BY <1>1, <1>3, <1>4, TypeParts, BillsAre
  DEF Typed, CreateBillDone, BillsTypeOK, Sections
<1>6. Placed'
  <2>1. \A q \in Periods : bill'[q].pending # None =>
          bill'[q].pending = bill[q].pending /\ bill'[q].line = bill[q].line
    BY <1>1 DEF CreateBillDone
  <2> QED BY <1>1, <1>2, <2>1
          DEF Typed, Placed, CreateBillDone, Worked, Clawbacks, Payment, Locking
<1> QED BY <1>5, <1>6 DEF Typed

\* The rows that a payment confirmed now pays.
Payable(p) == {c \in Rows : row[c].billed /\ Period[c] = p /\ Collab[c] \in Unpaid(p)
                            /\ row[c].status = "billed"}

LEMMA RestsAre ==
  ASSUME Typed
  PROVE  /\ \A c \in Rows : Rest(c) \in Int
         /\ \A t : Owing(t) \in SUBSET Rows /\ IsFiniteSet(Owing(t))
                   /\ \A c \in Owing(t) : Rest(c) \in Nat /\ Rest(c) > 0
         /\ \A c : RestBefore(c) \in Nat
<1>1. \A c \in Rows : Rest(c) \in Int
  BY ConstantsAre, TypedAre DEF Rest, Entries
<1>2. ASSUME NEW t
      PROVE  Owing(t) \in SUBSET Rows /\ IsFiniteSet(Owing(t))
             /\ \A c \in Owing(t) : Rest(c) \in Nat /\ Rest(c) > 0
  <2>1. Range(ledger) \subseteq Rows
    BY TypeParts DEF Typed, Range
  <2>2. Owing(t) \in SUBSET Rows
    BY <2>1 DEF Owing
  <2>3. IsFiniteSet(Owing(t))
    BY <2>2, ConstantsAre, FS_Subset
  <2> QED BY <1>1, <2>2, <2>3 DEF Owing
<1>3. ASSUME NEW c
      PROVE  RestBefore(c) \in Nat
  <2> DEFINE D == {d \in Owing(Collab[c]) : Before(ledger, d, c)}
             f == [d \in D |-> Rest(d)]
  <2>1. PICK t : t = Collab[c]
    OBVIOUS
  <2>2. D \subseteq Owing(t)
    BY <2>1
  <2>3. IsFiniteSet(D) /\ \A d \in D : Rest(d) \in Nat
    BY <1>2, <2>2, FS_Subset
  <2>4. DOMAIN f = D /\ \A d \in D : f[d] \in Nat
    BY <2>3
  <2>5. RestBefore(c) = SumFunctionOnSet(f, D)
    BY <2>4, SumAll DEF RestBefore
  <2> HIDE DEF D, f
  <2> QED BY <2>3, <2>4, <2>5, SumNat
<1> QED BY <1>1, <1>2, <1>3

\* What each clawback is told of an offset.
LEMMA RecoveryIs ==
  ASSUME Typed, NEW t \in Collabs, NEW f \in Nat
  PROVE  /\ Recovery(t, f) \in [Rows -> Nat]
         /\ \A c \in Rows :
              Recovery(t, f)[c] = IF c \in Owing(t) /\ RestBefore(c) < f
                THEN entry[c].recovered + Least(Rest(c), f - RestBefore(c)) ELSE 0
<1> DEFINE g == [c \in Rows |-> IF c \in Owing(t) /\ RestBefore(c) < f
             THEN entry[c].recovered + Least(Rest(c), f - RestBefore(c)) ELSE 0]
<1>1. Recovery(t, f) = g
  BY DEF Recovery
<1>2. ASSUME NEW c \in Rows, ~(c \in Owing(t) /\ RestBefore(c) < f)
      PROVE  g[c] \in Nat
  BY <1>2
<1>3. ASSUME NEW c \in Rows, c \in Owing(t) /\ RestBefore(c) < f
      PROVE  g[c] \in Nat
  <2>1. PICK n \in Nat : n = entry[c].recovered
    BY TypedAre DEF Entries
  <2>2. PICK r \in Nat : r = Rest(c)
    BY <1>3, RestsAre
  <2>3. PICK b \in Nat : b = RestBefore(c) /\ b < f
    BY <1>3, RestsAre
  <2> QED BY <1>3, <2>1, <2>2, <2>3 DEF Least
<1>4. g \in [Rows -> Nat]
  BY <1>2, <1>3
<1> QED BY <1>1, <1>4

ConfirmDone(p) ==
  /\ \/ UNCHANGED bill /\ Worked(FALSE)
     \/ /\ bill[p].status = "locked" /\ Payable(p) # {}
        /\ bill' \in [Periods -> Bill]
        /\ \A q \in Periods : q # p => bill'[q] = bill[q]
        /\ bill'[p].status = bill[p].status /\ bill'[p].ids = bill[p].ids
        /\ bill'[p].line = bill[p].line
        /\ bill'[p].pending \in Payments
        /\ bill'[p].pending.rows = Payable(p)
        /\ DOMAIN bill'[p].pending.line = Unpaid(p)
        /\ \A t \in Unpaid(p) :
             /\ bill'[p].pending.line[t].net = bill[p].line[t].net
             /\ bill'[p].pending.line[t].offset = bill[p].line[t].offset
             /\ bill'[p].pending.line[t].recover = Recovery(t, bill[p].line[t].offset)
        /\ section'.by = section.by /\ section'.over = section.over
        /\ section'.phase = section.phase /\ section'.pc = "rows" /\ section'.p = p
        /\ section' \in Sections
  /\ UNCHANGED <<row, order, account, entry, ledger, offsets, req, breaks>>

LEMMA ConfirmDoes ==
  ASSUME Typed, ConfirmPayment
  PROVE  /\ section.by \in Requests /\ section.pc = "work"
         /\ Asked[section.by].op = "pay"
         /\ \E p \in Periods : p = Asked[section.by].p /\ ConfirmDone(p)
<1>1. /\ section.by \in Requests /\ section.pc = "work" /\ Asked[section.by].op = "pay"
      /\ Asked[section.by].p \in Periods
  BY WorkingIs DEF ConfirmPayment
<1>2. PICK p \in Periods : p = Asked[section.by].p
  BY <1>1
<1> DEFINE f == [t \in Unpaid(p) |-> [net |-> bill[p].line[t].net,
                   offset |-> bill[p].line[t].offset,
                   recover |-> Recovery(t, bill[p].line[t].offset)]]
           op == [rows |-> Payable(p), line |-> f]
           may == /\ bill[p].status = "locked" /\ Unpaid(p) # {} /\ Payable(p) # {}
                  /\ req[section.by].rev = bill[p].rev /\ req[section.by].amount = NetOf(p)
           new == [bill[p] EXCEPT !.pending = op]
<1>3. /\ IF may
           THEN /\ bill' = [bill EXCEPT ![p].pending = op]
                /\ section' = [section EXCEPT !.pc = "rows", !.p = p]
           ELSE section' = Refused /\ UNCHANGED bill
      /\ UNCHANGED <<row, order, account, entry, ledger, offsets, req, breaks>>
  BY <1>2 DEF ConfirmPayment, Payable
<1>4. Payable(p) \in SUBSET Rows /\ Unpaid(p) \in SUBSET Collabs
  BY NetNat DEF Payable
<1>5. \A t \in Unpaid(p) : /\ f[t].net = bill[p].line[t].net
                           /\ f[t].offset = bill[p].line[t].offset
                           /\ f[t].recover = Recovery(t, bill[p].line[t].offset)
  OBVIOUS
<1>6. \A t \in Unpaid(p) : f[t] \in Paying
  <2>1. SUFFICES ASSUME NEW t \in Unpaid(p)
                 PROVE  f[t] \in Paying
    OBVIOUS
  <2>2. bill[p].line[t] \in Line /\ t \in Collabs
    BY TypedAre, LinesIs DEF Unpaid
  <2>3. PICK n \in Nat, o \in Nat : n = bill[p].line[t].net /\ o = bill[p].line[t].offset
    BY <2>2 DEF Line
  <2>5. PICK r \in [Rows -> Nat] : r = Recovery(t, o)
    BY <2>2, RecoveryIs
  <2>6. f[t] = [net |-> n, offset |-> o, recover |-> r]
    BY <2>3, <2>5
  <2>7. [net |-> n, offset |-> o, recover |-> r] \in Paying
    BY DEF Paying
  <2> QED BY <2>6, <2>7
<1>7. DOMAIN f = Unpaid(p) /\ f = [t \in Unpaid(p) |-> f[t]]
  OBVIOUS
<1> HIDE DEF f
<1>8. op \in Payments /\ op.rows = Payable(p) /\ op.line = f
  <2>1. op = [rows |-> Payable(p), line |-> [t \in Unpaid(p) |-> f[t]]]
    BY <1>7
  <2>2. op \in Payments
    <3> HIDE DEF op
    <3> QED BY <1>4, <1>6, <2>1, IsPayment
  <2> QED BY <2>2
<1> HIDE DEF op
<1>9. bill[p] \in Bill /\ bill \in [Periods -> Bill]
  BY TypeParts DEF Typed
<1>10. /\ new \in Bill /\ new.status = bill[p].status /\ new.ids = bill[p].ids
       /\ new.line = bill[p].line /\ new.pending = op
  BY <1>8, <1>9 DEF Bill
<1>11. bill' = [bill EXCEPT ![p].pending = op] => bill' = [bill EXCEPT ![p] = new]
  BY <1>9 DEF Bill
<1> HIDE DEF new
<1>12. CASE ~may
  <2>1. ConfirmDone(p)
    BY <1>3, <1>12, WorkedIs DEF ConfirmDone
  <2> QED BY <1>1, <1>2, <2>1
<1>13. CASE may
  <2>1. /\ bill' \in [Periods -> Bill] /\ bill'[p] = new
        /\ \A q \in Periods : q # p => bill'[q] = bill[q]
    BY <1>3, <1>9, <1>10, <1>11, <1>13
  <2>2. /\ section'.by = section.by /\ section'.over = section.over
        /\ section'.phase = section.phase /\ section'.pc = "rows" /\ section'.p = p
        /\ section' \in Sections
    BY <1>3, <1>13, TypedAre DEF Sections, Payment
  <2>3. /\ UNCHANGED <<row, order, account, entry, ledger, offsets, req, breaks>>
        /\ bill[p].status = "locked" /\ Payable(p) # {}
    BY <1>3, <1>13
  <2>4. bill'[p].pending = op
    BY <1>10, <2>1
  <2>5. /\ bill'[p].pending \in Payments /\ bill'[p].pending.rows = Payable(p)
        /\ DOMAIN bill'[p].pending.line = Unpaid(p)
    BY <1>7, <1>8, <2>4
  <2>6. \A t \in Unpaid(p) :
             /\ bill'[p].pending.line[t].net = bill[p].line[t].net
             /\ bill'[p].pending.line[t].offset = bill[p].line[t].offset
             /\ bill'[p].pending.line[t].recover = Recovery(t, bill[p].line[t].offset)
    BY <1>5, <1>8, <2>4
  <2>7. ConfirmDone(p)
    BY <1>10, <2>1, <2>2, <2>3, <2>5, <2>6 DEF ConfirmDone
  <2> QED BY <1>1, <1>2, <2>7
<1> QED BY <1>12, <1>13

LEMMA TypedConfirm ==
  ASSUME Typed, ConfirmPayment
  PROVE  Typed'
<1>1. PICK p \in Periods : p = Asked[section.by].p /\ ConfirmDone(p)
  BY ConfirmDoes
<1>2. section.by \in Requests /\ section.pc = "work"
  BY ConfirmDoes
<1>3. section' \in Sections
  BY <1>1 DEF ConfirmDone, Worked
<1>4. bill' \in [Periods -> Bill]
  BY <1>1, TypeParts DEF Typed, ConfirmDone
<1>5. BillsTypeOK'
  BY <1>1, <1>3, <1>4, TypeParts, BillsAre DEF Typed, ConfirmDone, BillsTypeOK, Sections
<1>6. Placed'
  <2>1. CASE UNCHANGED bill /\ Worked(FALSE)
    BY <1>1, <1>2, <2>1
    DEF Typed, Placed, ConfirmDone, Worked, Clawbacks, Payment, Locking
  <2>2. CASE ~(UNCHANGED bill /\ Worked(FALSE))
    <3>1. \A q \in Periods : q # p => bill'[q] = bill[q]
      BY <1>1, <2>2 DEF ConfirmDone
    <3>2. bill'[p].line = bill[p].line /\ bill'[p].pending \in Payments
          /\ DOMAIN bill'[p].pending.line \subseteq DOMAIN bill[p].line
      BY <1>1, <2>2 DEF ConfirmDone, Unpaid
    <3>3. \A q \in Periods : bill'[q].pending # None =>
            DOMAIN bill'[q].pending.line \subseteq DOMAIN bill'[q].line
      BY <3>1, <3>2 DEF Typed, Placed
    <3>4. section'.by = section.by /\ section'.pc = "rows" /\ section'.p = p
      BY <1>1, <2>2 DEF ConfirmDone
    <3> QED BY <1>2, <3>2, <3>3, <3>4 DEF Placed, Clawbacks, Payment, Locking
  <2> QED BY <2>1, <2>2
<1> QED BY <1>5, <1>6 DEF Typed

LEMMA TypedRefresh ==
  ASSUME Typed, Refresh
  PROVE  Typed' /\ UNCHANGED <<books, req, breaks>> /\ Worked(FALSE)
         /\ section.by \in Requests /\ section.pc = "work"
<1>1. UNCHANGED <<books, req, breaks>> /\ section.by \in Requests /\ Worked(FALSE)
      /\ section.pc = "work"
  BY WorkedIs DEF Refresh, Working, Here
<1>2. /\ row' = row /\ bill' = bill /\ order' = order /\ account' = account
      /\ entry' = entry /\ ledger' = ledger /\ offsets' = offsets
  BY <1>1 DEF books
<1>3. BillsTypeOK'
  BY <1>1, TypedBooks, TypeParts DEF Typed, Worked
<1>4. Placed'
  BY <1>1, <1>2 DEF Typed, Placed, Worked, Clawbacks, Payment, Locking
<1> QED BY <1>1, <1>3, <1>4 DEF Typed

CancelDone(c) ==
  /\ row' \in [Rows -> Row]
  /\ row'[c].status = IF row[c].status = "paid_out" THEN "paid_out" ELSE "cancelled"
  /\ row'[c].billed = row[c].billed /\ row'[c].by = row[c].by
  /\ \A d \in Rows : d # c => row'[d] = row[d]
  /\ Worked(section.over)
  /\ UNCHANGED <<bill, order, account, entry, ledger, offsets, req, breaks>>

LEMMA CancelDoes ==
  ASSUME Typed, CancelRow
  PROVE  /\ section.by \in Requests /\ section.pc = "work"
         /\ Asked[section.by].op = "return" /\ req[section.by].pc = "idle"
         /\ \E c \in Rows : c = Asked[section.by].c /\ CancelDone(c)
<1>1. /\ section.by \in Requests /\ section.pc = "work" /\ Asked[section.by].op = "return"
      /\ Asked[section.by].c \in Rows /\ req[section.by].pc = "idle"
  BY WorkingIs DEF CancelRow
<1>2. PICK c \in Rows : c = Asked[section.by].c
  BY <1>1
<1>3. PICK s \in {"paid_out", "cancelled"} :
        s = IF row[c].status = "paid_out" THEN "paid_out" ELSE "cancelled"
  OBVIOUS
<1> DEFINE new == [row[c] EXCEPT !.status = s]
<1>4. row \in [Rows -> Row] /\ row[c] \in Row
  BY TypeParts DEF Typed
<1>5. row' = [row EXCEPT ![c] = new]
  BY <1>2, <1>3, <1>4 DEF CancelRow, Row
<1>6. new \in Row /\ new.status = s /\ new.billed = row[c].billed /\ new.by = row[c].by
  BY <1>4 DEF Row
<1> HIDE DEF new
<1>7. /\ row' \in [Rows -> Row] /\ row'[c] = new /\ \A d \in Rows : d # c => row'[d] = row[d]
  BY <1>4, <1>5, <1>6
<1>8. CancelDone(c)
  BY <1>3, <1>6, <1>7, WorkedIs DEF CancelRow, CancelDone
<1> QED BY <1>1, <1>2, <1>8

LEMMA TypedCancel ==
  ASSUME Typed, CancelRow
  PROVE  Typed'
<1>1. PICK c \in Rows : c = Asked[section.by].c /\ CancelDone(c)
  BY CancelDoes
<1>2. section.by \in Requests
  BY CancelDoes
<1>3. BillsTypeOK'
  BY <1>1, TypeParts, BillsAre DEF Typed, CancelDone, Worked, BillsTypeOK, Sections
<1>4. Placed'
  BY <1>1, <1>2 DEF Typed, Placed, CancelDone, Worked, Clawbacks, Payment, Locking
<1> QED BY <1>3, <1>4 DEF Typed

ClawbackDone(c) ==
  /\ \/ /\ ~(row[c].status = "paid_out" /\ entry[c].state # "applied")
        /\ UNCHANGED <<entry, ledger>> /\ Worked(section.over)
     \/ /\ row[c].status = "paid_out" /\ entry[c].state # "applied"
        /\ entry' \in [Rows -> Entries]
        /\ entry'[c].state = "new" /\ entry'[c].recovered = entry[c].recovered
        /\ \A d \in Rows : d # c => entry'[d] = entry[d]
        /\ ledger' = IF entry[c].state = "none" THEN Append(ledger, c) ELSE ledger
        /\ section'.by = section.by /\ section'.over = section.over
        /\ section'.phase = section.phase /\ section'.pc = "debt" /\ section'.c = c
        /\ section' \in Sections
  /\ UNCHANGED <<row, bill, order, account, offsets, req, breaks>>

LEMMA ClawbackDoes ==
  ASSUME Typed, Clawback
  PROVE  /\ section.by \in Requests /\ section.pc = "work"
         /\ Asked[section.by].op = "return" /\ req[section.by].pc = "voided"
         /\ \E c \in Rows : c = Asked[section.by].c /\ ClawbackDone(c)
<1>1. /\ section.by \in Requests /\ section.pc = "work" /\ Asked[section.by].op = "return"
      /\ Asked[section.by].c \in Rows /\ req[section.by].pc = "voided"
  BY WorkingIs DEF Clawback
<1>2. PICK c \in Rows : c = Asked[section.by].c
  BY <1>1
<1> DEFINE new == [entry[c] EXCEPT !.state = "new"]
           owed == row[c].status = "paid_out" /\ entry[c].state # "applied"
<1>3. entry \in [Rows -> Entries] /\ entry[c] \in Entries
  BY TypeParts DEF Typed
<1>4. /\ IF owed
           THEN /\ entry' = [entry EXCEPT ![c].state = "new"]
                /\ ledger' = IF entry[c].state = "none" THEN Append(ledger, c) ELSE ledger
                /\ section' = [section EXCEPT !.pc = "debt", !.c = c]
           ELSE section' = Finished /\ UNCHANGED <<entry, ledger>>
      /\ UNCHANGED <<row, bill, order, account, offsets, req, breaks>>
  BY <1>2 DEF Clawback
<1>5. CASE ~owed
  <2>1. ClawbackDone(c)
    BY <1>4, <1>5, WorkedIs DEF ClawbackDone
  <2> QED BY <1>1, <1>2, <2>1
<1>6. CASE owed
  <2>1. entry' = [entry EXCEPT ![c] = new]
    BY <1>3, <1>4, <1>6 DEF Entries
  <2>2. new \in Entries /\ new.state = "new" /\ new.recovered = entry[c].recovered
    BY <1>3 DEF Entries
  <2>3. /\ section'.by = section.by /\ section'.over = section.over
        /\ section'.phase = section.phase /\ section'.pc = "debt" /\ section'.c = c
        /\ section' \in Sections
    BY <1>4, <1>6, TypedAre DEF Sections, Clawbacks
  <2> HIDE DEF new
  <2>4. entry' \in [Rows -> Entries] /\ entry'[c] = new
        /\ \A d \in Rows : d # c => entry'[d] = entry[d]
    BY <1>3, <2>1, <2>2
  <2>5. ClawbackDone(c)
    BY <1>4, <1>6, <2>2, <2>3, <2>4 DEF ClawbackDone
  <2> QED BY <1>1, <1>2, <2>5
<1> QED BY <1>5, <1>6

LEMMA TypedClawback ==
  ASSUME Typed, Clawback
  PROVE  Typed'
<1>1. PICK c \in Rows : c = Asked[section.by].c /\ ClawbackDone(c)
  BY ClawbackDoes
<1>2. section.by \in Requests
  BY ClawbackDoes
<1>3. /\ ledger \in Seq(Rows) /\ IsInjective(ledger) /\ entry \in [Rows -> Entries]
      /\ Range(ledger) = {d \in Rows : entry[d].state # "none"}
  BY TypeParts DEF Typed
<1>4. /\ ledger' \in Seq(Rows) /\ IsInjective(ledger') /\ entry' \in [Rows -> Entries]
      /\ Range(ledger') = {d \in Rows : entry'[d].state # "none"}
  <2>1. CASE UNCHANGED <<entry, ledger>>
    BY <1>3, <2>1
  <2>2. CASE ~UNCHANGED <<entry, ledger>>
    <3>1. /\ entry' \in [Rows -> Entries] /\ entry'[c].state = "new"
          /\ \A d \in Rows : d # c => entry'[d] = entry[d]
          /\ ledger' = IF entry[c].state = "none" THEN Append(ledger, c) ELSE ledger
      BY <1>1, <2>2 DEF ClawbackDone
    <3>2. {d \in Rows : entry'[d].state # "none"} = {d \in Rows : entry[d].state # "none"} \cup {c}
      BY <3>1
    <3>3. CASE entry[c].state = "none"
      <4>1. c \notin Range(ledger) /\ ledger' = Append(ledger, c)
        BY <1>3, <3>1, <3>3
      <4>2. /\ Append(ledger, c) \in Seq(Rows) /\ IsInjective(Append(ledger, c))
            /\ Range(Append(ledger, c)) = Range(ledger) \cup {c}
        BY <1>3, <4>1, AppendOnce
      <4> QED BY <1>3, <3>1, <3>2, <4>1, <4>2
    <3>4. CASE entry[c].state # "none"
      BY <1>3, <3>1, <3>2, <3>4
    <3> QED BY <3>3, <3>4
  <2> QED BY <2>1, <2>2
<1>5. section' \in Sections
  BY <1>1 DEF ClawbackDone, Worked
<1>6. BillsTypeOK'
  BY <1>1, <1>4, <1>5, TypeParts, BillsAre
  DEF Typed, ClawbackDone, BillsTypeOK, Sections, Entries
<1>7. Placed'
  BY <1>1, <1>2 DEF Typed, Placed, ClawbackDone, Worked, Clawbacks, Payment, Locking
<1> QED BY <1>6, <1>7 DEF Typed

\* Where a section can be.
Staged ==
  /\ section.phase = "recover" => section.pc # "work"
  /\ section.phase = "again" => section.pc \notin {"work", "books"} /\ Asked[section.by].op = "lock"
  /\ section.phase = "work" => section.pc \in {"work"} \cup Clawbacks \cup Payment
  /\ section.phase = "last" => section.pc = "books"
  /\ section.phase = "work" /\ section.pc \in Payment => Asked[section.by].op = "pay"
  /\ section.phase = "work" /\ section.pc \in Clawbacks =>
       /\ Asked[section.by].op = "return" /\ section.c = Asked[section.by].c
       /\ req[section.by].pc = "voided"

\* What a section that stopped left to be finished, and where it still may be.
Unfinished ==
  /\ \A c \in Rows : entry[c].state = "new" =>
       /\ section.pc \in {"entries"} \cup Clawbacks
       /\ section.phase = "work" => c = section.c
  /\ \A p \in Periods : bill[p].pending # None =>
       /\ section.pc \in {"entries", "pending"} \cup Clawbacks \cup Payment
       /\ section.phase = "work" => section.pc \in Payment
  /\ \A p, q \in Periods : bill[p].pending # None /\ bill[q].pending # None => p = q
  /\ section.pc \in Payment => bill[section.p].pending # None
  /\ \A p \in Periods : bill[p].status = "locking" =>
       section.pc \notin {"books", "work"} /\ section.phase # "work"
  /\ section.pc \in Locking => bill[section.p].status = "locking"

\* A returned order's row, when it can no longer be paid, and when it is settled.
Gone(c) == row[c].status \in {"cancelled", "paid_out"}
Answered(c) == row[c].status = "cancelled" \/ (row[c].status = "paid_out" /\ entry[c].state = "applied")

Kept ==
  /\ \A c \in Rows : entry[c].state # "none" => row[c].status = "paid_out"
  /\ \A k \in Requests : Asked[k].op = "return" =>
       /\ req[k].pc = "voided" => Gone(Asked[k].c)
       /\ req[k].pc = "done" => Answered(Asked[k].c)
       /\ section.by = k /\ section.phase = "last" =>
            Gone(Asked[k].c) /\ (req[k].pc # "idle" => Answered(Asked[k].c))

Control == Typed /\ Covered /\ Staged /\ Unfinished /\ Kept

LEMMA ControlInit == BillsInit => Control
<1> SUFFICES ASSUME BillsInit PROVE Control
  OBVIOUS
<1>1. Range(order) = {}
  BY DEF BillsInit, Range
<1>2. Covered
  BY <1>1 DEF Covered, BillsInit, NoBill
<1>3. Staged
  BY DEF Staged, BillsInit, NoSection, Clawbacks, Payment
<1>4. Unfinished
  BY DEF Unfinished, BillsInit, NoSection, NoBill, NoEntry, Payment, Locking
<1>5. Kept
  BY DEF Kept, BillsInit, NoSection, NoEntry, NoRequest
<1> QED BY <1>2, <1>3, <1>4, <1>5, TypedInit DEF Control

\* A row that cannot be paid any more stays so, and settled when it was.
LEMMA StaysGone ==
  ASSUME \A c \in Rows :
           /\ row[c].status = "cancelled" => row'[c].status = "cancelled"
           /\ row[c].status = "paid_out" => row'[c].status = "paid_out"
           /\ entry[c].state = "applied" => entry'[c].state = "applied"
  PROVE  \A c \in Rows : (Gone(c) => Gone(c)') /\ (Answered(c) => Answered(c)')
  BY DEF Gone, Answered

LEMMA ControlRequests ==
  ASSUME Control, NEW k \in Requests, Ask(k) \/ Acquire(k) \/ Busy(k) \/ Break(k) \/ Unlock
  PROVE  Control'
<1>1. /\ row' = row /\ bill' = bill /\ order' = order /\ account' = account
      /\ entry' = entry /\ ledger' = ledger /\ offsets' = offsets
  BY DEF Ask, Acquire, Busy, Break, Unlock, books
<1>2. Typed'
  BY TypedRequests DEF Control
<1>3. \/ UNCHANGED section /\ section.by # k
      \/ section'.pc = "entries" /\ section'.phase = "recover"
  <2>1. CASE Acquire(k)
    <3>1. section' = [NoSection EXCEPT !.by = k] /\ k \in Requests \cup {None, Dead}
      BY <2>1 DEF Acquire
    <3> QED BY <3>1, NoSectionIs
  <2>2. CASE Break(k) \/ Unlock
    <3>1. \/ section' = NoSection
          \/ section' = [NoSection EXCEPT !.by = Dead] /\ Dead \in Requests \cup {None, Dead}
      BY <2>2 DEF Break, Unlock
    <3> QED BY <3>1, NoSectionIs
  <2> QED BY <2>1, <2>2 DEF Ask, Busy
<1>4. \A j \in Requests :
        /\ j # k => req'[j] = req[j]
        /\ req'[j] = req[j] \/ req'[j].pc \in {"idle", "asked"}
  <2>1. req \in [Requests -> Reqs]
    BY TypeParts DEF Control, Typed
  <2> QED BY <2>1 DEF Ask, Acquire, Busy, Break, Unlock, NoRequest
<1>5. Covered'
  BY <1>1 DEF Control, Covered
<1>6. Staged'
  BY <1>1, <1>3, <1>4, TypedAre
  DEF Control, Staged, Typed, Placed, Clawbacks, Payment, Locking, Sections
<1>7. Unfinished'
  BY <1>1, <1>3 DEF Control, Unfinished, Clawbacks, Payment, Locking
<1>8. Kept'
  BY <1>1, <1>3, <1>4 DEF Control, Kept, Gone, Answered
<1> QED BY <1>2, <1>5, <1>6, <1>7, <1>8 DEF Control

LEMMA ControlAddDebt ==
  ASSUME Control, AddDebt
  PROVE  Control'
<1>1. /\ UNCHANGED <<row, bill, order, entry, ledger, offsets, req, breaks>>
      /\ Goto("flag") /\ section.pc = "debt"
  BY DEF AddDebt, Here
<1>2. /\ section'.pc = "flag" /\ section'.by = section.by
      /\ section'.phase = section.phase /\ section'.c = section.c
  BY <1>1, TypedGoto DEF Control
<1>3. Covered'
  BY <1>1 DEF Control, Covered
<1>4. Staged'
  BY <1>1, <1>2 DEF Control, Staged, Clawbacks, Payment
<1>5. Unfinished'
  BY <1>1, <1>2 DEF Control, Unfinished, Clawbacks, Payment, Locking
<1>6. Kept'
  BY <1>1, <1>2 DEF Control, Kept, Gone, Answered
<1> QED BY <1>3, <1>4, <1>5, <1>6, TypedAddDebt DEF Control

LEMMA ControlFlagEntry ==
  ASSUME Control, FlagEntry
  PROVE  Control'
<1>1. /\ UNCHANGED <<row, bill, order, account, ledger, offsets, req, breaks>>
      /\ section.pc = "flag" /\ section.by \in Requests
      /\ section.c \in Rows /\ entry[section.c].state = "new"
  BY DEF FlagEntry, Here, Control, Typed, Placed, Clawbacks
<1>2. /\ section'.by = section.by
      /\ \/ section.phase = "work" /\ section'.phase = "last" /\ section'.pc = "books"
         \/ section.phase # "work" /\ section'.phase = section.phase /\ section'.pc = "entries"
  BY TypedAre DEF FlagEntry, Control, Sections
<1>3. /\ entry'[section.c].state = "applied"
      /\ \A c \in Rows : c # section.c => entry'[c] = entry[c]
  BY <1>1, TypedAre DEF FlagEntry, Control, Entries
<1>4. Covered'
  BY <1>1 DEF Control, Covered
<1>5. Staged'
  BY <1>1, <1>2 DEF Control, Staged, Clawbacks, Payment
<1>6. Unfinished'
  BY <1>1, <1>2, <1>3 DEF Control, Unfinished, Staged, Clawbacks, Payment, Locking
<1>7. Kept'
  <2>1. row[section.c].status = "paid_out"
    BY <1>1 DEF Control, Kept
  <2>2. section.phase = "work" => /\ Asked[section.by].op = "return"
                                  /\ section.c = Asked[section.by].c
    BY <1>1 DEF Control, Staged, Clawbacks
  <2> QED BY <1>1, <1>2, <1>3, <2>1, <2>2, ConstantsAre
          DEF Control, Kept, Staged, Gone, Answered, Clawbacks
<1> QED BY <1>4, <1>5, <1>6, <1>7, TypedFlagEntry DEF Control

LEMMA ControlPayRows ==
  ASSUME Control, PayRows
  PROVE  Control'
<1>1. PICK p \in Periods, op \in Payments : Finishes(p, op) /\ PayRowsDone(p, op)
  BY PayRowsDoes DEF Control
<1>2. section.by \in Requests /\ section.pc = "rows"
  BY PayRowsDoes DEF Control
<1>3. \/ /\ section'.by = section.by /\ section'.phase = section.phase /\ section'.p = section.p
         /\ section'.c = section.c /\ section'.pc \in {"close", "settle"} /\ UNCHANGED req
      \/ /\ section'.by = None /\ section'.phase = "recover" /\ section'.pc = "entries"
         /\ req' = [req EXCEPT ![section.by] = NoRequest]
  BY <1>1, NoSectionIs DEF PayRowsDone
<1>4. \A k \in Requests : req'[k] = req[k] \/ req'[k].pc = "idle"
  <2>1. req \in [Requests -> Reqs]
    BY TypeParts DEF Control, Typed
  <2> QED BY <1>3, <2>1 DEF NoRequest
<1>5. UNCHANGED <<bill, order, account, entry, ledger, offsets, breaks>>
  BY <1>1 DEF PayRowsDone
<1>6. \A c \in Rows : /\ row[c].status = "cancelled" => row'[c].status = "cancelled"
                      /\ row[c].status = "paid_out" => row'[c].status = "paid_out"
  BY <1>1 DEF PayRowsDone
<1>7. Covered'
  BY <1>5 DEF Control, Covered
<1>8. Staged'
  BY <1>2, <1>3 DEF Control, Staged, Clawbacks, Payment
<1>9. Unfinished'
  BY <1>2, <1>3, <1>5 DEF Control, Unfinished, Clawbacks, Payment, Locking
<1>10. Kept'
  <2>1. \A c \in Rows : (Gone(c) => Gone(c)') /\ (Answered(c) => Answered(c)')
    BY <1>5, <1>6 DEF Gone, Answered
  <2> QED BY <1>2, <1>3, <1>4, <1>5, <1>6, <2>1, ConstantsAre DEF Control, Kept, Staged
<1> QED BY <1>7, <1>8, <1>9, <1>10, TypedPayRows DEF Control

LEMMA ControlSettle ==
  ASSUME Control, NEW t \in Collabs, Settle(t)
  PROVE  Control'
<1>1. PICK p \in Periods, op \in Payments : Finishes(p, op) /\ SettleDone(p, op, t)
  BY SettleDoes DEF Control
<1>2. section.by \in Requests /\ section.pc = "settle"
  BY SettleDoes DEF Control
<1>3. \/ /\ section'.by = section.by /\ section'.phase = section.phase /\ section'.p = section.p
         /\ section'.c = section.c /\ section'.pc = "offset" /\ UNCHANGED req
      \/ /\ section'.by = None /\ section'.phase = "recover" /\ section'.pc = "entries"
         /\ req' = [req EXCEPT ![section.by] = NoRequest]
  BY <1>1, NoSectionIs DEF SettleDone
<1>4. \A k \in Requests : req'[k] = req[k] \/ req'[k].pc = "idle"
  <2>1. req \in [Requests -> Reqs]
    BY TypeParts DEF Control, Typed
  <2> QED BY <1>3, <2>1 DEF NoRequest
<1>5. UNCHANGED <<row, bill, order, entry, ledger, offsets, breaks>>
  BY <1>1 DEF SettleDone
<1>7. Covered'
  BY <1>5 DEF Control, Covered
<1>8. Staged'
  BY <1>2, <1>3 DEF Control, Staged, Clawbacks, Payment
<1>9. Unfinished'
  BY <1>2, <1>3, <1>5 DEF Control, Unfinished, Clawbacks, Payment, Locking
<1>10. Kept'
  BY <1>2, <1>3, <1>4, <1>5, ConstantsAre DEF Control, Kept, Staged, Gone, Answered
<1> QED BY <1>7, <1>8, <1>9, <1>10, TypedSettle DEF Control

LEMMA ControlOffsetEntry ==
  ASSUME Control, OffsetEntry
  PROVE  Control'
<1>1. PICK p \in Periods, op \in Payments, t \in Collabs :
        Finishes(p, op) /\ OffsetEntryDone(p, op, t)
  BY OffsetEntryDoes DEF Control
<1>2. section.by \in Requests /\ section.pc = "offset"
  BY OffsetEntryDoes DEF Control
<1>3. /\ section'.by = section.by /\ section'.phase = section.phase /\ section'.p = section.p
      /\ section'.c = section.c /\ section'.pc = "recovered"
      /\ UNCHANGED <<row, bill, order, account, entry, ledger, req, breaks>>
  BY <1>1 DEF OffsetEntryDone
<1>7. Covered'
  BY <1>3 DEF Control, Covered
<1>8. Staged'
  BY <1>2, <1>3 DEF Control, Staged, Clawbacks, Payment
<1>9. Unfinished'
  BY <1>2, <1>3 DEF Control, Unfinished, Clawbacks, Payment, Locking
<1>10. Kept'
  BY <1>2, <1>3 DEF Control, Kept, Gone, Answered
<1> QED BY <1>7, <1>8, <1>9, <1>10, TypedOffsetEntry DEF Control

LEMMA ControlRecovered ==
  ASSUME Control, Recovered
  PROVE  Control'
<1>1. PICK p \in Periods, op \in Payments, t \in Collabs :
        Finishes(p, op) /\ RecoveredDone(p, op, t)
  BY RecoveredDoes DEF Control
<1>2. section.by \in Requests /\ section.pc = "recovered"
  BY RecoveredDoes DEF Control
<1>3. /\ section'.by = section.by /\ section'.phase = section.phase /\ section'.p = section.p
      /\ section'.c = section.c /\ section'.pc \in {"recovered", "close", "settle"}
      /\ UNCHANGED <<row, bill, order, account, ledger, offsets, req, breaks>>
  BY <1>1, <1>2 DEF RecoveredDone
<1>4. \A c \in Rows : entry'[c].state = entry[c].state
  <2>1. entry \in [Rows -> Entries]
    BY TypeParts DEF Control, Typed
  <2> QED BY <1>1, <2>1 DEF RecoveredDone, Entries
<1>7. Covered'
  BY <1>3 DEF Control, Covered
<1>8. Staged'
  BY <1>2, <1>3 DEF Control, Staged, Clawbacks, Payment
<1>9. Unfinished'
  BY <1>2, <1>3, <1>4 DEF Control, Unfinished, Clawbacks, Payment, Locking
<1>10. Kept'
  <2>1. \A c \in Rows : (Gone(c) => Gone(c)') /\ (Answered(c) => Answered(c)')
    BY <1>3, <1>4 DEF Gone, Answered
  <2> QED BY <1>2, <1>3, <1>4, <2>1, ConstantsAre DEF Control, Kept
<1> QED BY <1>7, <1>8, <1>9, <1>10, TypedRecovered DEF Control

LEMMA ControlCloseBill ==
  ASSUME Control, CloseBill
  PROVE  Control'
<1>1. PICK p \in Periods, op \in Payments : Finishes(p, op) /\ CloseBillDone(p, op)
  BY CloseBillDoes DEF Control
<1>2. section.by \in Requests /\ section.pc = "close" /\ section.p = p
  BY <1>1, CloseBillDoes DEF Control, Finishes
<1>3. /\ UNCHANGED <<row, order, account, entry, ledger, offsets, req, breaks>>
      /\ section'.by = section.by
      /\ \/ section.phase = "work" /\ section'.phase = "last" /\ section'.pc = "books"
         \/ section.phase # "work" /\ section'.phase = section.phase /\ section'.pc = "pending"
  BY <1>1 DEF CloseBillDone
<1>4. /\ \A q \in Periods : q # p => bill'[q] = bill[q]
      /\ bill'[p].pending = None /\ bill'[p].status \in {"paid", bill[p].status}
      /\ bill[p].pending # None
  BY <1>1, <1>2 DEF CloseBillDone, Control, Unfinished, Payment
<1>5. \A q \in Periods : /\ bill'[q].pending # None => bill'[q].pending = bill[q].pending /\ q # p
                         /\ bill'[q].status = "none" <=> bill[q].status = "none"
                         /\ bill'[q].status = "locking" => bill[q].status = "locking"
  BY <1>4 DEF Control, Covered
<1>7. Covered'
  BY <1>3, <1>5 DEF Control, Covered
<1>8. Staged'
  BY <1>2, <1>3 DEF Control, Staged, Clawbacks, Payment
<1>9. Unfinished'
  BY <1>2, <1>3, <1>4, <1>5 DEF Control, Unfinished, Staged, Clawbacks, Payment, Locking
<1>10. Kept'
  <2>1. section.phase = "work" => Asked[section.by].op = "pay"
    BY <1>2 DEF Control, Staged, Payment
  <2>2. section.phase # "last"
    BY <1>2 DEF Control, Staged
  <2> QED BY <1>2, <1>3, <2>1, <2>2 DEF Control, Kept, Gone, Answered
<1> QED BY <1>7, <1>8, <1>9, <1>10, TypedCloseBill DEF Control

LEMMA ControlRecover ==
  ASSUME Control, Recover
  PROVE  Control'
<1>1. /\ row' = row /\ bill' = bill /\ order' = order /\ account' = account
      /\ entry' = entry /\ ledger' = ledger /\ offsets' = offsets
      /\ req' = req /\ breaks' = breaks /\ section.by \in Requests
  BY DEF Recover, Here, books
<1>2. section \in Sections /\ section.phase \in {"recover", "again"}
  <2>1. section.phase \in {"recover", "work", "again", "last"}
    BY TypedAre DEF Control, Sections
  <2>2. section.pc \in {"entries", "pending", "locking"}
    BY DEF Recover, Here
  <2> QED BY <2>1, <2>2, TypedAre DEF Control, Staged, Clawbacks, Payment
<1>3. /\ section'.by = section.by
      /\ section'.phase = section.phase \/ (section'.phase = "last" /\ section.phase = "again")
      /\ \/ /\ section'.pc = "debt" /\ section'.phase = section.phase
         \/ /\ section'.pc = "pending" /\ section'.phase = section.phase
            /\ \A c \in Rows : entry[c].state # "new"
         \/ /\ section'.pc = "rows" /\ section'.phase = section.phase
            /\ section'.p \in Periods /\ bill[section'.p].pending # None
            /\ section.pc = "pending"
         \/ /\ section'.pc = "locking" /\ section'.phase = section.phase
            /\ section.pc = "pending"
            /\ \A p \in Periods : bill[p].pending = None
         \/ /\ section'.pc = "bill" /\ section'.phase = section.phase
            /\ section'.p \in Periods /\ bill[section'.p].status = "locking"
            /\ section.pc = "locking"
         \/ /\ section'.pc = "books" /\ section.pc = "locking" /\ section'.phase # "again"
            /\ \A p \in Periods : bill[p].status # "locking"
  <2>1. CASE Here("entries") /\ (\E c \in Unapplied : section' = [section EXCEPT !.pc = "debt", !.c = c])
    BY <1>2, <2>1 DEF Sections
  <2>2. CASE Here("entries") /\ Unapplied = {} /\ Goto("pending")
    BY <1>2, <2>2 DEF Sections, Goto, Unapplied
  <2>3. CASE Here("pending") /\ (\E p \in PendingBills : section' = [section EXCEPT !.pc = "rows", !.p = p])
    BY <1>2, <2>3 DEF Sections, PendingBills, Here
  <2>4. CASE Here("pending") /\ PendingBills = {} /\ Goto("locking")
    BY <1>2, <2>4 DEF Sections, Goto, PendingBills, Here
  <2>5. CASE Here("locking") /\ (\E p \in LockingBills : section' = [section EXCEPT !.pc = "bill", !.p = p])
    BY <1>2, <2>5 DEF Sections, LockingBills, Here
  <2>6. CASE /\ Here("locking") /\ LockingBills = {}
             /\ section' = [section EXCEPT !.pc = "books",
                    !.phase = IF @ = "again" THEN "last" ELSE @]
    BY <1>2, <2>6 DEF Sections, LockingBills, Here
  <2> QED BY <2>1, <2>2, <2>3, <2>4, <2>5, <2>6 DEF Recover
<1>7. Covered'
  BY <1>1 DEF Control, Covered
<1>8. Staged'
  BY <1>1, <1>2, <1>3 DEF Control, Staged, Clawbacks, Payment
<1>9. Unfinished'
  BY <1>1, <1>2, <1>3 DEF Control, Unfinished, Staged, Clawbacks, Payment, Locking
<1>10. Kept'
  <2>1. section.phase = "again" => Asked[section.by].op = "lock"
    BY DEF Control, Staged
  <2> QED BY <1>1, <1>2, <1>3, <2>1 DEF Control, Kept, Gone, Answered
<1> QED BY <1>7, <1>8, <1>9, <1>10, TypedRecover DEF Control

LEMMA ControlBillRows ==
  ASSUME Control, BillRows
  PROVE  Control'
<1>1. /\ section.by \in Requests /\ section.pc = "bill"
      /\ section.p \in Periods /\ BillRowsDone(section.p)
  BY BillRowsDoes DEF Control
<1>2. /\ section'.by = section.by /\ section'.phase = section.phase
      /\ section'.p = section.p /\ section'.pc = "lock"
      /\ UNCHANGED <<bill, order, account, entry, ledger, offsets, req, breaks>>
  BY <1>1 DEF BillRowsDone
<1>3. \A c \in Rows : /\ row[c].status = "cancelled" => row'[c].status = "cancelled"
                      /\ row[c].status = "paid_out" => row'[c].status = "paid_out"
  BY <1>1 DEF BillRowsDone
<1>7. Covered'
  BY <1>2 DEF Control, Covered
<1>8. Staged'
  BY <1>1, <1>2 DEF Control, Staged, Clawbacks, Payment
<1>9. Unfinished'
  BY <1>1, <1>2 DEF Control, Unfinished, Clawbacks, Payment, Locking
<1>10. Kept'
  <2>1. \A c \in Rows : (Gone(c) => Gone(c)') /\ (Answered(c) => Answered(c)')
    BY <1>2, <1>3 DEF Gone, Answered
  <2> QED BY <1>1, <1>2, <1>3, <2>1, ConstantsAre DEF Control, Kept
<1> QED BY <1>7, <1>8, <1>9, <1>10, TypedBillRows DEF Control

LEMMA ControlLockBill ==
  ASSUME Control, LockBill
  PROVE  Control'
<1>1. /\ section.by \in Requests /\ section.pc = "lock"
      /\ section.p \in Periods /\ LockBillDone(section.p)
  BY LockBillDoes DEF Control
<1>2. /\ section'.by = section.by /\ section'.phase = section.phase
      /\ section'.pc = "locking"
      /\ UNCHANGED <<row, order, account, entry, ledger, offsets, req, breaks>>
  BY <1>1 DEF LockBillDone
<1>3. \A q \in Periods : /\ bill'[q].pending = bill[q].pending
                         /\ bill'[q].status = "none" <=> bill[q].status = "none"
                         /\ bill'[q].status = "locking" => bill[q].status = "locking"
  BY <1>1 DEF LockBillDone, Control, Unfinished, Locking
<1>7. Covered'
  BY <1>2, <1>3 DEF Control, Covered
<1>8. Staged'
  BY <1>1, <1>2 DEF Control, Staged, Clawbacks, Payment
<1>9. Unfinished'
  BY <1>1, <1>2, <1>3 DEF Control, Unfinished, Staged, Clawbacks, Payment, Locking
<1>10. Kept'
  BY <1>1, <1>2 DEF Control, Kept, Staged, Gone, Answered
<1> QED BY <1>7, <1>8, <1>9, <1>10, TypedLockBill DEF Control

LEMMA ControlReconcile ==
  ASSUME Control, Reconcile
  PROVE  Control'
<1>1. PICK p \in Periods : ReconcileDone(p)
  BY ReconcileDoes DEF Control
<1>2. /\ section.pc = "books" /\ section.by \in Requests
      /\ UNCHANGED <<row, order, account, entry, ledger, offsets, section, req, breaks>>
  BY <1>1, ReconcileDoes DEF ReconcileDone, Control
<1>3. \A q \in Periods : /\ bill'[q].pending = bill[q].pending
                         /\ bill'[q].status = "none" <=> bill[q].status = "none"
                         /\ bill'[q].status = "locking" => bill[q].status = "locking"
  BY <1>1 DEF ReconcileDone, BillReconciled, Control, Covered
<1>7. Covered'
  BY <1>2, <1>3 DEF Control, Covered
<1>8. Staged'
  BY <1>2 DEF Control, Staged
<1>9. Unfinished'
  BY <1>2, <1>3 DEF Control, Unfinished, Clawbacks, Payment, Locking
<1>10. Kept'
  BY <1>2 DEF Control, Kept, Gone, Answered
<1> QED BY <1>7, <1>8, <1>9, <1>10, TypedReconcile DEF Control

LEMMA ControlReconciles ==
  ASSUME Control, Reconciles
  PROVE  Control'
<1>1. /\ row' = row /\ bill' = bill /\ order' = order /\ account' = account
      /\ entry' = entry /\ ledger' = ledger /\ offsets' = offsets
      /\ section.by \in Requests /\ section.pc = "books"
  BY DEF Reconciles, Here, books
<1>2. \/ /\ section.phase = "recover" /\ section'.phase = "work" /\ section'.pc = "work"
         /\ section'.by = section.by /\ UNCHANGED req
      \/ /\ section.phase = "last" /\ section' = NoSection
         /\ req' = [req EXCEPT ![section.by] = [NoRequest EXCEPT !.pc =
             IF ~section.over THEN "idle"
             ELSE IF Asked[section.by].op = "return" /\ req[section.by].pc = "idle"
               THEN "voided" ELSE "done"]]
  BY TypedAre DEF Reconciles, Control, Sections
<1>3. /\ \A k \in Requests : k # section.by => req'[k] = req[k]
      /\ \/ UNCHANGED req /\ section.phase = "recover"
         \/ /\ section.phase = "last"
            /\ \/ req'[section.by].pc = "idle"
               \/ req'[section.by].pc = "voided"
               \/ /\ req'[section.by].pc = "done"
                  /\ Asked[section.by].op = "return" => req[section.by].pc # "idle"
  <2>1. req \in [Requests -> Reqs]
    BY TypeParts DEF Control, Typed
  <2>2. CASE UNCHANGED req /\ section.phase = "recover"
    BY <2>2
  <2>3. CASE ~(UNCHANGED req /\ section.phase = "recover")
    <3>1. PICK x \in {"idle", "voided", "done"} : x = IF ~section.over THEN "idle"
             ELSE IF Asked[section.by].op = "return" /\ req[section.by].pc = "idle"
               THEN "voided" ELSE "done"
      OBVIOUS
    <3>2. req' = [req EXCEPT ![section.by] = [NoRequest EXCEPT !.pc = x]]
      BY <1>2, <2>3, <3>1
    <3>3. [NoRequest EXCEPT !.pc = x].pc = x
      BY DEF NoRequest
    <3>4. x = "done" => (Asked[section.by].op = "return" => req[section.by].pc # "idle")
      BY <3>1
    <3>5. req'[section.by].pc = x /\ \A k \in Requests : k # section.by => req'[k] = req[k]
      BY <1>1, <2>1, <3>2, <3>3
    <3> QED BY <1>2, <2>3, <3>4, <3>5
  <2> QED BY <2>2, <2>3
<1>4. \/ section'.phase = "work" /\ section'.pc = "work" /\ section'.by = section.by
      \/ section'.phase = "recover" /\ section'.pc = "entries" /\ section'.by = None
  BY <1>2, NoSectionIs
<1>7. Covered'
  BY <1>1 DEF Control, Covered
<1>8. Staged'
  BY <1>4 DEF Control, Staged, Clawbacks, Payment
<1>9. Unfinished'
  BY <1>1, <1>4 DEF Control, Unfinished, Clawbacks, Payment, Locking
<1>10. Kept'
  BY <1>1, <1>3, <1>4 DEF Control, Kept, Gone, Answered
<1> QED BY <1>7, <1>8, <1>9, <1>10, TypedReconciles DEF Control

LEMMA ControlRefresh ==
  ASSUME Control, Refresh
  PROVE  Control'
<1>1. /\ row' = row /\ bill' = bill /\ order' = order /\ account' = account
      /\ entry' = entry /\ ledger' = ledger /\ offsets' = offsets /\ req' = req
      /\ section'.by = section.by /\ section'.phase = "last" /\ section'.pc = "books"
      /\ section.pc = "work"
  BY TypedRefresh DEF Control, Worked, books
<1>2. Asked[section.by].op = "refresh"
  BY DEF Refresh, Working
<1>7. Covered'
  BY <1>1 DEF Control, Covered
<1>8. Staged'
  BY <1>1 DEF Control, Staged, Clawbacks, Payment
<1>9. Unfinished'
  BY <1>1 DEF Control, Unfinished, Clawbacks, Payment, Locking, Staged
<1>10. Kept'
  BY <1>1, <1>2 DEF Control, Kept, Gone, Answered
<1> QED BY <1>7, <1>8, <1>9, <1>10, TypedRefresh DEF Control

\* A section at work, before it does anything: nothing is left unfinished.
LEMMA AtWork ==
  ASSUME Control, section.pc = "work"
  PROVE  /\ section.phase = "work"
         /\ \A c \in Rows : entry[c].state # "new"
         /\ \A p \in Periods : bill[p].pending = None /\ bill[p].status # "locking"
<1>1. section.phase \in {"recover", "work", "again", "last"}
  BY TypedAre DEF Control, Sections
<1>2. section.phase = "work"
  BY <1>1 DEF Control, Staged
<1> QED BY <1>2 DEF Control, Unfinished, Clawbacks, Payment

LEMMA ControlCreateBill ==
  ASSUME Control, CreateBill
  PROVE  Control'
<1>1. PICK p \in Periods : p = Asked[section.by].p /\ CreateBillDone(p)
  BY CreateBillDoes DEF Control
<1>2. section.by \in Requests /\ section.pc = "work" /\ Asked[section.by].op = "lock"
  BY CreateBillDoes DEF Control
<1>3. UNCHANGED <<row, account, entry, ledger, offsets, req, breaks>>
  BY <1>1 DEF CreateBillDone
<1>4. Typed'
  BY TypedCreateBill DEF Control
<1>5. CASE UNCHANGED <<bill, order>> /\ Worked(FALSE)
  <2>1. section'.by = section.by /\ section'.phase = "last" /\ section'.pc = "books"
    BY <1>5 DEF Worked
  <2>2. Covered'
    BY <1>5 DEF Control, Covered
  <2>3. Staged'
    BY <2>1 DEF Control, Staged, Clawbacks, Payment
  <2>4. Unfinished'
    BY <1>2, <1>3, <1>5, <2>1, AtWork
    DEF Control, Unfinished, Clawbacks, Payment, Locking
  <2>5. Kept'
    BY <1>2, <1>3, <2>1 DEF Control, Kept, Gone, Answered
  <2> QED BY <1>4, <2>2, <2>3, <2>4, <2>5 DEF Control
<1>6. CASE ~(UNCHANGED <<bill, order>> /\ Worked(FALSE))
  <2>1. /\ bill[p].status = "none" /\ order' = Append(order, p)
        /\ \A q \in Periods : q # p => bill'[q] = bill[q]
        /\ bill'[p].status = "locking" /\ bill'[p].pending = None
        /\ section'.by = section.by
        /\ section'.phase = "again" /\ section'.pc = "entries"
    BY <1>1, <1>6 DEF CreateBillDone
  <2>2. Covered'
    <3>1. order \in Seq(Periods) /\ IsInjective(order)
      BY TypeParts DEF Control, Typed
    <3>2. p \notin Range(order)
      BY <2>1 DEF Control, Covered
    <3>3. Range(order') = Range(order) \cup {p}
      BY <2>1, <3>1, <3>2, AppendOnce
    <3> QED BY <2>1, <3>3 DEF Control, Covered
  <2>3. Staged'
    BY <1>2, <2>1 DEF Control, Staged, Clawbacks, Payment
  <2>4. Unfinished'
    BY <1>2, <1>3, <2>1, AtWork DEF Control, Unfinished, Clawbacks, Payment, Locking
  <2>5. Kept'
    BY <1>2, <1>3, <2>1 DEF Control, Kept, Gone, Answered
  <2> QED BY <1>4, <2>2, <2>3, <2>4, <2>5 DEF Control
<1> QED BY <1>5, <1>6

LEMMA ControlConfirm ==
  ASSUME Control, ConfirmPayment
  PROVE  Control'
<1>1. PICK p \in Periods : p = Asked[section.by].p /\ ConfirmDone(p)
  BY ConfirmDoes DEF Control
<1>2. section.by \in Requests /\ section.pc = "work" /\ Asked[section.by].op = "pay"
  BY ConfirmDoes DEF Control
<1>3. UNCHANGED <<row, order, account, entry, ledger, offsets, req, breaks>>
  BY <1>1 DEF ConfirmDone
<1>4. Typed'
  BY TypedConfirm DEF Control
<1>5. CASE UNCHANGED bill /\ Worked(FALSE)
  <2>1. section'.by = section.by /\ section'.phase = "last" /\ section'.pc = "books"
    BY <1>5 DEF Worked
  <2>2. Covered'
    BY <1>3, <1>5 DEF Control, Covered
  <2>3. Staged'
    BY <2>1 DEF Control, Staged, Clawbacks, Payment
  <2>4. Unfinished'
    BY <1>2, <1>3, <1>5, <2>1, AtWork
    DEF Control, Unfinished, Clawbacks, Payment, Locking
  <2>5. Kept'
    BY <1>2, <1>3, <2>1 DEF Control, Kept, Gone, Answered
  <2> QED BY <1>4, <2>2, <2>3, <2>4, <2>5 DEF Control
<1>6. CASE ~(UNCHANGED bill /\ Worked(FALSE))
  <2>1. /\ bill[p].status = "locked" /\ bill'[p].status = bill[p].status
        /\ \A q \in Periods : q # p => bill'[q] = bill[q]
        /\ bill'[p].pending \in Payments
        /\ section'.by = section.by /\ section'.p = p
        /\ section'.phase = section.phase /\ section'.pc = "rows"
    BY <1>1, <1>6 DEF ConfirmDone
  <2>2. Covered'
    BY <1>3, <2>1 DEF Control, Covered
  <2>3. Staged'
    BY <1>2, <2>1, AtWork DEF Control, Staged, Clawbacks, Payment
  <2>4. Unfinished'
    BY <1>2, <1>3, <2>1, AtWork, ConstantsAre
    DEF Control, Unfinished, Clawbacks, Payment, Locking
  <2>5. Kept'
    BY <1>2, <1>3, <2>1 DEF Control, Kept, Gone, Answered
  <2> QED BY <1>4, <2>2, <2>3, <2>4, <2>5 DEF Control
<1> QED BY <1>5, <1>6

LEMMA ControlCancel ==
  ASSUME Control, CancelRow
  PROVE  Control'
<1>1. PICK c \in Rows : c = Asked[section.by].c /\ CancelDone(c)
  BY CancelDoes DEF Control
<1>2. section.by \in Requests /\ section.pc = "work" /\ Asked[section.by].op = "return"
      /\ req[section.by].pc = "idle"
  BY CancelDoes DEF Control
<1>3. /\ UNCHANGED <<bill, order, account, entry, ledger, offsets, req, breaks>>
      /\ section'.by = section.by /\ section'.phase = "last" /\ section'.pc = "books"
  BY <1>1 DEF CancelDone, Worked
<1>4. \A d \in Rows : /\ row[d].status = "cancelled" => row'[d].status = "cancelled"
                      /\ row[d].status = "paid_out" => row'[d].status = "paid_out"
  BY <1>1 DEF CancelDone
<1>5. Gone(c)'
  BY <1>1 DEF CancelDone, Gone
<1>7. Covered'
  BY <1>3 DEF Control, Covered
<1>8. Staged'
  BY <1>3 DEF Control, Staged, Clawbacks, Payment
<1>9. Unfinished'
  BY <1>2, <1>3, AtWork DEF Control, Unfinished, Clawbacks, Payment, Locking
<1>10. Kept'
  <2>1. \A d \in Rows : (Gone(d) => Gone(d)') /\ (Answered(d) => Answered(d)')
    BY <1>3, <1>4 DEF Gone, Answered
  <2>2. \A d \in Rows : entry'[d].state # "none" => row'[d].status = "paid_out"
    BY <1>3, <1>4 DEF Control, Kept
  <2>3. \A k \in Requests : Asked[k].op = "return" =>
       /\ req'[k].pc = "voided" => Gone(Asked[k].c)'
       /\ req'[k].pc = "done" => Answered(Asked[k].c)'
    BY <1>3, <2>1, ConstantsAre DEF Control, Kept, Gone, Answered
  <2>4. Gone(Asked[section.by].c)' /\ req'[section.by].pc = "idle"
    BY <1>1, <1>2, <1>3, <1>5 DEF Gone
  <2> QED BY <1>3, <2>2, <2>3, <2>4 DEF Kept
<1> QED BY <1>7, <1>8, <1>9, <1>10, TypedCancel DEF Control

LEMMA ControlClawback ==
  ASSUME Control, Clawback
  PROVE  Control'
<1>1. PICK c \in Rows : c = Asked[section.by].c /\ ClawbackDone(c)
  BY ClawbackDoes DEF Control
<1>2. section.by \in Requests /\ section.pc = "work" /\ Asked[section.by].op = "return"
      /\ req[section.by].pc = "voided"
  BY ClawbackDoes DEF Control
<1>3. UNCHANGED <<row, bill, order, account, offsets, req, breaks>>
  BY <1>1 DEF ClawbackDone
<1>4. Typed'
  BY TypedClawback DEF Control
<1>5. Covered'
  BY <1>3 DEF Control, Covered
<1>6. CASE UNCHANGED <<entry, ledger>> /\ Worked(section.over)
           /\ ~(row[c].status = "paid_out" /\ entry[c].state # "applied")
  <2>1. section'.by = section.by /\ section'.phase = "last" /\ section'.pc = "books"
    BY <1>6 DEF Worked
  <2>3. Staged'
    BY <2>1 DEF Control, Staged, Clawbacks, Payment
  <2>4. Unfinished'
    BY <1>2, <1>3, <1>6, <2>1, AtWork
    DEF Control, Unfinished, Clawbacks, Payment, Locking
  <2>5. Kept'
    <3>1. Gone(c) /\ Answered(c)
      BY <1>1, <1>2, <1>6 DEF Control, Kept, Gone, Answered
    <3> QED BY <1>1, <1>2, <1>3, <1>6, <2>1, <3>1 DEF Control, Kept, Gone, Answered
  <2> QED BY <1>4, <1>5, <2>3, <2>4, <2>5 DEF Control
<1>7. CASE /\ row[c].status = "paid_out" /\ entry[c].state # "applied"
           /\ entry'[c].state = "new"
           /\ \A d \in Rows : d # c => entry'[d] = entry[d]
           /\ section'.by = section.by
           /\ section'.phase = section.phase /\ section'.pc = "debt" /\ section'.c = c
  <2>3. Staged'
    BY <1>1, <1>2, <1>3, <1>7, AtWork DEF Control, Staged, Clawbacks, Payment
  <2>4. Unfinished'
    BY <1>2, <1>3, <1>7, AtWork DEF Control, Unfinished, Clawbacks, Payment, Locking
  <2>5. Kept'
    <3>1. \A d \in Rows : (Gone(d) => Gone(d)') /\ (Answered(d) => Answered(d)')
      BY <1>3, <1>7 DEF Gone, Answered
    <3>2. \A d \in Rows : entry'[d].state # "none" => row'[d].status = "paid_out"
      BY <1>3, <1>7 DEF Control, Kept
    <3>3. section.phase = "work"
      BY <1>2, AtWork
    <3> QED BY <1>2, <1>3, <1>7, <3>1, <3>2, <3>3, ConstantsAre DEF Control, Kept
  <2> QED BY <1>4, <1>5, <2>3, <2>4, <2>5 DEF Control
<1> QED BY <1>1, <1>6, <1>7 DEF ClawbackDone

LEMMA ControlStep ==
  ASSUME Control, [BillsNext]_billVars
  PROVE  Control'
<1>1. CASE UNCHANGED billVars
  <2>1. /\ row' = row /\ bill' = bill /\ order' = order /\ account' = account
        /\ entry' = entry /\ ledger' = ledger /\ offsets' = offsets
        /\ section' = section /\ req' = req /\ breaks' = breaks
    BY <1>1 DEF billVars
  <2>2. Typed'
    BY <2>1, TypeParts, BillsAre DEF Control, Typed, Placed, BillsTypeOK, Sections
  <2>3. Covered' /\ Staged' /\ Unfinished' /\ Kept'
    BY <2>1 DEF Control, Covered, Staged, Unfinished, Kept, Gone, Answered
  <2> QED BY <2>2, <2>3 DEF Control
<1>2. CASE \E k \in Requests : Ask(k) \/ Acquire(k) \/ Busy(k) \/ Break(k)
  BY <1>2, ControlRequests
<1>3. CASE Unlock
  <2>1. CASE \E k \in Requests : TRUE
    BY <1>3, <2>1, ControlRequests
  <2>2. CASE Requests = {}
    <3>1. section' = NoSection /\ UNCHANGED <<books, req, breaks>>
      BY <1>3 DEF Unlock
    <3>2. /\ row' = row /\ bill' = bill /\ order' = order /\ account' = account
          /\ entry' = entry /\ ledger' = ledger /\ offsets' = offsets
          /\ req' = req /\ breaks' = breaks
          /\ section'.pc = "entries" /\ section'.phase = "recover" /\ section' \in Sections
      BY <3>1, NoSectionIs DEF books
    <3>3. BillsTypeOK'
      BY <3>1, <3>2, TypedBooks, TypeParts DEF Control, Typed
    <3>4. Placed'
      BY <3>2 DEF Control, Typed, Placed, Clawbacks, Payment, Locking
    <3>5. Covered' /\ Staged' /\ Unfinished'
      BY <3>2 DEF Control, Covered, Staged, Unfinished, Clawbacks, Payment, Locking
    <3>6. Kept'
      BY <2>2, <3>2 DEF Control, Kept
    <3> QED BY <3>3, <3>4, <3>5, <3>6 DEF Control, Typed
  <2> QED BY <2>1, <2>2
<1>4. CASE AddDebt \/ FlagEntry
  BY <1>4, ControlAddDebt, ControlFlagEntry
<1>5. CASE PayRows \/ (\E t \in Collabs : Settle(t)) \/ OffsetEntry \/ Recovered \/ CloseBill
  BY <1>5, ControlPayRows, ControlSettle, ControlOffsetEntry, ControlRecovered,
     ControlCloseBill
<1>6. CASE Recover \/ BillRows \/ LockBill \/ Reconcile \/ Reconciles
  BY <1>6, ControlRecover, ControlBillRows, ControlLockBill, ControlReconcile,
     ControlReconciles
<1>7. CASE Refresh \/ CreateBill \/ ConfirmPayment \/ CancelRow \/ Clawback
  BY <1>7, ControlRefresh, ControlCreateBill, ControlConfirm, ControlCancel,
     ControlClawback
<1> QED BY <1>1, <1>2, <1>3, <1>4, <1>5, <1>6, <1>7 DEF BillsNext

LEMMA ControlAlways == BillsSpec => []Control
<1>1. BillsInit => Control
  BY ControlInit
<1>2. Control /\ [BillsNext]_billVars => Control'
  BY ControlStep
<1> QED BY <1>1, <1>2, PTL DEF BillsSpec

\* Every variable of the commissions keeps to its type: bills, payments and
\* ledgers included.
THEOREM BillsTypeCorrect == BillsSpec => []BillsTypeOK
<1>1. Control => BillsTypeOK
  BY DEF Control, Typed
<1> QED BY <1>1, ControlAlways, PTL

\* A return that was answered left its commission cancelled, or paid and
\* clawed back, whatever sections stopped half way
\* (tests/commission-bill-adjustments.test.ts:215).
THEOREM ReturnsSettled == BillsSpec => []ReturnSettled
<1>1. Control => ReturnSettled
  BY DEF Control, Kept, Answered, ReturnSettled
<1> QED BY <1>1, ControlAlways, PTL

\* The last of some elements of a sequence comes after the others.
LEMMA LastOfSome ==
  ASSUME NEW S, NEW seq \in Seq(S), NEW T \in SUBSET Range(seq), T # {}
  PROVE  \E x \in T : \A y \in T : y # x => Before(seq, y, x)
<1> DEFINE n == Len(seq)
           I == {i \in 1..n : seq[i] \in T}
<1>1. n \in Nat /\ DOMAIN seq = 1..n
  OBVIOUS
<1>2. \A y \in T : \E i \in I : seq[i] = y
  BY <1>1 DEF Range
<1>3. I \in SUBSET (1..n) /\ I # {}
  BY <1>2
<1> HIDE DEF I, n
<1>4. PICK m \in I : \A j \in I : j <= m
  BY <1>1, <1>3, LastIndex
<1>5. seq[m] \in T
  BY <1>4 DEF I
<1>6. ASSUME NEW y \in T, y # seq[m]
      PROVE  Before(seq, y, seq[m])
  <2>1. PICK i \in I : seq[i] = y
    BY <1>2
  <2>2. i <= m /\ i # m /\ i \in 1..n /\ m \in 1..n
    BY <1>3, <1>4, <1>6, <2>1
  <2> QED BY <1>1, <2>1, <2>2 DEF Before
<1> QED BY <1>5, <1>6

\* Less of what is counted, less than the whole.
LEMMA SumWithin ==
  ASSUME NEW fun, NEW S, IsFiniteSet(S), NEW T \in SUBSET S, \A x \in S : fun[x] \in Nat
  PROVE  SumFunctionOnSet(fun, T) <= SumFunctionOnSet(fun, S)
<1> DEFINE R == S \ T
<1>1. IsFiniteSet(T) /\ IsFiniteSet(R) /\ T \cap R = {} /\ T \cup R = S
  BY FS_Subset
<1>2. (\A x \in T : fun[x] \in Nat) /\ (\A x \in R : fun[x] \in Nat)
  OBVIOUS
<1> HIDE DEF R
<1>3. \A x \in T \cup R : fun[x] \in Int
  BY <1>2
<1>4. SumFunctionOnSet(fun, T \cup R) = SumFunctionOnSet(fun, T) + SumFunctionOnSet(fun, R)
  BY <1>1, <1>3, SumOfBoth
<1>5. SumFunctionOnSet(fun, T) \in Nat
  BY <1>1, <1>2, SumNat
<1>6. SumFunctionOnSet(fun, R) \in Nat
  BY <1>1, <1>2, SumNat
<1>7. SumFunctionOnSet(fun, S) = SumFunctionOnSet(fun, T \cup R)
  BY <1>1
<1>8. PICK a \in Nat, b \in Nat : a = SumFunctionOnSet(fun, T) /\ b = SumFunctionOnSet(fun, R)
  BY <1>5, <1>6
<1>9. SumFunctionOnSet(fun, S) = a + b
  BY <1>4, <1>7, <1>8
<1> QED BY <1>8, <1>9

\* What a bill that waits to be paid says of a collaborator's debt.
LEMMA WaitingSays ==
  ASSUME Control, ToReconcile = {}, NEW t \in Collabs, NEW p \in Waiting(t)
  PROVE  /\ p \in Periods /\ p \in Range(order) /\ Open(p)
         /\ t \in DOMAIN bill[p].line /\ ~bill[p].line[t].paid
         /\ bill[p].line[t].offset = Offset(p, t)
<1>1. /\ p \in Periods /\ bill[p].status = "locked" /\ t \in DOMAIN bill[p].line
      /\ ~bill[p].line[t].paid
  BY DEF Waiting
<1>2. p \in Range(order) /\ Open(p)
  BY <1>1 DEF Control, Covered, Open
<1>3. ReconciledBill(p) = bill[p]
  BY <1>2 DEF ToReconcile, Range
<1> QED BY <1>1, <1>2, <1>3, ReconciledSays DEF Control

LEMMA ReservedOnce ==
  ASSUME Control, ToReconcile = {}, NEW t \in Collabs
  PROVE  SumFunction([p \in Waiting(t) |-> bill[p].line[t].offset]) <= account[t].debt
<1> DEFINE W == Waiting(t)
           off == [p \in W |-> bill[p].line[t].offset]
           eff == [p \in Periods |-> Effective(p, t)]
           Good == {R \in SUBSET W : SumFunctionOnSet(off, R) <= account[t].debt}
<1>1. IsFiniteSet(W) /\ W \in SUBSET Periods
  <2>1. W \in SUBSET Periods
    BY DEF Waiting
  <2> HIDE DEF W
  <2> QED BY <2>1, ConstantsAre, FS_Subset
<1>2. PICK d \in Nat : d = account[t].debt
  BY TypedAre DEF Control, Accounts
<1>3. \A p \in W : /\ off[p] = Offset(p, t) /\ off[p] \in Nat /\ off[p] <= eff[p] /\ off[p] <= d
                   /\ Reserved(p, t) \in Nat
                   /\ Reserved(p, t) + off[p] <= d \/ off[p] = 0
  BY <1>1, <1>2, WaitingSays, OffsetIs, ReservedNat DEF Control
<1>4. \A p \in Periods : eff[p] \in Nat
  BY EffectiveNat
<1>5. order \in Seq(Periods)
  BY TypeParts DEF Control, Typed
<1>6. W \in SUBSET Range(order)
  BY WaitingSays
<1>7. \A p, q \in W : Before(order, q, p) => q \in Reserving(p, t)
  BY WaitingSays DEF Reserving
<1> HIDE DEF W, off, eff
<1>8. ASSUME NEW R \in SUBSET W, \A T \in SUBSET R : T # R => T \in Good
      PROVE  R \in Good
  <2>1. CASE R = {}
    <3>1. SumFunctionOnSet(off, R) = 0
      BY <2>1, SumOfNone
    <3> QED BY <1>2, <3>1
  <2>2. CASE R # {}
    <3>1. PICK p \in R : \A q \in R : q # p => Before(order, q, p)
      BY <1>5, <1>6, <2>2, LastOfSome
    <3> DEFINE T == R \ {p}
    <3>2. T \in SUBSET R /\ T # R /\ T \in SUBSET W /\ T \in SUBSET Periods
      BY <1>1
    <3>3. T \in Good
      BY <1>8, <3>2
    <3>4. T \in SUBSET Reserving(p, t)
      BY <1>7, <3>1
    <3>5. IsFiniteSet(R) /\ IsFiniteSet(T) /\ IsFiniteSet(Reserving(p, t))
          /\ Reserving(p, t) \in SUBSET Periods
      BY <1>1, <3>2, FS_Subset, ReservedNat DEF Control
    <3>6. \A x \in R : off[x] \in Int
      BY <1>3
    <3>7. SumFunctionOnSet(off, R) = off[p] + SumFunctionOnSet(off, R \ {p})
      BY <3>5, <3>6, SumStep
    <3> HIDE DEF T
    <3>8. SumFunctionOnSet(off, T) <= SumFunctionOnSet(eff, T)
      <4>1. \A x \in T : off[x] \in Int /\ eff[x] \in Int /\ off[x] <= eff[x]
        BY <1>3, <1>4, <3>2
      <4> QED BY <3>5, <4>1, SumAtMost
    <3>9. SumFunctionOnSet(eff, T) <= SumFunctionOnSet(eff, Reserving(p, t))
      <4>1. \A x \in Reserving(p, t) : eff[x] \in Nat
        BY <1>4, <3>5
      <4> QED BY <3>4, <3>5, <4>1, SumWithin
    <3>10. SumFunctionOnSet(eff, Reserving(p, t)) = Reserved(p, t)
      <4> DEFINE res == [q \in Reserving(p, t) |-> Effective(q, t)]
      <4>1. \A x \in Reserving(p, t) : eff[x] = res[x]
        BY <3>5 DEF eff
      <4>2. Reserved(p, t) = SumFunctionOnSet(res, Reserving(p, t))
        BY ReservedNat DEF Control
      <4> HIDE DEF res
      <4>3. SumFunctionOnSet(eff, Reserving(p, t)) = SumFunctionOnSet(res, Reserving(p, t))
        BY <3>5, <4>1, SumSame
      <4> QED BY <4>2, <4>3
    <3>11. SumFunctionOnSet(off, T) \in Nat /\ SumFunctionOnSet(eff, T) \in Nat
      <4>1. (\A x \in T : off[x] \in Nat) /\ (\A x \in T : eff[x] \in Nat)
        BY <1>3, <1>4, <3>2
      <4> QED BY <3>5, <4>1, SumNat
    <3>12. PICK r \in Nat : r = Reserved(p, t)
      BY <1>3
    <3>13. PICK o \in Nat : o = off[p] /\ (r + o <= d \/ o = 0)
      BY <1>3, <3>12
    <3>14. PICK s \in Nat : s = SumFunctionOnSet(off, T)
      BY <3>11
    <3>15. s <= r /\ s <= d
      BY <1>2, <3>3, <3>8, <3>9, <3>10, <3>11, <3>12, <3>14
    <3>16. SumFunctionOnSet(off, R) = o + s
      BY <3>7, <3>13, <3>14 DEF T
    <3> QED BY <1>2, <3>13, <3>15, <3>16
  <2> QED BY <2>1, <2>2
<1>9. W \in Good
  <2> HIDE DEF Good
  <2>1. \A T \in SUBSET W : T \in Good
    BY <1>1, <1>8, SetInduction, Zenon
  <2> QED BY <2>1
<1>10. SumFunction(off) = SumFunctionOnSet(off, W)
  BY SumAll DEF off
<1> QED BY <1>9, <1>10 DEF W, off

\* When the books are in order, the bills that wait to be paid count on a
\* debt once, all together: what one takes off, the ones locked after it leave
\* (tests/commission-bill-adjustments.test.ts:112).
THEOREM DebtsReservedOnce == BillsSpec => []DebtReservedOnce
<1>1. Control => DebtReservedOnce
  BY ReservedOnce DEF DebtReservedOnce
<1> QED BY <1>1, ControlAlways, PTL

LEMMA SameBooks ==
  ASSUME UNCHANGED books
  PROVE  ToReconcile' = ToReconcile
<1>1. /\ row' = row /\ bill' = bill /\ order' = order /\ account' = account
      /\ entry' = entry /\ ledger' = ledger /\ offsets' = offsets
  BY DEF books
<1>2. \A p, t : Effective(p, t)' = Effective(p, t) /\ Returned(p, t)' = Returned(p, t)
  BY <1>1 DEF Effective, Returned, InBill
<1>3. \A p : Open(p)' <=> Open(p)
  BY <1>1 DEF Open
<1>4. \A p, t : Reserving(p, t)' = Reserving(p, t)
  BY <1>1, <1>3 DEF Reserving
<1>5. \A p, t : Reserved(p, t)' = Reserved(p, t)
  BY <1>2, <1>4 DEF Reserved
<1>6. \A p, t : Offset(p, t)' = Offset(p, t)
  BY <1>1, <1>2, <1>5 DEF Offset
<1>7. \A p, t : Reconciled(p, t)' = Reconciled(p, t)
  BY <1>1, <1>2, <1>6 DEF Reconciled
<1>8. ASSUME NEW p
      PROVE  ReconciledBill(p)' = ReconciledBill(p)
  <2>1. [t \in DOMAIN bill'[p].line |-> Reconciled(p, t)'] =
        [t \in DOMAIN bill[p].line |-> Reconciled(p, t)]
    BY <1>1, <1>7
  <2> QED BY <1>1, <2>1, Zenon DEF ReconciledBill
<1> QED BY <1>1, <1>3, <1>8 DEF ToReconcile

\* A payment recorded in a bill: its rows are billed or paid by it, and the
\* debt it counts on is there or was taken off.
MayFinish(p) ==
  bill[p].pending # None =>
    /\ \A c \in bill[p].pending.rows :
         /\ row[c].billed /\ Period[c] = p
         /\ row[c].status = "billed" \/ (row[c].status = "paid_out" /\ row[c].by = p)
    /\ \A t \in DOMAIN bill[p].pending.line :
         p \in account[t].settled \/ account[t].debt >= bill[p].pending.line[t].offset

\* It was confirmed on books in order.
Finishing ==
  /\ section.pc = "work" => ToReconcile = {}
  /\ \A p \in Periods : MayFinish(p)

LEMMA StillFinishes ==
  ASSUME Control, Control', NEW p \in Periods, MayFinish(p),
         bill'[p].pending \in {None, bill[p].pending},
         \A c \in Rows : row[c].billed /\ Period[c] = p =>
           /\ row'[c].billed
           /\ row[c].status = "billed" =>
                row'[c].status = "billed" \/ (row'[c].status = "paid_out" /\ row'[c].by = p)
           /\ row[c].status = "paid_out" => row'[c].status = "paid_out" /\ row'[c].by = row[c].by,
         \A t \in Collabs :
           /\ p \in account[t].settled => p \in account'[t].settled
           /\ p \in account'[t].settled \/ account'[t].debt >= account[t].debt
  PROVE  MayFinish(p)'
<1> SUFFICES ASSUME bill'[p].pending # None
             PROVE  MayFinish(p)'
  BY DEF MayFinish
<1>1. PICK op \in Payments : bill[p].pending = op /\ bill'[p].pending = op
  <2>1. bill[p].pending \in Payments \cup {None}
    BY TypedAre DEF Control, Bill
  <2> QED BY <2>1
<1>2. op.rows \subseteq Rows /\ DOMAIN op.line \subseteq Collabs
  BY PaymentIs
<1>3. \A c \in op.rows :
        /\ row'[c].billed /\ Period[c] = p
        /\ row'[c].status = "billed" \/ (row'[c].status = "paid_out" /\ row'[c].by = p)
  BY <1>1, <1>2, ConstantsAre DEF MayFinish
<1>4. ASSUME NEW t \in DOMAIN op.line
      PROVE  p \in account'[t].settled \/ account'[t].debt >= op.line[t].offset
  <2>1. p \in account[t].settled \/ account[t].debt >= op.line[t].offset
    BY <1>1, ConstantsAre DEF MayFinish
  <2>2. t \in Collabs /\ op.line[t].offset \in Nat
    BY <1>2, PaymentIs
  <2>3. account[t].debt \in Nat
    BY <2>2, TypedAre DEF Control, Accounts
  <2>4. PICK o \in Nat, d \in Nat : o = op.line[t].offset /\ d = account[t].debt
    BY <2>2, <2>3
  <2>5. CASE p \in account'[t].settled
    BY <2>5
  <2>6. CASE p \notin account'[t].settled
    <3>1. account'[t].debt >= d /\ d >= o
      BY <2>1, <2>2, <2>4, <2>6
    <3>2. account'[t].debt \in Nat
      BY <2>2 DEF Control, Typed, BillsTypeOK
    <3> QED BY <2>4, <3>1, <3>2
  <2> QED BY <2>5, <2>6
<1> QED BY <1>1, <1>3, <1>4 DEF MayFinish

LEMMA FinishingInit == BillsInit => Finishing
  BY DEF BillsInit, NoBill, NoSection, Finishing, MayFinish

\* Steps that touch neither the rows of bills, nor payments, nor accounts.
LEMMA FinishingAsIs ==
  ASSUME Control, Control', Finishing, UNCHANGED <<row, account>>,
         \A p \in Periods : bill'[p].pending \in {None, bill[p].pending},
         section'.pc = "work" => ToReconcile' = {}
  PROVE  Finishing'
<1>1. ASSUME NEW p \in Periods
      PROVE  MayFinish(p)'
  <2>1. MayFinish(p) /\ bill'[p].pending \in {None, bill[p].pending}
    BY DEF Finishing
  <2>2. \A t \in Collabs :
           /\ p \in account[t].settled => p \in account'[t].settled
           /\ p \in account'[t].settled \/ account'[t].debt >= account[t].debt
    <3>1. \A t \in Collabs : account[t].debt \in Nat
      BY TypedAre DEF Control, Accounts
    <3> QED BY <3>1
  <2> QED BY <2>1, <2>2, StillFinishes
<1> QED BY <1>1 DEF Finishing

LEMMA FinishingRequests ==
  ASSUME Control, Control', Finishing,
         NEW k \in Requests, Ask(k) \/ Acquire(k) \/ Busy(k) \/ Break(k) \/ Unlock
  PROVE  Finishing'
<1>1. UNCHANGED books
  BY DEF Ask, Acquire, Busy, Break, Unlock
<1>2. UNCHANGED <<row, account>> /\ UNCHANGED bill
  BY <1>1 DEF books
<1>3. section' = section \/ section'.pc = "entries"
  <2>1. CASE Acquire(k)
    <3>1. section' = [NoSection EXCEPT !.by = k] /\ k \in Requests \cup {None, Dead}
      BY <2>1 DEF Acquire
    <3> QED BY <3>1, NoSectionIs
  <2>2. CASE Break(k) \/ Unlock
    <3>1. \/ section' = NoSection
          \/ section' = [NoSection EXCEPT !.by = Dead] /\ Dead \in Requests \cup {None, Dead}
      BY <2>2 DEF Break, Unlock
    <3> QED BY <3>1, NoSectionIs
  <2> QED BY <2>1, <2>2 DEF Ask, Busy
<1>4. section'.pc = "work" => ToReconcile' = {}
  BY <1>1, <1>3, SameBooks DEF Finishing
<1> QED BY <1>2, <1>4, FinishingAsIs

LEMMA FinishingAddDebt ==
  ASSUME Control, Control', Finishing, AddDebt
  PROVE  Finishing'
<1>1. UNCHANGED <<row, bill>> /\ section'.pc = "flag"
  BY TypedGoto DEF AddDebt, Control
<1>2. ASSUME NEW t \in Collabs
      PROVE  account'[t].settled = account[t].settled /\ account'[t].debt >= account[t].debt
  <2>1. PICK c \in Rows : c = section.c
    BY DEF Control, Typed, Placed, AddDebt, Here, Clawbacks
  <2>2. PICK u \in Collabs, n \in Nat : u = Collab[c] /\ n = Amount[c]
    BY ConstantsAre
  <2>3. \/ account' = account
        \/ account' = [account EXCEPT ![u].debt = @ + n, ![u].entries = @ \cup {c}]
    BY <2>1, <2>2 DEF AddDebt
  <2>4. account \in [Collabs -> Accounts]
    BY TypeParts DEF Control, Typed
  <2> QED BY <2>3, <2>4 DEF Accounts
<1>3. ASSUME NEW p \in Periods
      PROVE  MayFinish(p)'
  <2>1. MayFinish(p) /\ bill'[p].pending \in {None, bill[p].pending}
    BY <1>1 DEF Finishing
  <2> QED BY <1>1, <1>2, <2>1, StillFinishes
<1> QED BY <1>1, <1>3 DEF Finishing

LEMMA FinishingFlagEntry ==
  ASSUME Control, Control', Finishing, FlagEntry
  PROVE  Finishing'
<1>1. UNCHANGED <<row, account>> /\ UNCHANGED bill
  BY DEF FlagEntry
<1>2. section'.pc \in {"books", "entries"}
  BY TypedAre DEF FlagEntry, Control, Sections
<1> QED BY <1>1, <1>2, FinishingAsIs

\* The rows of a payment are all there: it does not throw.
LEMMA RowsArePaid ==
  ASSUME Control, Finishing, PayRows
  PROVE  \E p \in Periods, op \in Payments :
           /\ Finishes(p, op) /\ PayRowsDone(p, op)
           /\ \A c \in op.rows : /\ c \in Rows /\ row[c].billed /\ Period[c] = p
                                 /\ row[c].status \in {"billed", "paid_out"}
                                 /\ row'[c].status = "paid_out" /\ row'[c].by = p
<1>1. PICK p \in Periods, op \in Payments : Finishes(p, op) /\ PayRowsDone(p, op)
  BY PayRowsDoes DEF Control
<1>2. bill[p].pending = op /\ op # None /\ op.rows \subseteq Rows
  BY <1>1, PaymentIs, ConstantsAre DEF Finishes
<1>3. \A c \in op.rows : /\ c \in Rows /\ row[c].billed /\ Period[c] = p
                         /\ row[c].status = "billed"
                            \/ (row[c].status = "paid_out" /\ row[c].by = p)
  BY <1>2 DEF Finishing, MayFinish
<1>4. \A c \in op.rows : row'[c].status = "paid_out" /\ row'[c].by = p
  BY <1>1, <1>3 DEF PayRowsDone
<1> QED BY <1>1, <1>3, <1>4

LEMMA FinishingPayRows ==
  ASSUME Control, Control', Finishing, PayRows
  PROVE  Finishing'
<1>1. PICK p \in Periods, op \in Payments :
        /\ Finishes(p, op) /\ PayRowsDone(p, op)
        /\ \A c \in op.rows : row'[c].status = "paid_out" /\ row'[c].by = p
  BY RowsArePaid
<1>2. UNCHANGED <<bill, account>> /\ section'.pc # "work"
  BY <1>1 DEF PayRowsDone
<1>3. ASSUME NEW q \in Periods
      PROVE  MayFinish(q)'
  <2>1. MayFinish(q) /\ bill'[q].pending \in {None, bill[q].pending}
    BY <1>2 DEF Finishing
  <2>2. \A t \in Collabs : account[t].debt \in Nat
    BY TypedAre DEF Control, Accounts
  <2>3. CASE q # p
    <3>1. \A c \in Rows : Period[c] = q => row'[c] = row[c]
      BY <1>1, <2>3 DEF PayRowsDone
    <3> QED BY <1>2, <2>1, <2>2, <3>1, StillFinishes
  <2>4. CASE q = p
    <3>1. \A c \in Rows : row[c].billed /\ Period[c] = q =>
           /\ row'[c].billed
           /\ row[c].status = "billed" =>
                row'[c].status = "billed" \/ (row'[c].status = "paid_out" /\ row'[c].by = q)
           /\ row[c].status = "paid_out" => row'[c].status = "paid_out" /\ row'[c].by = row[c].by
      BY <1>1, <2>4 DEF PayRowsDone
    <3> QED BY <1>2, <2>1, <2>2, <3>1, StillFinishes
  <2> QED BY <2>3, <2>4
<1> QED BY <1>2, <1>3 DEF Finishing

\* Nor does the debt it counts on fail it.
LEMMA DebtIsThere ==
  ASSUME Control, Finishing, NEW t \in Collabs, Settle(t)
  PROVE  \E p \in Periods, op \in Payments :
           /\ Finishes(p, op) /\ SettleDone(p, op, t) /\ t \in DOMAIN op.line
           /\ p \in account[t].settled \/ account[t].debt >= op.line[t].offset
           /\ p \in account'[t].settled
           /\ section'.by = section.by /\ section'.phase = section.phase
           /\ section'.p = section.p /\ section'.todo = section.todo
           /\ section'.pc = "offset" /\ section'.t = t
           /\ UNCHANGED req
<1>1. PICK p \in Periods, op \in Payments : Finishes(p, op) /\ SettleDone(p, op, t)
  BY SettleDoes DEF Control
<1>2. t \in section.todo /\ section.pc = "settle"
  BY SettleDoes DEF Control
<1>3. bill[p].pending = op /\ op # None /\ t \in DOMAIN op.line
  BY <1>1, <1>2, ConstantsAre DEF Finishes
<1>4. p \in account[t].settled \/ account[t].debt >= op.line[t].offset
  BY <1>3 DEF Finishing, MayFinish
<1>5. PICK o \in Nat, d \in Nat : o = op.line[t].offset /\ d = account[t].debt
  BY <1>3, PaymentIs, TypedAre DEF Control, Accounts
<1>6. ~(p \notin account[t].settled /\ account[t].debt < op.line[t].offset)
  BY <1>4, <1>5
<1>7. /\ p \in account'[t].settled
      /\ section'.by = section.by /\ section'.phase = section.phase
      /\ section'.p = section.p /\ section'.todo = section.todo
      /\ section'.pc = "offset" /\ section'.t = t
      /\ UNCHANGED req
  BY <1>1, <1>6 DEF SettleDone
<1> QED BY <1>1, <1>3, <1>4, <1>7

LEMMA FinishingSettle ==
  ASSUME Control, Control', Finishing, NEW t \in Collabs, Settle(t)
  PROVE  Finishing'
<1>1. PICK p \in Periods, op \in Payments :
        /\ Finishes(p, op) /\ SettleDone(p, op, t)
        /\ p \in account'[t].settled /\ section'.pc = "offset"
  BY DebtIsThere
<1>2. UNCHANGED <<row, bill>>
  BY <1>1 DEF SettleDone
<1>3. /\ \A u \in Collabs : u # t => account'[u] = account[u]
      /\ \/ account'[t].settled = account[t].settled \cup {p}
         \/ account'[t] = account[t]
  BY <1>1 DEF SettleDone
<1>4. \A u \in Collabs : account[u].debt \in Nat
  BY TypedAre DEF Control, Accounts
<1>5. bill[p].pending # None
  BY <1>1, ConstantsAre DEF Finishes
<1>6. ASSUME NEW q \in Periods
      PROVE  MayFinish(q)'
  <2>1. MayFinish(q) /\ bill'[q].pending \in {None, bill[q].pending}
    BY <1>2 DEF Finishing
  <2>2. CASE q = p
    <3>1. \A u \in Collabs :
           /\ p \in account[u].settled => p \in account'[u].settled
           /\ p \in account'[u].settled \/ account'[u].debt >= account[u].debt
      BY <1>1, <1>3, <1>4
    <3> QED BY <1>2, <2>1, <2>2, <3>1, StillFinishes
  <2>3. CASE q # p
    <3>1. bill'[q].pending = None
      BY <1>2, <1>5, <2>3 DEF Control, Unfinished
    <3> QED BY <3>1 DEF MayFinish
  <2> QED BY <2>2, <2>3
<1> QED BY <1>1, <1>6 DEF Finishing

LEMMA FinishingRest ==
  ASSUME Control, Control', Finishing,
         OffsetEntry \/ Recovered \/ CloseBill \/ Recover \/ LockBill \/ Reconcile
           \/ Refresh \/ CreateBill \/ Clawback
  PROVE  Finishing'
<1> SUFFICES /\ UNCHANGED <<row, account>>
             /\ \A p \in Periods : bill'[p].pending \in {None, bill[p].pending}
             /\ section'.pc # "work"
  BY FinishingAsIs
<1>0. Typed
  BY DEF Control
<1>1. CASE OffsetEntry
  BY <1>0, <1>1, OffsetEntryDoes DEF OffsetEntryDone
<1>2. CASE Recovered
  <2>1. section.pc = "recovered"
    BY <1>0, <1>2, RecoveredDoes
  <2> QED BY <1>0, <1>2, <2>1, RecoveredDoes DEF RecoveredDone
<1>3. CASE CloseBill
  BY <1>0, <1>3, CloseBillDoes DEF CloseBillDone
<1>4. CASE Recover
  <2>1. UNCHANGED books
    BY <1>4 DEF Recover
  <2>2. section'.pc # "work"
    BY <1>4, TypedAre DEF Recover, Goto, Control, Sections
  <2> QED BY <2>1, <2>2 DEF books
<1>5. CASE LockBill
  BY <1>0, <1>5, LockBillDoes DEF LockBillDone
<1>6. CASE Reconcile
  <2>1. section.pc = "books"
    BY <1>0, <1>6, ReconcileDoes
  <2> QED BY <1>0, <1>6, <2>1, ReconcileDoes DEF ReconcileDone, BillReconciled
<1>7. CASE Refresh
  BY <1>0, <1>7, TypedRefresh DEF Worked, books
<1>8. CASE CreateBill
  BY <1>0, <1>8, CreateBillDoes DEF CreateBillDone, Worked
<1>9. CASE Clawback
  BY <1>0, <1>9, ClawbackDoes DEF ClawbackDone, Worked
<1> QED BY <1>1, <1>2, <1>3, <1>4, <1>5, <1>6, <1>7, <1>8, <1>9

LEMMA FinishingReconciles ==
  ASSUME Control, Control', Finishing, Reconciles
  PROVE  Finishing'
<1>1. UNCHANGED books /\ ToReconcile = {}
  BY DEF Reconciles
<1>2. UNCHANGED <<row, account>> /\ UNCHANGED bill
  BY <1>1 DEF books
<1>3. section'.pc = "work" => ToReconcile' = {}
  BY <1>1, SameBooks
<1> QED BY <1>2, <1>3, FinishingAsIs

LEMMA FinishingBillRows ==
  ASSUME Control, Control', Finishing, BillRows
  PROVE  Finishing'
<1>1. BillRowsDone(section.p)
  BY BillRowsDoes DEF Control
<1>2. UNCHANGED <<bill, account>> /\ section'.pc = "lock"
  BY <1>1 DEF BillRowsDone
<1>3. \A c \in Rows : row[c].billed => row'[c] = row[c]
  BY <1>1 DEF BillRowsDone
<1>4. ASSUME NEW p \in Periods
      PROVE  MayFinish(p)'
  <2>1. MayFinish(p) /\ bill'[p].pending \in {None, bill[p].pending}
    BY <1>2 DEF Finishing
  <2>2. \A t \in Collabs : account[t].debt \in Nat
    BY TypedAre DEF Control, Accounts
  <2> QED BY <1>2, <1>3, <2>1, <2>2, StillFinishes
<1> QED BY <1>2, <1>4 DEF Finishing

LEMMA FinishingCancel ==
  ASSUME Control, Control', Finishing, CancelRow
  PROVE  Finishing'
<1>1. PICK c \in Rows : CancelDone(c)
  BY CancelDoes DEF Control
<1>2. section.pc = "work"
  BY CancelDoes DEF Control
<1>3. \A p \in Periods : bill'[p].pending = None
  BY <1>1, <1>2, AtWork DEF CancelDone
<1>4. section'.pc = "books"
  BY <1>1 DEF CancelDone, Worked
<1> QED BY <1>3, <1>4 DEF Finishing, MayFinish

\* A payment is confirmed on books in order: its debt is there.
LEMMA ConfirmedSays ==
  ASSUME Control, ToReconcile = {}, NEW p \in Periods, bill[p].status = "locked",
         NEW t \in Unpaid(p)
  PROVE  /\ t \in Collabs /\ t \in DOMAIN bill[p].line /\ ~bill[p].line[t].paid
         /\ bill[p].line[t].offset = Offset(p, t)
         /\ bill[p].line[t].net = Effective(p, t) - Offset(p, t)
         /\ bill[p].line[t].offset <= account[t].debt
<1>1. t \in DOMAIN bill[p].line /\ ~bill[p].line[t].paid
  BY DEF Unpaid
<1>2. p \in Range(order) /\ Open(p)
  BY DEF Control, Covered, Open
<1>3. ReconciledBill(p) = bill[p]
  BY <1>2 DEF ToReconcile, Range
<1>4. /\ t \in Collabs /\ bill[p].line[t].offset = Offset(p, t)
      /\ bill[p].line[t].net = Effective(p, t) - Offset(p, t)
  BY <1>1, <1>3, ReconciledSays DEF Control
<1> QED BY <1>1, <1>4, OffsetIs DEF Control

LEMMA FinishingConfirm ==
  ASSUME Control, Control', Finishing, ConfirmPayment
  PROVE  Finishing'
<1>1. PICK p \in Periods : ConfirmDone(p)
  BY ConfirmDoes DEF Control
<1>2. section.pc = "work" /\ ToReconcile = {}
  BY ConfirmDoes DEF Control, Finishing
<1>3. UNCHANGED <<row, account>> /\ section'.pc # "work"
  BY <1>1 DEF ConfirmDone, Worked
<1>4. \A q \in Periods : bill[q].pending = None
  BY <1>2, AtWork
<1>5. CASE UNCHANGED bill
  BY <1>3, <1>4, <1>5 DEF Finishing, MayFinish
<1>6. CASE bill' # bill
  <2>1. /\ bill[p].status = "locked"
        /\ \A q \in Periods : q # p => bill'[q] = bill[q]
        /\ bill'[p].pending.rows = Payable(p)
        /\ DOMAIN bill'[p].pending.line = Unpaid(p)
        /\ \A t \in Unpaid(p) : bill'[p].pending.line[t].offset = bill[p].line[t].offset
    BY <1>1, <1>6 DEF ConfirmDone
  <2>2. \A c \in Payable(p) : row'[c].billed /\ Period[c] = p /\ row'[c].status = "billed"
    BY <1>3 DEF Payable
  <2>3. \A t \in Unpaid(p) : account'[t].debt >= bill'[p].pending.line[t].offset
    <3>1. SUFFICES ASSUME NEW t \in Unpaid(p)
                   PROVE  account'[t].debt >= bill'[p].pending.line[t].offset
      OBVIOUS
    <3>2. t \in Collabs /\ bill[p].line[t].offset <= account[t].debt
          /\ bill[p].line[t].offset = Offset(p, t)
      BY <1>2, <2>1, ConfirmedSays
    <3>3. PICK o \in Nat, d \in Nat : o = bill[p].line[t].offset /\ d = account[t].debt
      BY <3>2, OffsetIs, TypedAre DEF Control, Accounts
    <3>4. account'[t].debt = d /\ bill'[p].pending.line[t].offset = o
      BY <1>3, <2>1, <3>3
    <3> QED BY <3>2, <3>3, <3>4
  <2>4. MayFinish(p)'
    BY <2>1, <2>2, <2>3 DEF MayFinish
  <2>5. \A q \in Periods : q # p => MayFinish(q)'
    BY <1>4, <2>1 DEF MayFinish
  <2> QED BY <1>3, <2>4, <2>5 DEF Finishing
<1> QED BY <1>5, <1>6

LEMMA FinishingStep ==
  ASSUME Control, Control', Finishing, [BillsNext]_billVars
  PROVE  Finishing'
<1>1. CASE UNCHANGED billVars
  <2>1. UNCHANGED books /\ UNCHANGED <<row, account>> /\ UNCHANGED <<bill, section>>
    BY <1>1 DEF billVars, books
  <2>2. section'.pc = "work" => ToReconcile' = {}
    BY <2>1, SameBooks DEF Finishing
  <2> QED BY <2>1, <2>2, FinishingAsIs
<1>2. CASE \E k \in Requests : Ask(k) \/ Acquire(k) \/ Busy(k) \/ Break(k)
  BY <1>2, FinishingRequests
<1>3. CASE Unlock
  <2>1. UNCHANGED <<row, account>> /\ UNCHANGED bill
    BY <1>3 DEF Unlock, books
  <2>2. section'.pc # "work"
    BY <1>3, NoSectionIs DEF Unlock
  <2> QED BY <2>1, <2>2, FinishingAsIs
<1>4. CASE AddDebt \/ FlagEntry
  BY <1>4, FinishingAddDebt, FinishingFlagEntry
<1>5. CASE PayRows \/ (\E t \in Collabs : Settle(t)) \/ OffsetEntry \/ Recovered \/ CloseBill
  BY <1>5, FinishingPayRows, FinishingSettle, FinishingRest
<1>6. CASE Recover \/ BillRows \/ LockBill \/ Reconcile \/ Reconciles
  BY <1>6, FinishingRest, FinishingBillRows, FinishingReconciles
<1>7. CASE Refresh \/ CreateBill \/ ConfirmPayment \/ CancelRow \/ Clawback
  BY <1>7, FinishingRest, FinishingConfirm, FinishingCancel
<1> QED BY <1>1, <1>2, <1>3, <1>4, <1>5, <1>6, <1>7 DEF BillsNext

LEMMA FinishingAlways == BillsSpec => []Finishing
<1>1. BillsInit => Control /\ Finishing
  BY ControlInit, FinishingInit
<1>2. (Control /\ Finishing) /\ [BillsNext]_billVars => (Control /\ Finishing)'
  BY ControlStep, FinishingStep
<1> QED BY <1>1, <1>2, PTL DEF BillsSpec

\* A payment written in a bill can always be finished, by whichever section
\* comes next: none of its rows was returned and its debt was taken off once.
THEOREM PaymentsCanFinish == BillsSpec => []PaymentCanFinish
<1>1. Finishing => PaymentCanFinish
  BY DEF Finishing, MayFinish, PaymentCanFinish, PendingBills
<1> QED BY <1>1, FinishingAlways, PTL

-----------------------------------------------------------------------------
(* Sums over what another set is mapped to, and over the parts of a set *)

LEMMA SumMapped ==
  ASSUME NEW P, IsFiniteSet(P), NEW h, \A x, y \in P : h[x] = h[y] => x = y,
         NEW fun, NEW gun, \A x \in P : gun[h[x]] = fun[x] /\ fun[x] \in Int
  PROVE  /\ IsFiniteSet({h[x] : x \in P})
         /\ SumFunctionOnSet(gun, {h[x] : x \in P}) = SumFunctionOnSet(fun, P)
<1> DEFINE Img(R) == {h[x] : x \in R}
           Good == {R \in SUBSET P : /\ IsFiniteSet(Img(R))
                                     /\ SumFunctionOnSet(gun, Img(R)) = SumFunctionOnSet(fun, R)}
<1>1. ASSUME NEW R \in SUBSET P, \A T \in SUBSET R : T # R => T \in Good
      PROVE  R \in Good
  <2>1. IsFiniteSet(R)
    BY FS_Subset
  <2>2. CASE R = {}
    <3>1. Img(R) = {}
      BY <2>2
    <3>2. SumFunctionOnSet(gun, Img(R)) = 0 /\ SumFunctionOnSet(fun, R) = 0
      BY <2>2, <3>1, SumOfNone
    <3> QED BY <3>1, <3>2, FS_EmptySet
  <2>3. CASE R # {}
    <3>1. PICK y \in R : TRUE
      BY <2>3
    <3> DEFINE T == R \ {y}
    <3>2. T \in SUBSET R /\ T # R /\ T \in SUBSET P
      OBVIOUS
    <3>3. T \in Good
      BY <1>1, <3>2
    <3>4. Img(R) = Img(T) \cup {h[y]} /\ h[y] \notin Img(T)
      OBVIOUS
    <3>5. IsFiniteSet(Img(T)) /\ SumFunctionOnSet(gun, Img(T)) = SumFunctionOnSet(fun, T)
      BY <3>3
    <3>6. (\A x \in Img(T) : gun[x] \in Int) /\ gun[h[y]] \in Int /\ gun[h[y]] = fun[y]
      BY <3>2
    <3>7. SumFunctionOnSet(fun, R) = fun[y] + SumFunctionOnSet(fun, T)
      BY <2>1, SumStep
    <3>8. IsFiniteSet(T) /\ \A x \in T : fun[x] \in Int
      BY <2>1, FS_Subset
    <3> HIDE DEF T, Good
    <3>9. SumFunctionOnSet(fun, T) \in Int
      BY <3>8, SumInt
    <3> DEFINE U == Img(T)
               z == h[y]
    <3>10. IsFiniteSet(U) /\ (\A x \in U : gun[x] \in Int) /\ gun[z] \in Int /\ z \notin U
      BY <3>4, <3>5, <3>6
    <3> HIDE DEF U, z
    <3>11. SumFunctionOnSet(gun, U \cup {z}) = SumFunctionOnSet(gun, U) + gun[z]
      BY <3>10, SumWith
    <3>12. IsFiniteSet(U \cup {z})
      BY <3>10, FS_AddElement
    <3>13. Img(R) = U \cup {z} /\ gun[z] = fun[y]
           /\ SumFunctionOnSet(gun, U) = SumFunctionOnSet(fun, T)
      BY <3>4, <3>5, <3>6 DEF U, z
    <3>14. SumFunctionOnSet(gun, Img(R)) = SumFunctionOnSet(gun, U \cup {z})
           /\ IsFiniteSet(Img(R))
      BY <3>12, <3>13
    <3>15. fun[y] \in Int
      BY <3>1
    <3>16. SumFunctionOnSet(gun, Img(R)) = SumFunctionOnSet(fun, R)
      BY <3>7, <3>9, <3>11, <3>13, <3>14, <3>15
    <3> QED BY <3>14, <3>16 DEF Good
  <2> QED BY <2>2, <2>3
<1>2. P \in Good
  <2> HIDE DEF Good
  <2>1. \A T \in SUBSET P : T \in Good
    BY <1>1, SetInduction, Zenon
  <2> QED BY <2>1
<1> QED BY <1>2

LEMMA SumOfParts ==
  ASSUME NEW P, IsFiniteSet(P), NEW S, IsFiniteSet(S), NEW part \in [P -> SUBSET S],
         \A p, q \in P : p # q => part[p] \cap part[q] = {},
         NEW fun, \A x \in S : fun[x] \in Int,
         NEW sums, \A p \in P : sums[p] = SumFunctionOnSet(fun, part[p])
  PROVE  SumFunctionOnSet(sums, P) = SumFunctionOnSet(fun, UNION {part[p] : p \in P})
<1> DEFINE All(R) == UNION {part[p] : p \in R}
           Good == {R \in SUBSET P : SumFunctionOnSet(sums, R) = SumFunctionOnSet(fun, All(R))}
<1>1. \A p \in P : sums[p] \in Int
  <2>1. SUFFICES ASSUME NEW p \in P
                 PROVE  sums[p] \in Int
    OBVIOUS
  <2>2. IsFiniteSet(part[p]) /\ \A x \in part[p] : fun[x] \in Int
    BY FS_Subset
  <2>3. SumFunctionOnSet(fun, part[p]) \in Int
    BY <2>2, SumInt
  <2> QED BY <2>3
<1>2. ASSUME NEW R \in SUBSET P, \A T \in SUBSET R : T # R => T \in Good
      PROVE  R \in Good
  <2>1. IsFiniteSet(R)
    BY FS_Subset
  <2>2. CASE R = {}
    <3>1. All(R) = {}
      BY <2>2
    <3>2. SumFunctionOnSet(fun, All(R)) = 0 /\ SumFunctionOnSet(sums, R) = 0
      BY <2>2, <3>1, SumOfNone
    <3> QED BY <3>2
  <2>3. CASE R # {}
    <3>1. PICK y \in R : TRUE
      BY <2>3
    <3> DEFINE T == R \ {y}
               U == All(T)
               V == part[y]
    <3>2. T \in SUBSET R /\ T # R
      OBVIOUS
    <3>3. T \in Good
      BY <1>2, <3>2
    <3>4. All(R) = U \cup V /\ U \cap V = {} /\ U \in SUBSET S /\ V \in SUBSET S
      OBVIOUS
    <3>5. SumFunctionOnSet(sums, R) = sums[y] + SumFunctionOnSet(sums, T)
      BY <1>1, <2>1, SumStep
    <3>6. SumFunctionOnSet(sums, T) = SumFunctionOnSet(fun, U)
      BY <3>3
    <3>7. sums[y] = SumFunctionOnSet(fun, V) /\ sums[y] \in Int
      BY <1>1
    <3> HIDE DEF T, U, V, Good
    <3>8. IsFiniteSet(U) /\ IsFiniteSet(V) /\ (\A x \in U \cup V : fun[x] \in Int)
          /\ \A x \in U : fun[x] \in Int
      BY <3>4, FS_Subset
    <3>9. SumFunctionOnSet(fun, U \cup V) = SumFunctionOnSet(fun, U) + SumFunctionOnSet(fun, V)
      BY <3>4, <3>8, SumOfBoth
    <3>10. SumFunctionOnSet(fun, U) \in Int
      BY <3>8, SumInt
    <3>11. SumFunctionOnSet(fun, All(R)) = SumFunctionOnSet(fun, U \cup V)
      BY <3>4
    <3>12. SumFunctionOnSet(sums, R) = SumFunctionOnSet(fun, All(R))
      BY <3>5, <3>6, <3>7, <3>9, <3>10, <3>11
    <3> QED BY <3>12 DEF Good
  <2> QED BY <2>2, <2>3
<1>3. P \in Good
  <2> HIDE DEF Good
  <2>1. \A T \in SUBSET P : T \in Good
    BY <1>2, SetInduction, Zenon
  <2> QED BY <2>1
<1> QED BY <1>3

-----------------------------------------------------------------------------
(* What each payment comes to                                              *)

\* Payments recorded and payments closed, and the debt that each took off.
Covers(p, t) == bill[p].pending # None /\ t \in DOMAIN bill[p].pending.line
Paid(p, t) == t \in DOMAIN bill[p].line /\ bill[p].line[t].paid
Due(p, t) ==
  IF Covers(p, t) THEN bill[p].pending.line[t].offset
  ELSE IF Paid(p, t) THEN bill[p].line[t].offset ELSE 0

PaidIn(p, t) == {c \in Rows : Period[c] = p /\ Collab[c] = t /\ row[c].status = "paid_out"}
RowsOf(p, t) == {c \in bill[p].pending.rows : Collab[c] = t}

\* The cash and the debt of a line come to the commissions it pays.
LinePaid(p, t) ==
  /\ Covers(p, t) =>
       /\ ~Paid(p, t)
       /\ bill[p].pending.line[t].net + Due(p, t) = Worth(RowsOf(p, t))
       /\ PaidIn(p, t) \subseteq RowsOf(p, t)
  /\ Paid(p, t) =>
       /\ bill[p].status # "none"
       /\ bill[p].line[t].cash + Due(p, t) = Worth(PaidIn(p, t))
  /\ ~Covers(p, t) /\ ~Paid(p, t) => PaidIn(p, t) = {}
  /\ t \in DOMAIN bill[p].line /\ ~Paid(p, t) => bill[p].line[t].cash = 0

PaidLines ==
  /\ \A p \in Periods : \A t \in Collabs : LinePaid(p, t)
  /\ \A p \in Periods : bill[p].pending # None =>
       \A c \in bill[p].pending.rows : Collab[c] \in DOMAIN bill[p].pending.line
  /\ section.pc \in Payment \ {"rows"} =>
       \A c \in bill[section.p].pending.rows : row[c].status = "paid_out"

LEMMA DueIs ==
  ASSUME Typed, NEW p \in Periods, NEW t \in Collabs
  PROVE  /\ Due(p, t) \in Nat
         /\ Covers(p, t) => /\ bill[p].pending \in Payments
                            /\ bill[p].pending.line[t].net \in Nat
                            /\ RowsOf(p, t) \in SUBSET Rows
         /\ t \in DOMAIN bill[p].line => bill[p].line[t] \in Line
         /\ PaidIn(p, t) \in SUBSET Rows
<1>1. bill[p].line \in Lines /\ bill[p].pending \in Payments \cup {None}
  BY TypedAre DEF Bill
<1>2. t \in DOMAIN bill[p].line => bill[p].line[t] \in Line
  BY <1>1, LinesIs
<1>3. Covers(p, t) => /\ bill[p].pending \in Payments
                      /\ bill[p].pending.line[t].net \in Nat
                      /\ bill[p].pending.line[t].offset \in Nat
                      /\ bill[p].pending.rows \subseteq Rows
  BY <1>1, PaymentIs DEF Covers
<1>4. Due(p, t) \in Nat
  BY <1>2, <1>3 DEF Due, Paid, Line
<1> QED BY <1>2, <1>3, <1>4 DEF RowsOf, PaidIn

\* A write that leaves payments and paid lines as they are.
BillsStay ==
  \A p \in Periods :
    /\ bill'[p].pending = bill[p].pending
    /\ \A t \in Collabs :
         /\ Paid(p, t)' <=> Paid(p, t)
         /\ Paid(p, t) => /\ bill'[p].line[t].offset = bill[p].line[t].offset
                          /\ bill'[p].line[t].cash = bill[p].line[t].cash
                          /\ bill'[p].status # "none"
         /\ t \in DOMAIN bill'[p].line /\ ~Paid(p, t) => bill'[p].line[t].cash = 0

LEMMA DuesStay ==
  ASSUME BillsStay, NEW p \in Periods, NEW t \in Collabs
  PROVE  /\ Covers(p, t)' <=> Covers(p, t)
         /\ Paid(p, t)' <=> Paid(p, t)
         /\ Due(p, t)' = Due(p, t)
<1>1. bill'[p].pending = bill[p].pending
  BY DEF BillsStay
<1>2. /\ Paid(p, t)' <=> Paid(p, t)
      /\ Paid(p, t) => bill'[p].line[t].offset = bill[p].line[t].offset
  BY DEF BillsStay
<1>3. Covers(p, t)' <=> Covers(p, t)
  BY <1>1 DEF Covers
<1> QED BY <1>1, <1>2, <1>3 DEF Due

LEMMA BillsAsTheyAre ==
  ASSUME PaidLines, UNCHANGED bill
  PROVE  BillsStay
<1> SUFFICES ASSUME NEW p \in Periods, NEW t \in Collabs
             PROVE  /\ bill'[p].pending = bill[p].pending
                    /\ Paid(p, t)' <=> Paid(p, t)
                    /\ Paid(p, t) => /\ bill'[p].line[t].offset = bill[p].line[t].offset
                                     /\ bill'[p].line[t].cash = bill[p].line[t].cash
                                     /\ bill'[p].status # "none"
                    /\ t \in DOMAIN bill'[p].line /\ ~Paid(p, t) => bill'[p].line[t].cash = 0
  BY DEF BillsStay
<1>1. LinePaid(p, t)
  BY DEF PaidLines
<1> QED BY <1>1 DEF LinePaid, Paid

LEMMA LockBillStays ==
  ASSUME Control, PaidLines, LockBill
  PROVE  BillsStay /\ section'.pc = "locking" /\ UNCHANGED <<row, account, entry, offsets>>
<1>1. PICK p \in Periods : LockBillDone(p)
  BY LockBillDoes DEF Control
<1>2. ASSUME NEW q \in Periods, NEW t \in Collabs
      PROVE  /\ bill'[q].pending = bill[q].pending
             /\ Paid(q, t)' <=> Paid(q, t)
             /\ Paid(q, t) => /\ bill'[q].line[t].offset = bill[q].line[t].offset
                              /\ bill'[q].line[t].cash = bill[q].line[t].cash
                              /\ bill'[q].status # "none"
             /\ t \in DOMAIN bill'[q].line /\ ~Paid(q, t) => bill'[q].line[t].cash = 0
  <2>1. LinePaid(q, t)
    BY DEF PaidLines
  <2>2. CASE q = p
    BY <1>1, <2>1, <2>2 DEF LockBillDone, LinePaid, Paid
  <2>3. CASE q # p
    <3>1. bill'[q] = bill[q]
      BY <1>1, <2>3 DEF LockBillDone
    <3> QED BY <2>1, <3>1 DEF LinePaid, Paid
  <2> QED BY <2>2, <2>3
<1> QED BY <1>1, <1>2 DEF BillsStay, LockBillDone

LEMMA ReconcileStays ==
  ASSUME Control, PaidLines, Reconcile
  PROVE  BillsStay /\ UNCHANGED <<section, row, account, entry, offsets>>
<1>1. PICK p \in Periods : ReconcileDone(p)
  BY ReconcileDoes DEF Control
<1>2. ASSUME NEW q \in Periods, NEW t \in Collabs
      PROVE  /\ bill'[q].pending = bill[q].pending
             /\ Paid(q, t)' <=> Paid(q, t)
             /\ Paid(q, t) => /\ bill'[q].line[t].offset = bill[q].line[t].offset
                              /\ bill'[q].line[t].cash = bill[q].line[t].cash
                              /\ bill'[q].status # "none"
             /\ t \in DOMAIN bill'[q].line /\ ~Paid(q, t) => bill'[q].line[t].cash = 0
  <2>1. LinePaid(q, t)
    BY DEF PaidLines
  <2>2. CASE q = p
    <3>1. /\ bill'[p].pending = bill[p].pending
          /\ DOMAIN bill'[p].line = DOMAIN bill[p].line
          /\ \A u \in DOMAIN bill[p].line : LineReconciled(p, u, bill'[p].line[u])
          /\ bill'[p].status \in {"locked", "paid", "cancelled"}
      BY <1>1 DEF ReconcileDone, BillReconciled
    <3>2. t \in DOMAIN bill[p].line =>
            /\ bill'[p].line[t].paid <=> bill[p].line[t].paid
            /\ bill'[p].line[t].cash = bill[p].line[t].cash
            /\ bill[p].line[t].paid => bill'[p].line[t].offset = bill[p].line[t].offset
      BY <3>1 DEF LineReconciled
    <3> QED BY <2>1, <2>2, <3>1, <3>2 DEF LinePaid, Paid
  <2>3. CASE q # p
    <3>1. bill'[q] = bill[q]
      BY <1>1, <2>3 DEF ReconcileDone
    <3> QED BY <2>1, <3>1 DEF LinePaid, Paid
  <2> QED BY <2>2, <2>3
<1>3. UNCHANGED <<section, row, account, entry, offsets>>
  BY <1>1 DEF ReconcileDone
<1>4. \A q \in Periods : bill'[q].pending = bill[q].pending
  BY <1>1 DEF ReconcileDone, BillReconciled
<1>5. BillsStay
  BY <1>2, <1>4 DEF BillsStay
<1> QED BY <1>3, <1>5

LEMMA CreateBillStays ==
  ASSUME Control, PaidLines, CreateBill
  PROVE  /\ BillsStay /\ section'.pc \in {"books", "entries"}
         /\ UNCHANGED <<row, account, entry, offsets>>
<1>1. PICK p \in Periods : CreateBillDone(p)
  BY CreateBillDoes DEF Control
<1>2. CASE UNCHANGED <<bill, order>> /\ Worked(FALSE)
  <2>1. UNCHANGED bill /\ section'.pc = "books"
    BY <1>2 DEF Worked
  <2> QED BY <1>1, <2>1, BillsAsTheyAre DEF CreateBillDone
<1>3. CASE ~(UNCHANGED <<bill, order>> /\ Worked(FALSE))
  <2>1. /\ bill[p].status = "none" /\ bill'[p].status = "locking" /\ bill'[p].pending = None
        /\ \A q \in Periods : q # p => bill'[q] = bill[q]
        /\ \A t \in DOMAIN bill'[p].line : \E net : bill'[p].line[t] = NewLine(net)
        /\ section'.pc = "entries"
    BY <1>1, <1>3 DEF CreateBillDone
  <2>2. ASSUME NEW q \in Periods, NEW t \in Collabs
        PROVE  /\ bill'[q].pending = bill[q].pending
               /\ Paid(q, t)' <=> Paid(q, t)
               /\ Paid(q, t) => /\ bill'[q].line[t].offset = bill[q].line[t].offset
                                /\ bill'[q].line[t].cash = bill[q].line[t].cash
                                /\ bill'[q].status # "none"
               /\ t \in DOMAIN bill'[q].line /\ ~Paid(q, t) => bill'[q].line[t].cash = 0
    <3>1. LinePaid(q, t)
      BY DEF PaidLines
    <3>2. CASE q = p
      <4>1. ~Paid(p, t) /\ bill[p].pending = None
        BY <2>1, <3>1, <3>2 DEF LinePaid, Control, Covered
      <4>2. t \in DOMAIN bill'[p].line => ~bill'[p].line[t].paid /\ bill'[p].line[t].cash = 0
        <5>1. \A net : NewLine(net).paid = FALSE /\ NewLine(net).cash = 0
          BY DEF NewLine
        <5> QED BY <2>1, <5>1
      <4> QED BY <2>1, <3>2, <4>1, <4>2 DEF Paid
    <3>3. CASE q # p
      <4>1. bill'[q] = bill[q]
        BY <2>1, <3>3
      <4> QED BY <3>1, <4>1 DEF LinePaid, Paid
    <3> QED BY <3>2, <3>3
  <2>3. BillsStay
    <3>1. bill[p].pending = None
      BY <2>1 DEF Control, Covered
    <3>2. \A q \in Periods : bill'[q].pending = bill[q].pending
      BY <2>1, <3>1
    <3> QED BY <2>2, <3>2 DEF BillsStay
  <2>4. UNCHANGED <<row, account, entry, offsets>>
    BY <1>1 DEF CreateBillDone
  <2> QED BY <2>1, <2>3, <2>4
<1> QED BY <1>2, <1>3

LEMMA PaidLinesInit == BillsInit => PaidLines
<1> SUFFICES ASSUME BillsInit PROVE PaidLines
  OBVIOUS
<1>1. ASSUME NEW p \in Periods, NEW t \in Collabs
      PROVE  LinePaid(p, t)
  <2>1. bill[p] = NoBill /\ DOMAIN bill[p].line = {} /\ bill[p].pending = None
    BY DEF BillsInit, NoBill
  <2>2. ~Covers(p, t) /\ ~Paid(p, t) /\ PaidIn(p, t) = {}
    BY <2>1 DEF Covers, Paid, PaidIn, BillsInit
  <2> QED BY <2>1, <2>2 DEF LinePaid
<1>2. \A p \in Periods : bill[p].pending = None
  BY DEF BillsInit, NoBill
<1> QED BY <1>1, <1>2 DEF PaidLines, BillsInit, NoSection, Payment

\* Where a section is in a payment, it stays, and knows no more.
LEMMA PaidLinesStay ==
  ASSUME Control, Control', PaidLines, BillsStay,
         \A c \in Rows : row'[c].status = "paid_out" <=> row[c].status = "paid_out",
         section'.pc \in Payment \ {"rows"} =>
           section.pc \in Payment \ {"rows"} /\ section'.p = section.p
  PROVE  PaidLines'
<1>1. ASSUME NEW p \in Periods, NEW t \in Collabs
      PROVE  LinePaid(p, t)'
  <2>1. LinePaid(p, t)
    BY DEF PaidLines
  <2>2. /\ Covers(p, t)' <=> Covers(p, t)
        /\ Paid(p, t)' <=> Paid(p, t)
        /\ Due(p, t)' = Due(p, t)
    BY DuesStay
  <2>3. PaidIn(p, t)' = PaidIn(p, t)
    BY DEF PaidIn
  <2>4. bill'[p].pending = bill[p].pending /\ RowsOf(p, t)' = RowsOf(p, t)
    BY DEF BillsStay, RowsOf
  <2>5. /\ Paid(p, t) => /\ bill'[p].line[t].cash = bill[p].line[t].cash
                         /\ bill'[p].status # "none"
        /\ t \in DOMAIN bill'[p].line /\ ~Paid(p, t) => bill'[p].line[t].cash = 0
    BY DEF BillsStay
  <2> QED BY <2>1, <2>2, <2>3, <2>4, <2>5 DEF LinePaid, Worth
<1>2. \A p \in Periods : bill'[p].pending = bill[p].pending
  BY DEF BillsStay
<1>3. section'.pc \in Payment \ {"rows"} =>
        \A c \in bill'[section'.p].pending.rows : row'[c].status = "paid_out"
  <2>1. SUFFICES ASSUME section'.pc \in Payment \ {"rows"}
                 PROVE  \A c \in bill'[section'.p].pending.rows : row'[c].status = "paid_out"
    OBVIOUS
  <2>2. section.pc \in Payment /\ section'.p = section.p
    BY <2>1
  <2>3. section.p \in Periods /\ bill[section.p].pending \in Payments
    BY <2>2 DEF Control, Typed, Placed
  <2>4. bill'[section.p].pending = bill[section.p].pending
        /\ bill[section.p].pending.rows \subseteq Rows
    BY <1>2, <2>3, PaymentIs
  <2> QED BY <2>1, <2>2, <2>4 DEF PaidLines
<1> QED BY <1>1, <1>2, <1>3 DEF PaidLines

\* Steps that neither pay nor claw back.
Unpaying ==
  \/ \E k \in Requests : Ask(k) \/ Acquire(k) \/ Busy(k) \/ Break(k)
  \/ Unlock \/ Recover \/ BillRows \/ LockBill \/ Reconcile \/ Reconciles
  \/ Refresh \/ CreateBill \/ CancelRow

RowsStay == \A c \in Rows : row'[c].status = "paid_out" <=> row[c].status = "paid_out"

\* The section is where it was, or outside a payment and a debt.
Elsewhere == section' = section \/ section'.pc \notin (Payment \ {"rows"}) \cup {"flag"}

LEMMA RequestsAreElsewhere ==
  ASSUME Control, NEW k \in Requests, Ask(k) \/ Acquire(k) \/ Busy(k) \/ Break(k) \/ Unlock
  PROVE  UNCHANGED books /\ Elsewhere
<1>1. UNCHANGED books
  BY DEF Ask, Acquire, Busy, Break, Unlock
<1>2. section' = section \/ section'.pc = "entries"
  <2>1. CASE Acquire(k)
    <3>1. section' = [NoSection EXCEPT !.by = k] /\ k \in Requests \cup {None, Dead}
      BY <2>1 DEF Acquire
    <3> QED BY <3>1, NoSectionIs
  <2>2. CASE Break(k) \/ Unlock
    <3>1. \/ section' = NoSection
          \/ section' = [NoSection EXCEPT !.by = Dead] /\ Dead \in Requests \cup {None, Dead}
      BY <2>2 DEF Break, Unlock
    <3> QED BY <3>1, NoSectionIs
  <2> QED BY <2>1, <2>2 DEF Ask, Busy
<1> QED BY <1>1, <1>2 DEF Elsewhere, Payment

LEMMA UnpayingDoes ==
  ASSUME Control, PaidLines, Unpaying
  PROVE  BillsStay /\ RowsStay /\ Elsewhere /\ UNCHANGED <<account, entry, offsets>>
<1>1. CASE \/ \E k \in Requests : Ask(k) \/ Acquire(k) \/ Busy(k) \/ Break(k)
           \/ Unlock \/ Recover \/ Reconciles \/ Refresh
  <2>1. UNCHANGED books /\ Elsewhere
    <3>1. CASE \E k \in Requests : Ask(k) \/ Acquire(k) \/ Busy(k) \/ Break(k)
      BY <3>1, RequestsAreElsewhere
    <3>2. CASE Unlock
      BY <3>2, NoSectionIs DEF Unlock, Elsewhere, Payment
    <3>3. CASE Recover
      <4>1. UNCHANGED books
        BY <3>3 DEF Recover
      <4>2. section'.pc \in {"debt", "pending", "rows", "locking", "bill", "books"}
        BY <3>3, TypedAre DEF Recover, Goto, Control, Sections
      <4> QED BY <4>1, <4>2 DEF Elsewhere, Payment
    <3>4. CASE Reconciles
      <4>1. section'.pc \in {"work", "entries"}
        BY <3>4, NoSectionIs, TypedAre DEF Reconciles, Control, Sections
      <4> QED BY <3>4, <4>1 DEF Elsewhere, Payment, Reconciles
    <3>5. CASE Refresh
      BY <3>5, TypedRefresh DEF Worked, Elsewhere, Payment, Control
    <3> QED BY <1>1, <3>1, <3>2, <3>3, <3>4, <3>5
  <2>2. UNCHANGED bill /\ UNCHANGED row /\ UNCHANGED <<account, entry, offsets>>
    BY <2>1 DEF books
  <2> QED BY <2>1, <2>2, BillsAsTheyAre DEF RowsStay
<1>2. CASE BillRows
  <2>1. PICK p \in Periods : BillRowsDone(p)
    BY <1>2, BillRowsDoes DEF Control
  <2>2. BillsStay
    BY <2>1, BillsAsTheyAre DEF BillRowsDone
  <2>3. RowsStay
    BY <2>1 DEF BillRowsDone, RowsStay
  <2> QED BY <2>1, <2>2, <2>3 DEF BillRowsDone, Elsewhere, Payment
<1>3. CASE LockBill
  BY <1>3, LockBillStays DEF RowsStay, Elsewhere, Payment
<1>4. CASE Reconcile
  BY <1>4, ReconcileStays DEF RowsStay, Elsewhere
<1>5. CASE CreateBill
  BY <1>5, CreateBillStays DEF RowsStay, Elsewhere, Payment
<1>6. CASE CancelRow
  <2>1. PICK c \in Rows : CancelDone(c)
    BY <1>6, CancelDoes DEF Control
  <2>2. BillsStay
    BY <2>1, BillsAsTheyAre DEF CancelDone
  <2>3. RowsStay
    BY <2>1 DEF CancelDone, RowsStay
  <2> QED BY <2>1, <2>2, <2>3 DEF CancelDone, Worked, Elsewhere, Payment
<1> QED BY <1>1, <1>2, <1>3, <1>4, <1>5, <1>6 DEF Unpaying

LEMMA PaidLinesUnpaying ==
  ASSUME Control, Control', PaidLines, Unpaying
  PROVE  PaidLines'
<1>1. BillsStay /\ RowsStay /\ Elsewhere
  BY UnpayingDoes
<1>2. section'.pc \in Payment \ {"rows"} =>
        section.pc \in Payment \ {"rows"} /\ section'.p = section.p
  BY <1>1 DEF Elsewhere
<1> QED BY <1>1, <1>2, PaidLinesStay DEF RowsStay

LEMMA PaidLinesOthers ==
  ASSUME Control, Control', PaidLines, Finishing,
         \/ AddDebt \/ FlagEntry \/ Clawback \/ (\E t \in Collabs : Settle(t))
         \/ OffsetEntry \/ Recovered
  PROVE  PaidLines'
<1>0. Typed
  BY DEF Control
<1> SUFFICES /\ UNCHANGED <<row, bill>>
             /\ section'.pc \in Payment \ {"rows"} =>
                  section.pc \in Payment \ {"rows"} /\ section'.p = section.p
  BY PaidLinesStay, BillsAsTheyAre
<1>1. CASE AddDebt
  BY <1>0, <1>1, TypedGoto DEF AddDebt, Payment
<1>2. CASE FlagEntry
  <2>1. section'.pc \in {"books", "entries"}
    BY <1>2, TypedAre DEF FlagEntry, Control, Sections
  <2> QED BY <1>2, <2>1 DEF FlagEntry, Payment
<1>3. CASE Clawback
  BY <1>0, <1>3, ClawbackDoes DEF ClawbackDone, Worked, Payment
<1>4. CASE \E t \in Collabs : Settle(t)
  <2>1. PICK t \in Collabs : Settle(t)
    BY <1>4
  <2>2. section.pc = "settle" /\ section'.p = section.p /\ UNCHANGED <<row, bill>>
    BY <1>0, <2>1, SettleDoes, DebtIsThere DEF SettleDone
  <2> QED BY <2>2 DEF Payment
<1>5. CASE OffsetEntry
  BY <1>0, <1>5, OffsetEntryDoes DEF OffsetEntryDone, Payment
<1>6. CASE Recovered
  BY <1>0, <1>6, RecoveredDoes DEF RecoveredDone, Payment
<1> QED BY <1>1, <1>2, <1>3, <1>4, <1>5, <1>6

LEMMA PaidLinesPayRows ==
  ASSUME Control, Control', Finishing, PaidLines, PayRows
  PROVE  PaidLines'
<1>1. PICK p \in Periods, op \in Payments :
        /\ Finishes(p, op) /\ PayRowsDone(p, op)
        /\ \A c \in op.rows : /\ c \in Rows /\ row[c].billed /\ Period[c] = p
                              /\ row[c].status \in {"billed", "paid_out"}
                              /\ row'[c].status = "paid_out" /\ row'[c].by = p
  BY RowsArePaid
<1>2. UNCHANGED bill /\ BillsStay
  BY <1>1, BillsAsTheyAre DEF PayRowsDone
<1>3. bill[p].pending = op /\ op # None /\ section.p = p
  BY <1>1, ConstantsAre DEF Finishes
<1>4. \A c \in Rows : row'[c].status = "paid_out" <=> row[c].status = "paid_out" \/ c \in op.rows
  BY <1>1 DEF PayRowsDone
<1>5. ASSUME NEW q \in Periods, NEW t \in Collabs
      PROVE  LinePaid(q, t)'
  <2>1. LinePaid(q, t)
    BY DEF PaidLines
  <2>2. /\ Covers(q, t)' <=> Covers(q, t)
        /\ Paid(q, t)' <=> Paid(q, t)
        /\ Due(q, t)' = Due(q, t) /\ RowsOf(q, t)' = RowsOf(q, t)
    BY <1>2, DuesStay DEF RowsOf
  <2>3. CASE q = p /\ Covers(p, t)
    <3>1. PaidIn(p, t)' \subseteq RowsOf(p, t)
      BY <1>3, <1>4, <2>1, <2>3 DEF PaidIn, RowsOf, LinePaid
    <3> QED BY <1>2, <2>1, <2>2, <2>3, <3>1 DEF LinePaid, Worth
  <2>4. CASE q # p \/ ~Covers(p, t)
    <3>1. \A c \in op.rows : ~(Period[c] = q /\ Collab[c] = t)
      <4>1. \A c \in op.rows : Collab[c] \in DOMAIN op.line /\ Period[c] = p
        BY <1>1, <1>3 DEF PaidLines
      <4> QED BY <1>3, <2>4, <4>1 DEF Covers
    <3>2. PaidIn(q, t)' = PaidIn(q, t)
      BY <1>4, <3>1 DEF PaidIn
    <3> QED BY <1>2, <2>1, <2>2, <3>2 DEF LinePaid, Worth
  <2> QED BY <2>3, <2>4
<1>6. \A q \in Periods : bill'[q].pending # None =>
        \A c \in bill'[q].pending.rows : Collab[c] \in DOMAIN bill'[q].pending.line
  BY <1>2 DEF PaidLines
<1>7. section'.pc \in Payment \ {"rows"} =>
        \A c \in bill'[section'.p].pending.rows : row'[c].status = "paid_out"
  <2>1. section'.p = p
    BY <1>1, <1>3 DEF PayRowsDone
  <2> QED BY <1>1, <1>2, <1>3, <2>1
<1> QED BY <1>5, <1>6, <1>7 DEF PaidLines

LEMMA PaidLinesClose ==
  ASSUME Control, Control', Finishing, PaidLines, CloseBill
  PROVE  /\ PaidLines'
         /\ \A p \in Periods : \A t \in Collabs : Due(p, t)' = Due(p, t)
         /\ \A p \in Periods : \A t \in Collabs : Paid(p, t) => Paid(p, t)'
         /\ \A p \in Periods : \A t \in Collabs : ~Covers(p, t)'
<1>1. PICK p \in Periods, op \in Payments : Finishes(p, op) /\ CloseBillDone(p, op)
  BY CloseBillDoes DEF Control
<1>2. section.pc = "close"
  BY CloseBillDoes DEF Control
<1>3. /\ bill[p].pending = op /\ op # None /\ section.p = p
      /\ DOMAIN op.line \subseteq DOMAIN bill[p].line
  BY <1>1, ConstantsAre DEF Finishes
<1>4. /\ bill'[p].pending = None
      /\ \A q \in Periods : q # p => bill'[q] = bill[q]
      /\ DOMAIN bill'[p].line = DOMAIN bill[p].line
      /\ bill'[p].status \in {"paid", bill[p].status}
      /\ \A t \in DOMAIN bill[p].line :
           IF t \in DOMAIN op.line
           THEN /\ bill'[p].line[t].paid
                /\ bill'[p].line[t].cash = op.line[t].net
                /\ bill'[p].line[t].offset = op.line[t].offset
           ELSE bill'[p].line[t] = bill[p].line[t]
      /\ UNCHANGED row
  BY <1>1 DEF CloseBillDone
<1>5. \A q \in Periods : bill[q].pending # None => q = p
  BY <1>3 DEF Control, Unfinished
<1>6. \A c \in op.rows : row[c].status = "paid_out" /\ Period[c] = p
  BY <1>2, <1>3 DEF PaidLines, Payment, Finishing, MayFinish
<1>7. ASSUME NEW q \in Periods, NEW t \in Collabs
      PROVE  LinePaid(q, t)' /\ Due(q, t)' = Due(q, t) /\ (Paid(q, t) => Paid(q, t)')
             /\ ~Covers(q, t)'
  <2>1. LinePaid(q, t)
    BY DEF PaidLines
  <2>2. PaidIn(q, t)' = PaidIn(q, t)
    BY <1>4 DEF PaidIn
  <2>3. CASE q # p
    <3>1. bill'[q] = bill[q] /\ bill[q].pending = None
      BY <1>4, <1>5, <2>3
    <3>2. ~Covers(q, t) /\ ~Covers(q, t)' /\ (Paid(q, t)' <=> Paid(q, t))
      BY <3>1 DEF Covers, Paid
    <3>3. Due(q, t)' = Due(q, t)
      BY <3>1, <3>2 DEF Due
    <3> QED BY <2>1, <2>2, <3>1, <3>2, <3>3 DEF LinePaid, Worth
  <2>4. CASE q = p /\ t \in DOMAIN op.line
    <3>1. Covers(p, t) /\ ~Covers(p, t)' /\ Paid(p, t)' /\ ~Paid(p, t)
      BY <1>3, <1>4, <2>1, <2>4 DEF Covers, Paid, LinePaid
    <3>2. Due(p, t)' = op.line[t].offset /\ Due(p, t) = op.line[t].offset
      BY <1>3, <1>4, <2>4, <3>1 DEF Due
    <3>3. PaidIn(p, t) = RowsOf(p, t)
      <4>1. op.rows \subseteq Rows
        BY PaymentIs
      <4> QED BY <1>3, <1>6, <2>1, <2>4, <3>1, <4>1 DEF LinePaid, PaidIn, RowsOf
    <3>4. bill'[p].line[t].cash = op.line[t].net /\ bill'[p].status # "none"
      BY <1>3, <1>4, <2>4 DEF Control, Covered
    <3>5. op.line[t].net + Due(p, t) = Worth(PaidIn(p, t))
      BY <1>3, <2>1, <2>4, <3>1, <3>3 DEF LinePaid
    <3>6. bill'[p].line[t].cash + Due(p, t)' = Worth(PaidIn(p, t)')
      BY <2>2, <2>4, <3>2, <3>4, <3>5
    <3> QED BY <2>4, <3>1, <3>2, <3>4, <3>6 DEF LinePaid, Worth
  <2>5. CASE q = p /\ t \notin DOMAIN op.line
    <3>1. ~Covers(p, t) /\ ~Covers(p, t)' /\ (Paid(p, t)' <=> Paid(p, t))
          /\ (t \in DOMAIN bill[p].line => bill'[p].line[t] = bill[p].line[t])
      BY <1>3, <1>4, <2>5 DEF Covers, Paid
    <3>2. Due(p, t)' = Due(p, t)
      BY <3>1 DEF Due, Paid
    <3> QED BY <1>4, <2>1, <2>2, <2>5, <3>1, <3>2 DEF LinePaid, Worth, Paid
  <2> QED BY <2>3, <2>4, <2>5
<1>8. \A q \in Periods : bill'[q].pending = None
  BY <1>4, <1>5
<1>9. section'.pc \notin Payment
  BY <1>1 DEF CloseBillDone, Payment
<1> QED BY <1>7, <1>8, <1>9 DEF PaidLines

\* What a confirmed payment adds to the books.
Confirmed(p) ==
  /\ bill[p].status = "locked" /\ bill'[p].status = bill[p].status
  /\ \A q \in Periods : \A t \in Collabs : ~Covers(q, t)
  /\ \A q \in Periods : \A t \in Collabs : Paid(q, t)' <=> Paid(q, t)
  /\ \A q \in Periods : bill'[q].line = bill[q].line /\ bill'[q].status = bill[q].status
  /\ \A q \in Periods : q # p => bill'[q].pending = None
  /\ \A q \in Periods : \A t \in Collabs : Covers(q, t)' <=> q = p /\ t \in Unpaid(p)
  /\ \A q \in Periods : \A t \in Collabs : ~(q = p /\ t \in Unpaid(p)) => Due(q, t)' = Due(q, t)
  /\ bill'[p].pending \in Payments /\ bill'[p].pending.rows = Payable(p)
  /\ DOMAIN bill'[p].pending.line = Unpaid(p)
  /\ \A t \in Unpaid(p) :
       /\ t \in Collabs /\ ~Paid(p, t) /\ Due(p, t) = 0
       /\ Due(p, t)' = Offset(p, t)
       /\ bill'[p].pending.line[t].net = Effective(p, t) - Offset(p, t)
       /\ bill'[p].pending.line[t].recover = Recovery(t, Offset(p, t))
  /\ UNCHANGED <<row, account, entry, offsets>> /\ UNCHANGED ledger
  /\ section'.pc = "rows" /\ section.phase = "work" /\ section.pc = "work"

LEMMA ConfirmAdds ==
  ASSUME Control, Finishing, ConfirmPayment
  PROVE  \/ UNCHANGED <<row, bill, account, entry, offsets>> /\ section'.pc = "books"
         \/ \E p \in Periods : Confirmed(p)
<1>1. PICK p \in Periods : ConfirmDone(p)
  BY ConfirmDoes DEF Control
<1>2. section.pc = "work" /\ ToReconcile = {}
  BY ConfirmDoes DEF Control, Finishing
<1>3. \A q \in Periods : bill[q].pending = None
  BY <1>2, AtWork
<1>4. CASE UNCHANGED bill /\ Worked(FALSE)
  BY <1>1, <1>4 DEF ConfirmDone, Worked
<1>5. CASE ~(UNCHANGED bill /\ Worked(FALSE))
  <2>1. /\ bill[p].status = "locked" /\ bill'[p].status = bill[p].status
        /\ \A q \in Periods : q # p => bill'[q] = bill[q]
        /\ bill'[p].line = bill[p].line
        /\ bill'[p].pending \in Payments
        /\ bill'[p].pending.rows = Payable(p)
        /\ DOMAIN bill'[p].pending.line = Unpaid(p)
        /\ section'.pc = "rows"
        /\ section'.phase = section.phase
    BY <1>1, <1>5 DEF ConfirmDone
  <2>2. \A t \in Unpaid(p) :
             /\ bill'[p].pending.line[t].net = bill[p].line[t].net
             /\ bill'[p].pending.line[t].offset = bill[p].line[t].offset
             /\ bill'[p].pending.line[t].recover = Recovery(t, bill[p].line[t].offset)
    BY <1>1, <1>5 DEF ConfirmDone
  <2>3. UNCHANGED <<row, account, entry, offsets>> /\ UNCHANGED ledger
    BY <1>1 DEF ConfirmDone
  <2>4. section.phase = "work"
    BY <1>2, AtWork DEF Control, Staged
  <2>5. bill'[p].pending # None
    BY <2>1, ConstantsAre
  <2>6. \A q \in Periods : /\ bill'[q].line = bill[q].line /\ bill'[q].status = bill[q].status
                           /\ q # p => bill'[q].pending = None
    BY <1>3, <2>1
  <2>7. \A q \in Periods : \A t \in Collabs :
          /\ ~Covers(q, t)
          /\ Paid(q, t)' <=> Paid(q, t)
          /\ Covers(q, t)' <=> q = p /\ t \in Unpaid(p)
    BY <1>3, <2>1, <2>5, <2>6 DEF Covers, Paid
  <2>8. \A q \in Periods : \A t \in Collabs : ~(q = p /\ t \in Unpaid(p)) => Due(q, t)' = Due(q, t)
    BY <2>6, <2>7 DEF Due
  <2>9. ASSUME NEW t \in Unpaid(p)
        PROVE  /\ t \in Collabs /\ ~Paid(p, t) /\ Due(p, t) = 0
               /\ Due(p, t)' = Offset(p, t)
               /\ bill'[p].pending.line[t].net = Effective(p, t) - Offset(p, t)
               /\ bill'[p].pending.line[t].recover = Recovery(t, Offset(p, t))
    <3>1. /\ t \in Collabs /\ ~Paid(p, t)
          /\ bill[p].line[t].offset = Offset(p, t)
          /\ bill[p].line[t].net = Effective(p, t) - Offset(p, t)
      BY <1>2, <2>1, ConfirmedSays DEF Paid
    <3>2. Due(p, t) = 0 /\ Covers(p, t)'
      BY <2>7, <3>1 DEF Due
    <3>3. Due(p, t)' = Offset(p, t)
      BY <2>2, <3>1, <3>2 DEF Due
    <3> QED BY <2>2, <3>1, <3>2, <3>3
  <2>10. Confirmed(p)
    BY <1>2, <2>1, <2>3, <2>4, <2>6, <2>7, <2>8, <2>9 DEF Confirmed
  <2> QED BY <2>10
<1> QED BY <1>4, <1>5

LEMMA PaidLinesConfirm ==
  ASSUME Control, Control', Finishing, PaidLines, ConfirmPayment
  PROVE  PaidLines'
<1>1. CASE UNCHANGED <<row, bill, account, entry, offsets>> /\ section'.pc = "books"
  BY <1>1, BillsAsTheyAre, PaidLinesStay DEF Payment
<1>2. CASE ~(UNCHANGED <<row, bill, account, entry, offsets>> /\ section'.pc = "books")
  <2>1. PICK p \in Periods : Confirmed(p)
    BY <1>2, ConfirmAdds
  <2>2. ASSUME NEW q \in Periods, NEW t \in Collabs
        PROVE  LinePaid(q, t)'
    <3>1. LinePaid(q, t) /\ ~Covers(q, t)
      BY <2>1 DEF PaidLines, Confirmed
    <3>2. PaidIn(q, t)' = PaidIn(q, t)
      BY <2>1 DEF PaidIn, Confirmed
    <3>3. bill'[q].line = bill[q].line /\ bill'[q].status = bill[q].status
          /\ (Paid(q, t)' <=> Paid(q, t))
      BY <2>1 DEF Confirmed
    <3>4. CASE q = p /\ t \in Unpaid(p)
      <4>1. /\ ~Paid(p, t) /\ Covers(p, t)' /\ Due(p, t)' = Offset(p, t)
            /\ bill'[p].pending.line[t].net = Effective(p, t) - Offset(p, t)
            /\ bill'[p].pending.rows = Payable(p)
        BY <2>1, <3>4 DEF Confirmed
      <4>2. PaidIn(p, t) = {}
        BY <3>1, <3>4, <4>1 DEF LinePaid
      <4>3. RowsOf(p, t)' = {c \in InBill(p, t) : row[c].status \in {"billed", "paid_out"}}
        <5>1. RowsOf(p, t)' = {c \in Payable(p) : Collab[c] = t}
          BY <4>1 DEF RowsOf
        <5> QED BY <3>4, <4>2, <5>1 DEF Payable, InBill, PaidIn
      <4>4. Effective(p, t) = Worth(RowsOf(p, t)')
        BY <4>3 DEF Effective
      <4>5. Offset(p, t) \in Nat /\ Effective(p, t) \in Nat
        BY OffsetIs, EffectiveNat DEF Control
      <4>6. bill'[p].pending.line[t].net + Due(p, t)' = Effective(p, t)
        BY <4>1, <4>5
      <4>7. Worth(RowsOf(p, t))' = Worth(RowsOf(p, t)')
        BY DEF Worth
      <4>8. bill'[p].pending.line[t].net + Due(p, t)' = Worth(RowsOf(p, t))'
        BY <4>4, <4>6, <4>7
      <4>9. PaidIn(p, t)' \subseteq RowsOf(p, t)'
        BY <3>2, <3>4, <4>2
      <4> QED BY <3>1, <3>3, <3>4, <4>1, <4>8, <4>9 DEF LinePaid
    <3>5. CASE ~(q = p /\ t \in Unpaid(p))
      <4>1. ~Covers(q, t)' /\ Due(q, t)' = Due(q, t)
        BY <2>1, <3>5 DEF Confirmed
      <4> QED BY <3>1, <3>2, <3>3, <4>1 DEF LinePaid, Worth
    <3> QED BY <3>4, <3>5
  <2>3. \A q \in Periods : bill'[q].pending # None =>
          \A c \in bill'[q].pending.rows : Collab[c] \in DOMAIN bill'[q].pending.line
    BY <2>1 DEF Confirmed, Payable
  <2> QED BY <2>1, <2>2, <2>3 DEF PaidLines, Confirmed
<1> QED BY <1>1, <1>2

LEMMA PaidLinesStep ==
  ASSUME Control, Control', Finishing, PaidLines, [BillsNext]_billVars
  PROVE  PaidLines'
<1>1. CASE UNCHANGED billVars
  <2>1. UNCHANGED <<row, bill, section>>
    BY <1>1 DEF billVars
  <2> QED BY <2>1, BillsAsTheyAre, PaidLinesStay
<1>2. CASE Unpaying
  BY <1>2, PaidLinesUnpaying
<1>3. CASE AddDebt \/ FlagEntry \/ Clawback \/ (\E t \in Collabs : Settle(t))
           \/ OffsetEntry \/ Recovered
  BY <1>3, PaidLinesOthers
<1>4. CASE PayRows \/ CloseBill \/ ConfirmPayment
  BY <1>4, PaidLinesPayRows, PaidLinesClose, PaidLinesConfirm
<1> QED BY <1>1, <1>2, <1>3, <1>4 DEF BillsNext, Unpaying

-----------------------------------------------------------------------------
(* How much of each clawback has come back: Recovered is told by payments  *)

Told(p, t) == \A c \in Rows : entry[c].recovered >= bill[p].pending.line[t].recover[c]

\* What a payment tells a clawback, and what it will have come back then.
Tells(p, t) ==
  \A c \in Rows : LET told == bill[p].pending.line[t].recover[c] IN
    told > 0 => /\ told <= Amount[c] /\ Collab[c] = t /\ entry[c].state # "none"
                /\ Due(p, t) > 0

\* A debt that was taken off is settled in the account and in the ledger.
Noted(p, t) == p \in account[t].settled /\ <<p, t, Due(p, t)>> \in offsets

BooksNoted ==
  /\ \A t \in Collabs : \A p \in account[t].settled : Due(p, t) > 0
  /\ \A o \in offsets : o[1] \in account[o[2]].settled /\ o[3] = Due(o[1], o[2])
  /\ \A p \in Periods : \A t \in Collabs : Paid(p, t) /\ Due(p, t) > 0 => Noted(p, t)

\* What a section that finishes a payment has noted already.
SectionNotes ==
  /\ section.pc \in Payment \ {"rows"} =>
       /\ \A t \in section.todo : Due(section.p, t) > 0
       /\ \A t \in DOMAIN bill[section.p].pending.line : t \notin section.todo =>
            /\ Due(section.p, t) > 0 => Noted(section.p, t)
            /\ Told(section.p, t)
       /\ section.pc = "close" => section.todo = {}
  /\ section.pc = "offset" => section.p \in account[section.t].settled
  /\ section.pc = "recovered" => Noted(section.p, section.t)

NotedDebts == BooksNoted /\ SectionNotes

LEMMA NotedInit == BillsInit => NotedDebts
  BY
  DEF BillsInit, NotedDebts, BooksNoted, SectionNotes, NoSection, Payment, Paid, NoBill

\* Where Noted points.
LEMMA NotedAre ==
  ASSUME Typed
  PROVE  /\ \A t \in Collabs : account[t].settled \in SUBSET Periods
         /\ \A o \in offsets : o[1] \in Periods /\ o[2] \in Collabs /\ o = <<o[1], o[2], o[3]>>
         /\ section.pc \in Payment \ {"rows"} =>
              /\ section.p \in Periods /\ bill[section.p].pending \in Payments
              /\ bill[section.p].pending # None
              /\ section.todo \in SUBSET DOMAIN bill[section.p].pending.line
              /\ DOMAIN bill[section.p].pending.line \in SUBSET Collabs
         /\ section.pc \in {"offset", "recovered"} => section.t \in section.todo
<1>1. \A t \in Collabs : account[t].settled \in SUBSET Periods
  BY TypedAre DEF Accounts
<1>2. \A o \in offsets : o[1] \in Periods /\ o[2] \in Collabs /\ o = <<o[1], o[2], o[3]>>
  BY DEF Typed, BillsTypeOK
<1>3. section.pc \in Payment \ {"rows"} =>
        /\ section.p \in Periods /\ bill[section.p].pending \in Payments
        /\ section.todo \in SUBSET DOMAIN bill[section.p].pending.line
  BY DEF Typed, Placed
<1>4. section.pc \in {"offset", "recovered"} => section.t \in section.todo
  BY DEF Typed, Placed
<1> QED BY <1>1, <1>2, <1>3, <1>4, ConstantsAre, PaymentIs

LEMMA NotedStay ==
  ASSUME Control, Control', NotedDebts,
         \A p \in Periods : \A t \in Collabs :
           /\ Due(p, t)' = Due(p, t)
           /\ Paid(p, t)' => Paid(p, t),
         \A t \in Collabs : account'[t].settled = account[t].settled,
         UNCHANGED offsets,
         \A c \in Rows : entry'[c].recovered >= entry[c].recovered,
         section'.pc \in Payment \ {"rows"} => section' = section /\ UNCHANGED bill
  PROVE  NotedDebts'
<1>0. Typed /\ Typed'
  BY DEF Control
<1>1. \A p \in Periods : \A t \in Collabs : Noted(p, t)' <=> Noted(p, t)
  BY DEF Noted
<1>2. \A t \in Collabs : \A p \in account'[t].settled : Due(p, t)' > 0
  BY <1>0, NotedAre DEF NotedDebts, BooksNoted, SectionNotes
<1>3. \A o \in offsets' : o[1] \in account'[o[2]].settled /\ o[3] = Due(o[1], o[2])'
  BY <1>0, NotedAre DEF NotedDebts, BooksNoted, SectionNotes
<1>4. \A p \in Periods : \A t \in Collabs : Paid(p, t)' /\ Due(p, t)' > 0 => Noted(p, t)'
  BY <1>1 DEF NotedDebts, BooksNoted, SectionNotes
<1>5. CASE section'.pc \in Payment \ {"rows"}
  <2>1. section' = section /\ UNCHANGED bill /\ section.pc \in Payment \ {"rows"}
    BY <1>5
  <2>2. /\ section.p \in Periods /\ bill[section.p].pending \in Payments
        /\ section.todo \in SUBSET DOMAIN bill[section.p].pending.line
        /\ DOMAIN bill[section.p].pending.line \in SUBSET Collabs
        /\ section.pc \in {"offset", "recovered"} => section.t \in section.todo
    BY <1>0, <2>1, NotedAre
  <2>3. PICK p \in Periods, op \in Payments : p = section.p /\ op = bill[p].pending
    BY <2>2
  <2>4. PICK u, todo, pc : u = section.t /\ todo = section.todo /\ pc = section.pc
    OBVIOUS
  <2>5. ASSUME NEW t \in DOMAIN op.line, Told(p, t)
        PROVE  Told(p, t)'
    <3>1. ASSUME NEW c \in Rows
          PROVE  entry'[c].recovered >= op.line[t].recover[c]
      <4>1. entry[c].recovered >= op.line[t].recover[c]
        BY <2>3, <2>5 DEF Told
      <4>2. entry'[c].recovered \in Nat /\ entry[c].recovered \in Nat
        BY <1>0 DEF Typed, BillsTypeOK
      <4>3. op.line[t].recover[c] \in Nat
        BY PaymentIs
      <4>4. entry'[c].recovered >= entry[c].recovered
        OBVIOUS
      <4> QED BY <4>1, <4>2, <4>3, <4>4
    <3> QED BY <2>1, <2>3, <3>1 DEF Told
  <2>6. /\ \A t \in todo : Due(p, t) > 0
        /\ \A t \in DOMAIN op.line : t \notin todo =>
             /\ Due(p, t) > 0 => Noted(p, t)
             /\ Told(p, t)
        /\ pc = "close" => todo = {}
        /\ pc = "offset" => p \in account[u].settled
        /\ pc = "recovered" => Noted(p, u)
    BY <2>1, <2>3, <2>4 DEF NotedDebts, BooksNoted, SectionNotes
  <2>7. /\ todo \in SUBSET DOMAIN op.line /\ DOMAIN op.line \in SUBSET Collabs
        /\ pc \in {"offset", "recovered"} => u \in Collabs
    BY <2>2, <2>3, <2>4
  <2>8. \A t \in todo : Due(p, t)' > 0
    BY <2>6, <2>7
  <2>9. \A t \in DOMAIN op.line : t \notin todo =>
             /\ Due(p, t)' > 0 => Noted(p, t)'
             /\ Told(p, t)'
    BY <1>1, <2>5, <2>6, <2>7
  <2>10. /\ pc = "offset" => p \in account'[u].settled
         /\ pc = "recovered" => Noted(p, u)'
    BY <1>1, <2>6, <2>7
  <2>11. section'.p = p /\ section'.todo = todo /\ section'.pc = pc
         /\ section'.t = u /\ bill'[p].pending = op
    BY <2>1, <2>3, <2>4
  <2> QED BY <1>2, <1>3, <1>4, <2>6, <2>8, <2>9, <2>10, <2>11
          DEF NotedDebts, BooksNoted, SectionNotes
<1>6. CASE section'.pc \notin Payment \ {"rows"}
  BY <1>2, <1>3, <1>4, <1>6 DEF NotedDebts, BooksNoted, SectionNotes, Payment
<1> QED BY <1>5, <1>6

LEMMA NotedUnpaying ==
  ASSUME Control, Control', PaidLines, NotedDebts, Unpaying
  PROVE  NotedDebts'
<1>1. BillsStay /\ Elsewhere /\ UNCHANGED <<account, entry, offsets>>
  BY UnpayingDoes
<1>2. \A p \in Periods : \A t \in Collabs :
           /\ Due(p, t)' = Due(p, t)
           /\ Paid(p, t)' => Paid(p, t)
  BY <1>1, DuesStay
<1>3. \A c \in Rows : entry'[c].recovered >= entry[c].recovered
  <2>1. \A c \in Rows : entry[c].recovered \in Nat
    BY TypedAre DEF Control, Entries
  <2> QED BY <1>1, <2>1
<1>4. section'.pc \in Payment \ {"rows"} => section' = section /\ UNCHANGED bill
  <2>1. SUFFICES ASSUME section'.pc \in Payment \ {"rows"}
                 PROVE  section' = section /\ UNCHANGED bill
    OBVIOUS
  <2>2. section' = section /\ section.pc \in Payment \ {"rows"}
    BY <1>1, <2>1 DEF Elsewhere
  <2>3. section.by \in Requests
    BY <2>2 DEF Control, Typed, Placed, Payment
  <2>4. UNCHANGED bill
    <3>1. CASE \E k \in Requests : Ask(k) \/ Acquire(k) \/ Busy(k) \/ Break(k)
      BY <3>1, RequestsAreElsewhere DEF books
    <3>2. CASE Unlock \/ Recover \/ BillRows \/ Reconciles \/ Refresh \/ CancelRow
      BY <3>2 DEF Unlock, Recover, BillRows, Reconciles, Refresh, CancelRow, books
    <3>3. CASE LockBill \/ Reconcile \/ CreateBill
      BY <2>2, <3>3 DEF LockBill, Reconcile, CreateBill, Working, Here, Payment
    <3> QED BY <3>1, <3>2, <3>3 DEF Unpaying
  <2> QED BY <2>2, <2>4
<1> QED BY <1>1, <1>2, <1>3, <1>4, NotedStay

LEMMA BooksNotedStay ==
  ASSUME Typed, BooksNoted,
         \A p \in Periods : \A t \in Collabs :
           /\ Due(p, t)' = Due(p, t)
           /\ Paid(p, t)' => Paid(p, t),
         \A t \in Collabs : account'[t].settled = account[t].settled,
         UNCHANGED offsets
  PROVE  BooksNoted'
<1>1. \A p \in Periods : \A t \in Collabs : Noted(p, t)' <=> Noted(p, t)
  BY DEF Noted
<1>2. \A t \in Collabs : \A p \in account'[t].settled : Due(p, t)' > 0
  BY NotedAre DEF BooksNoted
<1>3. \A o \in offsets' : o[1] \in account'[o[2]].settled /\ o[3] = Due(o[1], o[2])'
  BY NotedAre DEF BooksNoted
<1>4. \A p \in Periods : \A t \in Collabs : Paid(p, t)' /\ Due(p, t)' > 0 => Noted(p, t)'
  BY <1>1 DEF BooksNoted
<1> QED BY <1>2, <1>3, <1>4 DEF BooksNoted

\* Payments and paid lines as they are, when the bills are.
LEMMA SameBills ==
  ASSUME PaidLines, UNCHANGED bill
  PROVE  /\ BillsStay
         /\ \A p \in Periods : \A t \in Collabs :
              /\ Covers(p, t)' <=> Covers(p, t)
              /\ Paid(p, t)' <=> Paid(p, t)
              /\ Due(p, t)' = Due(p, t)
<1>1. BillsStay
  BY BillsAsTheyAre
<1> QED BY <1>1, DuesStay

\* The payment that a section finishes covers the lines it is recorded with.
LEMMA FinishesCovers ==
  ASSUME Typed, NEW p \in Periods, NEW op \in Payments, Finishes(p, op)
  PROVE  /\ section.p = p /\ bill[p].pending = op /\ op # None
         /\ \A t \in DOMAIN op.line :
              t \in Collabs /\ Covers(p, t) /\ Due(p, t) = op.line[t].offset
<1>1. section.p = p /\ bill[p].pending = op /\ op # None
  BY ConstantsAre DEF Finishes
<1>2. \A t \in DOMAIN op.line : t \in Collabs
  BY PaymentIs
<1> QED BY <1>1, <1>2 DEF Covers, Due

LEMMA NotedPayRows ==
  ASSUME Control, Control', Finishing, PaidLines, NotedDebts, PayRows,
         \A p \in Periods : \A t \in Collabs : Covers(p, t) => Tells(p, t)
  PROVE  NotedDebts'
<1>0. Typed
  BY DEF Control
<1>1. PICK p \in Periods, op \in Payments :
        /\ Finishes(p, op) /\ PayRowsDone(p, op)
        /\ \A c \in op.rows : row'[c].status = "paid_out" /\ row'[c].by = p
  BY RowsArePaid
<1>2. /\ section'.p = p
      /\ section'.todo = {t \in DOMAIN op.line : op.line[t].offset > 0}
      /\ section'.pc = IF section'.todo = {} THEN "close" ELSE "settle"
      /\ UNCHANGED <<bill, account, entry, offsets>>
  BY <1>0, <1>1, FinishesCovers DEF PayRowsDone
<1>3. /\ bill[p].pending = op
      /\ \A t \in DOMAIN op.line :
           t \in Collabs /\ Covers(p, t) /\ Due(p, t) = op.line[t].offset
  BY <1>0, <1>1, FinishesCovers
<1>4. \A q \in Periods : \A t \in Collabs :
        Due(q, t)' = Due(q, t) /\ (Paid(q, t)' <=> Paid(q, t))
  BY <1>2, SameBills
<1>5. BooksNoted'
  BY <1>0, <1>2, <1>4, BooksNotedStay DEF NotedDebts
<1>6. ASSUME NEW t \in DOMAIN op.line, op.line[t].offset = 0
      PROVE  Told(p, t)'
  <2>1. t \in Collabs /\ Tells(p, t) /\ Due(p, t) = 0
    BY <1>3, <1>6
  <2>2. \A c \in Rows : op.line[t].recover[c] \in Nat /\ entry[c].recovered \in Nat
    BY <1>0, PaymentIs, TypedAre DEF Entries
  <2>3. \A c \in Rows : op.line[t].recover[c] > 0 => Due(p, t) > 0
    BY <1>3, <2>1 DEF Tells
  <2>4. \A c \in Rows : op.line[t].recover[c] = 0
    BY <2>1, <2>2, <2>3
  <2>5. \A c \in Rows : entry[c].recovered >= op.line[t].recover[c]
    BY <2>2, <2>4
  <2> QED BY <1>2, <1>3, <2>5 DEF Told
<1>7. \A t \in section'.todo : Due(p, t)' > 0
  BY <1>2, <1>3, <1>4
<1>8. ASSUME NEW t \in DOMAIN op.line, t \notin section'.todo
      PROVE  Due(p, t)' = 0 /\ Told(p, t)'
  <2>1. op.line[t].offset \in Nat
    BY PaymentIs
  <2>2. op.line[t].offset = 0
    BY <1>2, <1>8, <2>1
  <2> QED BY <1>3, <1>4, <1>6, <2>2
<1>9. bill'[p].pending = op
  BY <1>2, <1>3
<1>10. SectionNotes'
  BY <1>2, <1>7, <1>8, <1>9 DEF SectionNotes, Payment
<1> QED BY <1>5, <1>10 DEF NotedDebts

LEMMA NotedSettle ==
  ASSUME Control, Control', Finishing, PaidLines, NotedDebts, NEW t \in Collabs, Settle(t)
  PROVE  NotedDebts'
<1>0. Typed /\ Typed'
  BY DEF Control
<1>1. PICK p \in Periods, op \in Payments :
        /\ Finishes(p, op) /\ SettleDone(p, op, t) /\ t \in DOMAIN op.line
        /\ p \in account'[t].settled
        /\ section'.p = section.p /\ section'.todo = section.todo
        /\ section'.pc = "offset" /\ section'.t = t
  BY DebtIsThere
<1>2. t \in section.todo /\ section.pc = "settle"
  BY <1>0, SettleDoes
<1>3. UNCHANGED <<bill, entry, offsets>>
      /\ \A u \in Collabs : /\ account[u].settled \subseteq account'[u].settled
                            /\ account'[u].settled \subseteq account[u].settled \cup {p}
                            /\ u # t => account'[u].settled = account[u].settled
  BY <1>1 DEF SettleDone
<1>4. /\ section.p = p /\ bill[p].pending = op
      /\ DOMAIN op.line \in SUBSET Collabs
  BY <1>0, <1>1, FinishesCovers, PaymentIs
<1>5. \A q \in Periods : \A u \in Collabs :
        Due(q, u)' = Due(q, u) /\ (Paid(q, u)' <=> Paid(q, u))
  BY <1>3, SameBills
<1>6. /\ \A u \in section.todo : Due(p, u) > 0
      /\ \A u \in DOMAIN op.line : u \notin section.todo =>
           (Due(p, u) > 0 => Noted(p, u)) /\ Told(p, u)
  BY <1>2, <1>4 DEF NotedDebts, SectionNotes, Payment
<1>7. \A q \in Periods : \A u \in Collabs : Noted(q, u) => Noted(q, u)'
  BY <1>3, <1>5 DEF Noted
<1>8. \A u \in Collabs : \A q \in account'[u].settled : Due(q, u)' > 0
  BY <1>0, <1>2, <1>3, <1>5, <1>6, NotedAre DEF NotedDebts, BooksNoted
<1>9. \A o \in offsets' : o[1] \in account'[o[2]].settled /\ o[3] = Due(o[1], o[2])'
  BY <1>0, <1>3, <1>5, NotedAre DEF NotedDebts, BooksNoted
<1>10. \A q \in Periods : \A u \in Collabs : Paid(q, u)' /\ Due(q, u)' > 0 => Noted(q, u)'
  BY <1>5, <1>7 DEF NotedDebts, BooksNoted
<1>11. BooksNoted'
  BY <1>8, <1>9, <1>10 DEF BooksNoted
<1>12. \A u \in DOMAIN op.line : Told(p, u)' <=> Told(p, u)
  BY <1>3 DEF Told
<1>13. section.todo \in SUBSET DOMAIN op.line
  BY <1>1, <1>2, <1>4 DEF Finishes
<1>14. PICK todo : todo = section.todo /\ section'.todo = todo
  BY <1>1
<1>15. \A u \in todo : Due(p, u)' > 0
  BY <1>4, <1>5, <1>6, <1>13, <1>14
<1>16. \A u \in DOMAIN op.line : u \notin todo =>
         (Due(p, u)' > 0 => Noted(p, u)') /\ Told(p, u)'
  BY <1>4, <1>5, <1>6, <1>7, <1>12, <1>14
<1>17. section'.p = p /\ bill'[p].pending = op
  BY <1>1, <1>3, <1>4
<1>18. SectionNotes'
  BY <1>1, <1>14, <1>15, <1>16, <1>17 DEF SectionNotes
<1> QED BY <1>11, <1>18 DEF NotedDebts

LEMMA NotedOffsetEntry ==
  ASSUME Control, Control', PaidLines, NotedDebts, OffsetEntry
  PROVE  NotedDebts'
<1>0. Typed
  BY DEF Control
<1>1. PICK p \in Periods, op \in Payments, t \in Collabs :
        Finishes(p, op) /\ OffsetEntryDone(p, op, t)
  BY <1>0, OffsetEntryDoes
<1>2. section.pc = "offset"
  BY <1>0, OffsetEntryDoes
<1>3. /\ t \in DOMAIN op.line /\ t = section.t
      /\ offsets' = offsets \cup {<<p, t, op.line[t].offset>>}
      /\ section'.todo = section.todo /\ section'.p = section.p
      /\ section'.pc = "recovered" /\ section'.t = t
      /\ UNCHANGED <<bill, account, entry>>
  BY <1>1 DEF OffsetEntryDone
<1>4. /\ section.p = p /\ bill[p].pending = op
      /\ DOMAIN op.line \in SUBSET Collabs /\ Due(p, t) = op.line[t].offset
  BY <1>0, <1>1, <1>3, FinishesCovers, PaymentIs
<1>5. \A q \in Periods : \A u \in Collabs :
        Due(q, u)' = Due(q, u) /\ (Paid(q, u)' <=> Paid(q, u))
  BY <1>3, SameBills
<1>6. /\ \A u \in section.todo : Due(p, u) > 0
      /\ \A u \in DOMAIN op.line : u \notin section.todo =>
           (Due(p, u) > 0 => Noted(p, u)) /\ Told(p, u)
      /\ p \in account[t].settled
  BY <1>2, <1>3, <1>4 DEF NotedDebts, SectionNotes, Payment
<1>7. \A q \in Periods : \A u \in Collabs : Noted(q, u) => Noted(q, u)'
  BY <1>3, <1>5 DEF Noted
<1>8. \A u \in Collabs : \A q \in account'[u].settled : Due(q, u)' > 0
  BY <1>0, <1>3, <1>5, NotedAre DEF NotedDebts, BooksNoted
<1>9. \A o \in offsets' : o[1] \in account'[o[2]].settled /\ o[3] = Due(o[1], o[2])'
  <2>1. \A o \in offsets : o[1] \in account'[o[2]].settled /\ o[3] = Due(o[1], o[2])'
    BY <1>0, <1>3, <1>5, NotedAre DEF NotedDebts, BooksNoted
  <2>2. p \in account'[t].settled /\ op.line[t].offset = Due(p, t)'
    BY <1>3, <1>4, <1>5, <1>6
  <2> QED BY <1>3, <2>1, <2>2
<1>10. \A q \in Periods : \A u \in Collabs : Paid(q, u)' /\ Due(q, u)' > 0 => Noted(q, u)'
  BY <1>5, <1>7 DEF NotedDebts, BooksNoted
<1>11. BooksNoted'
  BY <1>8, <1>9, <1>10 DEF BooksNoted
<1>12. \A u \in DOMAIN op.line : Told(p, u)' <=> Told(p, u)
  BY <1>3 DEF Told
<1>13. section.todo \in SUBSET DOMAIN op.line
  BY <1>1, <1>2, <1>4 DEF Finishes
<1>14. PICK todo : todo = section.todo /\ section'.todo = todo
  BY <1>3
<1>15. \A u \in todo : Due(p, u)' > 0
  BY <1>4, <1>5, <1>6, <1>13, <1>14
<1>16. \A u \in DOMAIN op.line : u \notin todo =>
         (Due(p, u)' > 0 => Noted(p, u)') /\ Told(p, u)'
  BY <1>4, <1>5, <1>6, <1>7, <1>12, <1>14
<1>17. section'.p = p /\ bill'[p].pending = op
  BY <1>3, <1>4
<1>18. Noted(p, t)'
  BY <1>3, <1>4, <1>5, <1>6 DEF Noted
<1>19. SectionNotes'
  BY <1>3, <1>14, <1>15, <1>16, <1>17, <1>18 DEF SectionNotes
<1> QED BY <1>11, <1>19 DEF NotedDebts

LEMMA NotedRecovered ==
  ASSUME Control, Control', PaidLines, NotedDebts, Recovered
  PROVE  NotedDebts'
<1>0. Typed
  BY DEF Control
<1>1. PICK p \in Periods, op \in Payments, t \in Collabs :
        Finishes(p, op) /\ RecoveredDone(p, op, t)
  BY <1>0, RecoveredDoes
<1>2. section.pc = "recovered"
  BY <1>0, RecoveredDoes
<1>3. t \in DOMAIN op.line /\ t = section.t /\ UNCHANGED <<bill, account, offsets>>
  BY <1>1 DEF RecoveredDone
<1>4. /\ section.p = p /\ bill[p].pending = op
      /\ DOMAIN op.line \in SUBSET Collabs
  BY <1>0, <1>1, FinishesCovers, PaymentIs
<1>5. \A q \in Periods : \A u \in Collabs :
        Due(q, u)' = Due(q, u) /\ (Paid(q, u)' <=> Paid(q, u))
  BY <1>3, SameBills
<1>6. CASE UNCHANGED section
  <2>1. \A c \in Rows : entry'[c].recovered >= entry[c].recovered
    <3>1. entry \in [Rows -> Entries] /\ \A c \in Rows : op.line[t].recover[c] \in Nat
      BY <1>0, <1>3, TypeParts, PaymentIs DEF Typed
    <3>2. CASE UNCHANGED entry
      BY <3>1, <3>2 DEF Entries
    <3>3. CASE ~UNCHANGED entry
      <4>1. PICK c \in Rows :
              /\ entry[c].recovered < op.line[t].recover[c]
              /\ entry' = [entry EXCEPT ![c].recovered = op.line[t].recover[c]]
        BY <1>1, <3>3 DEF RecoveredDone
      <4> QED BY <3>1, <4>1 DEF Entries
    <3> QED BY <3>2, <3>3
  <2> QED BY <1>3, <1>5, <1>6, <2>1, NotedStay
<1>7. CASE ~UNCHANGED section
  <2>1. /\ \A c \in Rows : entry[c].recovered >= op.line[t].recover[c]
        /\ section'.todo = section.todo \ {t} /\ section'.p = p
        /\ section'.pc = IF section'.todo = {} THEN "close" ELSE "settle"
        /\ UNCHANGED entry
    BY <1>1, <1>4, <1>7 DEF RecoveredDone
  <2>2. BooksNoted'
    BY <1>0, <1>3, <1>5, BooksNotedStay DEF NotedDebts
  <2>3. /\ \A u \in section.todo : Due(p, u) > 0
        /\ \A u \in DOMAIN op.line : u \notin section.todo =>
             (Due(p, u) > 0 => Noted(p, u)) /\ Told(p, u)
        /\ Noted(p, t)
    BY <1>2, <1>3, <1>4 DEF NotedDebts, SectionNotes, Payment
  <2>4. Told(p, t)
    BY <1>4, <2>1 DEF Told
  <2>5. \A u \in DOMAIN op.line : (Told(p, u)' <=> Told(p, u)) /\ (Noted(p, u)' <=> Noted(p, u))
    BY <1>3, <1>4, <1>5, <2>1 DEF Told, Noted
  <2>6. section.todo \in SUBSET DOMAIN op.line
    BY <1>1, <1>2, <1>4 DEF Finishes
  <2>7. PICK todo : todo = section.todo \ {t} /\ section'.todo = todo
    BY <2>1
  <2>8. \A u \in todo : Due(p, u)' > 0
    BY <1>4, <1>5, <2>3, <2>6, <2>7
  <2>9. \A u \in DOMAIN op.line : u \notin todo =>
           (Due(p, u)' > 0 => Noted(p, u)') /\ Told(p, u)'
    BY <1>4, <1>5, <2>3, <2>4, <2>5, <2>7
  <2>10. bill'[p].pending = op
    BY <1>3, <1>4
  <2>11. SectionNotes'
    BY <2>1, <2>7, <2>8, <2>9, <2>10 DEF SectionNotes
  <2> QED BY <2>2, <2>11 DEF NotedDebts
<1> QED BY <1>6, <1>7

LEMMA NotedClose ==
  ASSUME Control, Control', Finishing, PaidLines, NotedDebts, CloseBill
  PROVE  /\ NotedDebts'
         /\ \A p \in Periods : \A t \in Collabs :
              Covers(p, t) => Told(p, t) /\ (Due(p, t) > 0 => Noted(p, t))
<1>0. Typed
  BY DEF Control
<1>1. PICK p \in Periods, op \in Payments : Finishes(p, op) /\ CloseBillDone(p, op)
  BY <1>0, CloseBillDoes
<1>2. section.pc = "close"
  BY <1>0, CloseBillDoes
<1>3. section.p = p /\ bill[p].pending = op /\ op # None /\ DOMAIN op.line \in SUBSET Collabs
  BY <1>0, <1>1, FinishesCovers, PaymentIs
<1>4. /\ \A t \in DOMAIN op.line : (Due(p, t) > 0 => Noted(p, t)) /\ Told(p, t)
  BY <1>2, <1>3 DEF NotedDebts, SectionNotes, Payment
<1>5. \A q \in Periods : \A t \in Collabs : Covers(q, t) => q = p /\ t \in DOMAIN op.line
  BY <1>3 DEF Covers, Control, Unfinished
<1>6. UNCHANGED <<account, offsets>> /\ section'.pc \notin Payment
  BY <1>1 DEF CloseBillDone, Payment
<1>7. \A q \in Periods : \A t \in Collabs : Due(q, t)' = Due(q, t)
  BY PaidLinesClose
<1>8. \A q \in Periods : \A t \in Collabs : Noted(q, t)' <=> Noted(q, t)
  BY <1>6, <1>7 DEF Noted
<1>9. ASSUME NEW q \in Periods, NEW t \in Collabs, Paid(q, t)', Due(q, t)' > 0
      PROVE  Noted(q, t)'
  <2>1. Due(q, t) > 0
    BY <1>7, <1>9
  <2>2. Covers(q, t) \/ Paid(q, t)
    BY <2>1 DEF Due
  <2> QED BY <1>4, <1>5, <1>8, <2>1, <2>2 DEF NotedDebts, BooksNoted
<1>10. \A t \in Collabs : \A q \in account'[t].settled : Due(q, t)' > 0
  BY <1>0, <1>6, <1>7, NotedAre DEF NotedDebts, BooksNoted
<1>11. \A o \in offsets' : o[1] \in account'[o[2]].settled /\ o[3] = Due(o[1], o[2])'
  BY <1>0, <1>6, <1>7, NotedAre DEF NotedDebts, BooksNoted
<1>12. BooksNoted'
  BY <1>9, <1>10, <1>11 DEF BooksNoted
<1>13. SectionNotes'
  BY <1>6 DEF SectionNotes, Payment
<1> QED BY <1>4, <1>5, <1>12, <1>13 DEF NotedDebts

LEMMA NotedConfirm ==
  ASSUME Control, Control', Finishing, PaidLines, NotedDebts, ConfirmPayment
  PROVE  /\ NotedDebts'
         /\ \A t \in Collabs : \A q \in account[t].settled : Due(q, t)' = Due(q, t)
<1>0. Typed
  BY DEF Control
<1>1. CASE UNCHANGED <<row, bill, account, entry, offsets>> /\ section'.pc = "books"
  <2>1. \A q \in Periods : \A t \in Collabs :
          Due(q, t)' = Due(q, t) /\ (Paid(q, t)' <=> Paid(q, t))
    BY <1>1, SameBills
  <2>2. BooksNoted'
    BY <1>0, <1>1, <2>1, BooksNotedStay DEF NotedDebts
  <2> QED BY <1>0, <1>1, <2>1, <2>2, NotedAre DEF NotedDebts, SectionNotes, Payment
<1>2. CASE ~(UNCHANGED <<row, bill, account, entry, offsets>> /\ section'.pc = "books")
  <2>1. PICK p \in Periods : Confirmed(p)
    BY <1>2, ConfirmAdds
  <2>2. UNCHANGED <<row, account, entry, offsets>> /\ section'.pc = "rows"
    BY <2>1 DEF Confirmed
  <2>3. \A q \in Periods : \A t \in Collabs :
          /\ Paid(q, t)' <=> Paid(q, t)
          /\ Due(q, t) > 0 => Due(q, t)' = Due(q, t)
    BY <2>1 DEF Confirmed
  <2>4. \A q \in Periods : \A t \in Collabs : Paid(q, t) => Due(q, t)' = Due(q, t)
    BY <2>1 DEF Confirmed
  <2>5. \A t \in Collabs : \A q \in account[t].settled : Due(q, t)' = Due(q, t) /\ Due(q, t) > 0
    BY <1>0, <2>3, NotedAre DEF NotedDebts, BooksNoted
  <2>6. \A o \in offsets' : o[1] \in account'[o[2]].settled /\ o[3] = Due(o[1], o[2])'
    BY <1>0, <2>2, <2>5, NotedAre DEF NotedDebts, BooksNoted
  <2>7. \A q \in Periods : \A t \in Collabs : Paid(q, t)' /\ Due(q, t)' > 0 => Noted(q, t)'
    BY <2>2, <2>3, <2>4 DEF NotedDebts, BooksNoted, Noted
  <2>8. BooksNoted'
    BY <2>2, <2>5, <2>6, <2>7 DEF BooksNoted
  <2> QED BY <2>2, <2>5, <2>8 DEF NotedDebts, SectionNotes, Payment
<1> QED BY <1>1, <1>2

LEMMA NotedOthers ==
  ASSUME Control, Control', PaidLines, NotedDebts, AddDebt \/ FlagEntry \/ Clawback
  PROVE  NotedDebts'
<1>0. Typed
  BY DEF Control
<1>1. UNCHANGED bill /\ UNCHANGED offsets
  BY DEF AddDebt, FlagEntry, Clawback
<1>2. \A p \in Periods : \A t \in Collabs :
           Due(p, t)' = Due(p, t) /\ (Paid(p, t)' => Paid(p, t))
  BY <1>1, SameBills
<1>3. section'.pc \notin Payment
  <2>1. CASE AddDebt
    BY <1>0, <2>1, TypedGoto DEF AddDebt, Payment
  <2>2. CASE FlagEntry
    <3>1. section'.pc \in {"books", "entries"}
      BY <2>2, TypedAre DEF FlagEntry, Control, Sections
    <3> QED BY <3>1 DEF Payment
  <2>3. CASE Clawback
    BY <1>0, <2>3, ClawbackDoes DEF ClawbackDone, Worked, Payment
  <2> QED BY <2>1, <2>2, <2>3
<1>4. \A t \in Collabs : account'[t].settled = account[t].settled
  <2>1. CASE AddDebt
    <3>1. PICK c \in Rows : c = section.c
      BY <2>1 DEF Control, Typed, Placed, AddDebt, Here, Clawbacks
    <3>2. PICK u \in Collabs, n \in Nat : u = Collab[c] /\ n = Amount[c]
      BY ConstantsAre
    <3>3. \/ account' = account
          \/ account' = [account EXCEPT ![u].debt = @ + n, ![u].entries = @ \cup {c}]
      BY <2>1, <3>1, <3>2 DEF AddDebt
    <3>4. account \in [Collabs -> Accounts]
      BY TypeParts DEF Control, Typed
    <3> QED BY <3>3, <3>4 DEF Accounts
  <2>2. CASE FlagEntry \/ Clawback
    BY <2>2 DEF FlagEntry, Clawback
  <2> QED BY <2>1, <2>2
<1>5. BooksNoted'
  BY <1>0, <1>1, <1>2, <1>4, BooksNotedStay DEF NotedDebts
<1> QED BY <1>3, <1>5 DEF NotedDebts, SectionNotes, Payment

LEMMA NotedStep ==
  ASSUME Control, Control', Finishing, PaidLines, NotedDebts, [BillsNext]_billVars,
         \A p \in Periods : \A t \in Collabs : Covers(p, t) => Tells(p, t)
  PROVE  NotedDebts'
<1>1. CASE UNCHANGED billVars
  <2>1. UNCHANGED <<bill, account, entry, offsets, section>>
    BY <1>1 DEF billVars
  <2>2. \A c \in Rows : entry'[c].recovered >= entry[c].recovered
    <3>1. \A c \in Rows : entry[c].recovered \in Nat
      BY TypedAre DEF Control, Entries
    <3> QED BY <2>1, <3>1
  <2> QED BY <2>1, <2>2, SameBills, NotedStay
<1>2. CASE Unpaying
  BY <1>2, NotedUnpaying
<1>3. CASE AddDebt \/ FlagEntry \/ Clawback
  BY <1>3, NotedOthers
<1>4. CASE PayRows \/ (\E t \in Collabs : Settle(t)) \/ OffsetEntry
  BY <1>4, NotedPayRows, NotedSettle, NotedOffsetEntry
<1>5. CASE Recovered \/ CloseBill \/ ConfirmPayment
  BY <1>5, NotedRecovered, NotedClose, NotedConfirm
<1> QED BY <1>1, <1>2, <1>3, <1>4, <1>5 DEF BillsNext, Unpaying

-----------------------------------------------------------------------------
(* An account's debt: the clawbacks entered, less what payments took off    *)

Dues(t) == [p \in Periods |-> Due(p, t)]
TakenOff(t) == SumFunctionOnSet(Dues(t), account[t].settled)

DebtTallies(t) == account[t].debt + TakenOff(t) = Worth(account[t].entries)

DebtsTally ==
  /\ \A t \in Collabs : account[t].entries \subseteq
       {c \in Rows : Collab[c] = t /\ entry[c].state # "none"}
  /\ \A c \in Rows : entry[c].state = "applied" => c \in account[Collab[c]].entries
  /\ section.pc = "flag" => section.c \in account[Collab[section.c]].entries
  /\ \A t \in Collabs : DebtTallies(t)

LEMMA DebtsInit == BillsInit => DebtsTally
<1> SUFFICES ASSUME BillsInit PROVE DebtsTally
  OBVIOUS
<1>1. ASSUME NEW t \in Collabs
      PROVE  DebtTallies(t)
  <2>1. account[t].debt = 0 /\ account[t].entries = {} /\ account[t].settled = {}
    BY DEF BillsInit
  <2>2. TakenOff(t) = 0 /\ Worth({}) = 0
    BY <2>1, SumOfNone DEF TakenOff, Worth
  <2> QED BY <2>1, <2>2 DEF DebtTallies
<1>2. \A t \in Collabs : account[t].entries = {}
  BY DEF BillsInit
<1>3. \A c \in Rows : entry[c].state = "none"
  BY DEF BillsInit, NoEntry
<1>4. section.pc = "entries"
  BY DEF BillsInit, NoSection
<1> QED BY <1>1, <1>2, <1>3, <1>4 DEF DebtsTally

LEMMA TakenOffStays ==
  ASSUME Typed, NEW t \in Collabs, account'[t].settled = account[t].settled,
         \A p \in account[t].settled : Due(p, t)' = Due(p, t)
  PROVE  TakenOff(t)' = TakenOff(t)
<1>1. PICK S \in SUBSET Periods : S = account[t].settled
  BY NotedAre
<1>2. IsFiniteSet(S)
  BY ConstantsAre, FS_Subset
<1> DEFINE f == [p \in Periods |-> Due(p, t)]
           g == [p \in Periods |-> Due(p, t)']
<1>3. \A p \in S : g[p] = f[p]
  BY <1>1
<1>4. TakenOff(t) = SumFunctionOnSet(f, S) /\ TakenOff(t)' = SumFunctionOnSet(g, S)
  BY <1>1 DEF TakenOff, Dues
<1> HIDE DEF f, g
<1> QED BY <1>2, <1>3, <1>4, SumSame

LEMMA DebtsStay ==
  ASSUME Typed, DebtsTally,
         \A t \in Collabs :
           /\ account'[t].debt = account[t].debt
           /\ account'[t].entries = account[t].entries
           /\ account'[t].settled = account[t].settled
           /\ \A p \in account[t].settled : Due(p, t)' = Due(p, t),
         \A c \in Rows : /\ entry[c].state # "none" => entry'[c].state # "none"
                         /\ entry'[c].state = "applied" => c \in account[Collab[c]].entries,
         section'.pc = "flag" => section' = section
  PROVE  DebtsTally'
<1>1. ASSUME NEW t \in Collabs
      PROVE  DebtTallies(t)'
  <2>1. TakenOff(t)' = TakenOff(t)
    BY TakenOffStays
  <2>2. DebtTallies(t)
    BY DEF DebtsTally
  <2> QED BY <2>1, <2>2 DEF DebtTallies, Worth
<1>2. \A t \in Collabs : account'[t].entries \subseteq
        {c \in Rows : Collab[c] = t /\ entry'[c].state # "none"}
  BY DEF DebtsTally
<1>3. \A c \in Rows : entry'[c].state = "applied" => c \in account'[Collab[c]].entries
  BY ConstantsAre
<1>4. section'.pc = "flag" => section'.c \in account'[Collab[section'.c]].entries
  <2>1. SUFFICES ASSUME section'.pc = "flag"
                 PROVE  section.c \in account'[Collab[section.c]].entries
    OBVIOUS
  <2>2. section.pc = "flag"
    BY <2>1
  <2>3. section.c \in Rows
    BY <2>2 DEF Typed, Placed, Clawbacks
  <2>4. Collab[section.c] \in Collabs
    BY <2>3, ConstantsAre
  <2> QED BY <2>2, <2>4 DEF DebtsTally
<1> QED BY <1>1, <1>2, <1>3, <1>4 DEF DebtsTally

LEMMA DebtsAddDebt ==
  ASSUME Control, Control', PaidLines, DebtsTally, AddDebt
  PROVE  DebtsTally'
<1>0. Typed
  BY DEF Control
<1>1. PICK c \in Rows : c = section.c /\ entry[c].state = "new"
  BY DEF Control, Typed, Placed, AddDebt, Here, Clawbacks
<1>2. PICK u \in Collabs, n \in Nat : u = Collab[c] /\ n = Amount[c]
  BY ConstantsAre
<1>3. account \in [Collabs -> Accounts]
  BY TypeParts DEF Control, Typed
<1>4. UNCHANGED <<bill, entry>> /\ section'.pc = "flag" /\ section'.c = c
  BY <1>0, <1>1, TypedGoto DEF AddDebt
<1>5. \A p \in Periods : \A t \in Collabs : Due(p, t)' = Due(p, t)
  BY <1>4, SameBills
<1>6. /\ c \in account'[u].entries
      /\ \A t \in Collabs : t # u => account'[t] = account[t]
      /\ account'[u].settled = account[u].settled
      /\ \/ account'[u] = account[u]
         \/ /\ c \notin account[u].entries
            /\ account'[u].entries = account[u].entries \cup {c}
            /\ account'[u].debt = account[u].debt + n
  <2>1. CASE c \in account[u].entries
    BY <1>1, <1>2, <2>1 DEF AddDebt
  <2>2. CASE c \notin account[u].entries
    <3>1. account' = [account EXCEPT ![u].debt = @ + n, ![u].entries = @ \cup {c}]
      BY <1>1, <1>2, <2>2 DEF AddDebt
    <3> QED BY <1>3, <2>2, <3>1 DEF Accounts
  <2> QED BY <2>1, <2>2
<1>7. ASSUME NEW t \in Collabs
      PROVE  DebtTallies(t)'
  <2>1. TakenOff(t)' = TakenOff(t)
    <3>1. account'[t].settled = account[t].settled
      BY <1>6
    <3>2. \A p \in account[t].settled : Due(p, t)' = Due(p, t)
      BY <1>0, <1>5, NotedAre
    <3> QED BY <1>0, <3>1, <3>2, TakenOffStays
  <2>2. DebtTallies(t)
    BY DEF DebtsTally
  <2>3. CASE account'[t] = account[t]
    BY <2>1, <2>2, <2>3 DEF DebtTallies, Worth
  <2>4. CASE account'[t] # account[t]
    <3>1. t = u /\ c \notin account[t].entries
          /\ account'[t].entries = account[t].entries \cup {c}
          /\ account'[t].debt = account[t].debt + n
      BY <1>6, <2>4
    <3>2. PICK E \in SUBSET Rows : E = account[t].entries
      BY <1>3 DEF Accounts
    <3>3. Worth(E \cup {c}) = Worth(E) + n
      <4>1. IsFiniteSet(E) /\ (\A x \in E : Amount[x] \in Int) /\ Amount[c] \in Int
        BY WorthNat, ConstantsAre
      <4> QED BY <1>2, <3>1, <3>2, <4>1, SumWith DEF Worth
    <3>4. PICK d \in Nat : d = account[t].debt
      BY <1>3 DEF Accounts
    <3>5. PICK s \in Nat : s = TakenOff(t)
      <4>1. PICK S \in SUBSET Periods : S = account[t].settled
        BY <1>0, NotedAre
      <4>2. IsFiniteSet(S)
        BY <4>1, ConstantsAre, FS_Subset
      <4> DEFINE f == Dues(t)
      <4>3. \A p \in S : f[p] \in Nat
        BY <1>0, <4>1, DueIs DEF Dues
      <4> HIDE DEF f
      <4>4. SumFunctionOnSet(f, S) \in Nat
        BY <4>2, <4>3, SumNat
      <4> QED BY <4>1, <4>4 DEF TakenOff, f
    <3>6. d + s = Worth(E)
      BY <2>2, <3>2, <3>4, <3>5 DEF DebtTallies
    <3>7. (d + n) + s = Worth(E \cup {c})
      BY <3>3, <3>6
    <3>8. account'[t].debt = d + n /\ account'[t].entries = E \cup {c} /\ TakenOff(t)' = s
      BY <2>1, <3>1, <3>2, <3>4, <3>5
    <3>9. account'[t].debt + TakenOff(t)' = Worth(account'[t].entries)
      BY <3>7, <3>8
    <3> QED BY <3>9 DEF DebtTallies, Worth
  <2> QED BY <2>3, <2>4
<1>8. \A t \in Collabs : account'[t].entries \subseteq
        {d \in Rows : Collab[d] = t /\ entry'[d].state # "none"}
  BY <1>1, <1>2, <1>4, <1>6 DEF DebtsTally
<1>9. \A d \in Rows : entry'[d].state = "applied" => d \in account'[Collab[d]].entries
  BY <1>4, <1>6, ConstantsAre DEF DebtsTally
<1>10. section'.c \in account'[Collab[section'.c]].entries
  BY <1>2, <1>4, <1>6
<1> QED BY <1>7, <1>8, <1>9, <1>10 DEF DebtsTally

LEMMA DebtsSettle ==
  ASSUME Control, Control', Finishing, PaidLines, NotedDebts, DebtsTally,
         NEW t \in Collabs, Settle(t)
  PROVE  DebtsTally'
<1>0. Typed
  BY DEF Control
<1>1. PICK p \in Periods, op \in Payments :
        /\ Finishes(p, op) /\ SettleDone(p, op, t) /\ t \in DOMAIN op.line
        /\ p \in account'[t].settled /\ section'.pc = "offset"
  BY DebtIsThere
<1>2. /\ UNCHANGED <<bill, entry>>
      /\ \A u \in Collabs : u # t => account'[u] = account[u]
      /\ \/ /\ account[t].debt >= op.line[t].offset /\ p \notin account[t].settled
            /\ account'[t].debt = account[t].debt - op.line[t].offset
            /\ account'[t].entries = account[t].entries
            /\ account'[t].settled = account[t].settled \cup {p}
         \/ account'[t] = account[t]
  BY <1>1 DEF SettleDone
<1>3. \A q \in Periods : \A u \in Collabs : Due(q, u)' = Due(q, u)
  BY <1>2, SameBills
<1>4. Due(p, t) = op.line[t].offset
  BY <1>0, <1>1, FinishesCovers
<1>5. ASSUME NEW u \in Collabs
      PROVE  DebtTallies(u)'
  <2>1. DebtTallies(u)
    BY DEF DebtsTally
  <2>2. CASE account'[u] = account[u]
    <3>1. TakenOff(u)' = TakenOff(u)
      <4>1. \A q \in account[u].settled : Due(q, u)' = Due(q, u)
        BY <1>0, <1>3, NotedAre
      <4> QED BY <1>0, <2>2, <4>1, TakenOffStays
    <3> QED BY <2>1, <2>2, <3>1 DEF DebtTallies, Worth
  <2>3. CASE account'[u] # account[u]
    <3>1. /\ u = t /\ p \notin account[t].settled
          /\ account[t].debt >= op.line[t].offset
          /\ account'[t].debt = account[t].debt - op.line[t].offset
          /\ account'[t].entries = account[t].entries
          /\ account'[t].settled = account[t].settled \cup {p}
      BY <1>2, <2>3
    <3>2. PICK S \in SUBSET Periods : S = account[t].settled
      BY <1>0, NotedAre
    <3>3. IsFiniteSet(S)
      BY <3>2, ConstantsAre, FS_Subset
    <3> DEFINE f == Dues(t)
    <3>4. (\A q \in S : f[q] \in Nat) /\ f[p] \in Nat /\ f[p] = Due(p, t)
      BY <1>0, <3>2, DueIs DEF Dues
    <3>5. Dues(t)' = f
      BY <1>3 DEF Dues
    <3>6. TakenOff(t)' = SumFunctionOnSet(Dues(t)', S \cup {p}) /\ TakenOff(t) = SumFunctionOnSet(f, S)
      BY <3>1, <3>2 DEF TakenOff
    <3>7. TakenOff(t)' = SumFunctionOnSet(f, S \cup {p})
      BY <3>5, <3>6
    <3> HIDE DEF f
    <3>8. SumFunctionOnSet(f, S \cup {p}) = SumFunctionOnSet(f, S) + f[p]
      <4>1. (\A q \in S : f[q] \in Int) /\ f[p] \in Int /\ p \notin S
        BY <3>1, <3>2, <3>4
      <4> QED BY <3>3, <4>1, SumWith
    <3>9. SumFunctionOnSet(f, S) \in Nat
      BY <3>3, <3>4, SumNat
    <3>10. PICK s \in Nat, o \in Nat : s = TakenOff(t) /\ o = op.line[t].offset
      BY <1>4, <3>4, <3>6, <3>9
    <3>11. TakenOff(t)' = s + o
      BY <1>4, <3>4, <3>6, <3>7, <3>8, <3>10
    <3>12. PICK d \in Nat : d = account[t].debt
      BY <1>0, TypedAre DEF Accounts
    <3>13. PICK w \in Nat : w = Worth(account[t].entries)
      <4>1. account[t].entries \in SUBSET Rows
        BY <1>0, TypedAre DEF Accounts
      <4> QED BY <4>1, WorthNat
    <3>14. d + s = w
      BY <2>1, <3>1, <3>10, <3>12, <3>13 DEF DebtTallies
    <3>15. account'[t].debt = d - o
      BY <3>1, <3>10, <3>12
    <3>16. account'[t].debt + TakenOff(t)' = w
      BY <3>11, <3>14, <3>15
    <3>17. Worth(account[t].entries)' = w
      BY <3>1, <3>13 DEF Worth
    <3>18. DebtTallies(t)'
      BY <3>16, <3>17 DEF DebtTallies
    <3> QED BY <3>1, <3>18
  <2> QED BY <2>2, <2>3
<1>6. \A u \in Collabs : account'[u].entries = account[u].entries
  BY <1>2
<1>7. \A c \in Rows : entry'[c].state = "applied" => c \in account'[Collab[c]].entries
  BY <1>2, <1>6, ConstantsAre DEF DebtsTally
<1>8. \A u \in Collabs : account'[u].entries \subseteq
        {c \in Rows : Collab[c] = u /\ entry'[c].state # "none"}
  BY <1>2, <1>6 DEF DebtsTally
<1> QED BY <1>1, <1>5, <1>7, <1>8 DEF DebtsTally

LEMMA DebtsStep ==
  ASSUME Control, Control', Finishing, PaidLines, NotedDebts, DebtsTally, [BillsNext]_billVars
  PROVE  DebtsTally'
<1>0. Typed
  BY DEF Control
<1>1. CASE AddDebt
  BY <1>1, DebtsAddDebt
<1>2. CASE \E t \in Collabs : Settle(t)
  BY <1>2, DebtsSettle
<1>3. ASSUME UNCHANGED account,
             \A t \in Collabs : \A p \in account[t].settled : Due(p, t)' = Due(p, t),
             \A c \in Rows : /\ entry[c].state # "none" => entry'[c].state # "none"
                             /\ entry'[c].state = "applied" => c \in account[Collab[c]].entries,
             section'.pc = "flag" => section' = section
      PROVE  DebtsTally'
  BY <1>0, <1>3, DebtsStay
<1>4. ASSUME UNCHANGED entry
      PROVE  \A c \in Rows : /\ entry[c].state # "none" => entry'[c].state # "none"
                             /\ entry'[c].state = "applied" => c \in account[Collab[c]].entries
  BY <1>4 DEF DebtsTally
<1>5. ASSUME UNCHANGED bill
      PROVE  \A t \in Collabs : \A p \in account[t].settled : Due(p, t)' = Due(p, t)
  BY <1>0, <1>5, SameBills, NotedAre
<1>6. CASE UNCHANGED billVars
  <2>1. UNCHANGED account /\ UNCHANGED bill /\ UNCHANGED entry /\ UNCHANGED section
    BY <1>6 DEF billVars
  <2> QED BY <1>3, <1>4, <1>5, <2>1
<1>7. CASE Unpaying
  <2>1. BillsStay /\ Elsewhere /\ UNCHANGED <<account, entry, offsets>>
    BY <1>7, UnpayingDoes
  <2>2. \A t \in Collabs : \A p \in account[t].settled : Due(p, t)' = Due(p, t)
    BY <1>0, <2>1, DuesStay, NotedAre
  <2>3. section'.pc = "flag" => section' = section
    BY <2>1 DEF Elsewhere
  <2> QED BY <1>3, <1>4, <2>1, <2>2, <2>3
<1>8. CASE FlagEntry
  <2>1. PICK c \in Rows : c = section.c /\ section.pc = "flag"
    BY <1>8 DEF Control, Typed, Placed, FlagEntry, Here, Clawbacks
  <2>2. entry' = [entry EXCEPT ![c].state = "applied"] /\ entry \in [Rows -> Entries]
        /\ UNCHANGED account /\ UNCHANGED bill
    BY <1>0, <1>8, <2>1, TypeParts DEF Typed, FlagEntry
  <2>3. \A d \in Rows : /\ entry[d].state # "none" => entry'[d].state # "none"
                        /\ entry'[d].state = "applied" => d = c \/ entry[d].state = "applied"
    BY <2>2 DEF Entries
  <2>4. section'.pc # "flag"
    BY <1>8, TypedAre DEF FlagEntry, Control, Sections
  <2> QED BY <1>3, <1>5, <2>1, <2>2, <2>3, <2>4 DEF DebtsTally
<1>9. CASE Clawback
  <2>1. PICK c \in Rows : ClawbackDone(c)
    BY <1>0, <1>9, ClawbackDoes
  <2>2. UNCHANGED account /\ UNCHANGED bill /\ section'.pc # "flag"
    BY <2>1 DEF ClawbackDone, Worked
  <2>3. \A d \in Rows : /\ entry[d].state # "none" => entry'[d].state # "none"
                        /\ entry'[d].state = "applied" => entry[d].state = "applied"
    BY <2>1 DEF ClawbackDone
  <2> QED BY <1>3, <1>5, <2>2, <2>3 DEF DebtsTally
<1>10. CASE PayRows
  <2>1. UNCHANGED account /\ UNCHANGED bill /\ UNCHANGED entry
    BY <1>10 DEF PayRows
  <2>2. section'.pc # "flag"
    <3>1. PICK p \in Periods, op \in Payments : PayRowsDone(p, op)
      BY <1>0, <1>10, PayRowsDoes
    <3> QED BY <3>1, NoSectionIs DEF PayRowsDone
  <2> QED BY <1>3, <1>4, <1>5, <2>1, <2>2
<1>11. CASE OffsetEntry
  <2>1. UNCHANGED account /\ UNCHANGED bill /\ UNCHANGED entry
    BY <1>11 DEF OffsetEntry
  <2>2. section'.pc # "flag"
    BY <1>0, <1>11, OffsetEntryDoes DEF OffsetEntryDone
  <2> QED BY <1>3, <1>4, <1>5, <2>1, <2>2
<1>12. CASE Recovered
  <2>1. UNCHANGED account /\ UNCHANGED bill
    BY <1>12 DEF Recovered
  <2>2. PICK p \in Periods, op \in Payments, t \in Collabs : RecoveredDone(p, op, t)
    BY <1>0, <1>12, RecoveredDoes
  <2>3. section'.pc # "flag"
    <3>1. section.pc = "recovered"
      BY <1>0, <1>12, RecoveredDoes
    <3> QED BY <2>2, <3>1 DEF RecoveredDone
  <2>4. entry \in [Rows -> Entries]
    BY <1>0, TypeParts DEF Typed
  <2>5. \A d \in Rows : entry'[d].state = entry[d].state
    BY <2>2, <2>4 DEF RecoveredDone, Entries
  <2> QED BY <1>3, <1>5, <2>1, <2>3, <2>5 DEF DebtsTally
<1>13. CASE CloseBill
  <2>1. UNCHANGED account /\ UNCHANGED entry
    BY <1>13 DEF CloseBill
  <2>2. section'.pc # "flag"
    BY <1>0, <1>13, CloseBillDoes DEF CloseBillDone
  <2>3. \A t \in Collabs : \A p \in account[t].settled : Due(p, t)' = Due(p, t)
    BY <1>0, <1>13, PaidLinesClose, NotedAre
  <2> QED BY <1>3, <1>4, <2>1, <2>2, <2>3
<1>14. CASE ConfirmPayment
  <2>1. UNCHANGED account /\ UNCHANGED entry
    BY <1>14 DEF ConfirmPayment
  <2>2. section'.pc # "flag"
    BY <1>14, ConfirmAdds DEF Confirmed
  <2>3. \A t \in Collabs : \A p \in account[t].settled : Due(p, t)' = Due(p, t)
    BY <1>14, NotedConfirm
  <2> QED BY <1>3, <1>4, <2>1, <2>2, <2>3
<1> QED BY <1>1, <1>2, <1>6, <1>7, <1>8, <1>9, <1>10, <1>11, <1>12, <1>13, <1>14
  DEF BillsNext, Unpaying

-----------------------------------------------------------------------------
(* An offset shared out over clawbacks, the oldest first                    *)

LEMMA BeforeOnce ==
  ASSUME NEW S, NEW seq \in Seq(S), IsInjective(seq), NEW x, NEW y, Before(seq, x, y)
  PROVE  ~Before(seq, y, x) /\ x # y
<1>1. PICK i, j \in DOMAIN seq : i < j /\ seq[i] = x /\ seq[j] = y
  BY DEF Before
<1>2. DOMAIN seq = 1..Len(seq) /\ Len(seq) \in Nat
  OBVIOUS
<1>3. \A a, b \in DOMAIN seq : seq[a] = seq[b] => a = b
  BY DEF IsInjective
<1> QED BY <1>1, <1>2, <1>3 DEF Before

\* Each takes what it still owes, of what those before it have left.
Shares(seq, T, f, rest, earlier, before, share) ==
  /\ seq \in Seq(Rows) /\ IsInjective(seq)
  /\ T \in SUBSET Range(seq) /\ IsFiniteSet(T)
  /\ f \in Nat
  /\ \A c \in T : rest[c] \in Nat
  /\ \A c \in T : earlier[c] \in SUBSET T
  /\ \A c \in T : \A d \in T : d \in earlier[c] <=> Before(seq, d, c)
  /\ \A c \in T : before[c] = SumFunctionOnSet(rest, earlier[c])
  /\ \A c \in T : share[c] = IF before[c] < f THEN Least(rest[c], f - before[c]) ELSE 0

\* All together they take the whole, or everything they owe.
LEMMA SharesAre ==
  ASSUME NEW seq, NEW T, NEW f, NEW rest, NEW earlier, NEW before, NEW share,
         Shares(seq, T, f, rest, earlier, before, share)
  PROVE  SumFunctionOnSet(share, T) = Least(SumFunctionOnSet(rest, T), f)
<1> DEFINE Closed(R) == \A x \in R : \A d \in T : Before(seq, d, x) => d \in R
           Shared(R) == SumFunctionOnSet(share, R) = Least(SumFunctionOnSet(rest, R), f)
           Good == {R \in SUBSET T : Closed(R) => Shared(R)}
<1> USE DEF Shares
<1>0. \A c \in T : rest[c] \in Int
  OBVIOUS
<1>1. ASSUME NEW R \in SUBSET T, \A Q \in SUBSET R : Q # R => Q \in Good
      PROVE  R \in Good
  <2>1. SUFFICES ASSUME Closed(R) PROVE Shared(R)
    OBVIOUS
  <2>2. CASE R = {}
    <3>1. SumFunctionOnSet(share, R) = 0 /\ SumFunctionOnSet(rest, R) = 0
      BY <2>2, SumOfNone
    <3> QED BY <3>1 DEF Least
  <2>3. CASE R # {}
    <3>1. PICK x \in R : \A y \in R : y # x => Before(seq, y, x)
      <4>1. R \in SUBSET Range(seq)
        OBVIOUS
      <4> QED BY <2>3, <4>1, LastOfSome, Zenon
    <3>2. PICK Q : Q = R \ {x}
      OBVIOUS
    <3>3. Q \in SUBSET R /\ Q # R /\ x \notin Q /\ Q \cup {x} = R /\ Q \in SUBSET T
      BY <3>1, <3>2
    <3>4. Closed(Q)
      <4>1. SUFFICES ASSUME NEW y \in Q, NEW d \in T, Before(seq, d, y) PROVE d \in Q
        OBVIOUS
      <4>2. d \in R
        BY <2>1, <3>3, <4>1
      <4>3. Before(seq, y, x)
        BY <3>1, <3>2, <4>1
      <4>4. d # x
        BY <4>1, <4>3, BeforeOnce
      <4> QED BY <3>2, <4>2, <4>4
    <3>5. earlier[x] = Q
      <4>1. \A d \in T : Before(seq, d, x) => d \in R /\ d # x
        BY <2>1, <3>1, BeforeOnce
      <4> QED BY <3>1, <3>2, <3>3, <4>1
    <3>6. Shared(Q)
      BY <1>1, <3>3, <3>4
    <3>7. IsFiniteSet(Q) /\ x \in T
      BY <3>1, <3>3, FS_Subset
    <3>8. PICK b \in Nat : b = SumFunctionOnSet(rest, Q)
      <4>1. \A c \in Q : rest[c] \in Nat
        BY <3>3
      <4> QED BY <3>7, <4>1, SumNat
    <3>9. PICK r \in Nat : r = rest[x]
      BY <3>7
    <3>10. share[x] = IF b < f THEN Least(r, f - b) ELSE 0
      BY <3>5, <3>7, <3>8, <3>9
    <3>11. SumFunctionOnSet(rest, R) = b + r
      <4>1. (\A c \in Q : rest[c] \in Int) /\ rest[x] \in Int
        BY <1>0, <3>3, <3>7
      <4> QED BY <3>3, <3>7, <3>8, <3>9, <4>1, SumWith
    <3>12. PICK s \in Nat : s = share[x]
      <4>1. b < f => Least(r, f - b) \in Nat
        BY DEF Least
      <4> QED BY <3>10, <4>1
    <3>13. SumFunctionOnSet(share, R) = Least(b, f) + s
      <4>1. (\A c \in Q : share[c] \in Int) /\ share[x] \in Int
        <5>1. ASSUME NEW c \in T PROVE share[c] \in Int
          <6>1. PICK u \in Nat : u = rest[c]
            OBVIOUS
          <6>2. IsFiniteSet(earlier[c]) /\ \A d \in earlier[c] : rest[d] \in Nat
            BY FS_Subset
          <6>3. PICK v \in Nat : v = before[c]
            BY <6>2, SumNat
          <6>4. share[c] = IF v < f THEN Least(u, f - v) ELSE 0
            BY <6>1, <6>3
          <6> QED BY <6>4 DEF Least
        <5> QED BY <3>3, <3>7, <5>1
      <4> QED BY <3>3, <3>6, <3>7, <3>8, <3>12, <4>1, SumWith
    <3>14. Least(b, f) + s = Least(b + r, f)
      BY <3>10, <3>12 DEF Least
    <3> QED BY <3>11, <3>13, <3>14
  <2> QED BY <2>2, <2>3
<1> HIDE DEF Good
<1>2. \A R \in SUBSET T : R \in Good
  BY <1>1, SetInduction, Zenon
<1> QED BY <1>2 DEF Good

-----------------------------------------------------------------------------
(* How much of a collaborator's clawbacks has come back                     *)

RowsBy(t) == {c \in Rows : Collab[c] = t}
Back == [c \in Rows |-> entry[c].recovered]
Rests == [c \in Rows |-> Rest(c)]

\* What a payment that is recorded will have brought back of a clawback.
Goal(p, t, c) ==
  LET told == bill[p].pending.line[t].recover[c]
  IN  IF entry[c].recovered < told THEN told ELSE entry[c].recovered
Goals(p, t) == [c \in Rows |-> Goal(p, t, c)]

AllDue(t) == SumFunctionOnSet(Dues(t), Periods)
AllBack(t) == SumFunctionOnSet(Back, RowsBy(t))

RecoveredTally ==
  /\ \A c \in Rows : /\ entry[c].recovered <= Amount[c]
                     /\ entry[c].state = "none" => entry[c].recovered = 0
  /\ \A p \in Periods : \A t \in Collabs : Covers(p, t) =>
       Tells(p, t) /\ SumFunctionOnSet(Goals(p, t), RowsBy(t)) = AllDue(t)
  /\ \A t \in Collabs : (\A p \in Periods : ~Covers(p, t)) => AllBack(t) = AllDue(t)

LEMMA TallyIs ==
  ASSUME Typed, NEW t \in Collabs
  PROVE  /\ RowsBy(t) \in SUBSET Rows /\ IsFiniteSet(RowsBy(t))
         /\ \A c \in Rows : Back[c] = entry[c].recovered /\ Back[c] \in Nat
         /\ \A c \in Rows : Rests[c] = Rest(c) /\ Rests[c] \in Int
                            /\ Rests[c] = Amount[c] - entry[c].recovered
         /\ \A p \in Periods : Dues(t)[p] = Due(p, t) /\ Dues(t)[p] \in Nat
         /\ AllBack(t) \in Nat /\ AllDue(t) \in Nat
<1>1. RowsBy(t) \in SUBSET Rows /\ IsFiniteSet(RowsBy(t))
  BY WorthNat DEF RowsBy
<1>2. \A c \in Rows : Back[c] = entry[c].recovered /\ Back[c] \in Nat
  BY TypedAre DEF Back, Entries
<1>3. \A c \in Rows : Rests[c] = Rest(c) /\ Rests[c] \in Int
                      /\ Rests[c] = Amount[c] - entry[c].recovered
  BY RestsAre DEF Rests, Rest
<1>4. \A p \in Periods : Dues(t)[p] = Due(p, t) /\ Dues(t)[p] \in Nat
  BY DueIs DEF Dues
<1>5. AllBack(t) \in Nat
  <2>1. \A c \in RowsBy(t) : Back[c] \in Nat
    BY <1>1, <1>2
  <2> QED BY <1>1, <2>1, SumNat DEF AllBack
<1>6. AllDue(t) \in Nat
  BY <1>4, ConstantsAre, SumNat DEF AllDue
<1> QED BY <1>1, <1>2, <1>3, <1>4, <1>5, <1>6

LEMMA TallyInit == BillsInit => RecoveredTally
<1> SUFFICES ASSUME BillsInit PROVE RecoveredTally
  OBVIOUS
<1>0. Typed
  BY TypedInit
<1>1. \A c \in Rows : entry[c].recovered = 0
  BY DEF BillsInit, NoEntry
<1>2. \A p \in Periods : \A t \in Collabs : ~Covers(p, t) /\ Due(p, t) = 0
  BY DEF BillsInit, NoBill, Covers, Due, Paid
<1>3. ASSUME NEW t \in Collabs
      PROVE  AllBack(t) = 0 /\ AllDue(t) = 0
  <2>1. \A c \in RowsBy(t) : Back[c] = 0
    BY <1>0, <1>1, TallyIs
  <2>2. \A p \in Periods : Dues(t)[p] = 0
    BY <1>0, <1>2, TallyIs
  <2> QED BY <1>0, <2>1, <2>2, TallyIs, ConstantsAre, SumOfZeros DEF AllBack, AllDue
<1>4. \A c \in Rows : entry[c].recovered <= Amount[c]
  BY <1>1, ConstantsAre
<1> QED BY <1>1, <1>2, <1>3, <1>4 DEF RecoveredTally

\* Steps that bring nothing back and neither record nor close a payment.
LEMMA TallyStays ==
  ASSUME Typed, RecoveredTally, BillsStay,
         \A c \in Rows : /\ entry'[c].recovered = entry[c].recovered
                         /\ entry[c].state # "none" => entry'[c].state # "none"
  PROVE  RecoveredTally'
<1>1. Back' = Back
  BY DEF Back
<1>2. ASSUME NEW t \in Collabs
      PROVE  /\ AllBack(t)' = AllBack(t) /\ AllDue(t)' = AllDue(t)
             /\ \A p \in Periods : Covers(p, t)' <=> Covers(p, t)
             /\ \A p \in Periods : Goals(p, t)' = Goals(p, t)
  <2>1. \A p \in Periods : Due(p, t)' = Due(p, t) /\ (Covers(p, t)' <=> Covers(p, t))
    BY DuesStay
  <2>2. Dues(t)' = Dues(t)
    BY <2>1 DEF Dues
  <2>3. AllBack(t)' = AllBack(t) /\ AllDue(t)' = AllDue(t)
    BY <1>1, <2>2 DEF AllBack, AllDue, RowsBy
  <2>4. \A p \in Periods : bill'[p].pending = bill[p].pending
    BY DEF BillsStay
  <2>5. \A p \in Periods : Goals(p, t)' = Goals(p, t)
    BY <2>4 DEF Goals, Goal
  <2> QED BY <2>1, <2>3, <2>5
<1>3. ASSUME NEW p \in Periods, NEW t \in Collabs, Covers(p, t)'
      PROVE  Tells(p, t)' /\ SumFunctionOnSet(Goals(p, t), RowsBy(t))' = AllDue(t)'
  <2>1. Covers(p, t) /\ Tells(p, t) /\ SumFunctionOnSet(Goals(p, t), RowsBy(t)) = AllDue(t)
    BY <1>2, <1>3 DEF RecoveredTally
  <2>2. bill'[p].pending = bill[p].pending /\ Due(p, t)' = Due(p, t)
    BY DuesStay DEF BillsStay
  <2>3. Tells(p, t)'
    BY <2>1, <2>2 DEF Tells
  <2>4. SumFunctionOnSet(Goals(p, t), RowsBy(t))' = SumFunctionOnSet(Goals(p, t), RowsBy(t))
    BY <1>2 DEF RowsBy
  <2> QED BY <1>2, <2>1, <2>3, <2>4
<1>4. \A t \in Collabs : (\A p \in Periods : ~Covers(p, t)') => AllBack(t)' = AllDue(t)'
  BY <1>2 DEF RecoveredTally
<1>5. \A c \in Rows : /\ entry'[c].recovered <= Amount[c]
                      /\ entry'[c].state = "none" => entry'[c].recovered = 0
  BY DEF RecoveredTally
<1> QED BY <1>3, <1>4, <1>5 DEF RecoveredTally

\* Only one payment is recorded at a time.
LEMMA OneCovers ==
  ASSUME Control, NEW p \in Periods, bill[p].pending # None, NEW q \in Periods, NEW t \in Collabs,
         Covers(q, t)
  PROVE  q = p
  BY DEF Control, Unfinished, Covers

LEMMA TallyRecovered ==
  ASSUME Control, Control', PaidLines, RecoveredTally, Recovered
  PROVE  RecoveredTally'
<1>0. Typed /\ Typed'
  BY DEF Control
<1>1. PICK p \in Periods, op \in Payments, t \in Collabs : Finishes(p, op) /\ RecoveredDone(p, op, t)
  BY <1>0, RecoveredDoes
<1>2. UNCHANGED bill
  BY <1>1 DEF RecoveredDone
<1>3. BillsStay
  BY <1>2, SameBills
<1>4. CASE UNCHANGED entry
  BY <1>0, <1>3, <1>4, TallyStays
<1>5. CASE ~UNCHANGED entry
  <2>1. PICK c \in Rows : /\ entry[c].recovered < op.line[t].recover[c]
                          /\ entry' = [entry EXCEPT ![c].recovered = op.line[t].recover[c]]
    BY <1>1, <1>5 DEF RecoveredDone
  <2>2. /\ bill[p].pending = op /\ op # None /\ t \in DOMAIN op.line /\ Covers(p, t)
    BY <1>0, <1>1, FinishesCovers DEF RecoveredDone
  <2>3. PICK n \in Nat : n = op.line[t].recover[c]
    BY <2>2, PaymentIs
  <2>4. entry[c].recovered \in Nat /\ entry \in [Rows -> Entries]
    BY <1>0, TypedAre, TypeParts DEF Entries, Typed
  <2>5. n > 0 /\ entry[c].recovered < n
    BY <2>1, <2>3, <2>4
  <2>6. n <= Amount[c] /\ Collab[c] = t /\ entry[c].state # "none"
    BY <2>2, <2>3, <2>5 DEF RecoveredTally, Tells
  <2>7. /\ entry'[c].recovered = n /\ entry'[c].state = entry[c].state
        /\ \A d \in Rows : d # c => entry'[d] = entry[d]
    BY <2>1, <2>3, <2>4 DEF Entries
  <2>8. \A d \in Rows : entry'[d].state = entry[d].state
    BY <2>7
  <2>9. \A q \in Periods : \A u \in Collabs :
          (Covers(q, u)' <=> Covers(q, u)) /\ Due(q, u)' = Due(q, u)
    BY <1>2, SameBills
  <2>10. \A u \in Collabs : AllDue(u)' = AllDue(u)
    <3>1. \A u \in Collabs : Dues(u)' = Dues(u)
      BY <2>9 DEF Dues
    <3> QED BY <3>1 DEF AllDue
  <2>11. \A u \in Collabs : Covers(p, u) => Tells(p, u)'
    <3>1. SUFFICES ASSUME NEW u \in Collabs, Covers(p, u) PROVE Tells(p, u)'
      OBVIOUS
    <3>2. Tells(p, u)
      BY <3>1 DEF RecoveredTally
    <3>3. Due(p, u)' = Due(p, u) /\ bill'[p].pending = bill[p].pending
      BY <1>2, <2>9
    <3> QED BY <2>8, <3>2, <3>3 DEF Tells
  <2>12. \A u \in Collabs : u # t => AllBack(u)' = AllBack(u)
    <3>1. SUFFICES ASSUME NEW u \in Collabs, u # t PROVE AllBack(u)' = AllBack(u)
      OBVIOUS
    <3>2. c \notin RowsBy(u)
      BY <2>6, <3>1 DEF RowsBy
    <3> DEFINE f == Back
               g == [d \in Rows |-> entry'[d].recovered]
    <3>3. \A d \in RowsBy(u) : f[d] = g[d]
      BY <2>7, <3>2 DEF Back, RowsBy
    <3>4. AllBack(u) = SumFunctionOnSet(f, RowsBy(u)) /\ AllBack(u)' = SumFunctionOnSet(g, RowsBy(u))
      BY DEF AllBack, Back, RowsBy
    <3>5. IsFiniteSet(RowsBy(u))
      BY <1>0, TallyIs
    <3> HIDE DEF f, g
    <3> QED BY <3>3, <3>4, <3>5, SumSame
  <2>13. ASSUME NEW u \in Collabs, Covers(p, u)
         PROVE  SumFunctionOnSet(Goals(p, u), RowsBy(u))' = AllDue(u)
    <3> DEFINE f == Goals(p, u)
               g == [d \in Rows |-> Goal(p, u, d)']
    <3>1. ASSUME NEW d \in RowsBy(u)
          PROVE  f[d] = g[d]
      <4>1. d \in Rows /\ Collab[d] = u
        BY DEF RowsBy
      <4>2. CASE d = c
        <5>1. u = t
          BY <2>6, <4>1, <4>2
        <5>2. Goal(p, u, d) = n /\ Goal(p, u, d)' = n
          BY <1>2, <2>2, <2>3, <2>5, <2>7, <4>2, <5>1 DEF Goal
        <5> QED BY <4>1, <5>2 DEF Goals
      <4>3. CASE d # c
        <5>1. Goal(p, u, d)' = Goal(p, u, d)
          BY <1>2, <2>7, <4>1, <4>3 DEF Goal
        <5> QED BY <4>1, <5>1 DEF Goals
      <4> QED BY <4>2, <4>3
    <3>2. SumFunctionOnSet(f, RowsBy(u)) = AllDue(u)
      BY <2>13 DEF RecoveredTally
    <3>3. SumFunctionOnSet(Goals(p, u), RowsBy(u))' = SumFunctionOnSet(g, RowsBy(u))
      BY DEF Goals, RowsBy
    <3>4. IsFiniteSet(RowsBy(u))
      BY <1>0, TallyIs
    <3> HIDE DEF f, g
    <3>5. SumFunctionOnSet(f, RowsBy(u)) = SumFunctionOnSet(g, RowsBy(u))
      BY <3>1, <3>4, SumSame
    <3> QED BY <3>2, <3>3, <3>5
  <2>14. \A d \in Rows : /\ entry'[d].recovered <= Amount[d]
                         /\ entry'[d].state = "none" => entry'[d].recovered = 0
    BY <2>6, <2>7 DEF RecoveredTally
  <2>15. \A q \in Periods : \A u \in Collabs : Covers(q, u) => q = p
    BY <2>2, OneCovers
  <2>16. \A q \in Periods : \A u \in Collabs : Covers(q, u)' =>
           Tells(q, u)' /\ SumFunctionOnSet(Goals(q, u), RowsBy(u))' = AllDue(u)'
    BY <2>9, <2>10, <2>11, <2>13, <2>15
  <2>17. \A u \in Collabs : (\A q \in Periods : ~Covers(q, u)') => AllBack(u)' = AllDue(u)'
    BY <2>2, <2>9, <2>10, <2>12 DEF RecoveredTally
  <2> QED BY <2>14, <2>16, <2>17 DEF RecoveredTally
<1> QED BY <1>4, <1>5

LEMMA TallyClose ==
  ASSUME Control, Control', Finishing, PaidLines, NotedDebts, RecoveredTally, CloseBill
  PROVE  RecoveredTally'
<1>0. Typed
  BY DEF Control
<1>1. UNCHANGED entry
  BY DEF CloseBill
<1>2. \A p \in Periods : \A t \in Collabs : Due(p, t)' = Due(p, t) /\ ~Covers(p, t)'
  BY PaidLinesClose
<1>3. \A p \in Periods : \A t \in Collabs : Covers(p, t) => Told(p, t)
  BY NotedClose
<1>4. ASSUME NEW t \in Collabs
      PROVE  AllBack(t)' = AllDue(t)'
  <2>1. AllBack(t)' = AllBack(t)
    BY <1>1 DEF AllBack, Back, RowsBy
  <2>2. AllDue(t)' = AllDue(t)
    <3>1. Dues(t)' = Dues(t)
      BY <1>2 DEF Dues
    <3> QED BY <3>1 DEF AllDue
  <2>3. CASE \A p \in Periods : ~Covers(p, t)
    BY <2>1, <2>2, <2>3 DEF RecoveredTally
  <2>4. CASE \E p \in Periods : Covers(p, t)
    <3>1. PICK p \in Periods : Covers(p, t)
      BY <2>4
    <3>2. Told(p, t) /\ SumFunctionOnSet(Goals(p, t), RowsBy(t)) = AllDue(t)
      BY <1>3, <3>1 DEF RecoveredTally
    <3> DEFINE f == Goals(p, t)
               g == Back
    <3>3. ASSUME NEW c \in RowsBy(t)
          PROVE  f[c] = g[c]
      <4>1. c \in Rows
        BY DEF RowsBy
      <4>2. bill[p].pending \in Payments /\ t \in DOMAIN bill[p].pending.line
        BY <1>0, <3>1, DueIs DEF Covers
      <4>3. PICK n \in Nat : n = bill[p].pending.line[t].recover[c]
        BY <4>1, <4>2, PaymentIs
      <4>4. entry[c].recovered >= n
        BY <3>2, <4>1, <4>3 DEF Told
      <4>5. entry[c].recovered \in Nat
        BY <1>0, <4>1, TypedAre DEF Entries
      <4>6. Goal(p, t, c) = entry[c].recovered
        BY <4>3, <4>4, <4>5 DEF Goal
      <4> QED BY <4>1, <4>6 DEF Goals, Back
    <3>4. IsFiniteSet(RowsBy(t))
      BY <1>0, TallyIs
    <3>5. AllBack(t) = SumFunctionOnSet(g, RowsBy(t))
      BY DEF AllBack
    <3> HIDE DEF f, g
    <3>6. SumFunctionOnSet(f, RowsBy(t)) = SumFunctionOnSet(g, RowsBy(t))
      BY <3>3, <3>4, SumSame
    <3> QED BY <2>1, <2>2, <3>2, <3>5, <3>6 DEF f
  <2> QED BY <2>3, <2>4
<1>5. \A c \in Rows : /\ entry'[c].recovered <= Amount[c]
                      /\ entry'[c].state = "none" => entry'[c].recovered = 0
  BY <1>1 DEF RecoveredTally
<1> QED BY <1>2, <1>4, <1>5 DEF RecoveredTally

\* When no payment is recorded, all that was taken off is settled.
LEMMA TakenOffIsAllDue ==
  ASSUME Typed, NotedDebts, NEW t \in Collabs, \A p \in Periods : ~Covers(p, t)
  PROVE  TakenOff(t) = AllDue(t)
<1>1. PICK S \in SUBSET Periods : S = account[t].settled
  BY NotedAre
<1> DEFINE f == Dues(t)
<1>2. \A p \in Periods : f[p] = Due(p, t) /\ f[p] \in Nat
  BY TallyIs
<1>3. ASSUME NEW p \in Periods, p \notin S
      PROVE  f[p] = 0
  <2>1. Due(p, t) > 0 => Paid(p, t)
    BY <1>2 DEF Due
  <2>2. Paid(p, t) /\ Due(p, t) > 0 => p \in S
    BY <1>1 DEF NotedDebts, BooksNoted, Noted
  <2> QED BY <1>2, <1>3, <2>1, <2>2
<1>4. TakenOff(t) = SumFunctionOnSet(f, S) /\ AllDue(t) = SumFunctionOnSet(f, Periods)
  BY <1>1 DEF TakenOff, AllDue
<1> HIDE DEF f
<1>5. /\ \A p \in Periods : f[p] \in Int
      /\ \A p \in Periods : f[p] = IF p \in S THEN f[p] ELSE 0
  BY <1>2, <1>3
<1>6. SumFunctionOnSet(f, Periods) = SumFunctionOnSet(f, S)
  BY <1>5, ConstantsAre, SumOfSome
<1> QED BY <1>4, <1>6

\* Then a debt is what the clawbacks still owe.
LEMMA DebtIsOwed ==
  ASSUME Control, NotedDebts, DebtsTally, RecoveredTally,
         \A c \in Rows : entry[c].state # "new",
         NEW t \in Collabs, \A p \in Periods : ~Covers(p, t)
  PROVE  /\ account[t].debt = SumFunctionOnSet(Rests, Owing(t))
         /\ Owing(t) \in SUBSET RowsBy(t)
<1>0. Typed
  BY DEF Control
<1>1. PICK E \in SUBSET Rows : E = account[t].entries
  BY <1>0, TypedAre DEF Accounts
<1>2. \A c \in Rows : c \in E <=> Collab[c] = t /\ entry[c].state = "applied"
  <2>1. \A c \in E : Collab[c] = t /\ entry[c].state # "none"
    BY <1>1 DEF DebtsTally
  <2>2. \A c \in Rows : entry[c].state \in {"none", "new", "applied"}
    BY <1>0, TypedAre DEF Entries
  <2>3. \A c \in Rows : entry[c].state = "applied" /\ Collab[c] = t => c \in E
    BY <1>1 DEF DebtsTally
  <2> QED BY <2>1, <2>2, <2>3
<1>3. E \in SUBSET RowsBy(t) /\ IsFiniteSet(E)
  BY <1>0, <1>2, WorthNat DEF RowsBy
<1>4. AllBack(t) = SumFunctionOnSet(Back, E)
  <2>1. ASSUME NEW c \in RowsBy(t)
        PROVE  Back[c] \in Int /\ Back[c] = IF c \in E THEN Back[c] ELSE 0
    <3>1. c \in Rows /\ Collab[c] = t
      BY DEF RowsBy
    <3>2. Back[c] = entry[c].recovered /\ Back[c] \in Int
      BY <1>0, <3>1, TallyIs
    <3>3. entry[c].state \in {"none", "applied"}
      BY <1>0, <3>1, TypedAre DEF Entries
    <3>4. c \notin E => entry[c].recovered = 0
      BY <1>2, <3>1, <3>3 DEF RecoveredTally
    <3> QED BY <3>2, <3>4
  <2>2. IsFiniteSet(RowsBy(t))
    BY <1>0, TallyIs
  <2> QED BY <1>3, <2>1, <2>2, SumOfSome DEF AllBack
<1>5. Owing(t) \in SUBSET E
  <2>1. \A c \in Owing(t) : c \in Rows
    BY <1>0, RestsAre
  <2> QED BY <1>2, <2>1 DEF Owing
<1>6. SumFunctionOnSet(Rests, E) = SumFunctionOnSet(Rests, Owing(t))
  <2>1. ASSUME NEW c \in E
        PROVE  Rests[c] \in Int /\ Rests[c] = IF c \in Owing(t) THEN Rests[c] ELSE 0
    <3>1. Rests[c] = Rest(c) /\ Rests[c] \in Int /\ Rests[c] = Amount[c] - entry[c].recovered
      BY <1>0, TallyIs
    <3>2. PICK a \in Nat, n \in Nat : a = Amount[c] /\ n = entry[c].recovered
      BY <1>0, ConstantsAre, TypedAre DEF Entries
    <3>3. n <= a
      BY <3>2 DEF RecoveredTally
    <3>4. c \in Range(ledger)
      BY <1>0, <1>2 DEF Typed, BillsTypeOK
    <3>5. Rest(c) > 0 => c \in Owing(t)
      BY <1>2, <3>4 DEF Owing
    <3> QED BY <3>1, <3>2, <3>3, <3>5
  <2> QED BY <1>3, <1>5, <2>1, SumOfSome
<1>7. Worth(E) = SumFunctionOnSet(Back, E) + SumFunctionOnSet(Rests, E)
  <2>1. \A c \in E : Back[c] \in Int /\ Rests[c] \in Int /\ Amount[c] = Back[c] + Rests[c]
    <3>1. SUFFICES ASSUME NEW c \in E
                   PROVE  Back[c] \in Int /\ Rests[c] \in Int /\ Amount[c] = Back[c] + Rests[c]
      OBVIOUS
    <3>2. PICK a \in Nat, n \in Nat : a = Amount[c] /\ n = entry[c].recovered
      BY <1>0, ConstantsAre, TypedAre DEF Entries
    <3>3. Back[c] = n /\ Rests[c] = a - n
      BY <1>0, <3>2, TallyIs
    <3> QED BY <3>2, <3>3
  <2> QED BY <1>3, <2>1, SumPlus DEF Worth
<1>8. TakenOff(t) = AllBack(t)
  BY <1>0, TakenOffIsAllDue DEF RecoveredTally
<1>9. account[t].debt + TakenOff(t) = Worth(E)
  BY <1>1 DEF DebtsTally, DebtTallies
<1>10. AllBack(t) \in Nat /\ account[t].debt \in Nat
  BY <1>0, TallyIs, TypedAre DEF Accounts
<1>11. SumFunctionOnSet(Rests, E) \in Int
  <2>1. \A c \in E : Rests[c] \in Int
    BY <1>0, TallyIs
  <2> QED BY <1>3, <2>1, SumInt
<1>12. account[t].debt = SumFunctionOnSet(Rests, E)
  BY <1>4, <1>7, <1>8, <1>9, <1>10, <1>11
<1> QED BY <1>3, <1>5, <1>6, <1>12

\* What a payment that takes f off will have brought back.
LEMMA SharedOut ==
  ASSUME Typed, NEW t \in Collabs, NEW f \in Nat,
         f <= SumFunctionOnSet(Rests, Owing(t)), Owing(t) \in SUBSET RowsBy(t),
         NEW goal,
         \A c \in RowsBy(t) : goal[c] =
           IF entry[c].recovered < Recovery(t, f)[c] THEN Recovery(t, f)[c] ELSE entry[c].recovered
  PROVE  SumFunctionOnSet(goal, RowsBy(t)) = AllBack(t) + f
<1> DEFINE share == [c \in Rows |-> IF c \in Owing(t) /\ RestBefore(c) < f
                       THEN Least(Rest(c), f - RestBefore(c)) ELSE 0]
           before == [c \in Rows |-> RestBefore(c)]
           earlier == [c \in Rows |-> {d \in Owing(t) : Before(ledger, d, c)}]
<1>1. /\ Owing(t) \in SUBSET Rows /\ IsFiniteSet(Owing(t))
      /\ \A c \in Owing(t) : Rest(c) \in Nat /\ Rest(c) > 0
      /\ \A c \in Rows : RestBefore(c) \in Nat
  BY RestsAre
<1>2. \A c \in Rows : share[c] \in Nat
  <2>1. SUFFICES ASSUME NEW c \in Rows PROVE share[c] \in Nat
    OBVIOUS
  <2>2. CASE c \in Owing(t) /\ RestBefore(c) < f
    <3>1. PICK r \in Nat, b \in Nat : r = Rest(c) /\ b = RestBefore(c)
      BY <1>1, <2>2
    <3>2. b < f /\ share[c] = Least(r, f - b)
      BY <2>2, <3>1
    <3> QED BY <3>2 DEF Least
  <2>3. CASE ~(c \in Owing(t) /\ RestBefore(c) < f)
    BY <2>3
  <2> QED BY <2>2, <2>3
<1>3. ASSUME NEW c \in RowsBy(t)
      PROVE  goal[c] = Back[c] + share[c]
  <2>1. c \in Rows
    BY DEF RowsBy
  <2>2. PICK n \in Nat : n = entry[c].recovered /\ n = Back[c]
    BY <2>1, TallyIs
  <2>3. PICK s \in Nat : s = share[c]
    BY <1>2, <2>1
  <2>4. Recovery(t, f)[c] = IF c \in Owing(t) /\ RestBefore(c) < f
                THEN entry[c].recovered + Least(Rest(c), f - RestBefore(c)) ELSE 0
    BY <2>1, RecoveryIs
  <2>5. CASE c \in Owing(t) /\ RestBefore(c) < f
    <3>1. PICK l : l = Least(Rest(c), f - RestBefore(c))
      OBVIOUS
    <3>2. s = l
      BY <2>1, <2>3, <2>5, <3>1
    <3>3. Recovery(t, f)[c] = n + s
      BY <2>2, <2>4, <2>5, <3>1, <3>2
    <3>4. goal[c] = IF n < n + s THEN n + s ELSE n
      BY <2>2, <3>3
    <3> QED BY <2>2, <2>3, <3>4
  <2>6. CASE ~(c \in Owing(t) /\ RestBefore(c) < f)
    <3>1. s = 0
      BY <2>1, <2>3, <2>6
    <3>2. Recovery(t, f)[c] = 0
      BY <2>4, <2>6
    <3>3. goal[c] = IF n < 0 THEN 0 ELSE n
      BY <2>2, <3>2
    <3> QED BY <2>2, <2>3, <3>1, <3>3
  <2> QED BY <2>5, <2>6
<1>4. \A c \in Owing(t) : before[c] = SumFunctionOnSet(Rests, earlier[c])
  <2>1. SUFFICES ASSUME NEW c \in Owing(t)
                 PROVE  RestBefore(c) = SumFunctionOnSet(Rests, {d \in Owing(t) : Before(ledger, d, c)})
    BY <1>1
  <2>2. Collab[c] = t
    BY DEF Owing
  <2> DEFINE D == {d \in Owing(t) : Before(ledger, d, c)}
             g == [d \in D |-> Rest(d)]
  <2>3. RestBefore(c) = SumFunction(g)
    BY <2>2 DEF RestBefore
  <2>4. SumFunction(g) = SumFunctionOnSet(g, D)
    BY SumAll
  <2>5. IsFiniteSet(D) /\ \A d \in D : g[d] = Rests[d]
    BY <1>1, FS_Subset DEF Rests
  <2> HIDE DEF D, g
  <2>6. SumFunctionOnSet(g, D) = SumFunctionOnSet(Rests, D)
    BY <2>5, SumSame
  <2> QED BY <2>3, <2>4, <2>6 DEF D
<1>5. \A c \in Owing(t) :
        share[c] = IF before[c] < f THEN Least(Rests[c], f - before[c]) ELSE 0
  BY <1>1 DEF Rests
<1>6. \A c \in Owing(t) : Rests[c] \in Nat
  BY <1>1 DEF Rests
<1>e. /\ \A c \in Owing(t) : earlier[c] \in SUBSET Owing(t)
      /\ \A c \in Owing(t) : \A d \in Owing(t) : d \in earlier[c] <=> Before(ledger, d, c)
  BY <1>1
<1> HIDE DEF share, before, earlier
<1>7. SumFunctionOnSet(share, Owing(t)) = f
  <2>1. ledger \in Seq(Rows) /\ IsInjective(ledger)
    BY DEF Typed, BillsTypeOK
  <2>2. Owing(t) \in SUBSET Range(ledger)
    BY DEF Owing
  <2>3. PICK w \in Nat : w = SumFunctionOnSet(Rests, Owing(t))
    BY <1>1, <1>6, SumNat
  <2>4. SumFunctionOnSet(share, Owing(t)) = Least(w, f)
    <3> DEFINE T == Owing(t)
    <3>1. /\ \A c \in T : Rests[c] \in Nat
          /\ \A c \in T : earlier[c] \in SUBSET T
          /\ \A c \in T : \A d \in T : d \in earlier[c] <=> Before(ledger, d, c)
          /\ \A c \in T : before[c] = SumFunctionOnSet(Rests, earlier[c])
          /\ \A c \in T : share[c] = IF before[c] < f THEN Least(Rests[c], f - before[c]) ELSE 0
      BY <1>4, <1>5, <1>6, <1>e
    <3>2. IsFiniteSet(T) /\ T \in SUBSET Range(ledger)
      BY <1>1, <2>2
    <3> HIDE DEF T
    <3>3. Shares(ledger, T, f, Rests, earlier, before, share)
      BY <2>1, <3>1, <3>2 DEF Shares
    <3>4. SumFunctionOnSet(share, T) = Least(SumFunctionOnSet(Rests, T), f)
      BY <3>3, SharesAre
    <3> QED BY <2>3, <3>4 DEF T
  <2> QED BY <2>3, <2>4 DEF Least
<1>8. IsFiniteSet(RowsBy(t)) /\ \A c \in RowsBy(t) : Back[c] \in Int /\ share[c] \in Int
  <2>1. IsFiniteSet(RowsBy(t)) /\ \A c \in Rows : Back[c] \in Nat
    BY TallyIs
  <2>2. \A c \in RowsBy(t) : c \in Rows
    BY DEF RowsBy
  <2> QED BY <1>2, <2>1, <2>2
<1>9. SumFunctionOnSet(share, RowsBy(t)) = SumFunctionOnSet(share, Owing(t))
  <2>1. \A c \in RowsBy(t) : share[c] = IF c \in Owing(t) THEN share[c] ELSE 0
    BY DEF share, RowsBy
  <2> QED BY <1>8, <2>1, SumOfSome
<1>10. SumFunctionOnSet(goal, RowsBy(t)) =
         SumFunctionOnSet(Back, RowsBy(t)) + SumFunctionOnSet(share, RowsBy(t))
  BY <1>3, <1>8, SumPlus
<1> QED BY <1>7, <1>9, <1>10 DEF AllBack

LEMMA TallyConfirm ==
  ASSUME Control, Control', Finishing, PaidLines, NotedDebts, DebtsTally, RecoveredTally,
         ConfirmPayment
  PROVE  RecoveredTally'
<1>0. Typed
  BY DEF Control
<1>1. CASE UNCHANGED <<row, bill, account, entry, offsets>> /\ section'.pc = "books"
  BY <1>0, <1>1, BillsAsTheyAre, TallyStays
<1>2. CASE ~(UNCHANGED <<row, bill, account, entry, offsets>> /\ section'.pc = "books")
  <2>1. PICK p \in Periods : Confirmed(p)
    BY <1>2, ConfirmAdds
  <2>2. UNCHANGED entry /\ section.pc = "work"
    BY <2>1 DEF Confirmed
  <2>3. Back' = Back /\ \A t \in Collabs : AllBack(t)' = AllBack(t)
    BY <2>2 DEF Back, AllBack, RowsBy
  <2>4. \A t \in Collabs : \A q \in Periods : ~Covers(q, t)
    BY <2>1 DEF Confirmed
  <2>5. \A t \in Collabs : AllBack(t) = AllDue(t)
    BY <2>4 DEF RecoveredTally
  <2>6. \A q \in Periods : \A t \in Collabs : Covers(q, t)' <=> q = p /\ t \in Unpaid(p)
    BY <2>1 DEF Confirmed
  <2>7. \A q \in Periods : \A t \in Collabs : ~(q = p /\ t \in Unpaid(p)) => Due(q, t)' = Due(q, t)
    BY <2>1 DEF Confirmed
  <2>8. ASSUME NEW t \in Collabs, t \notin Unpaid(p)
        PROVE  AllBack(t)' = AllDue(t)'
    <3>1. Dues(t)' = Dues(t)
      BY <2>7, <2>8 DEF Dues
    <3>2. AllDue(t)' = AllDue(t)
      BY <3>1 DEF AllDue
    <3> QED BY <2>3, <2>5, <3>2
  <2>9. ASSUME NEW t \in Unpaid(p)
        PROVE  /\ Tells(p, t)'
               /\ SumFunctionOnSet(Goals(p, t), RowsBy(t))' = AllDue(t)'
    <3>1. /\ t \in Collabs /\ Due(p, t) = 0 /\ Due(p, t)' = Offset(p, t)
          /\ bill'[p].pending.line[t].recover = Recovery(t, Offset(p, t))
      BY <2>1, <2>9 DEF Confirmed
    <3>2. PICK f \in Nat : f = Offset(p, t) /\ f <= account[t].debt
      BY <1>0, <3>1, OffsetIs
    <3>3. \A c \in Rows : entry[c].state # "new"
      BY <2>2, AtWork
    <3>4. /\ account[t].debt = SumFunctionOnSet(Rests, Owing(t))
          /\ Owing(t) \in SUBSET RowsBy(t)
      BY <2>4, <3>1, <3>3, DebtIsOwed
    <3>5. /\ Recovery(t, f) \in [Rows -> Nat]
          /\ \A c \in Rows :
               Recovery(t, f)[c] = IF c \in Owing(t) /\ RestBefore(c) < f
                 THEN entry[c].recovered + Least(Rest(c), f - RestBefore(c)) ELSE 0
      BY <1>0, <3>1, RecoveryIs
    <3>6. bill'[p].pending.line[t].recover = Recovery(t, f)
      BY <3>1, <3>2
    <3>7. Due(p, t)' = f
      BY <3>1, <3>2
    <3>8. Tells(p, t)'
      <4>1. SUFFICES ASSUME NEW c \in Rows, Recovery(t, f)[c] > 0
                     PROVE  /\ Recovery(t, f)[c] <= Amount[c] /\ Collab[c] = t
                            /\ entry[c].state # "none" /\ f > 0
        BY <2>2, <3>6, <3>7 DEF Tells
      <4>2. c \in Owing(t) /\ RestBefore(c) < f
        BY <3>5, <4>1
      <4>3. Collab[c] = t /\ entry[c].state = "applied"
        BY <4>2 DEF Owing
      <4>4. PICK n \in Nat, a \in Nat, r \in Nat, b \in Nat :
              n = entry[c].recovered /\ a = Amount[c] /\ r = Rest(c) /\ b = RestBefore(c)
        BY <1>0, <4>2, ConstantsAre, TypedAre, RestsAre DEF Entries
      <4>5. r = a - n /\ b < f
        BY <4>2, <4>4 DEF Rest
      <4>6. Recovery(t, f)[c] = n + Least(r, f - b)
        BY <3>5, <4>2, <4>4
      <4>7. n + Least(r, f - b) <= a
        BY <4>5 DEF Least
      <4> QED BY <4>3, <4>4, <4>5, <4>6, <4>7
    <3> DEFINE g == [c \in Rows |-> Goal(p, t, c)']
               before == Dues(t)
               after == [q \in Periods |-> Due(q, t)']
    <3>9. SumFunctionOnSet(Goals(p, t), RowsBy(t))' = SumFunctionOnSet(g, RowsBy(t))
      BY DEF Goals, RowsBy
    <3>10. \A c \in RowsBy(t) : g[c] =
             IF entry[c].recovered < Recovery(t, f)[c] THEN Recovery(t, f)[c] ELSE entry[c].recovered
      BY <2>2, <3>6 DEF RowsBy, Goal
    <3>11. AllDue(t) = SumFunctionOnSet(before, Periods) /\ AllDue(t)' = SumFunctionOnSet(after, Periods)
      BY DEF AllDue, Dues
    <3>12. /\ \A q \in Periods : before[q] \in Int
           /\ \A q \in Periods \ {p} : after[q] = before[q]
           /\ before[p] = 0 /\ after[p] = f
      BY <1>0, <2>7, <3>1, <3>7, TallyIs DEF Dues
    <3> HIDE DEF g, before, after
    <3>13. SumFunctionOnSet(g, RowsBy(t)) = AllBack(t) + f
      <4>1. f <= SumFunctionOnSet(Rests, Owing(t))
        BY <3>2, <3>4
      <4> QED BY <1>0, <3>1, <3>4, <3>10, <4>1, SharedOut
    <3>14. \A q \in Periods : after[q] \in Int
      BY <3>12
    <3>15. SumFunctionOnSet(after, Periods) = SumFunctionOnSet(before, Periods) - before[p] + after[p]
      BY <3>12, <3>14, ConstantsAre, SumChange
    <3>16. PICK n \in Nat : n = AllDue(t) /\ n = AllBack(t)
      BY <1>0, <2>5, <3>1, TallyIs
    <3>17. AllDue(t)' = n + f
      BY <3>11, <3>12, <3>15, <3>16
    <3> QED BY <3>8, <3>9, <3>13, <3>16, <3>17
  <2>10. \A c \in Rows : /\ entry'[c].recovered <= Amount[c]
                         /\ entry'[c].state = "none" => entry'[c].recovered = 0
    BY <2>2 DEF RecoveredTally
  <2>11. \A q \in Periods : \A t \in Collabs : Covers(q, t)' =>
           Tells(q, t)' /\ SumFunctionOnSet(Goals(q, t), RowsBy(t))' = AllDue(t)'
    BY <2>6, <2>9
  <2>12. \A t \in Collabs : (\A q \in Periods : ~Covers(q, t)') => AllBack(t)' = AllDue(t)'
    BY <2>6, <2>8
  <2> QED BY <2>10, <2>11, <2>12 DEF RecoveredTally
<1> QED BY <1>1, <1>2

LEMMA TallyStep ==
  ASSUME Control, Control', Finishing, PaidLines, NotedDebts, DebtsTally, RecoveredTally,
         [BillsNext]_billVars
  PROVE  RecoveredTally'
<1>0. Typed
  BY DEF Control
<1>1. CASE Recovered
  BY <1>1, TallyRecovered
<1>2. CASE CloseBill
  BY <1>2, TallyClose
<1>3. CASE ConfirmPayment
  BY <1>3, TallyConfirm
<1>4. ASSUME UNCHANGED bill,
             \A c \in Rows : /\ entry'[c].recovered = entry[c].recovered
                             /\ entry[c].state # "none" => entry'[c].state # "none"
      PROVE  RecoveredTally'
  BY <1>0, <1>4, BillsAsTheyAre, TallyStays
<1>5. CASE UNCHANGED billVars
  BY <1>4, <1>5 DEF billVars
<1>6. CASE Unpaying
  BY <1>0, <1>6, UnpayingDoes, TallyStays
<1>7. CASE AddDebt \/ PayRows \/ OffsetEntry
  BY <1>4, <1>7 DEF AddDebt, PayRows, OffsetEntry
<1>8. CASE \E t \in Collabs : Settle(t)
  BY <1>4, <1>8 DEF Settle, SettleThen
<1>9. CASE FlagEntry
  <2>1. PICK c : entry' = [entry EXCEPT ![c].state = "applied"] /\ UNCHANGED bill
    BY <1>9 DEF FlagEntry
  <2>2. entry \in [Rows -> Entries]
    BY <1>0, TypeParts DEF Typed
  <2> QED BY <1>4, <2>1, <2>2 DEF Entries
<1>10. CASE Clawback
  <2>1. PICK c \in Rows : ClawbackDone(c)
    BY <1>0, <1>10, ClawbackDoes
  <2>2. \A d \in Rows : /\ entry'[d].recovered = entry[d].recovered
                        /\ entry[d].state # "none" => entry'[d].state # "none"
    BY <2>1 DEF ClawbackDone
  <2> QED BY <1>4, <2>1, <2>2 DEF ClawbackDone
<1> QED BY <1>1, <1>2, <1>3, <1>5, <1>6, <1>7, <1>8, <1>9, <1>10 DEF BillsNext, Unpaying

-----------------------------------------------------------------------------
(* The books, whatever sections stopped half way                            *)

Books == Control /\ Finishing /\ PaidLines /\ NotedDebts /\ DebtsTally /\ RecoveredTally

LEMMA BooksAlways == BillsSpec => []Books
<1>1. BillsInit => Books
  BY ControlInit, FinishingInit, PaidLinesInit, NotedInit, DebtsInit, TallyInit
  DEF Books
<1>2. Books /\ [BillsNext]_billVars => Books'
  <2> SUFFICES ASSUME Books, [BillsNext]_billVars PROVE Books'
    OBVIOUS
  <2> USE DEF Books
  <2>1. Control'
    BY ControlStep
  <2>2. Finishing' /\ PaidLines' /\ DebtsTally' /\ RecoveredTally'
    BY <2>1, FinishingStep, PaidLinesStep, DebtsStep, TallyStep
  <2>3. NotedDebts'
    <3>1. \A p \in Periods : \A t \in Collabs : Covers(p, t) => Tells(p, t)
      BY DEF RecoveredTally
    <3> QED BY <2>1, <3>1, NotedStep
  <2> QED BY <2>1, <2>2, <2>3
<1> QED BY <1>1, <1>2, PTL DEF BillsSpec

\* The ledger's offsets are what the settled payments took off.
LEMMA OffsetsAreTakenOff ==
  ASSUME Typed, NotedDebts, NEW t \in Collabs, \A p \in Periods : ~Covers(p, t)
  PROVE  OffsetsOf(t) = TakenOff(t)
<1>1. PICK S \in SUBSET Periods : S = account[t].settled
  BY NotedAre
<1>2. IsFiniteSet(S)
  BY ConstantsAre, FS_Subset
<1> DEFINE O == {o \in offsets : o[2] = t}
           g == [o \in O |-> o[3]]
           h == [p \in S |-> <<p, t, Due(p, t)>>]
           f == Dues(t)
<1>3. \A p \in S : h[p] \in O /\ g[h[p]] = f[p]
  <2>1. SUFFICES ASSUME NEW p \in S
                 PROVE  <<p, t, Due(p, t)>> \in offsets /\ f[p] = Due(p, t)
    OBVIOUS
  <2>2. Due(p, t) > 0
    BY <1>1 DEF NotedDebts, BooksNoted
  <2>3. Paid(p, t)
    BY <2>2 DEF Due
  <2>4. Noted(p, t)
    BY <2>2, <2>3 DEF NotedDebts, BooksNoted
  <2> QED BY <2>4, TallyIs DEF Noted
<1>4. \A o \in O : \E p \in S : h[p] = o
  <2>1. SUFFICES ASSUME NEW o \in O PROVE \E p \in S : h[p] = o
    OBVIOUS
  <2>2. o \in offsets /\ o[2] = t
    OBVIOUS
  <2>3. o = <<o[1], o[2], o[3]>>
    BY <2>2, NotedAre
  <2>4. o[1] \in account[o[2]].settled /\ o[3] = Due(o[1], o[2])
    BY <2>2 DEF NotedDebts, BooksNoted
  <2>5. o[1] \in S /\ o = <<o[1], t, Due(o[1], t)>>
    BY <1>1, <2>2, <2>3, <2>4
  <2> QED BY <2>5
<1>5. \A p, q \in S : h[p] = h[q] => p = q
  OBVIOUS
<1>6. \A p \in S : f[p] \in Int
  BY TallyIs
<1>7. OffsetsOf(t) = SumFunctionOnSet(g, O)
  BY SumAll DEF OffsetsOf
<1>8. TakenOff(t) = SumFunctionOnSet(f, S)
  BY <1>1 DEF TakenOff
<1> HIDE DEF O, g, h, f
<1>9. O = {h[p] : p \in S}
  BY <1>3, <1>4
<1>10. SumFunctionOnSet(g, {h[p] : p \in S}) = SumFunctionOnSet(f, S)
  BY <1>2, <1>3, <1>5, <1>6, SumMapped
<1> QED BY <1>7, <1>8, <1>9, <1>10

\* The cash and the debts of a collaborator's lines come to the rows paid.
LEMMA CashIsPaid ==
  ASSUME Typed, PaidLines, NEW t \in Collabs, \A p \in Periods : ~Covers(p, t)
  PROVE  CashOf(t) + AllDue(t) = Worth(PaidRows(t)) /\ CashOf(t) \in Nat
<1> DEFINE Q == {p \in Periods : t \in DOMAIN bill[p].line}
           lines == [p \in Q |-> bill[p].line[t].cash]
           cash == [p \in Periods |-> IF p \in Q THEN bill[p].line[t].cash ELSE 0]
           dues == Dues(t)
           part == [p \in Periods |-> PaidIn(p, t)]
           sums == [p \in Periods |-> Worth(PaidIn(p, t))]
<1>1. ASSUME NEW p \in Periods
      PROVE  /\ cash[p] \in Nat /\ dues[p] \in Nat
             /\ sums[p] = cash[p] + dues[p]
             /\ part[p] \in SUBSET Rows /\ sums[p] = SumFunctionOnSet(Amount, part[p])
  <2>1. LinePaid(p, t)
    BY DEF PaidLines
  <2>2. dues[p] = Due(p, t) /\ dues[p] \in Nat
    BY TallyIs
  <2>3. PaidIn(p, t) \in SUBSET Rows /\ (t \in DOMAIN bill[p].line => bill[p].line[t] \in Line)
    BY DueIs
  <2>4. cash[p] \in Nat
    BY <2>3 DEF Line
  <2>5. Worth(PaidIn(p, t)) = cash[p] + dues[p]
    <3>1. CASE Paid(p, t)
      BY <2>1, <2>2, <3>1 DEF LinePaid, Paid
    <3>2. CASE ~Paid(p, t)
      <4>1. PaidIn(p, t) = {} /\ cash[p] = 0 /\ dues[p] = 0
        BY <2>1, <2>2, <3>2 DEF LinePaid, Due
      <4>2. Worth({}) = 0
        BY SumOfNone DEF Worth
      <4> QED BY <4>1, <4>2
    <3> QED BY <3>1, <3>2
  <2> QED BY <2>2, <2>3, <2>4, <2>5 DEF Worth
<1>2. \A p, q \in Periods : p # q => part[p] \cap part[q] = {}
  BY DEF PaidIn
<1>3. UNION {part[p] : p \in Periods} = PaidRows(t)
  <2>1. \A c \in Rows : Period[c] \in Periods
    BY ConstantsAre
  <2> QED BY <2>1 DEF PaidIn, PaidRows
<1>4. CashOf(t) = SumFunctionOnSet(lines, Q)
  BY SumAll DEF CashOf
<1>5. AllDue(t) = SumFunctionOnSet(dues, Periods)
  BY DEF AllDue
<1>6. IsFiniteSet(Periods) /\ IsFiniteSet(Rows) /\ Q \in SUBSET Periods /\ IsFiniteSet(Q)
  BY ConstantsAre, FS_Subset
<1>7. \A p \in Q : lines[p] = cash[p]
  OBVIOUS
<1>8. \A p \in Periods : cash[p] = IF p \in Q THEN cash[p] ELSE 0
  OBVIOUS
<1>9. part \in [Periods -> SUBSET Rows]
  BY <1>1
<1> HIDE DEF Q, lines, cash, dues, part, sums
<1>10. SumFunctionOnSet(lines, Q) = SumFunctionOnSet(cash, Q)
  BY <1>6, <1>7, SumSame
<1>11. \A p \in Periods : cash[p] \in Int /\ dues[p] \in Int /\ sums[p] = cash[p] + dues[p]
  BY <1>1
<1>12. SumFunctionOnSet(cash, Periods) = SumFunctionOnSet(cash, Q)
  <2>1. \A p \in Periods : cash[p] \in Int
    BY <1>11
  <2> QED BY <1>6, <1>8, <2>1, SumOfSome
<1>13. SumFunctionOnSet(sums, Periods) =
         SumFunctionOnSet(cash, Periods) + SumFunctionOnSet(dues, Periods)
  BY <1>6, <1>11, SumPlus
<1>14. SumFunctionOnSet(sums, Periods) = SumFunctionOnSet(Amount, UNION {part[p] : p \in Periods})
  <2>1. \A c \in Rows : Amount[c] \in Int
    BY ConstantsAre
  <2>2. \A p \in Periods : sums[p] = SumFunctionOnSet(Amount, part[p])
    BY <1>1
  <2> QED BY <1>2, <1>6, <1>9, <2>1, <2>2, SumOfParts
<1>15. SumFunctionOnSet(sums, Periods) = Worth(PaidRows(t))
  BY <1>3, <1>14 DEF Worth
<1>16. CashOf(t) \in Nat
  <2>1. \A p \in Periods : cash[p] \in Nat
    BY <1>1
  <2> QED BY <1>4, <1>6, <1>10, <1>12, <2>1, SumNat
<1> QED BY <1>4, <1>5, <1>10, <1>12, <1>13, <1>15, <1>16

LEMMA RestBalances ==
  ASSUME Books, AtRest, NEW t \in Collabs
  PROVE  /\ CashOf(t) + OffsetsOf(t) = Worth(PaidRows(t))
         /\ account[t].debt + OffsetsOf(t) = Worth(ClawedRows(t))
         /\ SumFunction([c \in ClawedRows(t) |-> entry[c].recovered]) = OffsetsOf(t)
<1>0. Control /\ Typed /\ PaidLines /\ NotedDebts /\ DebtsTally /\ RecoveredTally
  BY DEF Books, Control
<1>1. \A p \in Periods : ~Covers(p, t)
  BY DEF AtRest, PendingBills, Covers
<1>2. \A c \in Rows : entry[c].state \in {"none", "applied"}
  <2>1. \A c \in Rows : entry[c].state \in {"none", "new", "applied"}
    BY <1>0, TypedAre DEF Entries
  <2> QED BY <2>1 DEF AtRest, Unapplied
<1>3. OffsetsOf(t) = TakenOff(t) /\ TakenOff(t) = AllDue(t) /\ AllBack(t) = AllDue(t)
  BY <1>0, <1>1, OffsetsAreTakenOff, TakenOffIsAllDue DEF RecoveredTally
<1>4. ClawedRows(t) = {c \in Rows : Collab[c] = t /\ entry[c].state = "applied"}
  <2>1. Range(ledger) = {c \in Rows : entry[c].state # "none"}
    BY <1>0 DEF Typed, BillsTypeOK
  <2> QED BY <1>2, <2>1 DEF ClawedRows
<1>5. account[t].entries = ClawedRows(t)
  <2>1. account[t].entries \subseteq {c \in Rows : Collab[c] = t /\ entry[c].state # "none"}
    BY <1>0 DEF DebtsTally
  <2>2. \A c \in Rows : entry[c].state = "applied" /\ Collab[c] = t => c \in account[t].entries
    BY <1>0 DEF DebtsTally
  <2> QED BY <1>2, <1>4, <2>1, <2>2
<1>6. account[t].debt + OffsetsOf(t) = Worth(ClawedRows(t))
  BY <1>0, <1>3, <1>5 DEF DebtsTally, DebtTallies
<1>7. CashOf(t) + OffsetsOf(t) = Worth(PaidRows(t))
  BY <1>0, <1>1, <1>3, CashIsPaid
<1>8. SumFunction([c \in ClawedRows(t) |-> entry[c].recovered]) = AllBack(t)
  <2> DEFINE C == ClawedRows(t)
             g == [c \in C |-> entry[c].recovered]
             f == Back
  <2>1. SumFunction(g) = SumFunctionOnSet(g, C)
    BY SumAll
  <2>2. C \in SUBSET RowsBy(t) /\ C \in SUBSET Rows
    BY <1>4 DEF RowsBy
  <2>3. IsFiniteSet(C) /\ IsFiniteSet(RowsBy(t))
    BY <1>0, <2>2, WorthNat, TallyIs
  <2>4. ASSUME NEW c \in RowsBy(t)
        PROVE  f[c] \in Int /\ f[c] = IF c \in C THEN f[c] ELSE 0
    <3>1. c \in Rows /\ Collab[c] = t
      BY DEF RowsBy
    <3>2. f[c] = entry[c].recovered /\ f[c] \in Int
      BY <1>0, <3>1, TallyIs
    <3>3. c \notin C => entry[c].recovered = 0
      BY <1>0, <1>2, <1>4, <3>1 DEF RecoveredTally
    <3> QED BY <3>2, <3>3
  <2>5. \A c \in C : g[c] = f[c]
    BY <2>2 DEF Back
  <2>6. AllBack(t) = SumFunctionOnSet(f, RowsBy(t))
    BY DEF AllBack
  <2> HIDE DEF C, g, f
  <2>7. SumFunctionOnSet(g, C) = SumFunctionOnSet(f, C)
    BY <2>3, <2>5, SumSame
  <2>8. SumFunctionOnSet(f, RowsBy(t)) = SumFunctionOnSet(f, C)
    BY <2>2, <2>3, <2>4, SumOfSome
  <2> QED BY <2>1, <2>6, <2>7, <2>8 DEF C, g
<1> QED BY <1>3, <1>6, <1>7, <1>8

\* Whatever sections stopped half way, once nothing is left to recover the
\* shop has paid each collaborator what is paid out less what was taken off,
\* the debt is what returned orders leave of it, and the clawbacks say
\* exactly how much of them has come back.
THEOREM MoneyAlwaysBalances == BillsSpec => []MoneyBalances
<1>1. Books => MoneyBalances
  BY RestBalances DEF MoneyBalances
<1> QED BY <1>1, BooksAlways, PTL
=============================================================================
