--------------------------- MODULE CampaignHolds ---------------------------
(***************************************************************************)
(* The uses of flash-sale prices and gifts that an order takes             *)
(* (backend/shopCampaigns/orderCampaign.ts, flash/ and worker/).           *)
(*                                                                         *)
(* A checkout raises `held` in each of its counters and then saves the     *)
(* order.  Whoever ends the order moves it to sold or released together    *)
(* with an operation record, then applies the operation to one counter at  *)
(* a time, leaving a marker in each, and removes markers and record.  The  *)
(* campaign worker resumes operations whose process died, settles orders   *)
(* left held, and lowers counters that hold more than the orders do.  One  *)
(* action is what happens between two awaits.                              *)
(***************************************************************************)
EXTENDS Integers, Sequences, FiniteSets, SequencesExt

CONSTANTS
  Orders,     \* orders, each with the checkout that creates it
  Products,   \* counters of products on offer and of gifts
  Shares,     \* counters of what one customer has taken of a product
  Lines,      \* order -> its counters, in the order of stepsOf
  Qty,        \* order -> how many uses it takes from each
  Limit,      \* counter -> the largest quota quoted, or perCustomerLimit
  Quoted,     \* order -> product -> the quota its quote saw
  Calls,      \* calls of markRedemptionUsed and releasePromotionHold, numbered
              \* in the order they come
  Workers,    \* processes that run the campaign worker
  MaxCrashes, \* bound: how many handlers may die half way
  None        \* an absent operation record

Counters == Products \cup Shares
Runners == Calls \cup Workers

ASSUME CampaignAssumption ==
  /\ Products \cap Shares = {}
  /\ Calls \cap Workers = {}
  /\ Calls \subseteq Nat
  /\ IsFiniteSet(Orders)
  /\ \A o \in Orders : Lines[o] \in Seq(Counters) /\ IsInjective(Lines[o])
  /\ Qty \in [Orders -> Nat \ {0}]
  /\ Limit \in [Counters -> Nat]
  /\ Quoted \in [Orders -> [Products -> Nat]]
  /\ \A o \in Orders, c \in Products : Quoted[o][c] <= Limit[c]
  /\ MaxCrashes \in Nat

VARIABLES
  counter,  \* shop_flash_counters: counter -> held, sold, ops, quota
  order,    \* shop orders: campaignHolds and how the order stands
  buy,      \* Orders -> locals of the checkout
  call,     \* Calls -> locals of the call
  run,      \* Runners -> locals of runHoldOperation
  work,     \* Workers -> locals of the tick
  crashes,  \* handlers that have died
  torn,     \* history: orders whose reclaim was cut short or overlapped
  stirred,  \* history: counters touched since the reconciler found them
  wrong     \* history: counters it lowered although they were touched

vars == <<counter, order, buy, call, run, work, crashes, torn, stirred, wrong>>

-----------------------------------------------------------------------------
(* State *)

\* A marker: an operation (the n-th of an order) and the index of its step.
Markers == Orders \X Nat \X Nat

Targets == {"sold", "released"}
Operation == [n : Nat, target : Targets, phase : {"apply", "cleanup"}]

ASSUME NoneAssumption == None \notin Operation

Counter == [held : Nat, sold : Nat, quota : Nat, ops : SUBSET Markers]

Order == [state : {"none", "held", "sold", "released"},
          op : Operation \cup {None},
          n : Nat,                             \* operations begun so far
          pay : {"open", "paid", "cancelled"}, \* how the order stands
          review : BOOLEAN]                    \* needsReview

Buy == [pc : {"start", "ensure", "take", "undo", "taken", "over", "crashed"},
        i : Nat, n : Nat]                      \* at step i, n are taken

Call == [pc : {"idle", "begin", "running", "flip", "take", "undo", "manual",
               "share", "done", "crashed"},
         o : Orders \cup {None}, to : Targets, i : Nat,
         got : Nat,                            \* last line taken back
         late : Nat]                           \* order's n then, 0 before

Run == [pc : {"idle", "apply", "pull"},
        o : Orders \cup {None}, op : Operation \cup {None}, i : Nat]

Tick == [pc : {"idle", "resume", "release", "sell", "expect"},
         todo : SUBSET Orders,                  \* rows left for the loop
         ops : [Orders -> Operation \cup {None}],     \* the rows as they were found
         snap : [Counters -> Nat],              \* counters found, with their held
         want : [Counters -> Nat],              \* what the orders hold
         pending : SUBSET Counters,
         asked : SUBSET {"held", "pending"}]    \* queries answered

HandlersTyped ==
  /\ counter \in [Counters -> Counter]
  /\ order \in [Orders -> Order]
  /\ buy \in [Orders -> Buy]
  /\ call \in [Calls -> Call]
  /\ run \in [Runners -> Run]
  /\ work \in [Workers -> Tick]
  /\ crashes \in 0..MaxCrashes

TypeOK ==
  /\ HandlersTyped
  /\ torn \in SUBSET Orders
  /\ stirred \in SUBSET Counters
  /\ wrong \in SUBSET Counters

NoRun == [pc |-> "idle", o |-> None, op |-> None, i |-> 1]
NoTick == [pc |-> "idle", todo |-> {}, ops |-> [o \in Orders |-> None],
           snap |-> [c \in Counters |-> 0], want |-> [c \in Counters |-> 0],
           pending |-> {}, asked |-> {}]

Init ==
  /\ counter = [c \in Counters |->
                  [held |-> 0, sold |-> 0, quota |-> 0, ops |-> {}]]
  /\ order = [o \in Orders |-> [state |-> "none", op |-> None, n |-> 0,
                                pay |-> "open", review |-> FALSE]]
  /\ buy = [o \in Orders |-> [pc |-> "start", i |-> 1, n |-> 0]]
  /\ call = [k \in Calls |-> [pc |-> "idle", o |-> None, to |-> "sold",
                              i |-> 1, got |-> 0, late |-> 0]]
  /\ run = [w \in Runners |-> NoRun]
  /\ work = [w \in Workers |-> NoTick]
  /\ crashes = 0
  /\ torn = {} /\ stirred = {} /\ wrong = {}

-----------------------------------------------------------------------------
(* The counters: each of these is one conditional update of one document.  *)

\* Mutant: the uses asked for are not counted.
HasUsesLeft(c, n, limit) == counter[c].sold + counter[c].held < limit

HasRoom(c, n, limit) == counter[c].sold + counter[c].held + n <= limit

Raise(c, n) == counter' = [counter EXCEPT ![c].held = @ + n]

\* settleCounter and settleCustomer with target released: never below zero.
GiveBack(c, n) ==
  counter' = [counter EXCEPT ![c].held = IF @ >= n THEN @ - n ELSE @]

-----------------------------------------------------------------------------
(* The checkout: holdCampaignPlan, then the insert of the order *)

BuyStep(o) == Lines[o][buy[o].i]

\* On to counter i, or all are held.  A product's quota is written first.
BuyNext(o, i) ==
  buy' = [buy EXCEPT ![o] =
    [pc |-> IF i > Len(Lines[o]) THEN "taken"
            ELSE IF Lines[o][i] \in Products THEN "ensure" ELSE "take",
     i |-> i, n |-> i - 1]]

\* The checkout is over, and its locals with it.
BuyEnds(o, pc) == buy' = [buy EXCEPT ![o].pc = pc, ![o].i = 1, ![o].n = 0]

Start(o) ==
  /\ buy[o].pc = "start"
  /\ BuyNext(o, 1)
  /\ UNCHANGED <<counter, order, call, run, work, crashes>>

\* ensureCounter: the quota the quote saw replaces the counter's.
Ensure(o) ==
  /\ buy[o].pc = "ensure"
  /\ counter' = [counter EXCEPT ![BuyStep(o)].quota = Quoted[o][BuyStep(o)]]
  /\ buy' = [buy EXCEPT ![o].pc = "take"]
  /\ UNCHANGED <<order, call, run, work, crashes>>

\* Mutant: a refused checkout forgets the share it took first.
UndoFromSecond(o) == [buy[o] EXCEPT !.pc = "undo", !.i = 2]

\* Whatever steps 1 to n raised goes back, the first first.
UndoAll(o) == [buy[o] EXCEPT !.pc = "undo", !.i = 1]

\* holdCounter and holdCustomer.
Take(o) ==
  LET c == BuyStep(o) IN
  /\ buy[o].pc = "take"
  /\ IF HasRoom(c, Qty[o], IF c \in Products THEN counter[c].quota ELSE Limit[c])
       THEN Raise(c, Qty[o]) /\ BuyNext(o, buy[o].i + 1)
       ELSE buy' = [buy EXCEPT ![o] = UndoAll(o)] /\ UNCHANGED counter
  /\ UNCHANGED <<order, call, run, work, crashes>>

Undo(o) ==
  /\ buy[o].pc = "undo"
  /\ IF buy[o].i > buy[o].n
       THEN BuyEnds(o, "over") /\ UNCHANGED counter
       ELSE GiveBack(BuyStep(o), Qty[o]) /\ buy' = [buy EXCEPT ![o].i = @ + 1]
  /\ UNCHANGED <<order, call, run, work, crashes>>

Save(o) ==
  /\ buy[o].pc = "taken"
  /\ order' = [order EXCEPT ![o].state = "held"]
  /\ BuyEnds(o, "over")
  /\ UNCHANGED <<counter, call, run, work, crashes>>

\* The insert failed: releaseUnsavedHolds.
SaveFails(o) ==
  /\ buy[o].pc = "taken"
  /\ buy' = [buy EXCEPT ![o] = UndoAll(o)]
  /\ UNCHANGED <<counter, order, call, run, work, crashes>>

-----------------------------------------------------------------------------
(* runHoldOperation: runner w applies operation op of order o *)

Runs(w, o, op) ==
  run' = [run EXCEPT ![w] =
    [pc |-> IF op.phase = "apply" THEN "apply" ELSE "pull",
     o |-> o, op |-> op, i |-> 1]]

Marker(w) == <<run[w].o, run[w].op.n, run[w].i>>

\* Mutant: the marker is left but not looked for.
ApplyUnmarked(w) ==
  LET c == Lines[run[w].o][run[w].i]
      n == Qty[run[w].o]
  IN
  /\ run[w].pc = "apply"
  /\ run[w].i <= Len(Lines[run[w].o])
  /\ counter' = IF counter[c].held < n THEN counter
       ELSE [counter EXCEPT ![c].held = @ - n,
              ![c].sold = IF run[w].op.target = "sold" THEN @ + n ELSE @,
              ![c].ops = @ \cup {Marker(w)}]
  /\ run' = [run EXCEPT ![w].i = @ + 1]
  /\ UNCHANGED <<order, buy, call, work, crashes>>

\* Mutant: the update asks for nothing but the counter.
ApplyUnfiltered(w) ==
  LET c == Lines[run[w].o][run[w].i]
      n == Qty[run[w].o]
  IN
  /\ run[w].pc = "apply"
  /\ run[w].i <= Len(Lines[run[w].o])
  /\ counter' = [counter EXCEPT ![c].held = @ - n,
                   ![c].sold = IF run[w].op.target = "sold" THEN @ + n ELSE @,
                   ![c].ops = @ \cup {Marker(w)}]
  /\ run' = [run EXCEPT ![w].i = @ + 1]
  /\ UNCHANGED <<order, buy, call, work, crashes>>

\* A step changes its counter and leaves its marker in one update.
Apply(w) ==
  LET c == Lines[run[w].o][run[w].i]
      n == Qty[run[w].o]
  IN
  /\ run[w].pc = "apply"
  /\ run[w].i <= Len(Lines[run[w].o])
  /\ counter' = IF counter[c].held < n \/ Marker(w) \in counter[c].ops
       THEN counter
       ELSE [counter EXCEPT ![c].held = @ - n,
              ![c].sold = IF run[w].op.target = "sold" THEN @ + n ELSE @,
              ![c].ops = @ \cup {Marker(w)}]
  /\ run' = [run EXCEPT ![w].i = @ + 1]
  /\ UNCHANGED <<order, buy, call, work, crashes>>

\* The order still carries the operation the runner knows.
Mine(w) ==
  LET op == order[run[w].o].op IN op # None /\ op.n = run[w].op.n

ToCleanup(w) ==
  /\ run[w].pc = "apply"
  /\ run[w].i > Len(Lines[run[w].o])
  /\ order' = IF Mine(w) THEN [order EXCEPT ![run[w].o].op.phase = "cleanup"]
              ELSE order
  /\ run' = [run EXCEPT ![w].pc = "pull", ![w].i = 1]
  /\ UNCHANGED <<counter, buy, call, work, crashes>>

\* updateMany takes the counters one after the other.
Pull(w) ==
  LET o == run[w].o IN
  /\ run[w].pc = "pull"
  /\ run[w].i <= Len(Lines[o])
  /\ counter' = [counter EXCEPT ![Lines[o][run[w].i]].ops =
                   {m \in @ : <<m[1], m[2]>> # <<o, run[w].op.n>>}]
  /\ run' = [run EXCEPT ![w].i = @ + 1]
  /\ UNCHANGED <<order, buy, call, work, crashes>>

Unset(w) ==
  /\ run[w].pc = "pull"
  /\ run[w].i > Len(Lines[run[w].o])
  /\ order' = IF Mine(w) THEN [order EXCEPT ![run[w].o].op = None] ELSE order
  /\ run' = [run EXCEPT ![w] = NoRun]
  /\ UNCHANGED <<counter, buy, call, work, crashes>>

\* beginHoldOperation from held: the state and the record in one update.
MayBegin(o) == order[o].state = "held" /\ order[o].op = None

Begins(w, o, target) ==
  LET op == [n |-> order[o].n + 1, target |-> target, phase |-> "apply"] IN
  /\ order' = [order EXCEPT ![o].state = target, ![o].op = op, ![o].n = op.n]
  /\ Runs(w, o, op)

-----------------------------------------------------------------------------
(* Calls: markRedemptionUsed (sold) and releasePromotionHold (released)    *)

CallGoto(k, pc, i) == call' = [call EXCEPT ![k].pc = pc, ![k].i = i]

\* The call is over, and its locals with it.
CallEnds(k, pc) ==
  call' = [call EXCEPT ![k].pc = pc, ![k].i = 1, ![k].got = 0, ![k].late = 0]

\* The handler writes how the order stands and then calls.  A late payment
\* finds the order cancelled; the sweep may release an order since paid.
Request(k) ==
  /\ call[k].pc = "idle"
  /\ \A j \in Calls : j < k => call[j].pc # "idle"
  /\ \E o \in Orders, to \in Targets :
       /\ order[o].state # "none"
       /\ order' = [order EXCEPT ![o].pay =
            IF to = "sold" THEN "paid" ELSE IF @ = "paid" THEN @ ELSE "cancelled"]
       /\ call' = [call EXCEPT ![k].pc = "begin", ![k].o = o, ![k].to = to]
  /\ UNCHANGED <<counter, buy, run, work, crashes>>

\* A payment that finds nothing held tries to take it back, once.
CallBegin(k) ==
  LET o == call[k].o IN
  /\ call[k].pc = "begin"
  /\ IF MayBegin(o)
       THEN /\ Begins(k, o, call[k].to)
            /\ call' = [call EXCEPT ![k].pc = "running"]
       ELSE /\ IF call[k].to = "sold" /\ call[k].late = 0
                 THEN CallGoto(k, "flip", 1)
                 ELSE CallEnds(k, "done")
            /\ UNCHANGED <<order, run>>
  /\ UNCHANGED <<counter, buy, work, crashes>>

CallReturns(k) ==
  /\ call[k].pc = "running"
  /\ run[k].pc = "idle"
  /\ CallEnds(k, "done")
  /\ UNCHANGED <<counter, order, buy, run, work, crashes>>

\* reclaimAfterLatePayment: flipState asks for the state only.
Flip(k) ==
  LET o == call[k].o IN
  /\ call[k].pc = "flip"
  /\ IF order[o].state = "released"
       THEN /\ order' = [order EXCEPT ![o].state = "held"]
            /\ call' = [call EXCEPT ![k].pc = "take", ![k].late = order[o].n]
       ELSE CallEnds(k, "done") /\ UNCHANGED order
  /\ UNCHANGED <<counter, buy, run, work, crashes>>

\* The first line from the i-th on whose counter is in S.
NextLine(o, i, S) ==
  LET lines == {j \in i..Len(Lines[o]) : Lines[o][j] \in S} IN
  IF lines = {} THEN Len(Lines[o]) + 1 ELSE Min(lines)

TakeBack(k) ==
  LET o == call[k].o
      i == NextLine(o, call[k].got + 1, Products)
      c == Lines[o][i]
  IN
  /\ call[k].pc = "take"
  /\ IF i > Len(Lines[o])
       THEN CallGoto(k, "share", 1) /\ UNCHANGED counter
       ELSE IF HasRoom(c, Qty[o], counter[c].quota)
       THEN Raise(c, Qty[o]) /\ call' = [call EXCEPT ![k].got = i]
       ELSE CallGoto(k, "undo", 1) /\ UNCHANGED counter
  /\ UNCHANGED <<order, buy, run, work, crashes>>

TakeBackUndo(k) ==
  LET o == call[k].o
      i == NextLine(o, call[k].i, Products)
  IN
  /\ call[k].pc = "undo"
  /\ IF i > call[k].got
       THEN CallGoto(k, "manual", 1) /\ UNCHANGED counter
       ELSE GiveBack(Lines[o][i], Qty[o]) /\ CallGoto(k, "undo", i + 1)
  /\ UNCHANGED <<order, buy, run, work, crashes>>

\* The staff is to settle it by hand.
Manual(k) ==
  /\ call[k].pc = "manual"
  /\ order' = [order EXCEPT ![call[k].o].state = "released",
                            ![call[k].o].review = TRUE]
  /\ CallEnds(k, "done")
  /\ UNCHANGED <<counter, buy, run, work, crashes>>

\* The customer's share is raised whatever the limit; then it is sold.
TakeShare(k) ==
  LET o == call[k].o
      i == NextLine(o, call[k].i, Shares)
  IN
  /\ call[k].pc = "share"
  /\ IF i > Len(Lines[o])
       THEN CallGoto(k, "begin", 1) /\ UNCHANGED counter
       ELSE Raise(Lines[o][i], Qty[o]) /\ CallGoto(k, "share", i + 1)
  /\ UNCHANGED <<order, buy, run, work, crashes>>

-----------------------------------------------------------------------------
(* The worker's tick: resume, settle orphans, reconcile                    *)

WorkGoto(w, pc, todo) == work' = [work EXCEPT ![w].pc = pc, ![w].todo = todo]

Pending == {o \in Orders : order[o].op # None}

\* No process is at work on the order's operation.
Abandoned(o) ==
  /\ o \in Pending
  /\ \A w \in Runners : run[w].pc # "idle" /\ run[w].o = o =>
       run[w].op.n # order[o].op.n

\* Mutant: operations that only had their markers left to remove are over.
ResumeFindApply(w) ==
  /\ work[w].pc = "idle"
  /\ \E rows \in SUBSET {o \in Pending : order[o].op.phase = "apply"} :
     /\ \A o \in Orders : Abandoned(o) /\ order[o].op.phase = "apply" => o \in rows
     /\ work' = [work EXCEPT ![w].pc = "resume", ![w].todo = rows,
                  ![w].ops = [o \in Orders |->
                    IF o \in rows THEN order[o].op ELSE None]]
  /\ UNCHANGED <<counter, order, buy, call, run, crashes>>

\* Operations begun more than two minutes ago: those of dead processes, and
\* any that a slow process is still at work on.
ResumeFind(w) ==
  /\ work[w].pc = "idle"
  /\ \E rows \in SUBSET Pending :
     /\ \A o \in Orders : Abandoned(o) => o \in rows
     /\ work' = [work EXCEPT ![w].pc = "resume", ![w].todo = rows,
                  ![w].ops = [o \in Orders |->
                    IF o \in rows THEN order[o].op ELSE None]]
  /\ UNCHANGED <<counter, order, buy, call, run, crashes>>

\* The record is the one that was found, not read again.
Resume(w) ==
  /\ work[w].pc = "resume"
  /\ run[w].pc = "idle"
  /\ \E o \in work[w].todo :
       /\ Runs(w, o, work[w].ops[o])
       /\ WorkGoto(w, "resume", work[w].todo \ {o})
  /\ UNCHANGED <<counter, order, buy, call, crashes>>

HeldOrders(pay) ==
  {o \in Orders : order[o].state = "held" /\ order[o].pay = pay}

\* Held although cancelled: given back.  Then held although paid: sold.
OrphansFind(w) ==
  /\ work[w].todo = {}
  /\ run[w].pc = "idle"
  /\ \/ /\ work[w].pc = "resume"
        /\ work' = [work EXCEPT ![w] =
             [NoTick EXCEPT !.pc = "release", !.todo = HeldOrders("cancelled")]]
     \/ /\ work[w].pc = "release"
        /\ WorkGoto(w, "sell", HeldOrders("paid"))
  /\ UNCHANGED <<counter, order, buy, call, run, crashes>>

OrphanSettle(w) ==
  /\ work[w].pc \in {"release", "sell"}
  /\ run[w].pc = "idle"
  /\ \E o \in work[w].todo :
       /\ WorkGoto(w, work[w].pc, work[w].todo \ {o})
       /\ IF MayBegin(o)
            THEN Begins(w, o, IF work[w].pc = "sell" THEN "sold" ELSE "released")
            ELSE UNCHANGED <<order, run>>
  /\ UNCHANGED <<counter, buy, call, crashes>>

Buying(o) == buy[o].pc \in {"ensure", "take", "undo", "taken"}

\* Counters that hold something and were not written for three minutes: no
\* checkout takes that long.  One written by others is found some ticks later.
QuietCounters ==
  {c \in Counters : /\ counter[c].held > 0
                    /\ \A o \in Orders : c \in ToSet(Lines[o]) => ~Buying(o)}

ReconcileFind(w) ==
  /\ work[w].pc = "sell"
  /\ work[w].todo = {}
  /\ run[w].pc = "idle"
  /\ work' = [work EXCEPT ![w] =
       IF QuietCounters = {} THEN NoTick
       ELSE [NoTick EXCEPT !.pc = "expect",
               !.snap = [c \in Counters |->
                 IF c \in QuietCounters THEN counter[c].held ELSE 0]]]
  /\ UNCHANGED <<counter, order, buy, call, run, crashes>>

Holding(c, states) ==
  {o \in Orders : c \in ToSet(Lines[o]) /\ order[o].state \in states}

SumQty(S) == SumFunctionOnSet(Qty, S)

CountersOf(S) == UNION {ToSet(Lines[o]) : o \in S}

\* Of what was found, the counters that hold more than the orders do and have
\* no operation pending on them; without any the tick is over.
Compared(tick) ==
  LET extra == {c \in Counters \ tick.pending : tick.snap[c] > tick.want[c]} IN
  IF tick.asked # {"held", "pending"} THEN tick
  ELSE IF extra = {} THEN NoTick
  ELSE [tick EXCEPT
    !.snap = [c \in Counters |-> IF c \in extra THEN @[c] ELSE 0],
    !.want = [c \in Counters |-> IF c \in extra THEN @[c] ELSE 0],
    !.pending = {}]

\* heldFromOrders and countersWithPendingOps run at the same time.
ReconcileAsk(w) ==
  LET found == {c \in Counters : work[w].snap[c] > 0} IN
  /\ work[w].pc = "expect"
  /\ \/ /\ "held" \notin work[w].asked
        /\ work' = [work EXCEPT ![w] = Compared([work[w] EXCEPT
             !.asked = @ \cup {"held"},
             !.want = [c \in Counters |->
               IF c \in found THEN SumQty(Holding(c, {"held"})) ELSE 0]])]
     \/ /\ "pending" \notin work[w].asked
        /\ work' = [work EXCEPT ![w] = Compared([work[w] EXCEPT
             !.asked = @ \cup {"pending"},
             !.pending = CountersOf(Pending) \cap found])]
  /\ UNCHANGED <<counter, order, buy, call, run, crashes>>

\* The surplus goes if the counter still holds what was found.
ReconcileFix(w) ==
  /\ work[w].asked = {"held", "pending"}
  /\ \E c \in Counters :
       /\ work[w].snap[c] > 0
       /\ counter' = [counter EXCEPT ![c].held =
            IF @ = work[w].snap[c] THEN work[w].want[c] ELSE @]
       /\ work' = [work EXCEPT ![w] = Compared([work[w] EXCEPT !.snap[c] = 0, !.want[c] = 0])]
  /\ UNCHANGED <<order, buy, call, run, crashes>>

-----------------------------------------------------------------------------
(* Crashes: the process dies between two awaits; a worker starts again.    *)

Dies == crashes < MaxCrashes /\ crashes' = crashes + 1

BuyCrash(o) ==
  /\ Buying(o)
  /\ Dies
  /\ BuyEnds(o, "crashed")
  /\ UNCHANGED <<counter, order, call, run, work>>

CallCrash(k) ==
  /\ call[k].pc \notin {"idle", "done", "crashed"}
  /\ Dies
  /\ CallEnds(k, "crashed")
  /\ run' = [run EXCEPT ![k] = NoRun]
  /\ UNCHANGED <<counter, order, buy, work>>

WorkerCrash(w) ==
  /\ work[w].pc # "idle"
  /\ Dies
  /\ work' = [work EXCEPT ![w] = NoTick]
  /\ run' = [run EXCEPT ![w] = NoRun]
  /\ UNCHANGED <<counter, order, buy, call>>

-----------------------------------------------------------------------------
BuyNextStep(o) == Start(o) \/ Ensure(o) \/ Take(o) \/ Undo(o) \/ Save(o) \/ SaveFails(o)

RunNext(w) == Apply(w) \/ ToCleanup(w) \/ Pull(w) \/ Unset(w)

\* A call once it has begun.
CallStep(k) ==
  \/ CallBegin(k) \/ CallReturns(k) \/ Flip(k) \/ TakeBack(k)
  \/ TakeBackUndo(k) \/ Manual(k) \/ TakeShare(k)

WorkStep(w) ==
  \/ ResumeFind(w) \/ Resume(w) \/ OrphansFind(w) \/ OrphanSettle(w)
  \/ ReconcileFind(w) \/ ReconcileAsk(w) \/ ReconcileFix(w)

Crash ==
  \/ \E o \in Orders : BuyCrash(o)
  \/ \E k \in Calls : CallCrash(k)
  \/ \E w \in Workers : WorkerCrash(w)

Step ==
  \/ \E o \in Orders : BuyNextStep(o)
  \/ \E k \in Calls : Request(k) \/ CallStep(k)
  \/ \E w \in Workers : WorkStep(w)
  \/ \E w \in Runners : RunNext(w)
  \/ Crash

-----------------------------------------------------------------------------
(* History: what went wrong, for the properties to say what it costs.      *)

Reclaiming(k) == call[k].pc \in {"take", "undo", "manual", "share"}

\* A late payment that takes its counters back dies, or someone else settles
\* its order meanwhile.  Nothing in the code prevents either.
Torn(k) ==
  /\ Reclaiming(k)
  /\ call'[k].pc = "crashed" \/ order'[call[k].o].n # order[call[k].o].n

\* A use is taken from the counter or an operation on it begins.
Stirs(c) ==
  \/ counter'[c].held > counter[c].held
  \/ \E o \in Orders : c \in ToSet(Lines[o]) /\ order'[o].n # order[o].n

\* The reconciler lowers the counter.
Lowers(c) ==
  /\ counter'[c].held < counter[c].held
  /\ \E w \in Workers : work'[w].snap[c] < work[w].snap[c]

History ==
  /\ torn' = torn \cup {call[k].o : k \in {j \in Calls : Torn(j)}}
  /\ stirred' = {c \in Counters : /\ \E w \in Workers : work'[w].snap[c] > 0
                                  /\ c \in stirred \/ Stirs(c)}
  /\ wrong' = wrong \cup {c \in stirred : Lowers(c)}

Next == Step /\ History

Spec == Init /\ [][Next]_vars

-----------------------------------------------------------------------------
(* Time.  The code relies on delays it does not enforce; each of these says *)
(* of a step that the delay was long enough.                               *)

\* The tick's lock, a lease of 25 seconds, outlives the tick: one at a time.
OneTick ==
  \A v, w \in Workers : work'[v].pc # "idle" /\ work'[w].pc # "idle" => v = w

\* An operation is taken for dead (two minutes) only if its process is.
Timely ==
  \A w \in Workers : work[w].pc = "idle" =>
    \A o \in work'[w].todo : Abandoned(o)

handlers == <<counter, order, buy, call, run, work, crashes>>

\* Handlers run on and the worker ticks for ever; customers, staff and crashes
\* are not fair.
Fairness ==
  /\ WF_handlers(\E o \in Orders : Buying(o) /\ BuyNextStep(o))
  /\ WF_handlers(\E k \in Calls : CallStep(k) \/ RunNext(k))
  /\ \A w \in Workers : WF_handlers(WorkStep(w) \/ RunNext(w))

CalmNext == Next /\ OneTick /\ Timely

CalmSpec == Init /\ [][CalmNext]_vars /\ Fairness

\* Every reclaim runs to its end, alone: what goes wrong is the reconciler's.
WholeSpec == Init /\ [][CalmNext /\ torn' = {}]_vars

-----------------------------------------------------------------------------
(* Properties *)

\* No reclaim of an order of this counter was torn and the reconciler did not
\* lower it while it was being sold.
Clean(c) == c \notin wrong /\ \A o \in torn : c \notin ToSet(Lines[o])

\* An order whose uses are being taken back has none yet.
Promised(o) ==
  IF o \in torn THEN "astray"
  ELSE IF \E k \in Calls : Reclaiming(k) /\ call[k].o = o THEN "released"
  ELSE order[o].state

\* An order is settled once unless its uses were taken back in between.
TakenBack(o) == order[o].n > IF Promised(o) = "held" THEN 0 ELSE 1

Ledger == INSTANCE CampaignLedger WITH
  Docs <- [o \in Orders |-> ToSet(Lines[o])],
  state <- [o \in Orders |-> Promised(o)],
  late <- {o \in Orders \ torn : TakenBack(o)},
  miscounted <- wrong

\* Whatever crashes or is resumed, every step is a step of CampaignLedger or
\* changes no order's uses: no product is promised to more orders than its
\* quota and no customer is given more than the limit.  A counter is out of
\* the ledger once a late payment's reclaim of it was torn or the reconciler
\* lowered it while it was being sold; every other keeps the promise.
ImplementsCampaignLedger == Ledger!Spec

Settled(c) == \A o \in Pending : c \notin ToSet(Lines[o])

\* Each operation is applied to each counter exactly once, although processes
\* die and a worker resumes their operations: when no operation is pending on
\* a counter, it has sold what the sold orders took.  It does not hold of a
\* counter that is not Clean: the code loses or doubles a sale there.
SoldOnce ==
  \A c \in Counters : Settled(c) /\ Clean(c) =>
    counter[c].sold = SumQty(Holding(c, {"sold"}))

HeldExactly ==
  \A c \in Counters : Clean(c) => counter[c].held = SumQty(Holding(c, {"held"}))

\* With no handler at work and none dead, the clean counters hold exactly what
\* the orders hold: refused checkouts, failed saves and failed late payments
\* gave back what they took, and only that.
Balanced ==
  /\ \A o \in Orders : ~Buying(o)
  /\ \A k \in Calls : ~Reclaiming(k)
  /\ Pending = {}
  /\ crashes = 0
  => HeldExactly

NothingSpare ==
  \A c \in Counters : counter[c].held <= SumQty(Holding(c, {"held"}))

\* What dead processes left behind is put right by the worker, a torn reclaim's
\* too: operations are finished, no order that was paid or cancelled keeps its
\* uses merely held, no counter holds more than the orders do, and a clean one
\* no less.
PutRight ==
  <>[](/\ Pending = {}
       /\ HeldOrders("paid") \cup HeldOrders("cancelled") = {}
       /\ NothingSpare
       /\ HeldExactly)

\* "Still free uses are taken back and sold; if there are none it is left to
\* the staff (nothing is sold beyond the quantity)" (orderCampaign.ts:184).
NeverOversold ==
  \A c \in Products : SumQty(Holding(c, {"sold"})) <= Limit[c]
=============================================================================
