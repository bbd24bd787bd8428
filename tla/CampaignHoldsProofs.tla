------------------------ MODULE CampaignHoldsProofs ------------------------
(***************************************************************************)
(* Proofs about flash-sale and gift uses, for any number of orders, calls, *)
(* workers and crashes, provided one worker ticks at a time (OneTick) and  *)
(* only the operations of dead processes are taken for dead (Timely):      *)
(*   TypeCorrect        TypeOK is an invariant;                            *)
(*   UsesSoldOnce       so is SoldOnce;                                    *)
(*   CountersBalance    so is Balanced;                                    *)
(*   LedgerImplemented  every step is a step of CampaignLedger or none.    *)
(* A reclaim may be cut short or overlapped, and the reconciler may run    *)
(* beside a sale: what they spoil is no longer Clean, and the theorems are *)
(* about every counter that still is.                                      *)
(*                                                                         *)
(* The invariant Sound has three layers.                                   *)
(*                                                                         *)
(*   Typed    the types, and where the locals of a handler at work point;  *)
(*   Kept     who is at work on an order: a saved order's checkout is      *)
(*            over, a runner has the order's operation to itself, a late   *)
(*            payment has its order to itself unless torn, one worker      *)
(*            ticks and the rows it is to resume are as it found them, a   *)
(*            marker is of an operation that was begun;                    *)
(*   Tallied  whose uses a counter holds and has sold.  A line (an order   *)
(*            and the index of one of its counters) counts in `held` for   *)
(*            its checkout (BuyHolds), its saved order (OrderHolds) or an  *)
(*            operation still to be applied to it (OpHolds), and in `sold` *)
(*            once it is sold and applied (SoldAt).  What a clean counter  *)
(*            has sold is the sum of that, and what it holds is the sum of *)
(*            the rest, or more after a crash.  What the reconciler found  *)
(*            of it stays true until it is stirred (Found).                *)
(*                                                                         *)
(* The lemmas ...Does say field by field what each step does.  Most steps  *)
(* move no line (LineStays) or one (OneMoves).                             *)
(***************************************************************************)
EXTENDS CampaignHolds, Sums

-----------------------------------------------------------------------------
(* The lines of an order *)

LEMMA LinesAre ==
  ASSUME NEW o \in Orders
  PROVE  /\ Len(Lines[o]) \in Nat
         /\ DOMAIN Lines[o] = 1..Len(Lines[o])
         /\ \A j \in 1..Len(Lines[o]) : Lines[o][j] \in Counters
         /\ \A i, j \in 1..Len(Lines[o]) : Lines[o][i] = Lines[o][j] => i = j
         /\ Qty[o] \in Nat /\ Qty[o] > 0
<1>1. Lines[o] \in Seq(Counters) /\ IsInjective(Lines[o]) /\ Qty[o] \in Nat \ {0}
  BY CampaignAssumption
<1>2. /\ Len(Lines[o]) \in Nat
      /\ DOMAIN Lines[o] = 1..Len(Lines[o])
      /\ \A j \in 1..Len(Lines[o]) : Lines[o][j] \in Counters
  BY <1>1
<1> QED BY <1>1, <1>2 DEF IsInjective

LEMMA CountersAre ==
  /\ \A c \in Counters : (c \in Shares) <=> (c \notin Products)
  /\ \A c \in Counters : Limit[c] \in Nat
  /\ \A o \in Orders, c \in Products : Quoted[o][c] \in Nat /\ Quoted[o][c] <= Limit[c]
  /\ \A c \in Products \cup Shares : c \in Counters
  /\ \A k \in Calls, w \in Workers : k # w
  /\ \A w \in Runners : (w \in Calls) <=> (w \notin Workers)
  BY CampaignAssumption DEF Counters, Runners

\* A set of indices has a least element.
LEMMA MinIs ==
  ASSUME NEW n \in Nat, NEW T \in SUBSET (1..n), T # {}
  PROVE  Min(T) \in T /\ \A j \in T : Min(T) <= j
<1> DEFINE N == 1..n
           Below == {1..j : j \in T}
<1>1. PICK s \in Below : \A r \in Below : r \subseteq s => r = s
  <2>1. IsFiniteSet(N)
    BY FS_Interval
  <2>2. \A j \in T : 1..j \subseteq 1..n
    OBVIOUS
  <2>3. Below \in SUBSET SUBSET N
    BY <2>2, Zenon
  <2>4. Below # {}
    OBVIOUS
  <2> HIDE DEF N, Below
  <2> QED BY <2>1, <2>3, <2>4, LeastSet
<1>2. PICK m \in T : s = 1..m
  BY <1>1
<1>3. ASSUME NEW j \in T
      PROVE  m <= j
  <2>1. CASE j <= m
    <3>1. 1..j \subseteq 1..m
      BY <2>1
    <3>2. 1..j = 1..m
      BY <1>1, <1>2, <3>1
    <3>3. m \in 1..m
      OBVIOUS
    <3> QED BY <3>2, <3>3
  <2> QED BY <2>1
<1>4. \E x \in T : \A y \in T : x <= y
  BY <1>3
<1> QED BY <1>4 DEF Min

LEMMA NextLineIs ==
  ASSUME NEW o \in Orders, NEW i \in Nat, i >= 1, NEW S
  PROVE  /\ NextLine(o, i, S) \in 1..(Len(Lines[o]) + 1)
         /\ NextLine(o, i, S) <= Len(Lines[o]) =>
              i <= NextLine(o, i, S) /\ Lines[o][NextLine(o, i, S)] \in S
         /\ \A j \in 1..Len(Lines[o]) :
              i <= j /\ j < NextLine(o, i, S) => Lines[o][j] \notin S
<1> DEFINE lines == {j \in i..Len(Lines[o]) : Lines[o][j] \in S}
<1>1. Len(Lines[o]) \in Nat
  BY LinesAre
<1>2. NextLine(o, i, S) = IF lines = {} THEN Len(Lines[o]) + 1 ELSE Min(lines)
  BY DEF NextLine
<1>3. CASE lines = {}
  BY <1>1, <1>2, <1>3
<1>4. CASE lines # {}
  <2>1. lines \in SUBSET (1..Len(Lines[o]))
    BY <1>1
  <2>2. Min(lines) \in lines /\ \A j \in lines : Min(lines) <= j
    <3> HIDE DEF lines
    <3> QED BY <1>1, <1>4, <2>1, MinIs
  <2>3. NextLine(o, i, S) \in lines
    BY <1>2, <1>4, <2>2
  <2>4. \A j \in lines : NextLine(o, i, S) <= j
    BY <1>2, <1>4, <2>2
  <2> HIDE DEF lines
  <2>5. NextLine(o, i, S) \in i..Len(Lines[o]) /\ Lines[o][NextLine(o, i, S)] \in S
    BY <2>3 DEF lines
  <2>6. ASSUME NEW j \in 1..Len(Lines[o]), i <= j, j < NextLine(o, i, S), Lines[o][j] \in S
        PROVE  FALSE
    <3>1. j \in lines
      BY <1>1, <2>6 DEF lines
    <3> QED BY <1>1, <2>4, <2>5, <2>6, <3>1
  <2> QED BY <1>1, <2>5, <2>6
<1> QED BY <1>3, <1>4

-----------------------------------------------------------------------------
(* Types, with what they rest on: where the locals of a handler that is at *)
(* work point.                                                             *)

BuyPlaced == \A o \in Orders :
  /\ buy[o].i >= 1
  /\ buy[o].n <= Len(Lines[o])
  /\ buy[o].pc = "start" => buy[o].n = 0
  /\ buy[o].pc \in {"ensure", "take"} =>
       buy[o].i = buy[o].n + 1 /\ buy[o].i <= Len(Lines[o])
  /\ buy[o].pc = "ensure" => Lines[o][buy[o].i] \in Products
  /\ buy[o].pc = "taken" => buy[o].n = Len(Lines[o])

CallPlaced == \A k \in Calls :
  /\ call[k].i >= 1
  /\ call[k].pc # "idle" => call[k].o \in Orders /\ call[k].got <= Len(Lines[call[k].o])
  /\ call[k].late = 0 => call[k].got = 0 /\ call[k].i = 1
  /\ call[k].pc \in {"idle", "flip"} => call[k].late = 0
  /\ call[k].pc = "take" => call[k].i = 1

RunPlaced == \A w \in Runners : run[w].pc # "idle" =>
  run[w].o \in Orders /\ run[w].op \in Operation /\ run[w].i >= 1

\* Once both queries are answered a tick keeps only what is to be lowered.
SurplusOnly(tick) == tick.asked = {"held", "pending"} =>
  /\ tick.pending = {}
  /\ \A c \in Counters : tick.snap[c] > 0 => tick.snap[c] > tick.want[c]

WorkPlaced == \A w \in Workers :
  /\ work[w].pc = "resume" => \A o \in work[w].todo : work[w].ops[o] \in Operation
  /\ SurplusOnly(work[w])

Typed == HandlersTyped /\ BuyPlaced /\ CallPlaced /\ RunPlaced /\ WorkPlaced

LEMMA TypedInit == Init => Typed
<1> SUFFICES ASSUME Init PROVE Typed
  OBVIOUS
<1>1. MaxCrashes \in Nat
  BY CampaignAssumption
<1>2. HandlersTyped
  BY <1>1 DEF Init, HandlersTyped, Counter, Order, Buy, Call, Run, Tick, NoRun, NoTick, Targets
<1>3. BuyPlaced
  BY LinesAre DEF Init, BuyPlaced
<1> QED BY <1>2, <1>3 DEF Typed, Init, CallPlaced, RunPlaced, WorkPlaced, SurplusOnly, NoRun,
       NoTick

\* What the types say of one of each.
LEMMA TypedAre ==
  ASSUME Typed
  PROVE  /\ \A c \in Counters :
              /\ counter[c].held \in Nat /\ counter[c].sold \in Nat
              /\ counter[c].quota \in Nat /\ counter[c].ops \subseteq Markers
         /\ \A o \in Orders :
              /\ order[o].state \in {"none", "held", "sold", "released"}
              /\ order[o].op \in Operation \cup {None}
              /\ order[o].n \in Nat
              /\ buy[o].i \in Nat /\ buy[o].n \in Nat
         /\ \A k \in Calls :
              /\ call[k].i \in Nat /\ call[k].got \in Nat /\ call[k].late \in Nat
              /\ call[k].to \in Targets
         /\ \A w \in Runners : run[w].i \in Nat
         /\ \A w \in Workers :
              /\ work[w].todo \subseteq Orders
              /\ \A o \in Orders : work[w].ops[o] \in Operation \cup {None}
              /\ \A c \in Counters : work[w].snap[c] \in Nat /\ work[w].want[c] \in Nat
         /\ crashes \in Nat
<1>1. /\ \A c \in Counters : counter[c] \in Counter
      /\ \A o \in Orders : order[o] \in Order /\ buy[o] \in Buy
      /\ \A k \in Calls : call[k] \in Call
      /\ \A w \in Runners : run[w] \in Run
      /\ \A w \in Workers : work[w] \in Tick
      /\ crashes \in Nat
  BY CampaignAssumption DEF Typed, HandlersTyped
<1>2. \A c \in Counters :
        /\ counter[c].held \in Nat /\ counter[c].sold \in Nat
        /\ counter[c].quota \in Nat /\ counter[c].ops \subseteq Markers
  BY <1>1 DEF Counter
<1>3. \A o \in Orders :
        /\ order[o].state \in {"none", "held", "sold", "released"}
        /\ order[o].op \in Operation \cup {None}
        /\ order[o].n \in Nat
        /\ buy[o].i \in Nat /\ buy[o].n \in Nat
  BY <1>1 DEF Order, Buy
<1>4. \A k \in Calls :
        /\ call[k].i \in Nat /\ call[k].got \in Nat /\ call[k].late \in Nat
        /\ call[k].to \in Targets
  BY <1>1 DEF Call
<1>5. \A w \in Runners : run[w].i \in Nat
  BY <1>1 DEF Run
<1>6. \A w \in Workers :
        /\ work[w].todo \subseteq Orders
        /\ \A o \in Orders : work[w].ops[o] \in Operation \cup {None}
        /\ \A c \in Counters : work[w].snap[c] \in Nat /\ work[w].want[c] \in Nat
  BY <1>1 DEF Tick
<1> QED BY <1>1, <1>2, <1>3, <1>4, <1>5, <1>6

-----------------------------------------------------------------------------
(* What the steps do to a counter and to the locals of a handler *)

\* Counter c holds n more, or fewer, and nothing else changes in a counter.
Moves(c, n) ==
  /\ counter' \in [Counters -> Counter]
  /\ \A d \in Counters :
       /\ counter'[d].held = IF d = c THEN counter[d].held + n ELSE counter[d].held
       /\ counter'[d].sold = counter[d].sold
       /\ counter'[d].quota = counter[d].quota
       /\ counter'[d].ops = counter[d].ops

LEMMA RaiseDoes ==
  ASSUME Typed, NEW c \in Counters, NEW n \in Nat, Raise(c, n)
  PROVE  Moves(c, n)
  BY DEF Typed, HandlersTyped, Counter, Raise, Moves

LEMMA GiveBackDoes ==
  ASSUME Typed, NEW c \in Counters, NEW n \in Nat, GiveBack(c, n)
  PROVE  /\ counter[c].held >= n => Moves(c, -n)
         /\ counter[c].held < n => counter' = counter
<1>1. CASE counter[c].held >= n
  <2>1. counter' = [counter EXCEPT ![c].held = @ - n]
    BY <1>1 DEF GiveBack
  <2> QED BY <1>1, <2>1, TypedAre DEF Typed, HandlersTyped, Counter, Moves
<1>2. CASE counter[c].held < n
  <2>1. counter' = [counter EXCEPT ![c].held = @]
    <3>1. ~(counter[c].held >= n)
      BY <1>2, TypedAre
    <3> QED BY <3>1, Zenon DEF GiveBack
  <2>2. counter' = counter
    BY <2>1 DEF Typed, HandlersTyped, Counter
  <2> QED BY <1>2, <2>2, TypedAre
<1> QED BY <1>1, <1>2, TypedAre

\* Only order o's checkout moves, to pc with step i and n taken.
BuyMoves(o, pc, i, n) ==
  /\ buy' \in [Orders -> Buy]
  /\ \A x \in Orders \ {o} : buy'[x] = buy[x]
  /\ buy'[o].pc = pc /\ buy'[o].i = i /\ buy'[o].n = n

\* On to step i: a product, a share, or none is left.
Onward(o, pc, i) ==
  /\ pc \in {"taken", "ensure", "take"}
  /\ pc = "taken" <=> i > Len(Lines[o])
  /\ pc = "ensure" => Lines[o][i] \in Products

LEMMA BuyNextDoes ==
  ASSUME Typed, NEW o \in Orders, NEW i \in Nat, NEW n \in Nat, i = n + 1, BuyNext(o, i)
  PROVE  \E pc : Onward(o, pc, i) /\ BuyMoves(o, pc, i, n)
<1> DEFINE pc == IF i > Len(Lines[o]) THEN "taken"
                 ELSE IF Lines[o][i] \in Products THEN "ensure" ELSE "take"
<1>1. buy' = [buy EXCEPT ![o] = [pc |-> pc, i |-> i, n |-> i - 1]]
  BY DEF BuyNext
<1>2. Onward(o, pc, i) /\ i - 1 = n
  BY DEF Onward
<1> HIDE DEF pc
<1>3. BuyMoves(o, pc, i, n)
  BY <1>1, <1>2 DEF Typed, HandlersTyped, Buy, BuyMoves, Onward
<1> QED BY <1>2, <1>3

LEMMA StartDoes ==
  ASSUME Typed, NEW o \in Orders, Start(o)
  PROVE  /\ UNCHANGED <<counter, order, call, run, work, crashes>>
         /\ buy[o].pc = "start"
         /\ \E pc : Onward(o, pc, 1) /\ BuyMoves(o, pc, 1, 0)
<1>1. BuyNext(o, 1)
  BY DEF Start
<1>2. \E pc : Onward(o, pc, 1) /\ BuyMoves(o, pc, 1, 0)
  BY <1>1, BuyNextDoes
<1> QED BY <1>2 DEF Start

LEMMA EnsureDoes ==
  ASSUME Typed, NEW o \in Orders, Ensure(o)
  PROVE  /\ UNCHANGED <<order, call, run, work, crashes>>
         /\ buy[o].pc = "ensure"
         /\ BuyMoves(o, "take", buy[o].i, buy[o].n)
         /\ BuyStep(o) \in Products
         /\ counter' \in [Counters -> Counter]
         /\ \A d \in Counters :
              /\ counter'[d].held = counter[d].held
              /\ counter'[d].sold = counter[d].sold
              /\ counter'[d].ops = counter[d].ops
              /\ counter'[d].quota =
                   IF d = BuyStep(o) THEN Quoted[o][d] ELSE counter[d].quota
<1>1. BuyStep(o) \in Products
  BY DEF Typed, BuyPlaced, Ensure, BuyStep
<1>2. PICK c \in Products : c = BuyStep(o)
  BY <1>1
<1>3. counter' = [counter EXCEPT ![c].quota = Quoted[o][c]]
  BY <1>2 DEF Ensure
<1>4. c \in Counters /\ Quoted[o][c] \in Nat
  BY CountersAre
<1>5. /\ counter' \in [Counters -> Counter]
      /\ \A d \in Counters :
              /\ counter'[d].held = counter[d].held
              /\ counter'[d].sold = counter[d].sold
              /\ counter'[d].ops = counter[d].ops
              /\ counter'[d].quota =
                   IF d = c THEN Quoted[o][d] ELSE counter[d].quota
  BY <1>3, <1>4 DEF Typed, HandlersTyped, Counter
<1>6. BuyMoves(o, "take", buy[o].i, buy[o].n)
  BY DEF Ensure, Typed, HandlersTyped, Buy, BuyMoves
<1> QED BY <1>1, <1>2, <1>5, <1>6 DEF Ensure

LEMMA TakeDoes ==
  ASSUME Typed, NEW o \in Orders, Take(o)
  PROVE  /\ UNCHANGED <<order, call, run, work, crashes>>
         /\ buy[o].pc = "take"
         /\ buy[o].n = buy[o].i - 1
         /\ buy[o].i \in 1..Len(Lines[o])
         /\ BuyStep(o) = Lines[o][buy[o].i]
         /\ \/ /\ Moves(BuyStep(o), Qty[o])
               /\ HasRoom(BuyStep(o), Qty[o],
                    IF BuyStep(o) \in Products THEN counter[BuyStep(o)].quota
                    ELSE Limit[BuyStep(o)])
               /\ \E pc, i : /\ i = buy[o].i + 1
                             /\ Onward(o, pc, i)
                             /\ BuyMoves(o, pc, i, buy[o].i)
            \/ /\ UNCHANGED counter
               /\ BuyMoves(o, "undo", 1, buy[o].n)
<1>1. /\ buy[o].pc = "take" /\ buy[o].n = buy[o].i - 1
      /\ buy[o].i \in 1..Len(Lines[o])
  BY TypedAre, LinesAre DEF Typed, BuyPlaced, Take
<1>2. PICK c \in Counters : c = BuyStep(o)
  BY <1>1, LinesAre DEF BuyStep
<1>3. Qty[o] \in Nat
  BY LinesAre
<1>4. CASE Raise(c, Qty[o]) /\ BuyNext(o, buy[o].i + 1)
  <2>1. Moves(c, Qty[o])
    BY <1>3, <1>4, RaiseDoes
  <2>2. PICK pc, i : /\ i = buy[o].i + 1
                     /\ Onward(o, pc, i)
                     /\ BuyMoves(o, pc, i, buy[o].i)
    <3>1. PICK i \in Nat : i = buy[o].i + 1
      BY TypedAre
    <3>2. BuyNext(o, i) /\ buy[o].i \in Nat
      BY <1>4, <3>1, TypedAre
    <3> QED BY <3>1, <3>2, BuyNextDoes
  <2>4. buy' # [buy EXCEPT ![o] = UndoAll(o)]
    <3>1. buy \in [Orders -> Buy]
      BY DEF Typed, HandlersTyped
    <3>2. [buy EXCEPT ![o] = UndoAll(o)][o].pc = "undo"
      BY <3>1 DEF UndoAll, Buy
    <3> QED BY <2>2, <3>2 DEF BuyMoves, Onward
  <2>5. HasRoom(c, Qty[o], IF c \in Products THEN counter[c].quota ELSE Limit[c])
    BY <1>2, <2>4 DEF Take
  <2> QED BY <1>1, <1>2, <2>1, <2>2, <2>5 DEF Take, BuyStep
<1>5. CASE buy' = [buy EXCEPT ![o] = UndoAll(o)] /\ UNCHANGED counter
  <2>1. BuyMoves(o, "undo", 1, buy[o].n)
    BY <1>5 DEF Typed, HandlersTyped, Buy, BuyMoves, UndoAll
  <2> QED BY <1>1, <1>5, <2>1 DEF Take, BuyStep
<1> QED BY <1>2, <1>4, <1>5 DEF Take

LEMMA BuyEndsDoes ==
  ASSUME Typed, NEW o \in Orders, NEW pc \in {"over", "crashed"}, BuyEnds(o, pc)
  PROVE  BuyMoves(o, pc, 1, 0)
  BY DEF BuyEnds, Typed, HandlersTyped, Buy, BuyMoves

LEMMA UndoDoes ==
  ASSUME Typed, NEW o \in Orders, Undo(o)
  PROVE  /\ UNCHANGED <<order, call, run, work, crashes>>
         /\ buy[o].pc = "undo"
         /\ \/ /\ buy[o].i > buy[o].n
               /\ UNCHANGED counter
               /\ BuyMoves(o, "over", 1, 0)
            \/ /\ buy[o].i \in 1..Len(Lines[o])
               /\ buy[o].i <= buy[o].n
               /\ BuyMoves(o, "undo", buy[o].i + 1, buy[o].n)
               /\ \/ Moves(Lines[o][buy[o].i], -Qty[o])
                  \/ counter[Lines[o][buy[o].i]].held < Qty[o] /\ UNCHANGED counter
<1>1. CASE buy[o].i > buy[o].n
  <2>1. BuyEnds(o, "over") /\ UNCHANGED counter
    BY <1>1 DEF Undo
  <2>2. BuyMoves(o, "over", 1, 0)
    BY <2>1, BuyEndsDoes
  <2> QED BY <1>1, <2>1, <2>2 DEF Undo
<1>2. CASE ~(buy[o].i > buy[o].n)
  <2>1. buy' = [buy EXCEPT ![o].i = @ + 1] /\ GiveBack(BuyStep(o), Qty[o])
    BY <1>2 DEF Undo
  <2>2. BuyMoves(o, "undo", buy[o].i + 1, buy[o].n)
    BY <2>1, TypedAre DEF Typed, HandlersTyped, Buy, BuyMoves, Undo
  <2>3. buy[o].i \in 1..Len(Lines[o]) /\ buy[o].i <= buy[o].n
    BY <1>2, TypedAre, LinesAre DEF Typed, BuyPlaced
  <2>4. PICK c \in Counters : c = Lines[o][buy[o].i]
    BY <2>3, LinesAre
  <2>5. Qty[o] \in Nat /\ GiveBack(c, Qty[o])
    BY <2>1, <2>4, LinesAre DEF BuyStep
  <2>6. Moves(c, -Qty[o]) \/ (counter[c].held < Qty[o] /\ UNCHANGED counter)
    BY <2>5, GiveBackDoes, TypedAre
  <2> QED BY <2>2, <2>3, <2>4, <2>6 DEF Undo
<1> QED BY <1>1, <1>2

LEMMA SaveDoes ==
  ASSUME Typed, NEW o \in Orders, Save(o)
  PROVE  /\ UNCHANGED <<counter, call, run, work, crashes>>
         /\ buy[o].pc = "taken"
         /\ BuyMoves(o, "over", 1, 0)
         /\ order' \in [Orders -> Order]
         /\ \A x \in Orders \ {o} : order'[x] = order[x]
         /\ order'[o].state = "held"
         /\ order'[o].op = order[o].op /\ order'[o].n = order[o].n
<1>1. BuyMoves(o, "over", 1, 0)
  BY BuyEndsDoes DEF Save
<1> QED BY <1>1 DEF Save, Typed, HandlersTyped, Order

LEMMA SaveFailsDoes ==
  ASSUME Typed, NEW o \in Orders, SaveFails(o)
  PROVE  /\ UNCHANGED <<counter, order, call, run, work, crashes>>
         /\ buy[o].pc = "taken"
         /\ BuyMoves(o, "undo", 1, buy[o].n)
  BY DEF SaveFails, Typed, HandlersTyped, Buy, BuyMoves, UndoAll

LEMMA BuyCrashDoes ==
  ASSUME Typed, NEW o \in Orders, BuyCrash(o)
  PROVE  /\ UNCHANGED <<counter, order, call, run, work>>
         /\ Buying(o)
         /\ crashes' = crashes + 1 /\ crashes' \in 0..MaxCrashes
         /\ BuyMoves(o, "crashed", 1, 0)
<1>1. crashes' = crashes + 1 /\ crashes' \in 0..MaxCrashes
  BY CampaignAssumption DEF BuyCrash, Dies, Typed, HandlersTyped
<1>2. BuyMoves(o, "crashed", 1, 0)
  BY BuyEndsDoes DEF BuyCrash
<1> QED BY <1>1, <1>2 DEF BuyCrash

-----------------------------------------------------------------------------
(* A step of one checkout *)

\* The locals of checkouts stay placed when one moves within its lines.
LEMMA BuyStaysPlaced ==
  ASSUME Typed, NEW o \in Orders, NEW pc, NEW i, NEW n, BuyMoves(o, pc, i, n),
         i \in Nat, i >= 1, n \in Nat, n <= Len(Lines[o]),
         pc = "start" => n = 0,
         pc \in {"ensure", "take"} => i = n + 1 /\ i <= Len(Lines[o]),
         pc = "ensure" => Lines[o][i] \in Products,
         pc = "taken" => n = Len(Lines[o])
  PROVE  buy' \in [Orders -> Buy] /\ BuyPlaced'
  BY DEF BuyMoves, Typed, BuyPlaced

LEMMA TypedBuy ==
  ASSUME Typed, NEW o \in Orders,
         buy' \in [Orders -> Buy] /\ BuyPlaced',
         counter' \in [Counters -> Counter], order' \in [Orders -> Order],
         crashes' \in 0..MaxCrashes,
         UNCHANGED <<call, run, work>>
  PROVE  Typed'
  BY DEF Typed, HandlersTyped, CallPlaced, RunPlaced, WorkPlaced

LEMMA TypedCheckout ==
  ASSUME Typed, NEW o \in Orders, BuyNextStep(o) \/ BuyCrash(o)
  PROVE  Typed'
<1> USE TypedAre, LinesAre
<1>1. /\ counter \in [Counters -> Counter] /\ order \in [Orders -> Order]
      /\ crashes \in 0..MaxCrashes
      /\ buy[o].i \in Nat /\ buy[o].n \in Nat
      /\ buy[o].i >= 1 /\ buy[o].n <= Len(Lines[o])
  BY DEF Typed, HandlersTyped, BuyPlaced
<1>2. CASE Start(o)
  <2>1. buy' \in [Orders -> Buy] /\ BuyPlaced'
    BY <1>2, StartDoes, BuyStaysPlaced DEF Onward
  <2> QED BY <1>1, <1>2, <2>1, StartDoes, TypedBuy
<1>3. CASE Ensure(o)
  <2>1. buy' \in [Orders -> Buy] /\ BuyPlaced'
    BY <1>1, <1>3, EnsureDoes, BuyStaysPlaced DEF Typed, BuyPlaced
  <2> QED BY <1>1, <1>3, <2>1, EnsureDoes, TypedBuy
<1>4. CASE Take(o)
  <2>1. buy' \in [Orders -> Buy] /\ BuyPlaced'
    <3>1. /\ buy[o].n = buy[o].i - 1 /\ buy[o].i \in 1..Len(Lines[o])
          /\ \/ \E pc, i : /\ i = buy[o].i + 1
                           /\ Onward(o, pc, i)
                           /\ BuyMoves(o, pc, i, buy[o].i)
             \/ BuyMoves(o, "undo", 1, buy[o].n)
      BY <1>4, TakeDoes
    <3>2. CASE BuyMoves(o, "undo", 1, buy[o].n)
      BY <1>1, <3>2, BuyStaysPlaced
    <3>3. ASSUME NEW pc, NEW i, i = buy[o].i + 1, Onward(o, pc, i),
                 BuyMoves(o, pc, i, buy[o].i)
          PROVE  buy' \in [Orders -> Buy] /\ BuyPlaced'
      <4>1. i \in Nat /\ i >= 1
        BY <1>1, <3>3
      <4>2. buy[o].i <= Len(Lines[o]) /\ buy[o].i \in Nat
        BY <3>1
      <4> QED BY <3>3, <4>1, <4>2, BuyStaysPlaced DEF Onward
    <3> QED BY <3>1, <3>2, <3>3
  <2>2. counter' \in [Counters -> Counter]
    BY <1>1, <1>4, TakeDoes DEF Moves
  <2> QED BY <1>1, <1>4, <2>1, <2>2, TakeDoes, TypedBuy
<1>5. CASE Undo(o)
  <2>1. buy' \in [Orders -> Buy] /\ BuyPlaced'
    <3>1. \/ BuyMoves(o, "over", 1, 0)
          \/ BuyMoves(o, "undo", buy[o].i + 1, buy[o].n)
      BY <1>5, UndoDoes
    <3>2. /\ buy[o].i + 1 \in Nat /\ buy[o].i + 1 >= 1
          /\ 1 \in Nat /\ 0 \in Nat /\ 0 <= Len(Lines[o])
      BY <1>1, LinesAre
    <3>3. CASE BuyMoves(o, "over", 1, 0)
      BY <3>2, <3>3, BuyStaysPlaced
    <3>4. CASE BuyMoves(o, "undo", buy[o].i + 1, buy[o].n)
      BY <1>1, <3>2, <3>4, BuyStaysPlaced
    <3> QED BY <3>1, <3>3, <3>4
  <2>2. counter' \in [Counters -> Counter]
    BY <1>1, <1>5, UndoDoes DEF Moves
  <2> QED BY <1>1, <1>5, <2>1, <2>2, UndoDoes, TypedBuy
<1>6. CASE Save(o)
  <2>1. buy' \in [Orders -> Buy] /\ BuyPlaced'
    BY <1>1, <1>6, SaveDoes, BuyStaysPlaced
  <2> QED BY <1>1, <1>6, <2>1, SaveDoes, TypedBuy
<1>7. CASE SaveFails(o)
  <2>1. buy' \in [Orders -> Buy] /\ BuyPlaced'
    BY <1>1, <1>7, SaveFailsDoes, BuyStaysPlaced
  <2> QED BY <1>1, <1>7, <2>1, SaveFailsDoes, TypedBuy
<1>8. CASE BuyCrash(o)
  <2>1. buy' \in [Orders -> Buy] /\ BuyPlaced'
    BY <1>1, <1>8, BuyCrashDoes, BuyStaysPlaced
  <2> QED BY <1>1, <1>8, <2>1, BuyCrashDoes, TypedBuy
<1> QED BY <1>2, <1>3, <1>4, <1>5, <1>6, <1>7, <1>8 DEF BuyNextStep

-----------------------------------------------------------------------------
(* What the steps of a run do *)

LEMMA OperationIs ==
  ASSUME NEW op \in Operation
  PROVE  /\ op.n \in Nat /\ op.target \in Targets /\ op.phase \in {"apply", "cleanup"}
         /\ op # None
         /\ [op EXCEPT !.phase = "cleanup"] \in Operation
         /\ [op EXCEPT !.phase = "cleanup"].n = op.n
         /\ [op EXCEPT !.phase = "cleanup"].target = op.target
         /\ [op EXCEPT !.phase = "cleanup"].phase = "cleanup"
  BY NoneAssumption DEF Operation

\* Runner w is at step i of what it applies, or pulls.
RunMoves(w, pc, i) ==
  /\ run' \in [Runners -> Run]
  /\ \A v \in Runners \ {w} : run'[v] = run[v]
  /\ run'[w].pc = pc /\ run'[w].i = i
  /\ run'[w].o = run[w].o /\ run'[w].op = run[w].op

\* Runner w starts with the operation op of order o.
RunStarts(w, o, op) ==
  /\ run' \in [Runners -> Run]
  /\ \A v \in Runners \ {w} : run'[v] = run[v]
  /\ run'[w].pc = IF op.phase = "apply" THEN "apply" ELSE "pull"
  /\ run'[w].i = 1
  /\ run'[w].o = o /\ run'[w].op = op

RunEnds(w) ==
  /\ run' \in [Runners -> Run]
  /\ \A v \in Runners \ {w} : run'[v] = run[v]
  /\ run'[w].pc = "idle"

LEMMA RunsDoes ==
  ASSUME Typed, NEW w \in Runners, NEW o \in Orders, NEW op \in Operation, Runs(w, o, op)
  PROVE  RunStarts(w, o, op)
  BY DEF Runs, RunStarts, Typed, HandlersTyped, Run

LEMMA AdvanceDoes ==
  ASSUME Typed, NEW w \in Runners, run' = [run EXCEPT ![w].i = @ + 1]
  PROVE  RunMoves(w, run[w].pc, run[w].i + 1)
<1>1. run \in [Runners -> Run] /\ run[w].i + 1 \in Nat
  BY TypedAre DEF Typed, HandlersTyped
<1>2. PICK i \in Nat : i = run[w].i + 1
  BY <1>1
<1>3. run' = [run EXCEPT ![w].i = i]
  BY <1>2
<1>4. RunMoves(w, run[w].pc, i)
  BY <1>1, <1>3 DEF RunMoves, Run
<1> QED BY <1>2, <1>4

LEMMA EndsDoes ==
  ASSUME Typed, NEW w \in Runners, run' = [run EXCEPT ![w] = NoRun]
  PROVE  RunEnds(w)
  BY DEF NoRun, RunEnds, Typed, HandlersTyped, Run

\* Runner w takes the uses of its step from held, and leaves its marker.
Applies(w, c, n) ==
  /\ counter' \in [Counters -> Counter]
  /\ counter[c].held >= n
  /\ Marker(w) \notin counter[c].ops
  /\ \A d \in Counters :
       /\ counter'[d].held = IF d = c THEN counter[d].held - n ELSE counter[d].held
       /\ counter'[d].sold =
            IF d = c /\ run[w].op.target = "sold" THEN counter[d].sold + n
            ELSE counter[d].sold
       /\ counter'[d].quota = counter[d].quota
       /\ counter'[d].ops =
            IF d = c THEN counter[d].ops \cup {Marker(w)} ELSE counter[d].ops

LEMMA ApplyDoes ==
  ASSUME Typed, NEW w \in Runners, Apply(w)
  PROVE  /\ UNCHANGED <<order, buy, call, work, crashes>>
         /\ run[w].pc = "apply"
         /\ run[w].o \in Orders
         /\ run[w].i \in 1..Len(Lines[run[w].o])
         /\ RunMoves(w, "apply", run[w].i + 1)
         /\ \/ Applies(w, Lines[run[w].o][run[w].i], Qty[run[w].o])
            \/ /\ UNCHANGED counter
               /\ \/ counter[Lines[run[w].o][run[w].i]].held < Qty[run[w].o]
                  \/ Marker(w) \in counter[Lines[run[w].o][run[w].i]].ops
<1>1. /\ run[w].pc = "apply" /\ run[w].o \in Orders /\ run[w].op \in Operation
      /\ run[w].i \in Nat /\ run[w].i >= 1 /\ run[w].i <= Len(Lines[run[w].o])
  BY TypedAre DEF Typed, RunPlaced, Apply
<1>2. run[w].i \in 1..Len(Lines[run[w].o])
  BY <1>1, LinesAre
<1>3. PICK c \in Counters, n \in Nat : c = Lines[run[w].o][run[w].i] /\ n = Qty[run[w].o]
  BY <1>1, <1>2, LinesAre
<1>4. Marker(w) \in Markers
  BY <1>1, OperationIs DEF Marker, Markers
<1>5. RunMoves(w, "apply", run[w].i + 1)
  BY <1>1, AdvanceDoes DEF Apply
<1>6. counter' = IF counter[c].held < n \/ Marker(w) \in counter[c].ops
                 THEN counter
                 ELSE [counter EXCEPT ![c].held = @ - n,
                        ![c].sold = IF run[w].op.target = "sold" THEN @ + n ELSE @,
                        ![c].ops = @ \cup {Marker(w)}]
  BY <1>3 DEF Apply
<1>7. CASE counter[c].held < n \/ Marker(w) \in counter[c].ops
  BY <1>1, <1>2, <1>3, <1>5, <1>6, <1>7 DEF Apply
<1>8. CASE ~(counter[c].held < n \/ Marker(w) \in counter[c].ops)
  <2> DEFINE new == [counter[c] EXCEPT !.held = counter[c].held - n,
                       !.sold = IF run[w].op.target = "sold" THEN counter[c].sold + n
                                ELSE counter[c].sold,
                       !.ops = counter[c].ops \cup {Marker(w)}]
  <2>1. /\ counter \in [Counters -> Counter]
        /\ counter[c].held \in Nat /\ counter[c].sold \in Nat /\ counter[c].held >= n
        /\ counter[c].ops \subseteq Markers
    BY <1>8, TypedAre DEF Typed, HandlersTyped
  <2>2. counter' = [counter EXCEPT ![c] = new]
    BY <1>6, <1>8, <2>1
  <2>3. counter[c] \in Counter
    BY <2>1
  <2>4. /\ new \in Counter
        /\ new.held = counter[c].held - n /\ new.quota = counter[c].quota
        /\ new.sold = IF run[w].op.target = "sold" THEN counter[c].sold + n
                      ELSE counter[c].sold
        /\ new.ops = counter[c].ops \cup {Marker(w)}
    <3>1. PICK held \in Nat, sold \in Nat, ops \in SUBSET Markers :
            /\ held = counter[c].held - n
            /\ sold = IF run[w].op.target = "sold" THEN counter[c].sold + n
                      ELSE counter[c].sold
            /\ ops = counter[c].ops \cup {Marker(w)}
      <4>1. counter[c].held - n \in Nat /\ counter[c].sold + n \in Nat
        BY <2>1
      <4>2. counter[c].ops \cup {Marker(w)} \in SUBSET Markers
        BY <1>4, <2>1
      <4> QED BY <2>1, <4>1, <4>2
    <3>2. new = [counter[c] EXCEPT !.held = held, !.sold = sold, !.ops = ops]
      BY <3>1
    <3> HIDE DEF new
    <3>3. /\ new \in Counter /\ new.held = held /\ new.quota = counter[c].quota
          /\ new.sold = sold /\ new.ops = ops
      BY <2>3, <3>2 DEF Counter
    <3> QED BY <3>1, <3>3
  <2> HIDE DEF new
  <2>5. Applies(w, c, n)
    BY <1>8, <2>1, <2>2, <2>4 DEF Applies
  <2> QED BY <1>1, <1>2, <1>3, <1>5, <2>5 DEF Apply
<1> QED BY <1>7, <1>8

\* Order o keeps what it has but for its operation.
OpBecomes(o, op) ==
  /\ order' \in [Orders -> Order]
  /\ \A x \in Orders \ {o} : order'[x] = order[x]
  /\ order'[o].state = order[o].state /\ order'[o].n = order[o].n
  /\ order'[o].op = op

LEMMA ToCleanupDoes ==
  ASSUME Typed, NEW w \in Runners, ToCleanup(w)
  PROVE  /\ UNCHANGED <<counter, buy, call, work, crashes>>
         /\ run[w].pc = "apply"
         /\ run[w].o \in Orders
         /\ run[w].i > Len(Lines[run[w].o])
         /\ RunMoves(w, "pull", 1)
         /\ order' \in [Orders -> Order]
         /\ Mine(w) => OpBecomes(run[w].o, [order[run[w].o].op EXCEPT !.phase = "cleanup"])
         /\ ~Mine(w) => order' = order
<1>1. run[w].pc = "apply" /\ run[w].o \in Orders
  BY DEF Typed, RunPlaced, ToCleanup
<1>2. RunMoves(w, "pull", 1)
  BY <1>1 DEF ToCleanup, RunMoves, Typed, HandlersTyped, Run
<1>3. PICK o \in Orders : o = run[w].o
  BY <1>1
<1>4. /\ order \in [Orders -> Order] /\ order[o].op \in Operation \cup {None}
      /\ order[o] \in Order
  BY TypedAre DEF Typed, HandlersTyped
<1>5. CASE Mine(w)
  <2>1. order' = [order EXCEPT ![o].op.phase = "cleanup"]
    BY <1>3, <1>5 DEF ToCleanup
  <2>2. order[o].op \in Operation
    BY <1>3, <1>4, <1>5 DEF Mine
  <2> DEFINE op == [order[o].op EXCEPT !.phase = "cleanup"]
             new == [order[o] EXCEPT !.op = op]
  <2>3. op \in Operation
    BY <2>2, OperationIs
  <2>4. order' = [order EXCEPT ![o] = new]
    BY <2>1, <1>4
  <2> HIDE DEF op
  <2>5. /\ new \in Order /\ new.op = op /\ new.state = order[o].state
        /\ new.n = order[o].n
    BY <1>4, <2>3 DEF Order
  <2> HIDE DEF new
  <2>6. OpBecomes(o, op) /\ order' \in [Orders -> Order]
    BY <1>4, <2>4, <2>5 DEF OpBecomes
  <2> QED BY <1>1, <1>2, <1>3, <1>5, <2>6 DEF ToCleanup, op
<1>6. CASE ~Mine(w)
  BY <1>1, <1>2, <1>4, <1>6 DEF ToCleanup
<1> QED BY <1>5, <1>6

\* The markers of run w leave the counter of its step.
Pulls(w) ==
  /\ counter' \in [Counters -> Counter]
  /\ \A d \in Counters :
       /\ counter'[d].held = counter[d].held
       /\ counter'[d].sold = counter[d].sold
       /\ counter'[d].quota = counter[d].quota
       /\ counter'[d].ops \subseteq counter[d].ops
       /\ \A m \in counter[d].ops \ counter'[d].ops :
            m[1] = run[w].o /\ m[2] = run[w].op.n

LEMMA PullDoes ==
  ASSUME Typed, NEW w \in Runners, Pull(w)
  PROVE  /\ UNCHANGED <<order, buy, call, work, crashes>>
         /\ run[w].pc = "pull"
         /\ run[w].o \in Orders
         /\ RunMoves(w, "pull", run[w].i + 1)
         /\ Pulls(w)
<1>1. /\ run[w].pc = "pull" /\ run[w].o \in Orders
      /\ run[w].i \in Nat /\ run[w].i >= 1 /\ run[w].i <= Len(Lines[run[w].o])
  BY TypedAre DEF Typed, RunPlaced, Pull
<1>2. run[w].i \in 1..Len(Lines[run[w].o])
  BY <1>1, LinesAre
<1>3. PICK c \in Counters : c = Lines[run[w].o][run[w].i]
  BY <1>1, <1>2, LinesAre
<1>4. RunMoves(w, "pull", run[w].i + 1)
  BY <1>1, AdvanceDoes DEF Pull
<1> DEFINE ops == {m \in counter[c].ops : <<m[1], m[2]>> # <<run[w].o, run[w].op.n>>}
<1>5. counter' = [counter EXCEPT ![c].ops = ops]
  BY <1>3 DEF Pull
<1>6. /\ ops \subseteq counter[c].ops
      /\ \A m \in counter[c].ops \ ops : m[1] = run[w].o /\ m[2] = run[w].op.n
  OBVIOUS
<1>7. counter[c].ops \subseteq Markers /\ counter \in [Counters -> Counter]
  BY TypedAre DEF Typed, HandlersTyped
<1> HIDE DEF ops
<1>8. Pulls(w)
  BY <1>5, <1>6, <1>7 DEF Pulls, Counter
<1> QED BY <1>1, <1>4, <1>8 DEF Pull

LEMMA UnsetDoes ==
  ASSUME Typed, NEW w \in Runners, Unset(w)
  PROVE  /\ UNCHANGED <<counter, buy, call, work, crashes>>
         /\ run[w].pc = "pull"
         /\ run[w].o \in Orders
         /\ RunEnds(w)
         /\ order' \in [Orders -> Order]
         /\ Mine(w) => OpBecomes(run[w].o, None)
         /\ ~Mine(w) => order' = order
<1>1. run[w].pc = "pull" /\ run[w].o \in Orders
  BY DEF Typed, RunPlaced, Unset
<1>2. RunEnds(w)
  BY EndsDoes DEF Unset
<1>3. PICK o \in Orders : o = run[w].o
  BY <1>1
<1>4. order \in [Orders -> Order]
  BY DEF Typed, HandlersTyped
<1>5. CASE Mine(w)
  <2>1. order' = [order EXCEPT ![o].op = None]
    BY <1>3, <1>5 DEF Unset
  <2>2. OpBecomes(o, None) /\ order' \in [Orders -> Order]
    BY <1>4, <2>1 DEF OpBecomes, Order
  <2> QED BY <1>1, <1>2, <1>3, <1>5, <2>2 DEF Unset
<1>6. CASE ~Mine(w)
  BY <1>1, <1>2, <1>4, <1>6 DEF Unset
<1> QED BY <1>5, <1>6

\* Order o goes to a new operation.
OrderBegins(o, target) ==
  /\ order' \in [Orders -> Order]
  /\ \A x \in Orders \ {o} : order'[x] = order[x]
  /\ order'[o].state = target /\ order'[o].n = order[o].n + 1
  /\ order'[o].op \in Operation
  /\ order'[o].op.n = order[o].n + 1
  /\ order'[o].op.target = target
  /\ order'[o].op.phase = "apply"

LEMMA BeginsDoes ==
  ASSUME Typed, NEW w \in Runners, NEW o \in Orders, NEW target \in Targets,
         Begins(w, o, target)
  PROVE  OrderBegins(o, target) /\ RunStarts(w, o, order'[o].op)
<1> DEFINE op == [n |-> order[o].n + 1, target |-> target, phase |-> "apply"]
<1>1. order' = [order EXCEPT ![o].state = target, ![o].op = op, ![o].n = op.n]
      /\ Runs(w, o, op)
  BY DEF Begins
<1>2. order[o].n + 1 \in Nat
  BY TypedAre
<1>3. /\ op \in Operation /\ op.n = order[o].n + 1 /\ op.target = target
      /\ op.phase = "apply"
  BY <1>2 DEF Operation
<1> HIDE DEF op
<1>4. OrderBegins(o, target) /\ order'[o].op = op
  BY <1>1, <1>2, <1>3 DEF Typed, HandlersTyped, Order, Targets, OrderBegins
<1> QED BY <1>1, <1>3, <1>4, RunsDoes

-----------------------------------------------------------------------------
(* A step of one run *)

LEMMA TypedRun ==
  ASSUME Typed, NEW w \in Runners, RunNext(w)
  PROVE  Typed'
<1>1. /\ counter \in [Counters -> Counter] /\ order \in [Orders -> Order]
      /\ crashes \in 0..MaxCrashes
      /\ run[w].i \in Nat
  BY TypedAre DEF Typed, HandlersTyped
<1>2. ASSUME UNCHANGED <<buy, call, work, crashes>>,
             counter' \in [Counters -> Counter], order' \in [Orders -> Order],
             \/ RunEnds(w)
             \/ \E pc, i : run[w].pc # "idle" /\ i >= 1 /\ RunMoves(w, pc, i)
      PROVE  Typed'
  <2>1. run' \in [Runners -> Run] /\ RunPlaced'
    BY <1>2 DEF Typed, RunPlaced, RunEnds, RunMoves
  <2> QED BY <1>2, <2>1 DEF Typed, HandlersTyped, BuyPlaced, CallPlaced, WorkPlaced
<1>3. CASE Apply(w)
  <2>1. counter' \in [Counters -> Counter]
    BY <1>1, <1>3, ApplyDoes DEF Applies
  <2>2. run[w].i + 1 >= 1
    BY <1>1
  <2> QED BY <1>1, <1>2, <1>3, <2>1, <2>2, ApplyDoes
<1>4. CASE ToCleanup(w)
  <2>1. run[w].pc # "idle" /\ RunMoves(w, "pull", 1) /\ order' \in [Orders -> Order]
    BY <1>4, ToCleanupDoes
  <2>2. \E pc, i : run[w].pc # "idle" /\ i >= 1 /\ RunMoves(w, pc, i)
    BY <2>1
  <2>3. UNCHANGED <<buy, call, work, crashes>> /\ counter' \in [Counters -> Counter]
    BY <1>1, <1>4 DEF ToCleanup
  <2> QED BY <1>2, <2>1, <2>2, <2>3
<1>5. CASE Pull(w)
  <2>1. counter' \in [Counters -> Counter]
    BY <1>5, PullDoes DEF Pulls
  <2>2. run[w].i + 1 >= 1
    BY <1>1
  <2> QED BY <1>1, <1>2, <1>5, <2>1, <2>2, PullDoes
<1>6. CASE Unset(w)
  BY <1>1, <1>2, <1>6, UnsetDoes
<1> QED BY <1>3, <1>4, <1>5, <1>6 DEF RunNext

-----------------------------------------------------------------------------
(* What the steps of a call do *)

\* Call k goes to pc, at line i with got taken back.
CallMoves(k, pc, i, got) ==
  /\ call' \in [Calls -> Call]
  /\ \A j \in Calls \ {k} : call'[j] = call[j]
  /\ call'[k].pc = pc /\ call'[k].i = i /\ call'[k].got = got
  /\ call'[k].o = call[k].o
  /\ call'[k].late = IF pc \in {"done", "crashed"} THEN 0 ELSE call[k].late

CallPc == {"idle", "begin", "running", "flip", "take", "undo", "manual",
           "share", "done", "crashed"}

LEMMA CallEndsDoes ==
  ASSUME Typed, NEW k \in Calls, NEW pc \in {"done", "crashed"}, CallEnds(k, pc)
  PROVE  CallMoves(k, pc, 1, 0)
  BY DEF CallEnds, CallMoves, Typed, HandlersTyped, Call

LEMMA GotoDoes ==
  ASSUME Typed, NEW k \in Calls, NEW pc \in CallPc \ {"done", "crashed"}, NEW i \in Nat,
         CallGoto(k, pc, i)
  PROVE  CallMoves(k, pc, i, call[k].got)
  BY DEF CallGoto, CallMoves, CallPc, Typed, HandlersTyped, Call

\* Call k goes on to pc and keeps the rest.
LEMMA PcDoes ==
  ASSUME Typed, NEW k \in Calls, NEW pc \in CallPc \ {"done", "crashed"},
         call' = [call EXCEPT ![k].pc = pc]
  PROVE  CallMoves(k, pc, call[k].i, call[k].got)
  BY DEF CallMoves, CallPc, Typed, HandlersTyped, Call

LEMMA RequestDoes ==
  ASSUME Typed, NEW k \in Calls, Request(k)
  PROVE  /\ UNCHANGED <<counter, buy, run, work, crashes>>
         /\ call[k].pc = "idle"
         /\ call' \in [Calls -> Call]
         /\ \A j \in Calls \ {k} : call'[j] = call[j]
         /\ call'[k].pc = "begin" /\ call'[k].i = call[k].i
         /\ call'[k].got = call[k].got /\ call'[k].late = call[k].late
         /\ call'[k].o \in Orders
         /\ order[call'[k].o].state # "none"
         /\ order' \in [Orders -> Order]
         /\ \A o \in Orders : /\ order'[o].state = order[o].state
                              /\ order'[o].n = order[o].n
                              /\ order'[o].op = order[o].op
<1>1. PICK o \in Orders, to \in Targets :
       /\ order[o].state # "none"
       /\ order' = [order EXCEPT ![o].pay =
            IF to = "sold" THEN "paid" ELSE IF @ = "paid" THEN @ ELSE "cancelled"]
       /\ call' = [call EXCEPT ![k].pc = "begin", ![k].o = o, ![k].to = to]
  BY DEF Request
<1>2. PICK pay \in {"open", "paid", "cancelled"} : order' = [order EXCEPT ![o].pay = pay]
  <2>1. order[o].pay \in {"open", "paid", "cancelled"}
    BY DEF Typed, HandlersTyped, Order
  <2>2. order' = [order EXCEPT ![o].pay =
            IF to = "sold" THEN "paid"
            ELSE IF order[o].pay = "paid" THEN order[o].pay ELSE "cancelled"]
    BY <1>1
  <2> QED BY <2>1, <2>2
<1>3. /\ order' \in [Orders -> Order]
      /\ \A x \in Orders : /\ order'[x].state = order[x].state
                           /\ order'[x].n = order[x].n
                           /\ order'[x].op = order[x].op
  BY <1>2 DEF Typed, HandlersTyped, Order
<1>4. /\ call' \in [Calls -> Call]
      /\ \A j \in Calls \ {k} : call'[j] = call[j]
      /\ call'[k].pc = "begin" /\ call'[k].i = call[k].i
      /\ call'[k].got = call[k].got /\ call'[k].late = call[k].late
      /\ call'[k].o = o
  BY <1>1 DEF Typed, HandlersTyped, Call
<1> QED BY <1>1, <1>3, <1>4 DEF Request

LEMMA CallBeginDoes ==
  ASSUME Typed, NEW k \in Calls, CallBegin(k)
  PROVE  /\ UNCHANGED <<counter, buy, work, crashes>>
         /\ call[k].pc = "begin"
         /\ call[k].o \in Orders
         /\ \/ /\ MayBegin(call[k].o)
               /\ \E target \in Targets : OrderBegins(call[k].o, target)
               /\ RunStarts(k, call[k].o, order'[call[k].o].op)
               /\ CallMoves(k, "running", call[k].i, call[k].got)
            \/ /\ UNCHANGED <<order, run>>
               /\ ~MayBegin(call[k].o)
               /\ \/ CallMoves(k, "flip", 1, call[k].got) /\ call[k].late = 0
                  \/ CallMoves(k, "done", 1, 0)
<1>1. call[k].pc = "begin" /\ call[k].o \in Orders /\ k \in Runners
  BY DEF Typed, CallPlaced, CallBegin, Runners
<1>2. CASE MayBegin(call[k].o)
  <2>1. /\ Begins(k, call[k].o, call[k].to)
        /\ call' = [call EXCEPT ![k].pc = "running"]
    BY <1>2 DEF CallBegin
  <2>2. call[k].to \in Targets
    BY TypedAre
  <2>3. CallMoves(k, "running", call[k].i, call[k].got)
    BY <2>1, PcDoes DEF CallPc
  <2>4. OrderBegins(call[k].o, call[k].to) /\ RunStarts(k, call[k].o, order'[call[k].o].op)
    BY <1>1, <2>1, <2>2, BeginsDoes
  <2> QED BY <1>1, <1>2, <2>2, <2>3, <2>4 DEF CallBegin
<1>3. CASE ~MayBegin(call[k].o)
  <2>1. /\ \/ CallGoto(k, "flip", 1) /\ call[k].late = 0
           \/ CallEnds(k, "done")
        /\ UNCHANGED <<order, run>>
    BY <1>3 DEF CallBegin
  <2>2. \/ CallMoves(k, "flip", 1, call[k].got) /\ call[k].late = 0
        \/ CallMoves(k, "done", 1, 0)
    BY <2>1, GotoDoes, CallEndsDoes DEF CallPc
  <2> QED BY <1>1, <1>3, <2>1, <2>2 DEF CallBegin
<1> QED BY <1>2, <1>3

LEMMA CallReturnsDoes ==
  ASSUME Typed, NEW k \in Calls, CallReturns(k)
  PROVE  /\ UNCHANGED <<counter, order, buy, run, work, crashes>>
         /\ call[k].pc = "running"
         /\ run[k].pc = "idle"
         /\ CallMoves(k, "done", 1, 0)
  BY CallEndsDoes DEF CallReturns

\* Order o goes to a state, and its operation stays.
StateBecomes(o, s) ==
  /\ order' \in [Orders -> Order]
  /\ \A x \in Orders \ {o} : order'[x] = order[x]
  /\ order'[o].state = s
  /\ order'[o].n = order[o].n /\ order'[o].op = order[o].op

LEMMA FlipDoes ==
  ASSUME Typed, NEW k \in Calls, Flip(k)
  PROVE  /\ UNCHANGED <<counter, buy, run, work, crashes>>
         /\ call[k].pc = "flip"
         /\ call[k].o \in Orders
         /\ call[k].late = 0
         /\ \/ /\ order[call[k].o].state = "released"
               /\ StateBecomes(call[k].o, "held")
               /\ call' \in [Calls -> Call]
               /\ \A j \in Calls \ {k} : call'[j] = call[j]
               /\ call'[k].pc = "take" /\ call'[k].late = order[call[k].o].n
               /\ call'[k].i = call[k].i /\ call'[k].got = call[k].got
               /\ call'[k].o = call[k].o
            \/ /\ UNCHANGED order
               /\ CallMoves(k, "done", 1, 0)
<1>1. call[k].pc = "flip" /\ call[k].o \in Orders /\ call[k].late = 0
  BY DEF Typed, CallPlaced, Flip
<1>2. PICK o \in Orders : o = call[k].o
  BY <1>1
<1>3. CASE order[o].state = "released"
  <2>1. /\ order' = [order EXCEPT ![o].state = "held"]
        /\ call' = [call EXCEPT ![k].pc = "take", ![k].late = order[o].n]
    BY <1>2, <1>3 DEF Flip
  <2>2. StateBecomes(o, "held")
    BY <2>1 DEF Typed, HandlersTyped, Order, StateBecomes
  <2>3. order[o].n \in Nat
    BY TypedAre
  <2>4. /\ call' \in [Calls -> Call]
        /\ \A j \in Calls \ {k} : call'[j] = call[j]
        /\ call'[k].pc = "take" /\ call'[k].late = order[o].n
        /\ call'[k].i = call[k].i /\ call'[k].got = call[k].got
        /\ call'[k].o = call[k].o
    BY <2>1, <2>3 DEF Typed, HandlersTyped, Call
  <2> QED BY <1>1, <1>2, <1>3, <2>2, <2>4 DEF Flip
<1>4. CASE order[o].state # "released"
  <2>1. CallEnds(k, "done") /\ UNCHANGED order
    BY <1>2, <1>4 DEF Flip
  <2>2. CallMoves(k, "done", 1, 0)
    BY <2>1, CallEndsDoes
  <2> QED BY <1>1, <2>1, <2>2 DEF Flip
<1> QED BY <1>3, <1>4

\* The next line of a product from the one after the last taken back.
LEMMA TakeBackDoes ==
  ASSUME Typed, NEW k \in Calls, TakeBack(k)
  PROVE  /\ UNCHANGED <<order, buy, run, work, crashes>>
         /\ call[k].pc = "take"
         /\ call[k].o \in Orders
         /\ \E i \in 1..(Len(Lines[call[k].o]) + 1) :
              /\ \A j \in 1..Len(Lines[call[k].o]) :
                   call[k].got < j /\ j < i => Lines[call[k].o][j] \notin Products
              /\ \/ /\ i > Len(Lines[call[k].o])
                    /\ UNCHANGED counter
                    /\ CallMoves(k, "share", 1, call[k].got)
                 \/ /\ i <= Len(Lines[call[k].o]) /\ call[k].got < i
                    /\ Lines[call[k].o][i] \in Products
                    /\ HasRoom(Lines[call[k].o][i], Qty[call[k].o],
                               counter[Lines[call[k].o][i]].quota)
                    /\ Moves(Lines[call[k].o][i], Qty[call[k].o])
                    /\ CallMoves(k, "take", call[k].i, i)
                 \/ /\ UNCHANGED counter
                    /\ CallMoves(k, "undo", 1, call[k].got)
<1>1. call[k].pc = "take" /\ call[k].o \in Orders
  BY DEF Typed, CallPlaced, TakeBack
<1>2. PICK o \in Orders : o = call[k].o
  BY <1>1
<1>3. PICK g \in Nat : g = call[k].got + 1 /\ g >= 1 /\ call[k].got \in Nat
  <2>1. call[k].got \in Nat
    BY TypedAre
  <2> QED BY <2>1
<1> DEFINE i == NextLine(o, g, Products)
<1>4. /\ i \in 1..(Len(Lines[o]) + 1)
      /\ i <= Len(Lines[o]) => g <= i /\ Lines[o][i] \in Products
      /\ \A j \in 1..Len(Lines[o]) : g <= j /\ j < i => Lines[o][j] \notin Products
  BY <1>3, NextLineIs
<1>5. IF i > Len(Lines[o])
        THEN CallGoto(k, "share", 1) /\ UNCHANGED counter
        ELSE IF HasRoom(Lines[o][i], Qty[o], counter[Lines[o][i]].quota)
        THEN /\ Raise(Lines[o][i], Qty[o])
             /\ call' = [call EXCEPT ![k].got = i]
        ELSE CallGoto(k, "undo", 1) /\ UNCHANGED counter
  BY <1>2, <1>3 DEF TakeBack
<1>6. UNCHANGED <<order, buy, run, work, crashes>>
  BY DEF TakeBack
<1> HIDE DEF i
<1>7. \A j \in 1..Len(Lines[o]) : call[k].got < j /\ j < i => Lines[o][j] \notin Products
  BY <1>3, <1>4, LinesAre
<1>8. CASE i > Len(Lines[o])
  <2>1. CallMoves(k, "share", 1, call[k].got)
    BY <1>5, <1>8, GotoDoes DEF CallPc
  <2> QED BY <1>1, <1>2, <1>4, <1>5, <1>6, <1>7, <1>8, <2>1
<1>9. CASE /\ i <= Len(Lines[o])
           /\ HasRoom(Lines[o][i], Qty[o], counter[Lines[o][i]].quota)
  <2>1. i \in 1..Len(Lines[o]) /\ ~(i > Len(Lines[o])) /\ i \in Nat
    BY <1>4, <1>9, LinesAre
  <2>2. PICK c \in Counters : c = Lines[o][i]
    BY <2>1, LinesAre
  <2>3. Raise(c, Qty[o]) /\ call' = [call EXCEPT ![k].got = i] /\ Qty[o] \in Nat
    BY <1>5, <1>9, <2>1, <2>2, LinesAre
  <2>4. Moves(c, Qty[o])
    BY <2>3, RaiseDoes
  <2>5. CallMoves(k, "take", call[k].i, i)
    BY <1>1, <2>1, <2>3 DEF CallMoves, Typed, HandlersTyped, Call
  <2>6. call[k].got < i /\ Lines[o][i] \in Products
    BY <1>3, <1>4, <1>9, <2>1
  <2> QED BY <1>1, <1>2, <1>4, <1>6, <1>7, <1>9, <2>2, <2>4, <2>5, <2>6
<1>10. CASE /\ i <= Len(Lines[o])
            /\ ~HasRoom(Lines[o][i], Qty[o], counter[Lines[o][i]].quota)
  <2>1. ~(i > Len(Lines[o]))
    BY <1>4, <1>10, LinesAre
  <2>2. CallGoto(k, "undo", 1) /\ UNCHANGED counter
    BY <1>5, <1>10, <2>1
  <2>3. CallMoves(k, "undo", 1, call[k].got)
    BY <2>2, GotoDoes DEF CallPc
  <2> QED BY <1>1, <1>2, <1>4, <1>6, <1>7, <2>2, <2>3
<1> QED BY <1>4, <1>8, <1>9, <1>10, LinesAre

LEMMA TakeBackUndoDoes ==
  ASSUME Typed, NEW k \in Calls, TakeBackUndo(k)
  PROVE  /\ UNCHANGED <<order, buy, run, work, crashes>>
         /\ call[k].pc = "undo"
         /\ call[k].o \in Orders
         /\ \E i \in 1..(Len(Lines[call[k].o]) + 1) :
              /\ \A j \in 1..Len(Lines[call[k].o]) :
                   call[k].i <= j /\ j < i => Lines[call[k].o][j] \notin Products
              /\ \/ /\ i > call[k].got
                    /\ UNCHANGED counter
                    /\ CallMoves(k, "manual", 1, call[k].got)
                 \/ /\ i <= Len(Lines[call[k].o]) /\ i <= call[k].got /\ call[k].i <= i
                    /\ Lines[call[k].o][i] \in Products
                    /\ CallMoves(k, "undo", i + 1, call[k].got)
                    /\ \/ Moves(Lines[call[k].o][i], -Qty[call[k].o])
                       \/ /\ counter[Lines[call[k].o][i]].held < Qty[call[k].o]
                          /\ UNCHANGED counter
<1>1. call[k].pc = "undo" /\ call[k].o \in Orders /\ call[k].got <= Len(Lines[call[k].o])
  BY DEF Typed, CallPlaced, TakeBackUndo
<1>2. PICK o \in Orders : o = call[k].o
  BY <1>1
<1>3. PICK g \in Nat : g = call[k].i /\ g >= 1
  BY TypedAre DEF Typed, CallPlaced
<1> DEFINE i == NextLine(o, g, Products)
<1>4. /\ i \in 1..(Len(Lines[o]) + 1)
      /\ i <= Len(Lines[o]) => g <= i /\ Lines[o][i] \in Products
      /\ \A j \in 1..Len(Lines[o]) : g <= j /\ j < i => Lines[o][j] \notin Products
  BY <1>3, NextLineIs
<1>5. IF i > call[k].got
       THEN CallGoto(k, "manual", 1) /\ UNCHANGED counter
       ELSE GiveBack(Lines[o][i], Qty[o]) /\ CallGoto(k, "undo", i + 1)
  BY <1>2, <1>3 DEF TakeBackUndo
<1>6. UNCHANGED <<order, buy, run, work, crashes>>
  BY DEF TakeBackUndo
<1> HIDE DEF i
<1>7. CASE i > call[k].got
  <2>1. CallMoves(k, "manual", 1, call[k].got)
    BY <1>5, <1>7, GotoDoes DEF CallPc
  <2> QED BY <1>1, <1>2, <1>3, <1>4, <1>5, <1>6, <1>7, <2>1
<1>8. CASE ~(i > call[k].got)
  <2>1. i \in 1..Len(Lines[o]) /\ i + 1 \in Nat /\ i <= call[k].got
    BY <1>1, <1>2, <1>4, <1>8, LinesAre, TypedAre
  <2>2. PICK c \in Counters : c = Lines[o][i]
    BY <2>1, LinesAre
  <2>3. GiveBack(c, Qty[o]) /\ CallGoto(k, "undo", i + 1) /\ Qty[o] \in Nat
    BY <1>5, <1>8, <2>2, LinesAre
  <2>4. Moves(c, -Qty[o]) \/ (counter[c].held < Qty[o] /\ UNCHANGED counter)
    BY <2>3, GiveBackDoes, TypedAre
  <2>5. CallMoves(k, "undo", i + 1, call[k].got)
    BY <2>1, <2>3, GotoDoes DEF CallPc
  <2> QED BY <1>1, <1>2, <1>3, <1>4, <1>6, <2>1, <2>2, <2>4, <2>5
<1> QED BY <1>7, <1>8

LEMMA ManualDoes ==
  ASSUME Typed, NEW k \in Calls, Manual(k)
  PROVE  /\ UNCHANGED <<counter, buy, run, work, crashes>>
         /\ call[k].pc = "manual"
         /\ call[k].o \in Orders
         /\ StateBecomes(call[k].o, "released")
         /\ CallMoves(k, "done", 1, 0)
<1>1. call[k].pc = "manual" /\ call[k].o \in Orders
  BY DEF Typed, CallPlaced, Manual
<1>2. PICK o \in Orders : o = call[k].o
  BY <1>1
<1>3. order' = [order EXCEPT ![o].state = "released", ![o].review = TRUE]
  BY <1>2 DEF Manual
<1>4. StateBecomes(o, "released")
  BY <1>3 DEF Typed, HandlersTyped, Order, StateBecomes
<1>5. CallMoves(k, "done", 1, 0)
  BY CallEndsDoes DEF Manual
<1> QED BY <1>1, <1>2, <1>4, <1>5 DEF Manual

LEMMA TakeShareDoes ==
  ASSUME Typed, NEW k \in Calls, TakeShare(k)
  PROVE  /\ UNCHANGED <<order, buy, run, work, crashes>>
         /\ call[k].pc = "share"
         /\ call[k].o \in Orders
         /\ \E i \in 1..(Len(Lines[call[k].o]) + 1) :
              /\ \A j \in 1..Len(Lines[call[k].o]) :
                   call[k].i <= j /\ j < i => Lines[call[k].o][j] \notin Shares
              /\ \/ /\ i > Len(Lines[call[k].o])
                    /\ UNCHANGED counter
                    /\ CallMoves(k, "begin", 1, call[k].got)
                 \/ /\ i <= Len(Lines[call[k].o]) /\ call[k].i <= i
                    /\ Lines[call[k].o][i] \in Shares
                    /\ Moves(Lines[call[k].o][i], Qty[call[k].o])
                    /\ CallMoves(k, "share", i + 1, call[k].got)
<1>1. call[k].pc = "share" /\ call[k].o \in Orders
  BY DEF Typed, CallPlaced, TakeShare
<1>2. PICK o \in Orders : o = call[k].o
  BY <1>1
<1>3. PICK g \in Nat : g = call[k].i /\ g >= 1
  BY TypedAre DEF Typed, CallPlaced
<1> DEFINE i == NextLine(o, g, Shares)
<1>4. /\ i \in 1..(Len(Lines[o]) + 1)
      /\ i <= Len(Lines[o]) => g <= i /\ Lines[o][i] \in Shares
      /\ \A j \in 1..Len(Lines[o]) : g <= j /\ j < i => Lines[o][j] \notin Shares
  BY <1>3, NextLineIs
<1>5. IF i > Len(Lines[o])
       THEN CallGoto(k, "begin", 1) /\ UNCHANGED counter
       ELSE Raise(Lines[o][i], Qty[o]) /\ CallGoto(k, "share", i + 1)
  BY <1>2, <1>3 DEF TakeShare
<1>6. UNCHANGED <<order, buy, run, work, crashes>>
  BY DEF TakeShare
<1> HIDE DEF i
<1>7. CASE i > Len(Lines[o])
  <2>1. CallMoves(k, "begin", 1, call[k].got)
    BY <1>5, <1>7, GotoDoes DEF CallPc
  <2> QED BY <1>1, <1>2, <1>3, <1>4, <1>5, <1>6, <1>7, <2>1
<1>8. CASE ~(i > Len(Lines[o]))
  <2>1. i \in 1..Len(Lines[o]) /\ i + 1 \in Nat /\ i <= Len(Lines[o])
    BY <1>4, <1>8, LinesAre
  <2>2. PICK c \in Counters : c = Lines[o][i]
    BY <2>1, LinesAre
  <2>3. Raise(c, Qty[o]) /\ CallGoto(k, "share", i + 1) /\ Qty[o] \in Nat
    BY <1>5, <1>8, <2>2, LinesAre
  <2>4. Moves(c, Qty[o])
    BY <2>3, RaiseDoes
  <2>5. CallMoves(k, "share", i + 1, call[k].got)
    BY <2>1, <2>3, GotoDoes DEF CallPc
  <2> QED BY <1>1, <1>2, <1>3, <1>4, <1>6, <2>1, <2>2, <2>4, <2>5
<1> QED BY <1>7, <1>8

LEMMA CallCrashDoes ==
  ASSUME Typed, NEW k \in Calls, CallCrash(k)
  PROVE  /\ UNCHANGED <<counter, order, buy, work>>
         /\ call[k].pc # "idle"
         /\ crashes' = crashes + 1 /\ crashes' \in 0..MaxCrashes
         /\ CallMoves(k, "crashed", 1, 0)
         /\ RunEnds(k)
<1>1. crashes' = crashes + 1 /\ crashes' \in 0..MaxCrashes
  BY CampaignAssumption DEF CallCrash, Dies, Typed, HandlersTyped
<1>2. CallMoves(k, "crashed", 1, 0)
  BY CallEndsDoes DEF CallCrash
<1>3. RunEnds(k)
  BY EndsDoes DEF CallCrash, Runners
<1> QED BY <1>1, <1>2, <1>3 DEF CallCrash

-----------------------------------------------------------------------------
(* A step of one call *)

LEMMA CallStaysPlaced ==
  ASSUME Typed, NEW k \in Calls, NEW pc, NEW i, NEW got, CallMoves(k, pc, i, got),
         i >= 1, call[k].o \in Orders /\ got <= Len(Lines[call[k].o]),
         call[k].late = 0 => got = 0 /\ i = 1,
         pc \in {"idle", "flip"} => call[k].late = 0,
         pc = "take" => i = 1,
         pc \in {"done", "crashed"} => got = 0 /\ i = 1
  PROVE  call' \in [Calls -> Call] /\ CallPlaced'
  BY DEF CallMoves, Typed, CallPlaced

LEMMA TypedCalling ==
  ASSUME Typed, call' \in [Calls -> Call], CallPlaced',
         counter' \in [Counters -> Counter], order' \in [Orders -> Order],
         UNCHANGED <<buy, work>>, crashes' \in 0..MaxCrashes,
         \/ UNCHANGED run
         \/ \E k \in Calls : RunEnds(k)
         \/ \E k \in Calls, o \in Orders, op \in Operation : RunStarts(k, o, op)
  PROVE  Typed'
<1>1. run' \in [Runners -> Run] /\ RunPlaced'
  <2>1. run \in [Runners -> Run] /\ RunPlaced /\ Calls \subseteq Runners
    BY DEF Typed, HandlersTyped, Runners
  <2>2. CASE UNCHANGED run
    BY <2>1, <2>2 DEF RunPlaced
  <2>3. CASE \E k \in Calls : RunEnds(k)
    BY <2>1, <2>3 DEF RunPlaced, RunEnds
  <2>4. CASE \E k \in Calls, o \in Orders, op \in Operation : RunStarts(k, o, op)
    BY <2>1, <2>4 DEF RunPlaced, RunStarts
  <2> QED BY <2>2, <2>3, <2>4
<1> QED BY <1>1 DEF Typed, HandlersTyped, BuyPlaced, WorkPlaced

LEMMA TypedCall ==
  ASSUME Typed, NEW k \in Calls, \/ Request(k) \/ CallStep(k) \/ CallCrash(k),
         \A o \in Orders : order[o].state = "released" => order[o].n >= 1,
         Reclaiming(k) => call[k].late >= 1
  PROVE  Typed'
<1>1. /\ counter \in [Counters -> Counter] /\ order \in [Orders -> Order]
      /\ crashes \in 0..MaxCrashes
      /\ call[k].i \in Nat /\ call[k].got \in Nat /\ call[k].late \in Nat
      /\ call[k].i >= 1
      /\ call[k].pc # "idle" => call[k].o \in Orders /\ call[k].got <= Len(Lines[call[k].o])
      /\ call[k].late = 0 => call[k].got = 0 /\ call[k].i = 1
      /\ call[k].pc \in {"idle", "flip"} => call[k].late = 0
      /\ call[k].pc = "take" => call[k].i = 1
      /\ \A o \in Orders : 0 <= Len(Lines[o])
  BY TypedAre, LinesAre DEF Typed, HandlersTyped, CallPlaced
<1>2. CASE Request(k)
  <2>1. CallPlaced' /\ call' \in [Calls -> Call]
    <3>1. \A o \in Orders : Len(Lines[o]) \in Nat
      BY LinesAre
    <3> QED BY <1>1, <1>2, <3>1, RequestDoes DEF Typed, CallPlaced
  <2> QED BY <1>1, <1>2, <2>1, RequestDoes, TypedCalling
<1>3. CASE CallBegin(k)
  <2>1. CallPlaced' /\ call' \in [Calls -> Call]
    BY <1>1, <1>3, CallBeginDoes, CallStaysPlaced
  <2>2. order' \in [Orders -> Order]
    BY <1>1, <1>3, CallBeginDoes DEF OrderBegins
  <2>3. \/ UNCHANGED run
        \/ \E o \in Orders, op \in Operation : RunStarts(k, o, op)
    BY <1>3, CallBeginDoes DEF OrderBegins
  <2> QED BY <1>1, <1>3, <2>1, <2>2, <2>3, CallBeginDoes, TypedCalling
<1>4. CASE CallReturns(k)
  <2>1. CallPlaced' /\ call' \in [Calls -> Call]
    BY <1>1, <1>4, CallReturnsDoes, CallStaysPlaced
  <2> QED BY <1>1, <1>4, <2>1, CallReturnsDoes, TypedCalling
<1>5. CASE Flip(k)
  <2>1. CallPlaced' /\ call' \in [Calls -> Call]
    <3>1. CASE CallMoves(k, "done", 1, 0)
      BY <1>1, <1>5, <3>1, FlipDoes, CallStaysPlaced
    <3>2. CASE ~CallMoves(k, "done", 1, 0)
      BY <1>1, <1>5, <3>2, FlipDoes DEF Typed, CallPlaced
    <3> QED BY <3>1, <3>2
  <2>2. order' \in [Orders -> Order]
    BY <1>1, <1>5, FlipDoes DEF StateBecomes
  <2> QED BY <1>1, <1>5, <2>1, <2>2, FlipDoes, TypedCalling
<1>6. CASE TakeBack(k)
  <2>1. CallPlaced' /\ call' \in [Calls -> Call]
    <3>1. /\ call[k].o \in Orders /\ call[k].late >= 1 /\ call[k].pc = "take"
          /\ call[k].got <= Len(Lines[call[k].o]) /\ Len(Lines[call[k].o]) \in Nat
      BY <1>1, <1>6, TakeBackDoes, LinesAre DEF Reclaiming
    <3>2. \E i \in 1..(Len(Lines[call[k].o]) + 1) :
            \/ CallMoves(k, "share", 1, call[k].got)
            \/ i <= Len(Lines[call[k].o]) /\ CallMoves(k, "take", call[k].i, i)
            \/ CallMoves(k, "undo", 1, call[k].got)
      BY <1>6, TakeBackDoes
    <3> QED BY <1>1, <3>1, <3>2, CallStaysPlaced
  <2>2. counter' \in [Counters -> Counter]
    BY <1>1, <1>6, TakeBackDoes DEF Moves
  <2>3. UNCHANGED <<order, buy, run, work, crashes>>
    BY <1>6 DEF TakeBack
  <2> QED BY <1>1, <2>1, <2>2, <2>3, TypedCalling
<1>7. CASE TakeBackUndo(k)
  <2>1. CallPlaced' /\ call' \in [Calls -> Call]
    <3>1. /\ call[k].o \in Orders /\ call[k].late >= 1
          /\ call[k].got <= Len(Lines[call[k].o]) /\ Len(Lines[call[k].o]) \in Nat
      BY <1>1, <1>7, TakeBackUndoDoes, LinesAre DEF Reclaiming
    <3>2. \E i \in 1..(Len(Lines[call[k].o]) + 1) :
            \/ CallMoves(k, "manual", 1, call[k].got)
            \/ CallMoves(k, "undo", i + 1, call[k].got)
      BY <1>7, TakeBackUndoDoes
    <3> QED BY <1>1, <3>1, <3>2, CallStaysPlaced
  <2>2. counter' \in [Counters -> Counter]
    BY <1>1, <1>7, TakeBackUndoDoes DEF Moves
  <2>3. UNCHANGED <<order, buy, run, work, crashes>>
    BY <1>7 DEF TakeBackUndo
  <2> QED BY <1>1, <2>1, <2>2, <2>3, TypedCalling
<1>8. CASE Manual(k)
  <2>1. CallPlaced' /\ call' \in [Calls -> Call]
    BY <1>1, <1>8, ManualDoes, CallStaysPlaced
  <2>2. order' \in [Orders -> Order]
    BY <1>8, ManualDoes DEF StateBecomes
  <2> QED BY <1>1, <1>8, <2>1, <2>2, ManualDoes, TypedCalling
<1>9. CASE TakeShare(k)
  <2>1. CallPlaced' /\ call' \in [Calls -> Call]
    <3>1. /\ call[k].o \in Orders /\ call[k].late >= 1
          /\ call[k].got <= Len(Lines[call[k].o]) /\ Len(Lines[call[k].o]) \in Nat
      BY <1>1, <1>9, TakeShareDoes, LinesAre DEF Reclaiming
    <3>2. \E i \in 1..(Len(Lines[call[k].o]) + 1) :
            \/ CallMoves(k, "begin", 1, call[k].got)
            \/ CallMoves(k, "share", i + 1, call[k].got)
      BY <1>9, TakeShareDoes
    <3> QED BY <1>1, <3>1, <3>2, CallStaysPlaced
  <2>2. counter' \in [Counters -> Counter]
    BY <1>1, <1>9, TakeShareDoes DEF Moves
  <2>3. UNCHANGED <<order, buy, run, work, crashes>>
    BY <1>9 DEF TakeShare
  <2> QED BY <1>1, <2>1, <2>2, <2>3, TypedCalling
<1>10. CASE CallCrash(k)
  <2>1. CallPlaced' /\ call' \in [Calls -> Call]
    BY <1>1, <1>10, CallCrashDoes, CallStaysPlaced
  <2> QED BY <1>1, <1>10, <2>1, CallCrashDoes, TypedCalling
<1> QED BY <1>2, <1>3, <1>4, <1>5, <1>6, <1>7, <1>8, <1>9, <1>10 DEF CallStep

-----------------------------------------------------------------------------
(* What the steps of a tick do *)

LEMMA NoTickIs ==
  /\ NoTick \in Tick
  /\ NoTick.pc = "idle" /\ NoTick.todo = {} /\ NoTick.asked = {}
  /\ NoTick.pending = {}
  /\ \A c \in Counters : NoTick.snap[c] = 0
  BY DEF NoTick, Tick

\* Only worker w moves, to pc with these rows left.
WorkMoves(w, pc, todo) ==
  /\ work' \in [Workers -> Tick]
  /\ \A v \in Workers \ {w} : work'[v] = work[v]
  /\ work'[w].pc = pc
  /\ work'[w].todo = todo

\* What worker w found of the counters stays.
KeepsSnap(w) ==
  /\ work'[w].snap = work[w].snap /\ work'[w].want = work[w].want
  /\ work'[w].pending = work[w].pending /\ work'[w].asked = work[w].asked

LEMMA GotoWorkDoes ==
  ASSUME Typed, NEW w \in Workers, NEW pc \in {"resume", "release", "sell"},
         NEW todo \in SUBSET Orders, WorkGoto(w, pc, todo)
  PROVE  WorkMoves(w, pc, todo) /\ KeepsSnap(w) /\ work'[w].ops = work[w].ops
  BY DEF WorkGoto, WorkMoves, KeepsSnap, Typed, HandlersTyped, Tick

LEMMA ResumeFindDoes ==
  ASSUME Typed, NEW w \in Workers, ResumeFind(w)
  PROVE  /\ UNCHANGED <<counter, order, buy, call, run, crashes>>
         /\ work[w].pc = "idle"
         /\ KeepsSnap(w)
         /\ \E rows \in SUBSET Pending :
              /\ WorkMoves(w, "resume", rows)
              /\ \A o \in rows : work'[w].ops[o] = order[o].op
<1>1. PICK rows \in SUBSET Pending :
        work' = [work EXCEPT ![w].pc = "resume", ![w].todo = rows,
                  ![w].ops = [o \in Orders |->
                    IF o \in rows THEN order[o].op ELSE None]]
  BY DEF ResumeFind
<1> DEFINE ops == [o \in Orders |-> IF o \in rows THEN order[o].op ELSE None]
<1>2. /\ ops \in [Orders -> Operation \cup {None}] /\ rows \subseteq Orders
      /\ \A o \in rows : ops[o] = order[o].op
  BY TypedAre DEF Pending
<1> HIDE DEF ops
<1>3. work' = [work EXCEPT ![w].pc = "resume", ![w].todo = rows, ![w].ops = ops]
  BY <1>1 DEF ops
<1>4. WorkMoves(w, "resume", rows) /\ KeepsSnap(w) /\ work'[w].ops = ops
  BY <1>2, <1>3 DEF WorkMoves, KeepsSnap, Typed, HandlersTyped, Tick
<1> QED BY <1>2, <1>4 DEF ResumeFind

LEMMA ResumeDoes ==
  ASSUME Typed, NEW w \in Workers, Resume(w)
  PROVE  /\ UNCHANGED <<counter, order, buy, call, crashes>>
         /\ work[w].pc = "resume"
         /\ run[w].pc = "idle"
         /\ KeepsSnap(w) /\ work'[w].ops = work[w].ops
         /\ \E o \in work[w].todo :
              /\ o \in Orders
              /\ work[w].ops[o] \in Operation
              /\ RunStarts(w, o, work[w].ops[o])
              /\ WorkMoves(w, "resume", work[w].todo \ {o})
<1>1. PICK o \in work[w].todo :
        Runs(w, o, work[w].ops[o]) /\ WorkGoto(w, "resume", work[w].todo \ {o})
  BY DEF Resume
<1>2. work[w].pc = "resume" /\ run[w].pc = "idle" /\ w \in Runners
  BY DEF Resume, Runners
<1>3. /\ o \in Orders /\ work[w].ops[o] \in Operation
      /\ work[w].todo \ {o} \in SUBSET Orders
  BY <1>2, TypedAre DEF Typed, WorkPlaced
<1>4. /\ WorkMoves(w, "resume", work[w].todo \ {o})
      /\ KeepsSnap(w) /\ work'[w].ops = work[w].ops
  BY <1>1, <1>3, GotoWorkDoes
<1>5. RunStarts(w, o, work[w].ops[o])
  BY <1>1, <1>2, <1>3, RunsDoes
<1> QED BY <1>1, <1>2, <1>3, <1>4, <1>5 DEF Resume

LEMMA OrphansFindDoes ==
  ASSUME Typed, NEW w \in Workers, OrphansFind(w)
  PROVE  /\ UNCHANGED <<counter, order, buy, call, run, crashes>>
         /\ work[w].pc \in {"resume", "release"}
         /\ run[w].pc = "idle"
         /\ \/ work'[w].asked = {} /\ \A c \in Counters : work'[w].snap[c] = 0
            \/ KeepsSnap(w)
         /\ \E pc \in {"release", "sell"}, todo \in SUBSET Orders : WorkMoves(w, pc, todo)
<1>1. HeldOrders("cancelled") \in SUBSET Orders /\ HeldOrders("paid") \in SUBSET Orders
  BY DEF HeldOrders
<1>2. CASE work' = [work EXCEPT ![w] =
             [NoTick EXCEPT !.pc = "release", !.todo = HeldOrders("cancelled")]]
  <2> DEFINE new == [NoTick EXCEPT !.pc = "release", !.todo = HeldOrders("cancelled")]
  <2>1. /\ new \in Tick /\ new.pc = "release" /\ new.todo = HeldOrders("cancelled")
        /\ new.asked = {} /\ \A c \in Counters : new.snap[c] = 0
    BY <1>1 DEF NoTick, Tick
  <2> HIDE DEF new
  <2>2. work' = [work EXCEPT ![w] = new]
    BY <1>2 DEF new
  <2>3. WorkMoves(w, "release", HeldOrders("cancelled")) /\ work'[w] = new
    BY <2>1, <2>2 DEF WorkMoves, Typed, HandlersTyped
  <2>4. /\ work[w].pc \in {"resume", "release"}
        /\ UNCHANGED <<counter, order, buy, call, run, crashes>>
        /\ run[w].pc = "idle"
    BY DEF OrphansFind
  <2>5. work'[w].asked = {} /\ \A c \in Counters : work'[w].snap[c] = 0
    BY <2>1, <2>3
  <2> QED BY <1>1, <2>3, <2>4, <2>5
<1>3. CASE work[w].pc = "release" /\ WorkGoto(w, "sell", HeldOrders("paid"))
  <2>1. WorkMoves(w, "sell", HeldOrders("paid")) /\ KeepsSnap(w)
    BY <1>1, <1>3, GotoWorkDoes
  <2> QED BY <1>1, <1>3, <2>1 DEF OrphansFind
<1> QED BY <1>2, <1>3 DEF OrphansFind

LEMMA OrphanSettleDoes ==
  ASSUME Typed, NEW w \in Workers, OrphanSettle(w)
  PROVE  /\ UNCHANGED <<counter, buy, call, crashes>>
         /\ work[w].pc \in {"release", "sell"}
         /\ run[w].pc = "idle"
         /\ KeepsSnap(w)
         /\ \E o \in Orders :
              /\ o \in work[w].todo
              /\ WorkMoves(w, work[w].pc, work[w].todo \ {o})
              /\ \/ /\ MayBegin(o)
                    /\ \E target \in Targets : OrderBegins(o, target)
                    /\ RunStarts(w, o, order'[o].op)
                 \/ UNCHANGED <<order, run>>
<1>1. PICK o \in work[w].todo :
       /\ WorkGoto(w, work[w].pc, work[w].todo \ {o})
       /\ IF MayBegin(o)
            THEN Begins(w, o, IF work[w].pc = "sell" THEN "sold" ELSE "released")
            ELSE UNCHANGED <<order, run>>
  BY DEF OrphanSettle
<1>2. work[w].pc \in {"release", "sell"} /\ run[w].pc = "idle" /\ w \in Runners
  BY DEF OrphanSettle, Runners
<1>3. o \in Orders /\ work[w].todo \ {o} \in SUBSET Orders
  BY TypedAre
<1>4. WorkMoves(w, work[w].pc, work[w].todo \ {o}) /\ KeepsSnap(w)
  BY <1>1, <1>2, <1>3, GotoWorkDoes
<1>5. CASE MayBegin(o)
  <2>1. PICK target \in Targets : Begins(w, o, target)
    BY <1>1, <1>5 DEF Targets
  <2>2. OrderBegins(o, target) /\ RunStarts(w, o, order'[o].op)
    BY <1>2, <1>3, <2>1, BeginsDoes
  <2> QED BY <1>2, <1>3, <1>4, <1>5, <2>2 DEF OrphanSettle
<1>6. CASE ~MayBegin(o)
  BY <1>1, <1>2, <1>3, <1>4, <1>6 DEF OrphanSettle
<1> QED BY <1>5, <1>6

LEMMA ReconcileFindDoes ==
  ASSUME Typed, NEW w \in Workers, ReconcileFind(w)
  PROVE  /\ UNCHANGED <<counter, order, buy, call, run, crashes>>
         /\ work[w].pc = "sell"
         /\ run[w].pc = "idle"
         /\ \/ WorkMoves(w, "idle", {}) /\ work'[w] = NoTick
            \/ /\ WorkMoves(w, "expect", {})
               /\ work'[w].asked = {}
               /\ \A c \in Counters : work'[w].snap[c] =
                    IF c \in QuietCounters THEN counter[c].held ELSE 0
<1>1. CASE QuietCounters = {}
  <2>1. work' = [work EXCEPT ![w] = NoTick]
    BY <1>1 DEF ReconcileFind
  <2>2. WorkMoves(w, "idle", {}) /\ work'[w] = NoTick
    BY <2>1, NoTickIs DEF WorkMoves, Typed, HandlersTyped
  <2> QED BY <2>2 DEF ReconcileFind
<1>2. CASE QuietCounters # {}
  <2> DEFINE snap == [c \in Counters |-> IF c \in QuietCounters THEN counter[c].held ELSE 0]
             new == [NoTick EXCEPT !.pc = "expect", !.snap = snap]
  <2>1. snap \in [Counters -> Nat]
    BY TypedAre
  <2>2. \A c \in Counters : snap[c] = IF c \in QuietCounters THEN counter[c].held ELSE 0
    OBVIOUS
  <2> HIDE DEF snap
  <2>3. /\ new \in Tick /\ new.pc = "expect" /\ new.todo = {} /\ new.asked = {}
        /\ new.snap = snap
    BY <2>1 DEF NoTick, Tick
  <2> HIDE DEF new
  <2>4. work' = [work EXCEPT ![w] = new]
    BY <1>2 DEF ReconcileFind, new, snap
  <2>5. WorkMoves(w, "expect", {}) /\ work'[w] = new
    BY <2>3, <2>4 DEF WorkMoves, Typed, HandlersTyped
  <2> QED BY <2>2, <2>3, <2>5 DEF ReconcileFind
<1> QED BY <1>1, <1>2

LEMMA SumQtyIs ==
  ASSUME NEW S \in SUBSET Orders
  PROVE  SumQty(S) \in Nat
<1>1. IsFiniteSet(S)
  BY CampaignAssumption, FS_Subset
<1>2. \A o \in S : Qty[o] \in Nat
  BY LinesAre
<1> QED BY <1>1, <1>2, SumNat DEF SumQty

\* A tick after the comparison: what it keeps of the counters is as it was.
Keeps(new, tick) ==
  /\ new \in Tick /\ SurplusOnly(new)
  /\ new.pc = tick.pc /\ new.todo = tick.todo /\ new.ops = tick.ops
  /\ new.asked = tick.asked
  /\ \A c \in Counters : new.snap[c] > 0 =>
       /\ new.snap[c] = tick.snap[c] /\ new.want[c] = tick.want[c]
       /\ c \notin new.pending => c \notin tick.pending

LEMMA ComparedDoes ==
  ASSUME NEW tick \in Tick
  PROVE  Compared(tick) = NoTick \/ Keeps(Compared(tick), tick)
<1> DEFINE extra == {c \in Counters \ tick.pending : tick.snap[c] > tick.want[c]}
<1>1. CASE tick.asked # {"held", "pending"}
  <2>1. Compared(tick) = tick
    BY <1>1 DEF Compared
  <2> QED BY <1>1, <2>1 DEF Keeps, SurplusOnly
<1>2. CASE tick.asked = {"held", "pending"} /\ extra = {}
  BY <1>2 DEF Compared
<1>3. CASE tick.asked = {"held", "pending"} /\ extra # {}
  <2> DEFINE snap == [c \in Counters |-> IF c \in extra THEN tick.snap[c] ELSE 0]
             want == [c \in Counters |-> IF c \in extra THEN tick.want[c] ELSE 0]
             new == [tick EXCEPT !.snap = snap, !.want = want, !.pending = {}]
  <2>1. Compared(tick) = new
    BY <1>3 DEF Compared
  <2>2. /\ tick.snap \in [Counters -> Nat] /\ tick.want \in [Counters -> Nat]
        /\ snap \in [Counters -> Nat] /\ want \in [Counters -> Nat]
    BY DEF Tick
  <2>3. \A c \in Counters : snap[c] > 0 =>
          /\ snap[c] = tick.snap[c] /\ want[c] = tick.want[c]
          /\ c \notin tick.pending /\ snap[c] > want[c]
    BY <2>2
  <2> HIDE DEF snap, want
  <2>4. /\ new \in Tick /\ new.pc = tick.pc /\ new.todo = tick.todo
        /\ new.ops = tick.ops /\ new.asked = tick.asked
        /\ new.snap = snap /\ new.want = want /\ new.pending = {}
    BY <2>2 DEF Tick
  <2> HIDE DEF new
  <2>5. Keeps(new, tick)
    BY <2>3, <2>4 DEF Keeps, SurplusOnly
  <2> QED BY <2>1, <2>5
<1> QED BY <1>1, <1>2, <1>3

\* The worker compares: the tick is over or goes on with what it keeps.
LEMMA ComparesDoes ==
  ASSUME Typed, NEW w \in Workers, NEW tick \in Tick, tick.pc = work[w].pc,
         tick.todo = work[w].todo, work' = [work EXCEPT ![w] = Compared(tick)]
  PROVE  \/ WorkMoves(w, "idle", {}) /\ work'[w] = NoTick
         \/ WorkMoves(w, work[w].pc, work[w].todo) /\ Keeps(work'[w], tick)
<1>1. work \in [Workers -> Tick]
  BY DEF Typed, HandlersTyped
<1>2. CASE Compared(tick) = NoTick
  BY <1>1, <1>2, NoTickIs DEF WorkMoves
<1>3. CASE Keeps(Compared(tick), tick)
  <2>1. work'[w] = Compared(tick) /\ \A v \in Workers \ {w} : work'[v] = work[v]
    BY <1>1
  <2>2. work' \in [Workers -> Tick]
    BY <1>1, <1>3 DEF Keeps
  <2> QED BY <1>3, <2>1, <2>2 DEF WorkMoves, Keeps
<1> QED BY <1>2, <1>3, ComparedDoes

LEMMA ReconcileAskDoes ==
  ASSUME Typed, NEW w \in Workers, ReconcileAsk(w)
  PROVE  /\ UNCHANGED <<counter, order, buy, call, run, crashes>>
         /\ work[w].pc = "expect"
         /\ \/ WorkMoves(w, "idle", {}) /\ work'[w] = NoTick
            \/ /\ WorkMoves(w, "expect", work[w].todo)
               /\ SurplusOnly(work'[w])
               /\ \A c \in Counters : work'[w].snap[c] > 0 => work[w].snap[c] > 0
               /\ \/ /\ "held" \notin work[w].asked
                     /\ work'[w].asked = work[w].asked \cup {"held"}
                     /\ \A c \in Counters : work'[w].snap[c] > 0 =>
                          /\ work'[w].want[c] = SumQty(Holding(c, {"held"}))
                          /\ c \notin work'[w].pending => c \notin work[w].pending
                  \/ /\ "pending" \notin work[w].asked
                     /\ work'[w].asked = work[w].asked \cup {"pending"}
                     /\ \A c \in Counters : work'[w].snap[c] > 0 =>
                          /\ work'[w].want[c] = work[w].want[c]
                          /\ c \notin work'[w].pending => c \notin CountersOf(Pending)
<1> DEFINE found == {c \in Counters : work[w].snap[c] > 0}
<1>1. work[w].pc = "expect" /\ work \in [Workers -> Tick] /\ work[w] \in Tick
  BY DEF ReconcileAsk, Typed, HandlersTyped
<1>2. CASE /\ "held" \notin work[w].asked
           /\ work' = [work EXCEPT ![w] = Compared([work[w] EXCEPT
                !.asked = @ \cup {"held"},
                !.want = [c \in Counters |->
                  IF c \in found THEN SumQty(Holding(c, {"held"})) ELSE 0]])]
  <2> DEFINE want == [c \in Counters |->
               IF c \in found THEN SumQty(Holding(c, {"held"})) ELSE 0]
             tick == [work[w] EXCEPT !.asked = @ \cup {"held"}, !.want = want]
  <2>1. want \in [Counters -> Nat]
    <3>1. \A c \in Counters : SumQty(Holding(c, {"held"})) \in Nat
      BY SumQtyIs DEF Holding
    <3> QED BY <3>1
  <2>2. \A c \in Counters : work[w].snap[c] > 0 => want[c] = SumQty(Holding(c, {"held"}))
    OBVIOUS
  <2>3. work' = [work EXCEPT ![w] = Compared(tick)]
    BY <1>1, <1>2
  <2> HIDE DEF want
  <2>4. /\ tick \in Tick /\ tick.pc = work[w].pc /\ tick.todo = work[w].todo
        /\ tick.asked = work[w].asked \cup {"held"} /\ tick.want = want
        /\ tick.snap = work[w].snap /\ tick.pending = work[w].pending
    BY <1>1, <2>1 DEF Tick
  <2> HIDE DEF tick
  <2>5. \/ WorkMoves(w, "idle", {}) /\ work'[w] = NoTick
        \/ WorkMoves(w, work[w].pc, work[w].todo) /\ Keeps(work'[w], tick)
    BY <2>3, <2>4, ComparesDoes
  <2> QED BY <1>1, <1>2, <2>2, <2>4, <2>5 DEF ReconcileAsk, Keeps
<1>3. CASE /\ "pending" \notin work[w].asked
           /\ work' = [work EXCEPT ![w] = Compared([work[w] EXCEPT
                !.asked = @ \cup {"pending"},
                !.pending = CountersOf(Pending) \cap found])]
  <2> DEFINE pending == CountersOf(Pending) \cap found
             tick == [work[w] EXCEPT !.asked = @ \cup {"pending"}, !.pending = pending]
  <2>1. pending \in SUBSET Counters
    OBVIOUS
  <2>2. \A c \in Counters : work[w].snap[c] > 0 /\ c \notin pending => c \notin CountersOf(Pending)
    OBVIOUS
  <2>3. work' = [work EXCEPT ![w] = Compared(tick)]
    BY <1>1, <1>3
  <2> HIDE DEF pending
  <2>4. /\ tick \in Tick /\ tick.pc = work[w].pc /\ tick.todo = work[w].todo
        /\ tick.asked = work[w].asked \cup {"pending"} /\ tick.pending = pending
        /\ tick.snap = work[w].snap /\ tick.want = work[w].want
    BY <1>1, <2>1 DEF Tick
  <2> HIDE DEF tick
  <2>5. \/ WorkMoves(w, "idle", {}) /\ work'[w] = NoTick
        \/ WorkMoves(w, work[w].pc, work[w].todo) /\ Keeps(work'[w], tick)
    BY <2>3, <2>4, ComparesDoes
  <2> QED BY <1>1, <1>3, <2>2, <2>4, <2>5 DEF ReconcileAsk, Keeps
<1> QED BY <1>2, <1>3 DEF ReconcileAsk

LEMMA ReconcileFixDoes ==
  ASSUME Typed, NEW w \in Workers, ReconcileFix(w)
  PROVE  /\ UNCHANGED <<order, buy, call, run, crashes>>
         /\ work[w].asked = {"held", "pending"} /\ work[w].pending = {}
         /\ \E c \in Counters :
              /\ work[w].snap[c] > work[w].want[c]
              /\ work'[w].snap[c] = 0
              /\ \/ WorkMoves(w, "idle", {}) /\ work'[w] = NoTick
                 \/ /\ WorkMoves(w, work[w].pc, work[w].todo)
                    /\ SurplusOnly(work'[w])
                    /\ work'[w].asked = work[w].asked
                    /\ \A d \in Counters : work'[w].snap[d] > 0 =>
                         /\ work[w].snap[d] > 0 /\ work'[w].want[d] = work[w].want[d]
                         /\ d \notin work'[w].pending => d \notin work[w].pending
              /\ \/ UNCHANGED counter
                 \/ /\ counter[c].held = work[w].snap[c]
                    /\ Moves(c, work[w].want[c] - work[w].snap[c])
<1>1. work \in [Workers -> Tick] /\ counter \in [Counters -> Counter] /\ work[w] \in Tick
  BY DEF Typed, HandlersTyped
<1>2. PICK c \in Counters :
            /\ work[w].snap[c] > 0
            /\ counter' = [counter EXCEPT ![c].held =
                 IF @ = work[w].snap[c] THEN work[w].want[c] ELSE @]
            /\ work' = [work EXCEPT ![w] = Compared([work[w] EXCEPT !.snap[c] = 0, !.want[c] = 0])]
  BY DEF ReconcileFix
<1>3. /\ work[w].asked = {"held", "pending"} /\ work[w].pending = {}
      /\ work[w].snap[c] > work[w].want[c]
  BY <1>2 DEF ReconcileFix, Typed, WorkPlaced, SurplusOnly
<1>4. work[w].snap[c] \in Nat /\ work[w].want[c] \in Nat /\ counter[c].held \in Nat
  BY TypedAre
<1>5. /\ work'[w].snap[c] = 0
      /\ \/ WorkMoves(w, "idle", {}) /\ work'[w] = NoTick
         \/ /\ WorkMoves(w, work[w].pc, work[w].todo)
            /\ SurplusOnly(work'[w])
            /\ work'[w].asked = work[w].asked
            /\ \A d \in Counters : work'[w].snap[d] > 0 =>
                 /\ work[w].snap[d] > 0 /\ work'[w].want[d] = work[w].want[d]
                 /\ d \notin work'[w].pending => d \notin work[w].pending
  <2> DEFINE snap == [work[w].snap EXCEPT ![c] = 0]
             want == [work[w].want EXCEPT ![c] = 0]
             tick == [work[w] EXCEPT !.snap = snap, !.want = want]
  <2>1. /\ snap \in [Counters -> Nat] /\ want \in [Counters -> Nat]
        /\ snap[c] = 0
        /\ \A d \in Counters : d # c => snap[d] = work[w].snap[d] /\ want[d] = work[w].want[d]
    BY <1>1 DEF Tick
  <2>2. work' = [work EXCEPT ![w] = Compared(tick)]
    BY <1>1, <1>2
  <2> HIDE DEF snap, want
  <2>3. /\ tick \in Tick /\ tick.pc = work[w].pc /\ tick.todo = work[w].todo
        /\ tick.asked = work[w].asked /\ tick.pending = work[w].pending
        /\ tick.snap = snap /\ tick.want = want
    BY <1>1, <2>1 DEF Tick
  <2> HIDE DEF tick
  <2>4. \/ WorkMoves(w, "idle", {}) /\ work'[w] = NoTick
        \/ WorkMoves(w, work[w].pc, work[w].todo) /\ Keeps(work'[w], tick)
    BY <2>2, <2>3, ComparesDoes
  <2>5. CASE work'[w] = NoTick
    BY <2>4, <2>5, NoTickIs DEF WorkMoves
  <2>6. CASE WorkMoves(w, work[w].pc, work[w].todo) /\ Keeps(work'[w], tick)
    <3>1. work'[w].snap[c] \in Nat /\ ~(work'[w].snap[c] > 0)
      BY <2>1, <2>3, <2>6 DEF Keeps, Tick
    <3>2. \A d \in Counters : work'[w].snap[d] > 0 =>
            /\ work[w].snap[d] > 0 /\ work'[w].want[d] = work[w].want[d]
            /\ d \notin work'[w].pending => d \notin work[w].pending
      BY <2>1, <2>3, <2>6, <3>1 DEF Keeps
    <3> QED BY <2>3, <2>6, <3>1, <3>2 DEF Keeps
  <2> QED BY <2>4, <2>5, <2>6
<1>6. \/ UNCHANGED counter
      \/ /\ counter[c].held = work[w].snap[c]
         /\ Moves(c, work[w].want[c] - work[w].snap[c])
  <2>1. CASE counter[c].held = work[w].snap[c]
    <3>1. counter' = [counter EXCEPT ![c].held = work[w].want[c]]
      BY <1>2, <2>1
    <3>2. work[w].want[c] = counter[c].held + (work[w].want[c] - work[w].snap[c])
      BY <1>4, <2>1
    <3>3. PICK h \in Nat, n \in Int : h = work[w].want[c] /\ n = work[w].want[c] - work[w].snap[c]
      BY <1>4
    <3>4. Moves(c, n)
      BY <1>1, <3>1, <3>2, <3>3 DEF Moves, Counter
    <3> QED BY <2>1, <3>3, <3>4
  <2>2. CASE counter[c].held # work[w].snap[c]
    <3>1. counter' = [counter EXCEPT ![c].held = @]
      BY <1>2, <2>2, Zenon
    <3> QED BY <1>1, <3>1 DEF Counter
  <2> QED BY <2>1, <2>2
<1> QED BY <1>3, <1>5, <1>6 DEF ReconcileFix

LEMMA WorkerCrashDoes ==
  ASSUME Typed, NEW w \in Workers, WorkerCrash(w)
  PROVE  /\ UNCHANGED <<counter, order, buy, call>>
         /\ crashes' = crashes + 1 /\ crashes' \in 0..MaxCrashes
         /\ WorkMoves(w, "idle", {}) /\ work'[w] = NoTick
         /\ RunEnds(w)
<1>1. crashes' = crashes + 1 /\ crashes' \in 0..MaxCrashes
  BY CampaignAssumption DEF WorkerCrash, Dies, Typed, HandlersTyped
<1>2. WorkMoves(w, "idle", {}) /\ work'[w] = NoTick
  BY NoTickIs DEF WorkerCrash, WorkMoves, Typed, HandlersTyped
<1>3. RunEnds(w)
  BY EndsDoes DEF WorkerCrash, Runners
<1> QED BY <1>1, <1>2, <1>3 DEF WorkerCrash

-----------------------------------------------------------------------------
(* A step of one tick *)

LEMMA TypedTicking ==
  ASSUME Typed, NEW w \in Workers, NEW pc, NEW todo, WorkMoves(w, pc, todo),
         pc = "resume" => \A o \in todo : work'[w].ops[o] \in Operation,
         SurplusOnly(work[w])',
         counter' \in [Counters -> Counter], order' \in [Orders -> Order],
         UNCHANGED <<buy, call>>, crashes' \in 0..MaxCrashes,
         \/ UNCHANGED run
         \/ RunEnds(w)
         \/ \E o \in Orders, op \in Operation : RunStarts(w, o, op)
  PROVE  Typed'
<1>1. run' \in [Runners -> Run] /\ RunPlaced'
  <2>1. run \in [Runners -> Run] /\ RunPlaced /\ Workers \subseteq Runners
    BY DEF Typed, HandlersTyped, Runners
  <2>2. CASE UNCHANGED run
    BY <2>1, <2>2 DEF RunPlaced
  <2>3. CASE RunEnds(w)
    BY <2>1, <2>3 DEF RunPlaced, RunEnds
  <2>4. CASE \E o \in Orders, op \in Operation : RunStarts(w, o, op)
    BY <2>1, <2>4 DEF RunPlaced, RunStarts
  <2> QED BY <2>2, <2>3, <2>4
<1>2. work' \in [Workers -> Tick] /\ WorkPlaced'
  BY DEF Typed, WorkPlaced, WorkMoves
<1> QED BY <1>1, <1>2 DEF Typed, HandlersTyped, BuyPlaced, CallPlaced

LEMMA TypedWork ==
  ASSUME Typed, NEW w \in Workers, WorkStep(w) \/ WorkerCrash(w),
         \A v \in Workers : work[v].asked = {"held", "pending"} => work[v].pc = "expect"
  PROVE  Typed'
<1>1. /\ counter \in [Counters -> Counter] /\ order \in [Orders -> Order]
      /\ crashes \in 0..MaxCrashes
      /\ work[w].pc = "resume" => \A o \in work[w].todo : work[w].ops[o] \in Operation
      /\ KeepsSnap(w) => SurplusOnly(work[w])'
      /\ work'[w].asked = {} => SurplusOnly(work[w])'
  BY DEF Typed, HandlersTyped, WorkPlaced, SurplusOnly, KeepsSnap
<1>2. CASE ResumeFind(w)
  <2>1. PICK rows \in SUBSET Pending :
              /\ WorkMoves(w, "resume", rows)
              /\ \A o \in rows : work'[w].ops[o] = order[o].op
    BY <1>2, ResumeFindDoes
  <2>2. \A o \in rows : work'[w].ops[o] \in Operation
    BY <2>1, TypedAre DEF Pending
  <2> QED BY <1>1, <1>2, <2>1, <2>2, ResumeFindDoes, TypedTicking
<1>3. CASE Resume(w)
  <2>1. PICK o \in work[w].todo :
              /\ o \in Orders
              /\ work[w].ops[o] \in Operation
              /\ RunStarts(w, o, work[w].ops[o])
              /\ WorkMoves(w, "resume", work[w].todo \ {o})
    BY <1>3, ResumeDoes
  <2>2. work'[w].ops = work[w].ops /\ work[w].pc = "resume"
    BY <1>3, ResumeDoes
  <2>3. \A q \in work[w].todo \ {o} : work'[w].ops[q] \in Operation
    BY <1>1, <2>2
  <2>4. UNCHANGED <<counter, order, buy, call, crashes>> /\ SurplusOnly(work[w])'
    BY <1>1, <1>3, ResumeDoes
  <2> QED BY <1>1, <2>1, <2>3, <2>4, TypedTicking
<1>4. CASE OrphansFind(w)
  <2>1. PICK pc \in {"release", "sell"}, todo \in SUBSET Orders : WorkMoves(w, pc, todo)
    BY <1>4, OrphansFindDoes
  <2>2. UNCHANGED <<counter, order, buy, call, run, crashes>> /\ SurplusOnly(work[w])'
    BY <1>1, <1>4, OrphansFindDoes, NoTickIs
  <2> QED BY <1>1, <2>1, <2>2, TypedTicking
<1>5. CASE OrphanSettle(w)
  <2>1. /\ work[w].pc # "resume" /\ UNCHANGED <<counter, buy, call, crashes>>
        /\ SurplusOnly(work[w])'
    BY <1>1, <1>5, OrphanSettleDoes
  <2>2. PICK o \in Orders :
              /\ WorkMoves(w, work[w].pc, work[w].todo \ {o})
              /\ \/ /\ \E target \in Targets : OrderBegins(o, target)
                    /\ RunStarts(w, o, order'[o].op)
                 \/ UNCHANGED <<order, run>>
    BY <1>5, OrphanSettleDoes
  <2>3. order' \in [Orders -> Order]
    BY <1>1, <2>2 DEF OrderBegins
  <2>4. \/ UNCHANGED run
        \/ \E q \in Orders, op \in Operation : RunStarts(w, q, op)
    BY <2>2 DEF OrderBegins
  <2> QED BY <1>1, <2>1, <2>2, <2>3, <2>4, TypedTicking
<1>6. CASE ReconcileFind(w)
  <2>1. SurplusOnly(work[w])' /\ \E pc : WorkMoves(w, pc, {}) /\ pc # "resume"
    BY <1>1, <1>6, ReconcileFindDoes, NoTickIs
  <2> QED BY <1>1, <1>6, <2>1, ReconcileFindDoes, TypedTicking
<1>7. CASE ReconcileAsk(w)
  <2>1. /\ WorkMoves(w, "expect", work[w].todo) \/ WorkMoves(w, "idle", {})
        /\ SurplusOnly(work[w])'
    BY <1>1, <1>7, ReconcileAskDoes, NoTickIs
  <2>2. UNCHANGED <<counter, order, buy, call, run, crashes>>
    BY <1>7 DEF ReconcileAsk
  <2> QED BY <1>1, <2>1, <2>2, TypedTicking
<1>8. CASE ReconcileFix(w)
  <2>1. counter' \in [Counters -> Counter]
    BY <1>1, <1>8, ReconcileFixDoes DEF Moves
  <2>2. SurplusOnly(work[w])' /\ \E pc, todo : WorkMoves(w, pc, todo) /\ pc # "resume"
    BY <1>1, <1>8, ReconcileFixDoes, NoTickIs
  <2>3. UNCHANGED <<order, buy, call, run, crashes>>
    BY <1>8 DEF ReconcileFix
  <2> QED BY <1>1, <2>1, <2>2, <2>3, TypedTicking
<1>9. CASE WorkerCrash(w)
  <2>1. SurplusOnly(work[w])'
    BY <1>1, <1>9, WorkerCrashDoes, NoTickIs
  <2> QED BY <1>1, <1>9, <2>1, WorkerCrashDoes, TypedTicking
<1> QED BY <1>2, <1>3, <1>4, <1>5, <1>6, <1>7, <1>8, <1>9 DEF WorkStep

-----------------------------------------------------------------------------
(* Where the handlers of an order are: the second layer *)

LEMMA TornStays ==
  ASSUME History
  PROVE  torn \subseteq torn' /\ wrong \subseteq wrong'
  BY DEF History

\* An order is saved as the last step of its checkout; its operations are
\* counted, and only an order that was sold has one that sells it (one that
\* is torn may be held again, or released, while it is being sold).
OrderKept(o) ==
  /\ order[o].state # "none" => buy[o].pc = "over"
  /\ order[o].state = "none" => order[o].n = 0
  /\ order[o].state \in {"sold", "released"} => order[o].n >= 1
  /\ order[o].op # None =>
       /\ order[o].op.n = order[o].n
       /\ order[o].n >= 1
       /\ o \notin torn => (order[o].op.target = "sold" <=> order[o].state = "sold")

OrdersKept == \A o \in Orders : OrderKept(o)

Reclaims(k, o) == Reclaiming(k) /\ call[k].o = o

\* A late payment that takes uses back has the order for itself, and held,
\* unless it is torn.
CallsKept == \A k \in Calls :
  /\ call[k].pc # "idle" => order[call[k].o].state # "none"
  /\ Reclaiming(k) =>
       /\ call[k].late >= 1
       /\ order[call[k].o].n >= 1
       /\ call[k].o \notin torn => /\ order[call[k].o].state = "held"
                                 /\ \A j \in Calls : Reclaims(j, call[k].o) => j = k

RunsOn(w, o) == run[w].pc # "idle" /\ run[w].o = o

\* A runner applies the operation that its order has, and alone.
RunsKept == \A w \in Runners : run[w].pc # "idle" =>
  /\ order[run[w].o].op # None
  /\ order[run[w].o].op.n = run[w].op.n
  /\ order[run[w].o].op.target = run[w].op.target
  /\ order[run[w].o].op.phase = IF run[w].pc = "apply" THEN "apply" ELSE "cleanup"
  /\ \A v \in Runners : RunsOn(v, run[w].o) => v = w

\* One worker ticks.  The rows it is to resume are as it found them, and no
\* one else is at work on them.
TicksKept == \A w \in Workers :
  /\ work[w].pc # "idle" => \A v \in Workers : work[v].pc # "idle" => v = w
  /\ work[w].pc = "resume" => \A o \in work[w].todo :
       /\ order[o].op = work[w].ops[o]
       /\ \A v \in Runners : ~RunsOn(v, o)
  /\ work[w].pc # "expect" =>
       work[w].asked = {} /\ \A c \in Counters : work[w].snap[c] = 0

\* A marker is of an operation that was begun.
MarksKept == \A c \in Counters : \A m \in counter[c].ops : m[2] <= order[m[1]].n

Kept == OrdersKept /\ CallsKept /\ RunsKept /\ TicksKept /\ MarksKept

LEMMA KeptInit == Init => Kept
  BY DEF Init, Kept, OrdersKept, OrderKept, CallsKept, RunsKept, TicksKept, MarksKept,
         Reclaims, Reclaiming, RunsOn, NoRun, NoTick

\* The parts about runs, ticks and markers when only other things change.
LEMMA KeptAside ==
  ASSUME Typed, Kept, UNCHANGED run,
         \A o \in Orders : order'[o].op = order[o].op /\ order'[o].n = order[o].n,
         \A c \in Counters : counter'[c].ops = counter[c].ops
  PROVE  RunsKept' /\ MarksKept' /\ (UNCHANGED work => TicksKept')
<1>1. \A w \in Runners : run[w].pc # "idle" => run[w].o \in Orders
  BY DEF Typed, RunPlaced
<1>2. RunsKept'
  BY <1>1 DEF Kept, RunsKept, RunsOn
<1>3. MarksKept'
  <2>1. \A c \in Counters : \A m \in counter[c].ops : m[1] \in Orders
    BY TypedAre DEF Markers
  <2> QED BY <2>1 DEF Kept, MarksKept
<1>4. ASSUME UNCHANGED work PROVE TicksKept'
  <2>1. \A w \in Workers : work[w].todo \subseteq Orders
    BY TypedAre
  <2> QED BY <1>4, <2>1 DEF Kept, TicksKept, RunsOn
<1> QED BY <1>2, <1>3, <1>4

\* ... and the part about orders.
LEMMA OrdersAside ==
  ASSUME Kept, UNCHANGED buy, torn \subseteq torn',
         \A o \in Orders : /\ order'[o].op = order[o].op /\ order'[o].n = order[o].n
                           /\ order'[o].state = order[o].state
  PROVE  OrdersKept'
  BY DEF Kept, OrdersKept, OrderKept

LEMMA CallsAside ==
  ASSUME Typed, Kept, UNCHANGED call, torn \subseteq torn',
         \A o \in Orders : order'[o].state = order[o].state /\ order'[o].n = order[o].n
  PROVE  CallsKept'
<1>1. \A k \in Calls : call[k].pc # "idle" => call[k].o \in Orders
  BY DEF Typed, CallPlaced
<1> QED BY <1>1 DEF Kept, CallsKept, Reclaims, Reclaiming

-----------------------------------------------------------------------------

LEMMA KeptCheckout ==
  ASSUME Typed, Kept, torn \subseteq torn', NEW o \in Orders, BuyNextStep(o) \/ BuyCrash(o)
  PROVE  Kept'
<1>1. /\ UNCHANGED <<call, run, work>>
      /\ \A c \in Counters : counter'[c].ops = counter[c].ops
      /\ \A x \in Orders \ {o} : buy'[x] = buy[x]
      /\ \/ UNCHANGED order /\ buy[o].pc # "over"
         \/ /\ buy[o].pc = "taken"
            /\ buy'[o].pc = "over"
            /\ \A x \in Orders \ {o} : order'[x] = order[x]
            /\ order'[o].state = "held"
            /\ order'[o].op = order[o].op /\ order'[o].n = order[o].n
  <2>1. CASE Start(o)
    BY <2>1, StartDoes DEF BuyMoves
  <2>2. CASE Ensure(o)
    BY <2>2, EnsureDoes DEF BuyMoves
  <2>3. CASE Take(o)
    <3>1. \A c \in Counters : counter'[c].ops = counter[c].ops
      BY <2>3, TakeDoes DEF Moves
    <3>2. buy[o].pc = "take" /\ UNCHANGED <<order, call, run, work, crashes>>
      BY <2>3 DEF Take
    <3>3. \A x \in Orders \ {o} : buy'[x] = buy[x]
      BY <2>3, TakeDoes DEF BuyMoves
    <3> QED BY <3>1, <3>2, <3>3
  <2>4. CASE Undo(o)
    <3>1. \A c \in Counters : counter'[c].ops = counter[c].ops
      BY <2>4, UndoDoes DEF Moves
    <3>2. buy[o].pc = "undo" /\ UNCHANGED <<order, call, run, work, crashes>>
      BY <2>4 DEF Undo
    <3>3. \A x \in Orders \ {o} : buy'[x] = buy[x]
      BY <2>4, UndoDoes DEF BuyMoves
    <3> QED BY <3>1, <3>2, <3>3
  <2>5. CASE Save(o)
    BY <2>5, SaveDoes DEF BuyMoves
  <2>6. CASE SaveFails(o)
    BY <2>6, SaveFailsDoes DEF BuyMoves
  <2>7. CASE BuyCrash(o)
    BY <2>7, BuyCrashDoes DEF BuyMoves, Buying
  <2> QED BY <2>1, <2>2, <2>3, <2>4, <2>5, <2>6, <2>7 DEF BuyNextStep
<1>2. OrderKept(o) /\ \A x \in Orders : OrderKept(x)
  BY DEF Kept, OrdersKept
<1>3. \A x \in Orders : order'[x].op = order[x].op /\ order'[x].n = order[x].n
  BY <1>1
<1>4. RunsKept' /\ MarksKept' /\ TicksKept'
  BY <1>1, <1>3, KeptAside
<1>5. OrdersKept'
  <2>1. OrderKept(o)'
    BY <1>1, <1>2, TypedAre DEF OrderKept
  <2>2. \A x \in Orders \ {o} : OrderKept(x)'
    BY <1>1, <1>2 DEF OrderKept
  <2> QED BY <2>1, <2>2 DEF OrdersKept
<1>6. CallsKept'
  <2>1. CASE UNCHANGED order
    BY <1>1, <2>1, CallsAside
  <2>2. CASE buy[o].pc = "taken" /\ \A x \in Orders \ {o} : order'[x] = order[x]
    <3>1. order[o].state = "none"
      BY <1>2, <2>2 DEF OrderKept
    <3>2. \A k \in Calls : call[k].pc # "idle" => call[k].o \in Orders \ {o}
      BY <3>1 DEF Typed, CallPlaced, Kept, CallsKept
    <3> QED BY <1>1, <2>2, <3>2 DEF Kept, CallsKept, Reclaims, Reclaiming
  <2> QED BY <1>1, <2>1, <2>2
<1> QED BY <1>4, <1>5, <1>6 DEF Kept

LEMMA KeptRun ==
  ASSUME Typed, Kept, torn \subseteq torn', NEW w \in Runners, RunNext(w)
  PROVE  Kept'
<1>1. /\ run[w].pc # "idle" /\ run[w].o \in Orders
      /\ UNCHANGED <<buy, call, work>>
  BY DEF RunNext, Apply, ToCleanup, Pull, Unset, Typed, RunPlaced
<1>2. PICK o \in Orders : o = run[w].o
  BY <1>1
<1>3. /\ order[o].op # None /\ order[o].op \in Operation
      /\ order[o].op.n = run[w].op.n /\ Mine(w)
      /\ order[o].op.target = run[w].op.target
      /\ order[o].op.phase = IF run[w].pc = "apply" THEN "apply" ELSE "cleanup"
      /\ \A v \in Runners : RunsOn(v, o) => v = w
  BY <1>1, <1>2, TypedAre DEF Kept, RunsKept, Mine
<1>4. \A c \in Counters : \A m \in counter[c].ops : m[1] \in Orders
  BY TypedAre DEF Markers
<1>5. /\ \A v \in Runners : run[v].pc # "idle" => run[v].o \in Orders
      /\ \A v \in Workers : work[v].todo \subseteq Orders
      /\ \A v \in Workers : work[v].pc = "resume" => o \notin work[v].todo
  BY <1>1, <1>2, TypedAre DEF Typed, RunPlaced, Kept, TicksKept, RunsOn
<1>6. CASE Apply(w)
  <2>1. UNCHANGED order /\ RunMoves(w, "apply", run[w].i + 1) /\ run[w].pc = "apply"
    BY <1>6, ApplyDoes
  <2>2. RunsKept'
    BY <1>1, <1>2, <1>3, <2>1 DEF Kept, RunsKept, RunsOn, RunMoves
  <2>3. TicksKept'
    BY <1>1, <2>1 DEF Kept, TicksKept, RunsOn, RunMoves
  <2>4. MarksKept'
    <3>1. \A c \in Counters : counter'[c].ops \subseteq counter[c].ops \cup {Marker(w)}
      BY <1>6, ApplyDoes DEF Applies
    <3>2. Marker(w)[1] = o /\ Marker(w)[2] = order[o].n
      BY <1>2, <1>3 DEF Marker, Kept, OrdersKept, OrderKept
    <3>3. order[o].n <= order[o].n
      BY TypedAre
    <3> QED BY <2>1, <3>1, <3>2, <3>3 DEF Kept, MarksKept
  <2> QED BY <1>1, <2>1, <2>2, <2>3, <2>4, OrdersAside, CallsAside DEF Kept
<1>7. CASE ToCleanup(w)
  <2> DEFINE op == [order[o].op EXCEPT !.phase = "cleanup"]
  <2>1. /\ OpBecomes(o, op) /\ UNCHANGED counter
        /\ RunMoves(w, "pull", 1) /\ run[w].pc = "apply"
    BY <1>2, <1>3, <1>7, ToCleanupDoes
  <2>2. /\ op \in Operation /\ op # None /\ op.n = order[o].op.n
        /\ op.target = order[o].op.target /\ op.phase = "cleanup"
    BY <1>3, OperationIs
  <2> HIDE DEF op
  <2>3. RunsKept'
    BY <1>1, <1>2, <1>3, <1>5, <2>1, <2>2
    DEF Kept, RunsKept, RunsOn, RunMoves, OpBecomes
  <2>4. TicksKept'
    BY <1>1, <1>5, <2>1 DEF Kept, TicksKept, RunsOn, RunMoves, OpBecomes
  <2>5. MarksKept'
    <3>1. \A x \in Orders : order'[x].n = order[x].n
      BY <2>1 DEF OpBecomes
    <3> QED BY <1>4, <2>1, <3>1 DEF Kept, MarksKept
  <2>6. OrdersKept'
    <3>1. \A x \in Orders \ {o} : OrderKept(x)'
      BY <1>1, <2>1 DEF Kept, OrdersKept, OrderKept, OpBecomes
    <3>2. OrderKept(o)'
      BY <1>1, <1>3, <2>1, <2>2 DEF Kept, OrdersKept, OrderKept, OpBecomes
    <3> QED BY <3>1, <3>2 DEF OrdersKept
  <2>7. CallsKept'
    <3>1. \A x \in Orders : order'[x].state = order[x].state /\ order'[x].n = order[x].n
      BY <2>1 DEF OpBecomes
    <3> QED BY <1>1, <3>1, CallsAside
  <2> QED BY <2>3, <2>4, <2>5, <2>6, <2>7 DEF Kept
<1>8. CASE Pull(w)
  <2>1. /\ UNCHANGED order /\ RunMoves(w, "pull", run[w].i + 1) /\ run[w].pc = "pull"
        /\ Pulls(w)
    BY <1>8, PullDoes
  <2>2. RunsKept'
    BY <1>1, <1>2, <1>3, <2>1 DEF Kept, RunsKept, RunsOn, RunMoves
  <2>3. TicksKept'
    BY <1>1, <2>1 DEF Kept, TicksKept, RunsOn, RunMoves
  <2>4. MarksKept'
    BY <2>1 DEF Kept, MarksKept, Pulls
  <2> QED BY <1>1, <2>1, <2>2, <2>3, <2>4, OrdersAside, CallsAside DEF Kept
<1>9. CASE Unset(w)
  <2>1. OpBecomes(o, None) /\ UNCHANGED counter /\ RunEnds(w)
    BY <1>2, <1>3, <1>9, UnsetDoes
  <2>2. RunsKept'
    <3>1. \A v \in Runners : run'[v].pc # "idle" => v # w /\ run[v].o \in Orders \ {o}
      BY <1>1, <1>2, <1>3, <1>5, <2>1 DEF RunEnds, RunsOn
    <3> QED BY <2>1, <3>1 DEF Kept, RunsKept, RunsOn, RunEnds, OpBecomes
  <2>3. TicksKept'
    BY <1>1, <1>5, <2>1 DEF Kept, TicksKept, RunsOn, RunEnds, OpBecomes
  <2>4. MarksKept'
    <3>1. \A x \in Orders : order'[x].n = order[x].n
      BY <2>1 DEF OpBecomes
    <3> QED BY <1>4, <2>1, <3>1 DEF Kept, MarksKept
  <2>5. OrdersKept'
    BY <1>1, <2>1 DEF Kept, OrdersKept, OrderKept, OpBecomes
  <2>6. CallsKept'
    <3>1. \A x \in Orders : order'[x].state = order[x].state /\ order'[x].n = order[x].n
      BY <2>1 DEF OpBecomes
    <3> QED BY <1>1, <3>1, CallsAside
  <2> QED BY <2>2, <2>3, <2>4, <2>5, <2>6 DEF Kept
<1> QED BY <1>6, <1>7, <1>8, <1>9 DEF RunNext

\* An order goes to a new operation, by a runner that was at no other; it is
\* torn if a late payment was taking it back.
LEMMA KeptBegins ==
  ASSUME Typed, Kept, NEW w \in Runners, NEW o \in Orders, NEW target \in Targets,
         MayBegin(o), OrderBegins(o, target), RunStarts(w, o, order'[o].op),
         UNCHANGED <<counter, buy>>, torn \subseteq torn',
         o \notin torn' => \A k \in Calls : ~Reclaims(k, o)
  PROVE  /\ OrdersKept' /\ RunsKept' /\ MarksKept'
         /\ UNCHANGED call => CallsKept'
         /\ \A v \in Workers : work[v].pc = "resume" => o \notin work[v].todo
<1>1. order[o].state = "held" /\ order[o].op = None /\ order[o].n \in Nat
  BY TypedAre DEF MayBegin
<1>2. \A v \in Runners : ~RunsOn(v, o)
  BY <1>1 DEF Kept, RunsKept, RunsOn
<1>3. \A v \in Runners : run[v].pc # "idle" => run[v].o \in Orders
  BY DEF Typed, RunPlaced
<1>4. OrdersKept'
  <2>1. \A x \in Orders \ {o} : OrderKept(x)'
    BY DEF Kept, OrdersKept, OrderKept, OrderBegins
  <2>2. OrderKept(o)'
    <3>1. OrderKept(o)
      BY DEF Kept, OrdersKept
    <3>2. order'[o].op # None
      BY OperationIs DEF OrderBegins
    <3>3. target \in {"sold", "released"} /\ order[o].n + 1 >= 1
      BY <1>1 DEF Targets
    <3> QED BY <1>1, <3>1, <3>2, <3>3 DEF OrderKept, OrderBegins
  <2> QED BY <2>1, <2>2 DEF OrdersKept
<1>5. RunsKept'
  <2>1. order'[o].op \in Operation /\ order'[o].op # None /\ order'[o].op.phase = "apply"
    BY OperationIs DEF OrderBegins
  <2>2. \A v \in Runners \ {w} : run'[v] = run[v]
    BY DEF RunStarts
  <2>3. run'[w].pc = "apply" /\ run'[w].o = o /\ run'[w].op = order'[o].op
    BY <2>1 DEF RunStarts
  <2>4. \A x \in Orders \ {o} : order'[x] = order[x]
    BY DEF OrderBegins
  <2>5. \A v \in Runners \ {w} : run[v].pc # "idle" => run[v].o \in Orders \ {o}
    BY <1>2, <1>3 DEF RunsOn
  <2> QED BY <2>1, <2>2, <2>3, <2>4, <2>5 DEF Kept, RunsKept, RunsOn
<1>6. MarksKept'
  <2>1. \A c \in Counters : \A m \in counter[c].ops :
          m[1] \in Orders /\ m[2] \in Nat
    BY TypedAre DEF Markers
  <2>2. \A x \in Orders : order'[x].n >= order[x].n /\ order'[x].n \in Nat /\ order[x].n \in Nat
    <3>1. \A x \in Orders : order[x].n \in Nat
      BY TypedAre
    <3> QED BY <3>1 DEF OrderBegins
  <2> QED BY <2>1, <2>2 DEF Kept, MarksKept
<1>7. ASSUME UNCHANGED call PROVE CallsKept'
  <2>1. \A k \in Calls : call[k].pc # "idle" => call[k].o \in Orders
    BY DEF Typed, CallPlaced
  <2>2. order'[o].state # "none" /\ \A x \in Orders \ {o} : order'[x] = order[x]
    BY DEF OrderBegins, Targets
  <2>3. \A k \in Calls : Reclaiming(k) =>
          call[k].o \in Orders \ {o} \/ (call[k].o = o /\ o \in torn')
    BY <2>1 DEF Reclaims, Reclaiming
  <2>4. order'[o].n >= 1
    BY <1>1 DEF OrderBegins
  <2> QED BY <1>7, <2>1, <2>2, <2>3, <2>4 DEF Kept, CallsKept, Reclaims, Reclaiming
<1>8. \A v \in Workers : work[v].pc = "resume" => o \notin work[v].todo
  BY <1>1, OperationIs DEF Typed, WorkPlaced, Kept, TicksKept
<1> QED BY <1>4, <1>5, <1>6, <1>7, <1>8

\* An order that someone settles while a late payment takes it back is torn.
LEMMA ReclaimedApart ==
  ASSUME Typed, History, NEW o \in Orders, NEW target, OrderBegins(o, target), o \notin torn'
  PROVE  \A k \in Calls : ~Reclaims(k, o)
<1>1. order[o].n \in Nat
  BY TypedAre
<1> QED BY <1>1 DEF History, Torn, OrderBegins, Reclaims

\* A call that does not start or go on taking back is as it was for the rest.
LEMMA CallsMove ==
  ASSUME Typed, Kept, torn \subseteq torn',
         NEW k \in Calls, NEW pc, NEW i, NEW got, CallMoves(k, pc, i, got),
         call[k].pc # "idle",
         pc \in {"take", "undo", "manual", "share"} => Reclaiming(k),
         \A o \in Orders : order'[o].state = order[o].state /\ order'[o].n = order[o].n
  PROVE  CallsKept'
<1>1. \A j \in Calls : call[j].pc # "idle" => call[j].o \in Orders
  BY DEF Typed, CallPlaced
<1> QED BY <1>1 DEF Kept, CallsKept, CallMoves, Reclaims, Reclaiming

LEMMA KeptCall ==
  ASSUME Typed, Kept, History, NEW k \in Calls,
         \/ Request(k) \/ CallStep(k) \/ CallCrash(k)
  PROVE  Kept'
<1>0. torn \subseteq torn'
  BY TornStays
<1>1. \A j \in Calls : call[j].pc # "idle" => call[j].o \in Orders
  BY DEF Typed, CallPlaced
<1>2. CASE Request(k)
  <2>1. UNCHANGED <<counter, buy, run, work>>
    BY <1>2, RequestDoes
  <2>2. \A o \in Orders : /\ order'[o].state = order[o].state
                          /\ order'[o].n = order[o].n
                          /\ order'[o].op = order[o].op
    BY <1>2, RequestDoes
  <2>3. CallsKept'
    <3>1. /\ call'[k].pc = "begin" /\ order[call'[k].o].state # "none"
          /\ call'[k].o \in Orders
          /\ \A j \in Calls \ {k} : call'[j] = call[j]
      BY <1>2, RequestDoes
    <3> QED BY <1>0, <1>1, <2>2, <3>1 DEF Kept, CallsKept, Reclaims, Reclaiming
  <2> QED BY <1>0, <2>1, <2>2, <2>3, KeptAside, OrdersAside DEF Kept
<1>3. CASE CallBegin(k)
  <2>1. call[k].pc = "begin" /\ call[k].o \in Orders /\ UNCHANGED <<counter, buy, work>>
    BY <1>3, CallBeginDoes
  <2>2. CASE UNCHANGED <<order, run>>
    <3>1. CallsKept'
      <4>1. \E pc, i, got : pc \in {"flip", "done", "running"} /\ CallMoves(k, pc, i, got)
        BY <1>3, CallBeginDoes
      <4> QED BY <1>0, <2>1, <2>2, <4>1, CallsMove
    <3> QED BY <1>0, <2>1, <2>2, <3>1, KeptAside, OrdersAside DEF Kept
  <2>3. CASE ~UNCHANGED <<order, run>>
    <3>1. PICK o \in Orders : o = call[k].o
      BY <2>1
    <3>2. /\ MayBegin(o)
          /\ \E target \in Targets : OrderBegins(o, target)
          /\ RunStarts(k, o, order'[o].op)
          /\ CallMoves(k, "running", call[k].i, call[k].got)
      BY <1>3, <2>3, <3>1, CallBeginDoes
    <3>3. PICK target \in Targets : OrderBegins(o, target)
      BY <3>2
    <3>4. o \notin torn' => \A j \in Calls : ~Reclaims(j, o)
      BY <3>3, ReclaimedApart
    <3>5. /\ OrdersKept' /\ RunsKept' /\ MarksKept'
          /\ \A v \in Workers : work[v].pc = "resume" => o \notin work[v].todo
      BY <1>0, <2>1, <3>2, <3>3, <3>4, KeptBegins DEF Runners
    <3>6. TicksKept'
      <4>1. \A v \in Workers : work[v].todo \subseteq Orders
        BY TypedAre
      <4>2. \A x \in Orders \ {o} : order'[x] = order[x]
        BY <3>3 DEF OrderBegins
      <4>3. \A v \in Runners : v # k => run'[v] = run[v]
        BY <3>2 DEF RunStarts
      <4>4. run'[k].o = o
        BY <3>2 DEF RunStarts
      <4> QED BY <2>1, <3>5, <4>1, <4>2, <4>3, <4>4 DEF Kept, TicksKept, RunsOn
    <3>7. CallsKept'
      <4>1. /\ call'[k].pc = "running" /\ call'[k].o = o
            /\ \A j \in Calls \ {k} : call'[j] = call[j]
        BY <3>1, <3>2 DEF CallMoves
      <4>2. order'[o].state # "none" /\ \A x \in Orders \ {o} : order'[x] = order[x]
        BY <3>3 DEF OrderBegins, Targets
      <4>3. \A j \in Calls : Reclaiming(j) =>
              call[j].o \in Orders \ {o} \/ (call[j].o = o /\ o \in torn')
        BY <1>1, <3>4 DEF Reclaims, Reclaiming
      <4>4. order'[o].n >= 1
        BY <3>3, TypedAre DEF OrderBegins
      <4> QED BY <1>0, <1>1, <4>1, <4>2, <4>3, <4>4 DEF Kept, CallsKept, Reclaims, Reclaiming
    <3> QED BY <3>5, <3>6, <3>7 DEF Kept
  <2> QED BY <2>2, <2>3
<1>4. CASE CallReturns(k)
  <2>1. UNCHANGED <<counter, order, buy, run, work>> /\ call[k].pc = "running"
        /\ CallMoves(k, "done", 1, 0)
    BY <1>4, CallReturnsDoes
  <2> QED BY <1>0, <2>1, CallsMove, KeptAside, OrdersAside DEF Kept
<1>5. CASE Flip(k)
  <2>1. call[k].pc = "flip" /\ UNCHANGED <<counter, buy, run, work>>
    BY <1>5, FlipDoes
  <2>2. CASE UNCHANGED order /\ CallMoves(k, "done", 1, 0)
    BY <1>0, <2>1, <2>2, CallsMove, KeptAside, OrdersAside DEF Kept
  <2>3. CASE ~(UNCHANGED order /\ CallMoves(k, "done", 1, 0))
    <3>1. PICK o \in Orders : o = call[k].o
      BY <1>1, <2>1
    <3>2. /\ order[o].state = "released"
          /\ StateBecomes(o, "held")
          /\ \A j \in Calls \ {k} : call'[j] = call[j]
          /\ call'[k].pc = "take" /\ call'[k].late = order[o].n
          /\ call'[k].o = o
      BY <1>5, <2>3, <3>1, FlipDoes
    <3>3. OrderKept(o) /\ \A x \in Orders : OrderKept(x)
      BY DEF Kept, OrdersKept
    <3>4. \A x \in Orders : order'[x].op = order[x].op /\ order'[x].n = order[x].n
      BY <3>2 DEF StateBecomes
    <3>5. OrdersKept'
      <4>1. OrderKept(o)'
        BY <1>0, <2>1, <3>2, <3>3 DEF OrderKept, StateBecomes
      <4>2. \A x \in Orders \ {o} : OrderKept(x)'
        BY <1>0, <2>1, <3>2, <3>3 DEF OrderKept, StateBecomes
      <4> QED BY <4>1, <4>2 DEF OrdersKept
    <3>6. CallsKept'
      <4>1. order[o].n >= 1
        BY <3>2, <3>3 DEF OrderKept
      <4>2. \A j \in Calls : Reclaiming(j) =>
              call[j].o \in Orders \ {o} \/ (call[j].o = o /\ o \in torn')
        BY <1>0, <1>1, <3>2 DEF Kept, CallsKept, Reclaiming
      <4>3. order'[o].state = "held" /\ order'[o].n >= 1 /\ \A x \in Orders \ {o} : order'[x] = order[x]
        BY <3>2, <4>1 DEF StateBecomes
      <4>4. \A j \in Calls \ {k} : Reclaiming(j)' <=> Reclaiming(j)
        BY <3>2 DEF Reclaiming
      <4>5. \A j \in Calls \ {k} : Reclaiming(j)' =>
              call'[j].o \in Orders \ {o} \/ (call'[j].o = o /\ o \in torn')
        BY <3>2, <4>2, <4>4
      <4> QED BY <1>0, <1>1, <3>2, <4>1, <4>2, <4>3, <4>4, <4>5 DEF Kept, CallsKept, Reclaims
    <3> QED BY <2>1, <3>4, <3>5, <3>6, KeptAside DEF Kept
  <2> QED BY <2>2, <2>3
<1>6. CASE TakeBack(k) \/ TakeBackUndo(k) \/ TakeShare(k)
  <2>1. /\ UNCHANGED <<order, buy, run, work>>
        /\ Reclaiming(k)
    BY <1>6 DEF TakeBack, TakeBackUndo, TakeShare, Reclaiming
  <2>2. \A c \in Counters : counter'[c].ops = counter[c].ops
    BY <1>6, TakeBackDoes, TakeBackUndoDoes, TakeShareDoes DEF Moves
  <2>3. \E pc, i, got : CallMoves(k, pc, i, got)
    BY <1>6, TakeBackDoes, TakeBackUndoDoes, TakeShareDoes
  <2>4. CallsKept'
    BY <1>0, <2>1, <2>3, CallsMove DEF Reclaiming
  <2> QED BY <1>0, <2>1, <2>2, <2>4, KeptAside, OrdersAside DEF Kept
<1>7. CASE Manual(k)
  <2>1. PICK o \in Orders : o = call[k].o
    BY <1>7, ManualDoes
  <2>2. /\ UNCHANGED <<counter, buy, run, work>>
        /\ Reclaiming(k)
        /\ StateBecomes(o, "released")
        /\ CallMoves(k, "done", 1, 0)
    BY <1>7, <2>1, ManualDoes DEF Reclaiming
  <2>3. /\ OrderKept(o) /\ \A x \in Orders : OrderKept(x)
        /\ order[o].state # "none" /\ o \notin torn => order[o].state = "held"
    BY <2>1, <2>2 DEF Kept, OrdersKept, CallsKept, Reclaiming
  <2>4. \A x \in Orders : order'[x].op = order[x].op /\ order'[x].n = order[x].n
    BY <2>2 DEF StateBecomes
  <2>5. order[o].n >= 1
    BY <2>1, <2>2 DEF Kept, CallsKept
  <2>6. OrdersKept'
    BY <1>0, <2>2, <2>3, <2>4, <2>5 DEF OrdersKept, OrderKept, StateBecomes
  <2>7. CallsKept'
    <3>1. \A j \in Calls \ {k} : Reclaiming(j) =>
            call[j].o \in Orders \ {o} \/ (call[j].o = o /\ o \in torn')
      BY <1>0, <1>1, <2>1, <2>2 DEF Kept, CallsKept, Reclaims, Reclaiming
    <3>2. /\ call'[k].pc = "done" /\ call'[k].o = o
          /\ \A j \in Calls \ {k} : call'[j] = call[j]
      BY <2>1, <2>2 DEF CallMoves
    <3>3. order'[o].state = "released" /\ \A x \in Orders \ {o} : order'[x] = order[x]
      BY <2>2 DEF StateBecomes
    <3> QED BY <1>0, <1>1, <2>4, <3>1, <3>2, <3>3 DEF Kept, CallsKept, Reclaims, Reclaiming
  <2> QED BY <2>2, <2>4, <2>6, <2>7, KeptAside DEF Kept
<1>8. CASE CallCrash(k)
  <2>1. /\ UNCHANGED <<counter, order, buy, work>> /\ call[k].pc # "idle"
        /\ CallMoves(k, "crashed", 1, 0) /\ RunEnds(k)
    BY <1>8, CallCrashDoes
  <2>2. CallsKept'
    BY <1>0, <2>1, CallsMove
  <2>3. RunsKept'
    BY <2>1 DEF Kept, RunsKept, RunsOn, RunEnds
  <2>4. TicksKept'
    BY <2>1 DEF Kept, TicksKept, RunsOn, RunEnds
  <2> QED BY <1>0, <2>1, <2>2, <2>3, <2>4, OrdersAside DEF Kept, MarksKept
<1> QED BY <1>2, <1>3, <1>4, <1>5, <1>6, <1>7, <1>8 DEF CallStep

\* One tick goes on.
LEMMA TicksMove ==
  ASSUME Typed, Kept, OneTick, NEW w \in Workers, NEW pc, NEW todo, WorkMoves(w, pc, todo),
         pc # "idle" \/ work[w].pc # "idle",
         pc = "resume" => \A o \in todo :
           /\ order'[o].op = work'[w].ops[o]
           /\ \A v \in Runners : ~(run'[v].pc # "idle" /\ run'[v].o = o),
         pc # "expect" => work'[w].asked = {} /\ \A c \in Counters : work'[w].snap[c] = 0
  PROVE  TicksKept'
<1>1. \A v \in Workers \ {w} : work[v].pc = "idle" /\ work'[v] = work[v]
  BY DEF OneTick, WorkMoves, Kept, TicksKept
<1>2. work'[w].pc = pc /\ work'[w].todo = todo
  BY DEF WorkMoves
<1>3. \A v \in Workers \ {w} : work[v].asked = {} /\ \A c \in Counters : work[v].snap[c] = 0
  BY <1>1 DEF Kept, TicksKept
<1> QED BY <1>1, <1>2, <1>3 DEF TicksKept, RunsOn

LEMMA KeptWork ==
  ASSUME Typed, Kept, OneTick, Timely, History,
         NEW w \in Workers, WorkStep(w) \/ WorkerCrash(w)
  PROVE  Kept'
<1>0. torn \subseteq torn'
  BY TornStays
<1>1. /\ w \in Runners /\ work[w].todo \subseteq Orders
      /\ \A v \in Runners : run[v].pc # "idle" => run[v].o \in Orders
      /\ work[w].pc # "expect" => work[w].asked = {} /\ \A c \in Counters : work[w].snap[c] = 0
      /\ work[w].pc = "resume" => \A o \in work[w].todo :
           order[o].op = work[w].ops[o] /\ \A v \in Runners : ~RunsOn(v, o)
  BY TypedAre DEF Typed, RunPlaced, Kept, TicksKept, Runners
<1>2. ASSUME UNCHANGED <<counter, order, buy, call, run>>, TicksKept' PROVE Kept'
  BY <1>0, <1>2, KeptAside, OrdersAside, CallsAside DEF Kept
<1>3. CASE ResumeFind(w)
  <2>1. PICK rows \in SUBSET Pending :
              /\ WorkMoves(w, "resume", rows)
              /\ \A o \in rows : work'[w].ops[o] = order[o].op
    BY <1>3, ResumeFindDoes
  <2>2. /\ UNCHANGED <<counter, order, buy, call, run>>
        /\ work[w].pc = "idle" /\ KeepsSnap(w)
    BY <1>3, ResumeFindDoes
  <2>3. \A o \in rows, v \in Runners : ~RunsOn(v, o)
    <3>1. \A o \in rows : Abandoned(o)
      BY <2>1, <2>2 DEF Timely, WorkMoves
    <3> QED BY <3>1 DEF Abandoned, Kept, RunsKept, RunsOn
  <2>4. TicksKept'
    BY <1>1, <2>1, <2>2, <2>3, TicksMove DEF KeepsSnap, RunsOn
  <2> QED BY <1>2, <2>2, <2>4
<1>4. CASE Resume(w)
  <2>1. PICK o \in work[w].todo :
              /\ o \in Orders
              /\ work[w].ops[o] \in Operation
              /\ RunStarts(w, o, work[w].ops[o])
              /\ WorkMoves(w, "resume", work[w].todo \ {o})
    BY <1>4, ResumeDoes
  <2>2. /\ UNCHANGED <<counter, order, buy, call>>
        /\ work[w].pc = "resume" /\ run[w].pc = "idle"
        /\ KeepsSnap(w) /\ work'[w].ops = work[w].ops
    BY <1>4, ResumeDoes
  <2>3. /\ order[o].op = work[w].ops[o] /\ order[o].op # None
        /\ \A v \in Runners : ~RunsOn(v, o)
        /\ order[o].op.phase \in {"apply", "cleanup"}
    BY <1>1, <2>1, <2>2, OperationIs DEF Operation
  <2>4. /\ \A v \in Runners \ {w} : run'[v] = run[v]
        /\ run'[w].pc = IF order[o].op.phase = "apply" THEN "apply" ELSE "pull"
        /\ run'[w].o = o /\ run'[w].op = order[o].op
    BY <2>1, <2>3 DEF RunStarts
  <2>5. RunsKept'
    BY <1>1, <2>2, <2>3, <2>4 DEF Kept, RunsKept, RunsOn
  <2>6. TicksKept'
    <3>1. \A q \in work[w].todo \ {o} :
            /\ order'[q].op = work'[w].ops[q]
            /\ \A v \in Runners : ~(run'[v].pc # "idle" /\ run'[v].o = q)
      BY <1>1, <2>2, <2>4 DEF RunsOn
    <3>2. work'[w].asked = {} /\ \A c \in Counters : work'[w].snap[c] = 0
      BY <1>1, <2>2 DEF KeepsSnap
    <3> QED BY <2>1, <3>1, <3>2, TicksMove
  <2> QED BY <1>0, <2>2, <2>5, <2>6, OrdersAside, CallsAside DEF Kept, MarksKept
<1>5. CASE OrphansFind(w)
  <2>1. PICK pc \in {"release", "sell"}, todo \in SUBSET Orders : WorkMoves(w, pc, todo)
    BY <1>5, OrphansFindDoes
  <2>2. /\ UNCHANGED <<counter, order, buy, call, run>>
        /\ work[w].pc \in {"resume", "release"}
    BY <1>5, OrphansFindDoes
  <2>3. work'[w].asked = {} /\ \A c \in Counters : work'[w].snap[c] = 0
    BY <1>1, <1>5, <2>2, OrphansFindDoes, NoTickIs DEF KeepsSnap
  <2>4. TicksKept'
    BY <2>1, <2>3, TicksMove
  <2> QED BY <1>2, <2>2, <2>4
<1>6. CASE OrphanSettle(w)
  <2>1. /\ UNCHANGED <<counter, buy, call>>
        /\ work[w].pc \in {"release", "sell"}
        /\ KeepsSnap(w)
    BY <1>6, OrphanSettleDoes
  <2>2. PICK o \in Orders :
              /\ o \in work[w].todo
              /\ WorkMoves(w, work[w].pc, work[w].todo \ {o})
              /\ \/ /\ MayBegin(o)
                    /\ \E target \in Targets : OrderBegins(o, target)
                    /\ RunStarts(w, o, order'[o].op)
                 \/ UNCHANGED <<order, run>>
    BY <1>6, OrphanSettleDoes
  <2>3. TicksKept'
    <3>1. work'[w].asked = {} /\ \A c \in Counters : work'[w].snap[c] = 0
      BY <1>1, <2>1 DEF KeepsSnap
    <3> QED BY <2>1, <2>2, <3>1, TicksMove
  <2>4. CASE UNCHANGED <<order, run>>
    BY <1>2, <2>1, <2>3, <2>4
  <2>5. CASE ~UNCHANGED <<order, run>>
    <3>1. PICK target \in Targets : OrderBegins(o, target)
      BY <2>2, <2>5
    <3>2. MayBegin(o) /\ RunStarts(w, o, order'[o].op)
      BY <2>2, <2>5
    <3>3. o \notin torn' => \A k \in Calls : ~Reclaims(k, o)
      BY <3>1, ReclaimedApart
    <3>4. OrdersKept' /\ RunsKept' /\ MarksKept' /\ CallsKept'
      BY <1>0, <1>1, <2>1, <3>1, <3>2, <3>3, KeptBegins
    <3> QED BY <2>3, <3>4 DEF Kept
  <2> QED BY <2>4, <2>5
<1>7. CASE ReconcileFind(w)
  <2>1. /\ UNCHANGED <<counter, order, buy, call, run>>
        /\ work[w].pc = "sell"
        /\ \/ WorkMoves(w, "idle", {}) /\ work'[w] = NoTick
           \/ WorkMoves(w, "expect", {})
    BY <1>7, ReconcileFindDoes
  <2>2. TicksKept'
    BY <2>1, TicksMove, NoTickIs
  <2> QED BY <1>2, <2>1, <2>2
<1>8. CASE ReconcileAsk(w)
  <2>1. /\ UNCHANGED <<counter, order, buy, call, run>>
        /\ work[w].pc = "expect"
        /\ \/ WorkMoves(w, "idle", {}) /\ work'[w] = NoTick
           \/ WorkMoves(w, "expect", work[w].todo)
    BY <1>8, ReconcileAskDoes
  <2>2. TicksKept'
    BY <2>1, TicksMove, NoTickIs
  <2> QED BY <1>2, <2>1, <2>2
<1>9. CASE ReconcileFix(w)
  <2>1. UNCHANGED <<order, buy, call, run>> /\ work[w].asked = {"held", "pending"}
    BY <1>9, ReconcileFixDoes
  <2>2. work[w].pc = "expect"
    BY <1>1, <2>1
  <2>3. \/ WorkMoves(w, "idle", {}) /\ work'[w] = NoTick
        \/ WorkMoves(w, "expect", work[w].todo)
    BY <1>9, <2>2, ReconcileFixDoes
  <2>4. TicksKept'
    BY <2>2, <2>3, TicksMove, NoTickIs
  <2>5. \A c \in Counters : counter'[c].ops = counter[c].ops
    BY <1>9, ReconcileFixDoes DEF Moves
  <2> QED BY <1>0, <2>1, <2>4, <2>5, KeptAside, OrdersAside, CallsAside DEF Kept
<1>10. CASE WorkerCrash(w)
  <2>1. /\ UNCHANGED <<counter, order, buy, call>> /\ work[w].pc # "idle"
        /\ WorkMoves(w, "idle", {}) /\ work'[w] = NoTick /\ RunEnds(w)
    BY <1>10, WorkerCrashDoes DEF WorkerCrash
  <2>2. TicksKept'
    BY <2>1, TicksMove, NoTickIs
  <2>3. RunsKept'
    BY <1>1, <2>1 DEF Kept, RunsKept, RunsOn, RunEnds
  <2> QED BY <1>0, <2>1, <2>2, <2>3, OrdersAside, CallsAside DEF Kept, MarksKept
<1> QED BY <1>3, <1>4, <1>5, <1>6, <1>7, <1>8, <1>9, <1>10 DEF WorkStep

-----------------------------------------------------------------------------
(* The two layers together *)

LEMMA TypedKeptStep ==
  ASSUME Typed, Kept, [CalmNext]_vars
  PROVE  Typed' /\ Kept'
<1>1. CASE UNCHANGED vars
  BY <1>1 DEF vars, Typed, HandlersTyped, BuyPlaced, CallPlaced, RunPlaced, WorkPlaced, Kept,
              SurplusOnly, OrdersKept, OrderKept, CallsKept, RunsKept, TicksKept, MarksKept,
              Reclaims, Reclaiming, RunsOn
<1>2. CASE CalmNext
  <2>1. Step /\ History /\ OneTick /\ Timely /\ torn \subseteq torn'
    BY <1>2, TornStays DEF CalmNext, Next
  <2>2. ASSUME NEW o \in Orders, BuyNextStep(o) \/ BuyCrash(o) PROVE Typed' /\ Kept'
    BY <2>1, <2>2, TypedCheckout, KeptCheckout
  <2>3. ASSUME NEW k \in Calls, Request(k) \/ CallStep(k) \/ CallCrash(k) PROVE Typed' /\ Kept'
    <3>1. /\ \A o \in Orders : order[o].state = "released" => order[o].n >= 1
          /\ Reclaiming(k) => call[k].late >= 1
      BY DEF Kept, OrdersKept, OrderKept, CallsKept
    <3> QED BY <2>1, <2>3, <3>1, TypedCall, KeptCall
  <2>4. ASSUME NEW w \in Workers, WorkStep(w) \/ WorkerCrash(w) PROVE Typed' /\ Kept'
    <3>1. \A v \in Workers : work[v].asked = {"held", "pending"} => work[v].pc = "expect"
      BY DEF Kept, TicksKept
    <3> QED BY <2>1, <2>4, <3>1, TypedWork, KeptWork
  <2>5. ASSUME NEW w \in Runners, RunNext(w) PROVE Typed' /\ Kept'
    BY <2>1, <2>5, TypedRun, KeptRun
  <2> QED BY <2>1, <2>2, <2>3, <2>4, <2>5 DEF Step, Crash
<1> QED BY <1>1, <1>2

-----------------------------------------------------------------------------
(* Whose uses a counter holds and has sold: the third layer.  A line is an  *)
(* order and the index of one of its counters.                              *)

IsLine(o, c) == c \in ToSet(Lines[o])

\* The line of order o on counter c.
At(o, c) == CHOOSE j \in 1..Len(Lines[o]) : Lines[o][j] = c

LEMMA AtIs ==
  ASSUME NEW o \in Orders
  PROVE  /\ \A c : IsLine(o, c) => At(o, c) \in 1..Len(Lines[o]) /\ Lines[o][At(o, c)] = c
         /\ \A j \in 1..Len(Lines[o]) : IsLine(o, Lines[o][j]) /\ At(o, Lines[o][j]) = j
<1>1. \A c : IsLine(o, c) <=> \E j \in 1..Len(Lines[o]) : Lines[o][j] = c
  BY LinesAre DEF IsLine, ToSet
<1>2. \A c : IsLine(o, c) => At(o, c) \in 1..Len(Lines[o]) /\ Lines[o][At(o, c)] = c
  BY <1>1 DEF At
<1>3. \A j \in 1..Len(Lines[o]) : IsLine(o, Lines[o][j]) /\ At(o, Lines[o][j]) = j
  BY <1>1, <1>2, LinesAre
<1> QED BY <1>2, <1>3

\* The checkout has taken the line and not given it back.
BuyHolds(o, j) ==
  /\ Buying(o)
  /\ j <= buy[o].n
  /\ buy[o].pc = "undo" => buy[o].i <= j

\* A late payment has taken the line back.
HasBack(k, o, j) ==
  \/ call[k].pc = "take" /\ Lines[o][j] \in Products /\ j <= call[k].got
  \/ call[k].pc = "undo" /\ Lines[o][j] \in Products /\ call[k].i <= j /\ j <= call[k].got
  \/ call[k].pc = "share" /\ (Lines[o][j] \in Products \/ j < call[k].i)

\* The saved order holds the line.
OrderHolds(o, j) ==
  /\ order[o].state = "held"
  /\ \A k \in Calls : Reclaims(k, o) => HasBack(k, o, j)

\* The order's operation is still to be applied to the line.
OpHolds(o, j) ==
  /\ order[o].op # None
  /\ order[o].op.phase = "apply"
  /\ <<o, order[o].op.n, j>> \notin counter[Lines[o][j]].ops

SoldAt(o, j) == order[o].state = "sold" /\ ~OpHolds(o, j)

Uses(o, P) == IF P THEN Qty[o] ELSE 0

\* What a line counts for in held, and in sold; and what it counts for until
\* a late payment takes it back.
HeldBy(o, j) == Uses(o, BuyHolds(o, j)) + Uses(o, OrderHolds(o, j)) + Uses(o, OpHolds(o, j))
SoldBy(o, j) == Uses(o, SoldAt(o, j))
FirstBy(o, j) ==
  Uses(o, BuyHolds(o, j)) + Uses(o, OrderHolds(o, j) /\ order[o].n = 0)
    + Uses(o, OpHolds(o, j) /\ order[o].n = 1)
    + Uses(o, SoldAt(o, j) /\ order[o].n = 1)

HeldPart(c) == [o \in Orders |-> IF IsLine(o, c) THEN HeldBy(o, At(o, c)) ELSE 0]
SoldPart(c) == [o \in Orders |-> IF IsLine(o, c) THEN SoldBy(o, At(o, c)) ELSE 0]
FirstPart(c) == [o \in Orders |-> IF IsLine(o, c) THEN FirstBy(o, At(o, c)) ELSE 0]
OrderPart(c) ==
  [o \in Orders |-> IF IsLine(o, c) THEN Uses(o, OrderHolds(o, At(o, c))) ELSE 0]

HeldSum(c) == SumFunctionOnSet(HeldPart(c), Orders)
SoldSum(c) == SumFunctionOnSet(SoldPart(c), Orders)
FirstSum(c) == SumFunctionOnSet(FirstPart(c), Orders)
OrderSum(c) == SumFunctionOnSet(OrderPart(c), Orders)

\* A clean counter holds what is held and, after a crash, perhaps more.
CountersHold == \A c \in Counters : Clean(c) =>
  /\ HeldSum(c) <= counter[c].held
  /\ crashes = 0 => HeldSum(c) = counter[c].held

CountersSold == \A c \in Counters : Clean(c) => SoldSum(c) = counter[c].sold

WithinQuota == \A c \in Products :
  /\ counter[c].quota <= Limit[c]
  /\ Clean(c) => counter[c].sold + counter[c].held <= Limit[c]

WithinShare == \A c \in Shares : Clean(c) => FirstSum(c) <= Limit[c]

\* A run has applied its operation to the lines before its own.
RunsApply == \A w \in Runners, o \in Orders : run[w].pc = "apply" /\ run[w].o = o =>
  \A j \in 1..Len(Lines[o]) : j < run[w].i /\ Clean(Lines[o][j]) => ~OpHolds(o, j)

\* A counter that was found, and not touched since, has no checkout at work on
\* it; what the orders were found to hold they still hold at most, and no
\* operation is pending on it if none was found to be.
Found(w, c) ==
  /\ \A o \in Orders : IsLine(o, c) => ~BuyHolds(o, At(o, c))
  /\ "held" \in work[w].asked => OrderSum(c) <= work[w].want[c]
  /\ "pending" \in work[w].asked /\ c \notin work[w].pending =>
       \A o \in Orders : IsLine(o, c) => order[o].op = None

SnapsFound == \A w \in Workers, c \in Counters :
  work[w].snap[c] > 0 /\ c \notin stirred /\ Clean(c) => Found(w, c)

Tallied ==
  CountersHold /\ CountersSold /\ WithinQuota /\ WithinShare /\ RunsApply /\ SnapsFound

\* What the history variables say of a step.
Recorded ==
  /\ torn \subseteq torn' /\ wrong \subseteq wrong'
  /\ \A c \in Counters : c \notin stirred' /\ (\E w \in Workers : work'[w].snap[c] > 0) =>
       c \notin stirred /\ ~Stirs(c)

LEMMA HistoryRecords == History => Recorded
  BY DEF History, Recorded

\* A counter that is clean was clean, and no order on it is torn.
LEMMA CleanStays ==
  ASSUME Recorded
  PROVE  \A c : Clean(c)' => Clean(c)
  BY DEF Recorded, Clean

LEMMA CleanIs ==
  /\ \A o \in Orders : \A c : IsLine(o, c) /\ Clean(c) => o \notin torn
  /\ \A o \in Orders : \A c : IsLine(o, c) /\ Clean(c)' => o \notin torn'
  /\ \A o \in Orders : \A j \in 1..Len(Lines[o]) : Clean(Lines[o][j]) => o \notin torn
  /\ \A o \in Orders : \A j \in 1..Len(Lines[o]) : Clean(Lines[o][j])' => o \notin torn'
<1>1. /\ \A o \in Orders : \A c : IsLine(o, c) /\ Clean(c) => o \notin torn
      /\ \A o \in Orders : \A c : IsLine(o, c) /\ Clean(c)' => o \notin torn'
  BY DEF Clean, IsLine
<1>2. \A o \in Orders : \A j \in 1..Len(Lines[o]) : IsLine(o, Lines[o][j])
  BY AtIs
<1> QED BY <1>1, <1>2

-----------------------------------------------------------------------------
(* Sums of lines *)

LEMMA OrdersFinite == IsFiniteSet(Orders)
  BY CampaignAssumption

LEMMA ByAre ==
  ASSUME NEW o \in Orders
  PROVE  /\ \A j : HeldBy(o, j) \in Nat /\ SoldBy(o, j) \in Nat /\ FirstBy(o, j) \in Nat
         /\ \A j : FirstBy(o, j)' <= HeldBy(o, j)' + SoldBy(o, j)'
         /\ \A j : Uses(o, OrderHolds(o, j)) \in Nat
         /\ \A j : HeldBy(o, j)' \in Nat /\ SoldBy(o, j)' \in Nat /\ FirstBy(o, j)' \in Nat
         /\ \A j : Uses(o, OrderHolds(o, j))' \in Nat
<1>1. Qty[o] \in Nat
  BY LinesAre
<1>2. \A P : Uses(o, P) \in Nat
  BY <1>1 DEF Uses
<1>3. \A j : HeldBy(o, j) \in Nat /\ SoldBy(o, j) \in Nat /\ FirstBy(o, j) \in Nat
  BY <1>2 DEF HeldBy, SoldBy, FirstBy
<1>4. \A j : FirstBy(o, j)' <= HeldBy(o, j)' + SoldBy(o, j)'
  BY <1>1 DEF HeldBy, SoldBy, FirstBy, Uses
<1>5. \A j : /\ Uses(o, BuyHolds(o, j))' \in Nat /\ Uses(o, OrderHolds(o, j))' \in Nat
             /\ Uses(o, OpHolds(o, j))' \in Nat /\ Uses(o, SoldAt(o, j))' \in Nat
             /\ Uses(o, OrderHolds(o, j) /\ order[o].n = 0)' \in Nat
             /\ Uses(o, OpHolds(o, j) /\ order[o].n = 1)' \in Nat
             /\ Uses(o, SoldAt(o, j) /\ order[o].n = 1)' \in Nat
  BY <1>1 DEF Uses
<1>6. \A j : HeldBy(o, j)' \in Nat /\ SoldBy(o, j)' \in Nat /\ FirstBy(o, j)' \in Nat
  BY <1>5 DEF HeldBy, SoldBy, FirstBy
<1> QED BY <1>2, <1>3, <1>4, <1>5, <1>6

LEMMA PartsAre ==
  ASSUME NEW c
  PROVE  \A o \in Orders :
           /\ HeldPart(c)[o] \in Nat /\ SoldPart(c)[o] \in Nat /\ FirstPart(c)[o] \in Nat
           /\ OrderPart(c)[o] \in Nat
           /\ HeldPart(c)'[o] \in Nat /\ SoldPart(c)'[o] \in Nat /\ FirstPart(c)'[o] \in Nat
           /\ OrderPart(c)'[o] \in Nat
  BY ByAre DEF HeldPart, SoldPart, FirstPart, OrderPart

LEMMA SumsAre ==
  ASSUME NEW c
  PROVE  /\ HeldSum(c) \in Nat /\ SoldSum(c) \in Nat /\ FirstSum(c) \in Nat
         /\ OrderSum(c) \in Nat
         /\ HeldSum(c)' \in Nat /\ SoldSum(c)' \in Nat /\ FirstSum(c)' \in Nat
         /\ OrderSum(c)' \in Nat
  BY PartsAre, OrdersFinite, SumNat DEF HeldSum, SoldSum, FirstSum, OrderSum

\* No line counts for more than it did.
LEMMA LinesFall ==
  ASSUME \A o \in Orders : \A j \in 1..Len(Lines[o]) :
           Clean(Lines[o][j])' => HeldBy(o, j)' <= HeldBy(o, j)
  PROVE  \A c \in Counters : Clean(c)' => HeldSum(c)' <= HeldSum(c)
<1> TAKE c \in Counters
<1> HAVE Clean(c)'
<1>1. \A o \in Orders : HeldPart(c)'[o] <= HeldPart(c)[o]
  BY AtIs DEF HeldPart
<1>2. \A o \in Orders : HeldPart(c)'[o] \in Int /\ HeldPart(c)[o] \in Int
  BY PartsAre
<1> QED BY <1>1, <1>2, OrdersFinite, SumAtMost DEF HeldSum

LEMMA FirstsFall ==
  ASSUME NEW c,
         \A o \in Orders : IsLine(o, c) => FirstBy(o, At(o, c))' <= FirstBy(o, At(o, c))
  PROVE  FirstSum(c)' <= FirstSum(c)
<1>1. \A o \in Orders : FirstPart(c)'[o] <= FirstPart(c)[o]
  BY DEF FirstPart
<1>2. \A o \in Orders : FirstPart(c)'[o] \in Int /\ FirstPart(c)[o] \in Int
  BY PartsAre
<1> QED BY <1>1, <1>2, OrdersFinite, SumAtMost DEF FirstSum

\* Every line counts for what it did.
LEMMA LinesSame ==
  ASSUME \A o \in Orders : \A j \in 1..Len(Lines[o]) : Clean(Lines[o][j])' =>
           HeldBy(o, j)' = HeldBy(o, j) /\ SoldBy(o, j)' = SoldBy(o, j)
  PROVE  \A c \in Counters : Clean(c)' =>
           HeldSum(c)' = HeldSum(c) /\ SoldSum(c)' = SoldSum(c)
<1> TAKE c \in Counters
<1> HAVE Clean(c)'
<1>1. \A o \in Orders : HeldPart(c)'[o] = HeldPart(c)[o] /\ SoldPart(c)'[o] = SoldPart(c)[o]
  BY AtIs DEF HeldPart, SoldPart
<1> QED BY <1>1, OrdersFinite, SumSame DEF HeldSum, SoldSum

\* One line counts for another h in held and s in sold.
LEMMA OneLineMoves ==
  ASSUME NEW o \in Orders, NEW j \in 1..Len(Lines[o]),
         NEW h \in Int, NEW s \in Int,
         Clean(Lines[o][j])' =>
           HeldBy(o, j)' = HeldBy(o, j) + h /\ SoldBy(o, j)' = SoldBy(o, j) + s,
         \A x \in Orders : \A i \in 1..Len(Lines[x]) :
           (x # o \/ i # j) /\ Clean(Lines[x][i])' =>
             HeldBy(x, i)' = HeldBy(x, i) /\ SoldBy(x, i)' = SoldBy(x, i)
  PROVE  \A c \in Counters : Clean(c)' =>
           /\ HeldSum(c)' = IF c = Lines[o][j] THEN HeldSum(c) + h ELSE HeldSum(c)
           /\ SoldSum(c)' = IF c = Lines[o][j] THEN SoldSum(c) + s ELSE SoldSum(c)
<1> TAKE c \in Counters
<1> HAVE Clean(c)'
<1>1. /\ \A x \in Orders : HeldPart(c)[x] \in Int /\ HeldPart(c)'[x] \in Int
      /\ \A x \in Orders : SoldPart(c)[x] \in Int /\ SoldPart(c)'[x] \in Int
      /\ HeldSum(c) \in Int /\ SoldSum(c) \in Int
  BY PartsAre, SumsAre
<1>2. CASE c = Lines[o][j]
  <2>1. IsLine(o, c) /\ At(o, c) = j
    BY <1>2, AtIs
  <2>2. \A x \in Orders \ {o} :
          HeldPart(c)'[x] = HeldPart(c)[x] /\ SoldPart(c)'[x] = SoldPart(c)[x]
    BY AtIs DEF HeldPart, SoldPart
  <2>6. HeldBy(o, j)' = HeldBy(o, j) + h /\ SoldBy(o, j)' = SoldBy(o, j) + s
    BY <1>2
  <2>3. /\ HeldPart(c)'[o] = HeldPart(c)[o] + h
        /\ SoldPart(c)'[o] = SoldPart(c)[o] + s
    BY <2>1, <2>6 DEF HeldPart, SoldPart
  <2>4. SumFunctionOnSet(HeldPart(c)', Orders) =
          SumFunctionOnSet(HeldPart(c), Orders) - HeldPart(c)[o] + HeldPart(c)'[o]
    BY <1>1, <2>2, OrdersFinite, SumChange
  <2>5. SumFunctionOnSet(SoldPart(c)', Orders) =
          SumFunctionOnSet(SoldPart(c), Orders) - SoldPart(c)[o] + SoldPart(c)'[o]
    BY <1>1, <2>2, OrdersFinite, SumChange
  <2> QED BY <1>1, <1>2, <2>3, <2>4, <2>5 DEF HeldSum, SoldSum
<1>3. CASE c # Lines[o][j]
  <2>1. \A x \in Orders :
          HeldPart(c)'[x] = HeldPart(c)[x] /\ SoldPart(c)'[x] = SoldPart(c)[x]
    BY <1>3, AtIs DEF HeldPart, SoldPart
  <2> QED BY <1>3, <2>1, OrdersFinite, SumSame DEF HeldSum, SoldSum
<1> QED BY <1>2, <1>3

\* A line counts for no more than its counter holds.
LEMMA LineIsHeld ==
  ASSUME CountersHold, Typed, NEW o \in Orders, NEW j \in 1..Len(Lines[o]),
         Clean(Lines[o][j])
  PROVE  HeldBy(o, j) <= counter[Lines[o][j]].held
<1>1. PICK c \in Counters : c = Lines[o][j]
  BY LinesAre
<1>2. HeldPart(c)[o] = HeldBy(o, j)
  BY <1>1, AtIs DEF HeldPart
<1>3. HeldPart(c)[o] <= HeldSum(c)
  <2>1. IsFiniteSet(Orders \ {o})
    BY OrdersFinite, FS_RemoveElement
  <2>2. SumFunctionOnSet(HeldPart(c), Orders) =
          HeldPart(c)[o] + SumFunctionOnSet(HeldPart(c), Orders \ {o})
    <3>1. \A x \in Orders : HeldPart(c)[x] \in Int
      BY PartsAre
    <3> QED BY <3>1, OrdersFinite, SumStep
  <2>3. SumFunctionOnSet(HeldPart(c), Orders \ {o}) \in Nat
    BY <2>1, PartsAre, SumNat
  <2>4. HeldPart(c)[o] \in Nat
    BY PartsAre
  <2> QED BY <2>2, <2>3, <2>4 DEF HeldSum
<1>4. HeldSum(c) <= counter[c].held /\ HeldSum(c) \in Nat /\ counter[c].held \in Nat
  BY <1>1, SumsAre, TypedAre DEF CountersHold
<1>5. HeldBy(o, j) \in Nat
  BY ByAre
<1> QED BY <1>1, <1>2, <1>3, <1>4, <1>5

\* What first promises take of a counter, it holds or has sold.
LEMMA FirstsAreHeld ==
  ASSUME NEW c
  PROVE  FirstSum(c)' <= HeldSum(c)' + SoldSum(c)'
<1> DEFINE both == [o \in Orders |-> HeldPart(c)'[o] + SoldPart(c)'[o]]
<1>1. \A o \in Orders : /\ HeldPart(c)'[o] \in Int /\ SoldPart(c)'[o] \in Int
                        /\ FirstPart(c)'[o] \in Int
                        /\ both[o] = HeldPart(c)'[o] + SoldPart(c)'[o]
  BY PartsAre
<1>2. \A o \in Orders : FirstPart(c)'[o] <= both[o] /\ both[o] \in Int
  BY <1>1, ByAre DEF HeldPart, SoldPart, FirstPart
<1> HIDE DEF both
<1>3. SumFunctionOnSet(both, Orders) = HeldSum(c)' + SoldSum(c)'
  BY <1>1, OrdersFinite, SumPlus DEF HeldSum, SoldSum
<1>4. FirstSum(c)' <= SumFunctionOnSet(both, Orders)
  BY <1>1, <1>2, OrdersFinite, SumAtMost DEF FirstSum
<1> QED BY <1>3, <1>4

-----------------------------------------------------------------------------
(* Steps that leave lines as they are.  Of a line on a counter that is not   *)
(* clean nothing is said.                                                   *)

LineStays(o, j) == Clean(Lines[o][j])' =>
  /\ BuyHolds(o, j)' <=> BuyHolds(o, j)
  /\ OrderHolds(o, j)' <=> OrderHolds(o, j)
  /\ OpHolds(o, j)' <=> OpHolds(o, j)
  /\ SoldAt(o, j)' <=> SoldAt(o, j)
  /\ order'[o].n = order[o].n

LEMMA StaysDoes ==
  ASSUME NEW o \in Orders, NEW j, LineStays(o, j), Clean(Lines[o][j])'
  PROVE  /\ HeldBy(o, j)' = HeldBy(o, j) /\ SoldBy(o, j)' = SoldBy(o, j)
         /\ FirstBy(o, j)' = FirstBy(o, j)
  BY DEF LineStays, HeldBy, SoldBy, FirstBy, Uses

\* No line of counter c is taken, except from a checkout that is saved.
Quiet(c) == \A o \in Orders : IsLine(o, c) /\ Clean(c)' =>
  /\ BuyHolds(o, At(o, c))' => BuyHolds(o, At(o, c))
  /\ OrderHolds(o, At(o, c))' => OrderHolds(o, At(o, c)) \/ BuyHolds(o, At(o, c))

\* No operation comes but by beginning.
OpsQuiet == \A o \in Orders :
  order'[o].op # None => order[o].op # None \/ order'[o].n # order[o].n

\* The shares of the limit, once held and sold are right.
LEMMA SharesKeep ==
  ASSUME Typed', Recorded, WithinShare, CountersHold', CountersSold',
         \A c \in Shares : Clean(c)' =>
           \/ \A o \in Orders : IsLine(o, c) => FirstBy(o, At(o, c))' <= FirstBy(o, At(o, c))
           \/ counter'[c].sold + counter'[c].held <= Limit[c]
  PROVE  WithinShare'
<1> SUFFICES ASSUME NEW c \in Shares, Clean(c)' PROVE FirstSum(c)' <= Limit[c]
  BY DEF WithinShare
<1>1. /\ c \in Counters /\ Limit[c] \in Nat /\ FirstSum(c) <= Limit[c]
      /\ FirstSum(c) \in Nat /\ FirstSum(c)' \in Nat
      /\ HeldSum(c)' \in Nat /\ SoldSum(c)' \in Nat
  BY CountersAre, SumsAre, CleanStays DEF WithinShare
<1>2. HeldSum(c)' <= counter'[c].held /\ SoldSum(c)' = counter'[c].sold
  BY <1>1 DEF CountersHold, CountersSold
<1>3. counter'[c].held \in Nat /\ counter'[c].sold \in Nat
  BY <1>1 DEF Typed, HandlersTyped, Counter
<1>4. CASE \A o \in Orders : IsLine(o, c) => FirstBy(o, At(o, c))' <= FirstBy(o, At(o, c))
  BY <1>1, <1>4, FirstsFall
<1>5. CASE counter'[c].sold + counter'[c].held <= Limit[c]
  BY <1>1, <1>2, <1>3, <1>5, FirstsAreHeld
<1> QED BY <1>4, <1>5

Counted ==
  CountersHold /\ CountersSold /\ WithinQuota /\ WithinShare

\* No line counts for anything else.
LEMMA SumsStay ==
  ASSUME Typed, Typed', Counted, Recorded,
         \A o \in Orders : \A j \in 1..Len(Lines[o]) : Clean(Lines[o][j])' =>
           /\ HeldBy(o, j)' = HeldBy(o, j) /\ SoldBy(o, j)' = SoldBy(o, j)
           /\ FirstBy(o, j)' <= FirstBy(o, j),
         \A c \in Counters :
           /\ Clean(c)' => /\ counter'[c].held = counter[c].held
                           /\ counter'[c].sold = counter[c].sold
           /\ c \in Products =>
                counter'[c].quota = counter[c].quota \/ counter'[c].quota <= Limit[c],
         crashes' >= crashes
  PROVE  Counted'
<1>1. \A c : Clean(c)' => Clean(c)
  BY CleanStays
<1>2. \A c \in Counters : Clean(c)' => HeldSum(c)' = HeldSum(c) /\ SoldSum(c)' = SoldSum(c)
  BY LinesSame
<1>3. crashes' = 0 => crashes = 0
  <2>1. crashes \in Nat /\ crashes' \in Nat
    BY CampaignAssumption DEF Typed, HandlersTyped
  <2> QED BY <2>1
<1>4. CountersHold' /\ CountersSold'
  BY <1>1, <1>2, <1>3 DEF Counted, CountersHold, CountersSold
<1>5. WithinQuota'
  BY <1>1, CountersAre DEF Counted, WithinQuota
<1>6. WithinShare'
  <2>1. \A o \in Orders : \A c : IsLine(o, c) /\ Clean(c)' =>
          FirstBy(o, At(o, c))' <= FirstBy(o, At(o, c))
    BY AtIs
  <2> QED BY <1>4, <2>1, SharesKeep DEF Counted
<1> QED BY <1>4, <1>5, <1>6 DEF Counted

LEMMA AllStay ==
  ASSUME Typed, Typed', Counted, Recorded,
         \A o \in Orders : \A j \in 1..Len(Lines[o]) : LineStays(o, j),
         \A c \in Counters :
           /\ Clean(c)' => /\ counter'[c].held = counter[c].held
                           /\ counter'[c].sold = counter[c].sold
           /\ c \in Products =>
                counter'[c].quota = counter[c].quota \/ counter'[c].quota <= Limit[c],
         crashes' >= crashes
  PROVE  /\ Counted'
         /\ \A c : Quiet(c)
<1>1. \A o \in Orders : \A j \in 1..Len(Lines[o]) : Clean(Lines[o][j])' =>
        /\ HeldBy(o, j)' = HeldBy(o, j) /\ SoldBy(o, j)' = SoldBy(o, j)
        /\ FirstBy(o, j)' <= FirstBy(o, j)
  <2>1. \A o \in Orders : \A j : FirstBy(o, j) \in Nat
    BY ByAre
  <2> QED BY <2>1, StaysDoes
<1>2. Counted'
  BY <1>1, SumsStay
<1>3. \A c : Quiet(c)
  BY AtIs DEF Quiet, LineStays
<1> QED BY <1>2, <1>3

\* One line counts for h more in held, s more in sold, and so does its counter.
LEMMA OneMoves ==
  ASSUME Typed, Typed', Counted, Recorded, NEW o \in Orders, NEW j \in 1..Len(Lines[o]),
         NEW h \in Int, NEW s \in Int,
         Clean(Lines[o][j])' =>
           HeldBy(o, j)' = HeldBy(o, j) + h /\ SoldBy(o, j)' = SoldBy(o, j) + s,
         \A x \in Orders : \A i \in 1..Len(Lines[x]) : x # o \/ i # j => LineStays(x, i),
         \A c \in Counters :
           /\ Clean(c)' =>
                /\ counter'[c].held =
                     IF c = Lines[o][j] THEN counter[c].held + h ELSE counter[c].held
                /\ counter'[c].sold =
                     IF c = Lines[o][j] THEN counter[c].sold + s ELSE counter[c].sold
           /\ counter'[c].quota = counter[c].quota,
         \/ h + s <= 0
         \/ Lines[o][j] \in Products =>
              counter[Lines[o][j]].sold + counter[Lines[o][j]].held + h + s <= Limit[Lines[o][j]],
         \/ Clean(Lines[o][j])' => FirstBy(o, j)' <= FirstBy(o, j)
         \/ Lines[o][j] \in Shares =>
              counter[Lines[o][j]].sold + counter[Lines[o][j]].held + h + s <= Limit[Lines[o][j]],
         UNCHANGED crashes
  PROVE  Counted'
<1>1. \A x \in Orders : \A i \in 1..Len(Lines[x]) :
        (x # o \/ i # j) /\ Clean(Lines[x][i])' =>
        /\ HeldBy(x, i)' = HeldBy(x, i) /\ SoldBy(x, i)' = SoldBy(x, i)
        /\ FirstBy(x, i)' = FirstBy(x, i)
  BY StaysDoes
<1>10. \A c : Clean(c)' => Clean(c)
  BY CleanStays
<1>2. \A c \in Counters : Clean(c)' =>
           /\ HeldSum(c)' = IF c = Lines[o][j] THEN HeldSum(c) + h ELSE HeldSum(c)
           /\ SoldSum(c)' = IF c = Lines[o][j] THEN SoldSum(c) + s ELSE SoldSum(c)
  <2>1. \A x \in Orders : \A i \in 1..Len(Lines[x]) :
          (x # o \/ i # j) /\ Clean(Lines[x][i])' =>
          HeldBy(x, i)' = HeldBy(x, i) /\ SoldBy(x, i)' = SoldBy(x, i)
    BY <1>1
  <2>2. /\ Clean(Lines[o][j])' =>
             HeldBy(o, j)' = HeldBy(o, j) + h /\ SoldBy(o, j)' = SoldBy(o, j) + s
        /\ o \in Orders /\ j \in 1..Len(Lines[o]) /\ h \in Int /\ s \in Int
    OBVIOUS
  <2> QED BY ONLY <2>1, <2>2, OneLineMoves
<1>3. \A c \in Counters : /\ counter[c].held \in Nat /\ counter[c].sold \in Nat
                          /\ HeldSum(c) \in Nat /\ SoldSum(c) \in Nat
                          /\ Limit[c] \in Nat
  BY TypedAre, SumsAre, CountersAre
<1>4. CountersHold'
  BY <1>2, <1>3, <1>10 DEF Counted, CountersHold
<1>5. CountersSold'
  BY <1>2, <1>3, <1>10 DEF Counted, CountersSold
<1>6. WithinQuota'
  <2>4. \A c \in Products : counter'[c].quota <= Limit[c]
    BY CountersAre DEF Counted, WithinQuota
  <2> SUFFICES ASSUME NEW c \in Products, Clean(c)'
               PROVE  counter'[c].sold + counter'[c].held <= Limit[c]
    BY <2>4 DEF WithinQuota
  <2>1. /\ c \in Counters
        /\ counter[c].sold + counter[c].held <= Limit[c]
    BY <1>10, CountersAre DEF Counted, WithinQuota
  <2>2. CASE c = Lines[o][j]
    <3>1. counter'[c].held = counter[c].held + h /\ counter'[c].sold = counter[c].sold + s
      BY <2>1, <2>2
    <3>2. \/ h + s <= 0
          \/ counter[c].sold + counter[c].held + h + s <= Limit[c]
      BY <2>2
    <3> QED BY <1>3, <2>1, <3>1, <3>2
  <2>3. CASE c # Lines[o][j]
    BY <2>1, <2>3
  <2> QED BY <2>2, <2>3
<1>7. WithinShare'
  <2> SUFFICES ASSUME NEW c \in Shares, Clean(c)'
               PROVE  \/ \A x \in Orders : IsLine(x, c) =>
                           FirstBy(x, At(x, c))' <= FirstBy(x, At(x, c))
                      \/ counter'[c].sold + counter'[c].held <= Limit[c]
    BY <1>4, <1>5, SharesKeep DEF Counted
  <2>1. c \in Counters
    BY CountersAre
  <2>2. \A x \in Orders : \A i : FirstBy(x, i) \in Nat
    BY ByAre
  <2>3. CASE c = Lines[o][j] /\ ~(FirstBy(o, j)' <= FirstBy(o, j))
    <3>1. counter'[c].held = counter[c].held + h /\ counter'[c].sold = counter[c].sold + s
      BY <2>1, <2>3
    <3>2. counter[c].sold + counter[c].held + h + s <= Limit[c]
      BY <2>3
    <3> QED BY <1>3, <2>1, <3>1, <3>2
  <2>4. CASE ~(c = Lines[o][j] /\ ~(FirstBy(o, j)' <= FirstBy(o, j)))
    BY <1>1, <2>2, <2>4, AtIs
  <2> QED BY <2>3, <2>4
<1> QED BY <1>4, <1>5, <1>6, <1>7 DEF Counted

\* A counter that rises disturbs; every other is quiet.
LEMMA OneQuiet ==
  ASSUME Typed, NEW o \in Orders, NEW j \in 1..Len(Lines[o]),
         \A x \in Orders : \A i \in 1..Len(Lines[x]) : x # o \/ i # j => LineStays(x, i),
         \/ counter'[Lines[o][j]].held > counter[Lines[o][j]].held
         \/ /\ BuyHolds(o, j)' => BuyHolds(o, j)
            /\ OrderHolds(o, j)' => OrderHolds(o, j)
         \/ ~Clean(Lines[o][j])'
  PROVE  \A c \in Counters : Quiet(c) \/ counter'[c].held > counter[c].held
  BY AtIs DEF Quiet, LineStays

\* What a worker found stays so.
LEMMA FoundStays ==
  ASSUME Typed, Typed', Recorded, OpsQuiet, NEW w \in Workers, NEW c \in Counters,
         work'[w].snap[c] > 0, c \notin stirred', Clean(c)', Found(w, c),
         Quiet(c) \/ counter'[c].held > counter[c].held,
         work'[w].asked = work[w].asked, work'[w].pending = work[w].pending,
         work'[w].want[c] = work[w].want[c]
  PROVE  Found(w, c)'
<1>1. /\ ~(counter'[c].held > counter[c].held)
      /\ \A o \in Orders : IsLine(o, c) => order'[o].n = order[o].n
  BY DEF Recorded, Stirs, IsLine
<1>2. counter'[c].held \in Nat /\ counter[c].held \in Nat
  BY DEF Typed, HandlersTyped, Counter
<1>3. Quiet(c)
  BY <1>1, <1>2
<1>4. \A o \in Orders : IsLine(o, c) => ~BuyHolds(o, At(o, c)) /\ ~BuyHolds(o, At(o, c))'
  BY <1>3 DEF Found, Quiet
<1>5. OrderSum(c)' <= OrderSum(c)
  <2>1. \A o \in Orders : OrderPart(c)'[o] <= OrderPart(c)[o]
    <3>1. \A o \in Orders : Qty[o] \in Nat
      BY LinesAre
    <3> QED BY <1>3, <1>4, <3>1 DEF OrderPart, Quiet, Uses
  <2>2. \A o \in Orders : OrderPart(c)'[o] \in Int /\ OrderPart(c)[o] \in Int
    BY PartsAre
  <2> QED BY <2>1, <2>2, OrdersFinite, SumAtMost DEF OrderSum
<1>6. OrderSum(c) \in Nat /\ OrderSum(c)' \in Nat /\ work[w].want[c] \in Nat
  BY SumsAre, TypedAre
<1>7. "held" \in work'[w].asked => OrderSum(c)' <= work'[w].want[c]
  BY <1>5, <1>6 DEF Found
<1>8. "pending" \in work'[w].asked /\ c \notin work'[w].pending =>
        \A o \in Orders : IsLine(o, c) => order'[o].op = None
  BY <1>1 DEF Found, OpsQuiet
<1> QED BY <1>4, <1>7, <1>8 DEF Found

\* What the third layer needs of a step besides the counters.
LEMMA Tallies ==
  ASSUME Typed, Typed', Tallied, Recorded, OpsQuiet, UNCHANGED work, Counted', RunsApply',
         \A c \in Counters : Quiet(c) \/ counter'[c].held > counter[c].held
  PROVE  Tallied'
<1>1. SnapsFound'
  <2> SUFFICES ASSUME NEW w \in Workers, NEW c \in Counters, work'[w].snap[c] > 0,
                      c \notin stirred', Clean(c)'
               PROVE  Found(w, c)'
    BY DEF SnapsFound
  <2>1. work[w].snap[c] > 0 /\ Found(w, c)
    BY CleanStays DEF Recorded, Tallied, SnapsFound
  <2>2. Quiet(c) \/ counter'[c].held > counter[c].held
    OBVIOUS
  <2> QED BY <2>1, <2>2, FoundStays
<1> QED BY <1>1 DEF Tallied, Counted

LEMMA OpKeeps ==
  ASSUME NEW x \in Orders, NEW i, order'[x].op = order[x].op,
         counter'[Lines[x][i]].ops = counter[Lines[x][i]].ops
  PROVE  OpHolds(x, i)' <=> OpHolds(x, i)
  BY DEF OpHolds

LEMMA OrderKeeps ==
  ASSUME NEW x \in Orders, NEW i, order'[x].state = order[x].state,
         \A k \in Calls : /\ Reclaims(k, x)' <=> Reclaims(k, x)
                          /\ Reclaims(k, x) => call'[k] = call[k]
  PROVE  OrderHolds(x, i)' <=> OrderHolds(x, i)
  BY DEF OrderHolds, HasBack

LEMMA BuyKeeps ==
  ASSUME NEW x, NEW i, buy'[x] = buy[x]
  PROVE  BuyHolds(x, i)' <=> BuyHolds(x, i)
  BY DEF BuyHolds, Buying

LEMMA LineKeeps ==
  ASSUME NEW x \in Orders, NEW i, buy'[x] = buy[x],
         order'[x].op = order[x].op, order'[x].state = order[x].state,
         order'[x].n = order[x].n,
         counter'[Lines[x][i]].ops = counter[Lines[x][i]].ops,
         \A k \in Calls : /\ Reclaims(k, x)' <=> Reclaims(k, x)
                          /\ Reclaims(k, x) => call'[k] = call[k]
  PROVE  LineStays(x, i)
<1>1. OpHolds(x, i)' <=> OpHolds(x, i)
  BY OpKeeps
<1> QED BY <1>1, OrderKeeps, BuyKeeps DEF LineStays, SoldAt

LEMMA RunsKeep ==
  ASSUME Recorded, RunsApply, UNCHANGED run,
         \A o \in Orders : \A j \in 1..Len(Lines[o]) : Clean(Lines[o][j])' =>
           (OpHolds(o, j)' => OpHolds(o, j))
  PROVE  RunsApply'
  BY CleanStays DEF RunsApply

\* A step of a checkout that does not save its order.
LEMMA BuyingStays ==
  ASSUME Typed, Recorded, NEW o \in Orders, UNCHANGED <<order, call, run>>,
         \A x \in Orders \ {o} : buy'[x] = buy[x],
         \A c \in Counters : counter'[c].ops = counter[c].ops
  PROVE  /\ \A x \in Orders \ {o} : \A i \in 1..Len(Lines[x]) : LineStays(x, i)
         /\ \A i \in 1..Len(Lines[o]) :
              /\ OrderHolds(o, i)' <=> OrderHolds(o, i)
              /\ OpHolds(o, i)' <=> OpHolds(o, i)
              /\ SoldAt(o, i)' <=> SoldAt(o, i)
              /\ order'[o].n = order[o].n
              /\ (BuyHolds(o, i)' <=> BuyHolds(o, i)) => LineStays(o, i)
         /\ OpsQuiet
         /\ RunsApply => RunsApply'
<1>1. \A x \in Orders : \A i \in 1..Len(Lines[x]) :
        /\ counter'[Lines[x][i]].ops = counter[Lines[x][i]].ops
        /\ order'[x] = order[x]
        /\ \A k \in Calls : /\ Reclaims(k, x)' <=> Reclaims(k, x)
                            /\ Reclaims(k, x) => call'[k] = call[k]
  BY LinesAre DEF Reclaims, Reclaiming
<1>2. \A x \in Orders \ {o} : \A i \in 1..Len(Lines[x]) : LineStays(x, i)
  BY <1>1, LineKeeps
<1>3. \A x \in Orders : \A i \in 1..Len(Lines[x]) :
        /\ OrderHolds(x, i)' <=> OrderHolds(x, i)
        /\ OpHolds(x, i)' <=> OpHolds(x, i)
  BY <1>1, OpKeeps, OrderKeeps
<1>4. \A i \in 1..Len(Lines[o]) : SoldAt(o, i)' <=> SoldAt(o, i)
  BY <1>3 DEF SoldAt
<1>5. OpsQuiet
  BY DEF OpsQuiet
<1>6. RunsApply => RunsApply'
  BY <1>3, RunsKeep
<1> QED BY <1>2, <1>3, <1>4, <1>5, <1>6 DEF LineStays

\* One line of a checkout is taken or given back.
LEMMA BuyingMoves ==
  ASSUME Typed, NEW o \in Orders, NEW j \in 1..Len(Lines[o]),
         OrderHolds(o, j)' <=> OrderHolds(o, j), OpHolds(o, j)' <=> OpHolds(o, j),
         SoldAt(o, j)' <=> SoldAt(o, j), order'[o].n = order[o].n,
         BuyHolds(o, j)' <=> ~BuyHolds(o, j)
  PROVE  /\ SoldBy(o, j)' = SoldBy(o, j)
         /\ BuyHolds(o, j) => /\ HeldBy(o, j)' = HeldBy(o, j) - Qty[o]
                              /\ FirstBy(o, j)' <= FirstBy(o, j)
         /\ ~BuyHolds(o, j) => HeldBy(o, j)' = HeldBy(o, j) + Qty[o]
  BY LinesAre DEF HeldBy, SoldBy, FirstBy, Uses

LEMMA TalliedTake ==
  ASSUME Typed, Typed', Kept, Tallied, Recorded, NEW o \in Orders, Take(o)
  PROVE  Tallied'
<1>1. /\ UNCHANGED <<order, call, run, work, crashes>>
      /\ buy[o].pc = "take" /\ buy[o].n = buy[o].i - 1
      /\ buy[o].i \in 1..Len(Lines[o])
  BY TakeDoes
<1>2. PICK j \in 1..Len(Lines[o]) : j = buy[o].i
  BY <1>1
<1>3. PICK c \in Counters : c = Lines[o][j]
  BY LinesAre
<1>4. PICK q \in Nat : q = Qty[o] /\ q > 0
  BY LinesAre
<1>5. Counted /\ RunsApply /\ crashes \in Nat
  BY TypedAre DEF Tallied, Counted
<1>6. CASE /\ Moves(c, q)
           /\ HasRoom(c, q, IF c \in Products THEN counter[c].quota ELSE Limit[c])
           /\ \E pc : Onward(o, pc, j + 1) /\ BuyMoves(o, pc, j + 1, j)
  <2>1. PICK pc : Onward(o, pc, j + 1) /\ BuyMoves(o, pc, j + 1, j)
    BY <1>6
  <2>2. /\ \A x \in Orders \ {o} : buy'[x] = buy[x]
        /\ \A d \in Counters : counter'[d].ops = counter[d].ops
    BY <1>6, <2>1 DEF BuyMoves, Moves
  <2>3. \A i \in 1..Len(Lines[o]) :
          BuyHolds(o, i)' <=> (i = j \/ BuyHolds(o, i))
    BY <1>1, <1>2, <2>1, LinesAre DEF BuyHolds, Buying, BuyMoves, Onward
  <2>4. ~BuyHolds(o, j)
    BY <1>1, <1>2 DEF BuyHolds
  <2>5. \A x \in Orders : \A i \in 1..Len(Lines[x]) : x # o \/ i # j => LineStays(x, i)
    BY <1>1, <2>2, <2>3, BuyingStays
  <2>6. HeldBy(o, j)' = HeldBy(o, j) + q /\ SoldBy(o, j)' = SoldBy(o, j) + 0
    <3>1. SoldBy(o, j) \in Nat
      BY ByAre
    <3> QED BY <1>1, <1>4, <2>2, <2>3, <2>4, <3>1, BuyingStays, BuyingMoves
  <2>7. counter[c].sold + counter[c].held + q + 0 <= Limit[c]
    <3>1. /\ counter[c].sold \in Nat /\ counter[c].held \in Nat /\ counter[c].quota \in Nat
          /\ Limit[c] \in Nat
          /\ c \in Products => counter[c].quota <= Limit[c]
      BY <1>5, TypedAre, CountersAre DEF Counted, WithinQuota
    <3> QED BY <1>6, <3>1 DEF HasRoom
  <2>8. \A d \in Counters :
           /\ counter'[d].held =
                IF d = Lines[o][j] THEN counter[d].held + q ELSE counter[d].held
           /\ counter'[d].sold =
                IF d = Lines[o][j] THEN counter[d].sold + 0 ELSE counter[d].sold
           /\ counter'[d].quota = counter[d].quota
    <3>1. \A d \in Counters : counter[d].sold \in Nat
      BY TypedAre
    <3> QED BY <1>3, <1>6, <3>1 DEF Moves
  <2>9. Counted'
    <3>1. /\ q \in Int /\ 0 \in Int
          /\ counter[Lines[o][j]].sold + counter[Lines[o][j]].held + q + 0 <= Limit[Lines[o][j]]
      BY <1>3, <2>7
    <3> QED BY <1>1, <1>5, <2>5, <2>6, <2>8, <3>1, OneMoves
  <2>10. \A d \in Counters : Quiet(d) \/ counter'[d].held > counter[d].held
    <3>1. counter'[Lines[o][j]].held > counter[Lines[o][j]].held
      BY <1>3, <1>4, <2>8, TypedAre
    <3> QED BY <2>5, <3>1, OneQuiet
  <2>11. OpsQuiet /\ RunsApply'
    BY <1>1, <1>5, <2>2, BuyingStays
  <2> QED BY <1>1, <2>9, <2>10, <2>11, Tallies
<1>7. CASE UNCHANGED counter /\ BuyMoves(o, "undo", 1, buy[o].n)
  <2>1. /\ \A x \in Orders \ {o} : buy'[x] = buy[x]
        /\ \A d \in Counters : counter'[d].ops = counter[d].ops
    BY <1>7 DEF BuyMoves
  <2>2. \A i \in 1..Len(Lines[o]) : (BuyHolds(o, i)' <=> BuyHolds(o, i))
    BY <1>1, <1>7 DEF BuyHolds, Buying, BuyMoves
  <2>3. \A x \in Orders : \A i \in 1..Len(Lines[x]) : LineStays(x, i)
    BY <1>1, <2>1, <2>2, BuyingStays
  <2>4. Counted' /\ \A d : Quiet(d)
    BY <1>1, <1>5, <1>7, <2>3, AllStay
  <2>5. OpsQuiet /\ RunsApply'
    BY <1>1, <1>5, <2>1, BuyingStays
  <2> QED BY <1>1, <2>4, <2>5, Tallies
<1> QED BY <1>2, <1>3, <1>4, <1>6, <1>7, TakeDoes DEF BuyStep

LEMMA TalliedUndo ==
  ASSUME Typed, Typed', Kept, Tallied, Recorded, NEW o \in Orders, Undo(o)
  PROVE  Tallied'
<1>1. /\ UNCHANGED <<order, call, run, work, crashes>>
      /\ buy[o].pc = "undo" /\ buy[o].i \in Nat /\ buy[o].n \in Nat
  BY UndoDoes, TypedAre
<1>4. PICK q \in Nat : q = Qty[o] /\ q > 0
  BY LinesAre
<1>5. Counted /\ RunsApply /\ crashes \in Nat
  BY TypedAre DEF Tallied, Counted
<1>6. CASE buy[o].i > buy[o].n
  <2>1. UNCHANGED counter /\ BuyMoves(o, "over", 1, 0)
    BY <1>1, <1>6, UndoDoes
  <2>2. /\ \A x \in Orders \ {o} : buy'[x] = buy[x]
        /\ \A d \in Counters : counter'[d].ops = counter[d].ops
    BY <2>1 DEF BuyMoves
  <2>3. \A i \in 1..Len(Lines[o]) : (BuyHolds(o, i)' <=> BuyHolds(o, i))
    BY <1>1, <1>6, <2>1 DEF BuyHolds, Buying, BuyMoves
  <2>4. \A x \in Orders : \A i \in 1..Len(Lines[x]) : LineStays(x, i)
    BY <1>1, <2>2, <2>3, BuyingStays
  <2>5. Counted' /\ \A d : Quiet(d)
    BY <1>1, <1>5, <2>1, <2>4, AllStay
  <2>6. OpsQuiet /\ RunsApply'
    BY <1>1, <1>5, <2>2, BuyingStays
  <2> QED BY <1>1, <2>5, <2>6, Tallies
<1>7. CASE ~(buy[o].i > buy[o].n)
  <2>1. /\ buy[o].i \in 1..Len(Lines[o])
        /\ BuyMoves(o, "undo", buy[o].i + 1, buy[o].n)
        /\ \/ Moves(Lines[o][buy[o].i], -Qty[o])
           \/ counter[Lines[o][buy[o].i]].held < Qty[o] /\ UNCHANGED counter
    BY <1>1, <1>7, UndoDoes
  <2>2. PICK j \in 1..Len(Lines[o]) : j = buy[o].i
    BY <2>1
  <2>3. PICK c \in Counters : c = Lines[o][j]
    BY LinesAre
  <2>4. BuyHolds(o, j)
    BY <1>1, <1>7, <2>2 DEF BuyHolds, Buying
  <2>5. Clean(c)' => Moves(c, -q)
    <3> HAVE Clean(c)'
    <3>1. HeldBy(o, j) <= counter[c].held
      BY <1>5, <2>3, CleanStays, LineIsHeld DEF Counted
    <3>2. HeldBy(o, j) >= q
      BY <1>4, <2>4 DEF HeldBy, Uses
    <3>3. HeldBy(o, j) \in Nat /\ counter[c].held \in Nat
      BY ByAre, TypedAre
    <3> QED BY <1>4, <2>1, <2>2, <2>3, <3>1, <3>2, <3>3
  <2>6. /\ \A x \in Orders \ {o} : buy'[x] = buy[x]
        /\ \A d \in Counters : counter'[d].ops = counter[d].ops
    BY <2>1 DEF BuyMoves, Moves
  <2>7. \A i \in 1..Len(Lines[o]) : BuyHolds(o, i)' <=> (i # j /\ BuyHolds(o, i))
    BY <1>1, <2>1, <2>2, LinesAre DEF BuyHolds, Buying, BuyMoves
  <2>8. \A x \in Orders : \A i \in 1..Len(Lines[x]) : x # o \/ i # j => LineStays(x, i)
    BY <1>1, <2>6, <2>7, BuyingStays
  <2>9. HeldBy(o, j)' = HeldBy(o, j) + (-q) /\ SoldBy(o, j)' = SoldBy(o, j) + 0
        /\ FirstBy(o, j)' <= FirstBy(o, j)
    <3>1. SoldBy(o, j) \in Nat /\ HeldBy(o, j) \in Nat
      BY ByAre
    <3> QED BY <1>1, <1>4, <2>4, <2>6, <2>7, <3>1, BuyingStays, BuyingMoves
  <2>10. \A d \in Counters :
           /\ Clean(d)' =>
                /\ counter'[d].held =
                     IF d = Lines[o][j] THEN counter[d].held + (-q) ELSE counter[d].held
                /\ counter'[d].sold =
                     IF d = Lines[o][j] THEN counter[d].sold + 0 ELSE counter[d].sold
           /\ counter'[d].quota = counter[d].quota
    <3>1. \A d \in Counters : counter[d].sold \in Nat
      BY TypedAre
    <3>2. CASE Moves(c, -q)
      BY <2>3, <3>1, <3>2 DEF Moves
    <3>3. CASE UNCHANGED counter /\ ~Moves(c, -q)
      BY <2>3, <2>5, <3>1, <3>3
    <3> QED BY <1>4, <2>1, <2>2, <2>3, <3>2, <3>3
  <2>11. Counted'
    <3>1. -q \in Int /\ 0 \in Int /\ (-q) + 0 <= 0
      BY <1>4
    <3> QED BY <1>1, <1>5, <2>8, <2>9, <2>10, <3>1, OneMoves
  <2>12. \A d \in Counters : Quiet(d) \/ counter'[d].held > counter[d].held
    <3>1. /\ BuyHolds(o, j)' => BuyHolds(o, j)
          /\ OrderHolds(o, j)' => OrderHolds(o, j)
      BY <1>1, <2>4, <2>6, BuyingStays
    <3> QED BY <2>8, <3>1, OneQuiet
  <2>13. OpsQuiet /\ RunsApply'
    BY <1>1, <1>5, <2>6, BuyingStays
  <2> QED BY <1>1, <2>11, <2>12, <2>13, Tallies
<1> QED BY <1>6, <1>7

LEMMA BuyingKeeps ==
  ASSUME Typed, Typed', Tallied, Recorded, NEW o \in Orders,
         UNCHANGED <<order, call, run, work, crashes>>,
         \A x \in Orders \ {o} : buy'[x] = buy[x],
         \A c \in Counters :
           /\ counter'[c].held = counter[c].held /\ counter'[c].sold = counter[c].sold
           /\ counter'[c].ops = counter[c].ops
           /\ c \in Products =>
                counter'[c].quota = counter[c].quota \/ counter'[c].quota <= Limit[c],
         \A i \in 1..Len(Lines[o]) : BuyHolds(o, i)' <=> BuyHolds(o, i)
  PROVE  Tallied'
<1>1. \A c \in Counters : counter'[c].ops = counter[c].ops
  OBVIOUS
<1>2. \A x \in Orders : \A i \in 1..Len(Lines[x]) : LineStays(x, i)
  BY <1>1, BuyingStays
<1>3. crashes' >= crashes /\ Counted /\ RunsApply
  BY TypedAre DEF Tallied, Counted
<1>4. Counted' /\ \A d : Quiet(d)
  BY <1>2, <1>3, AllStay
<1>5. OpsQuiet /\ RunsApply'
  BY <1>1, <1>3, BuyingStays
<1> QED BY <1>4, <1>5, Tallies

LEMMA TalliedSave ==
  ASSUME Typed, Typed', Kept, Tallied, Recorded, NEW o \in Orders, Save(o)
  PROVE  Tallied'
<1>1. /\ UNCHANGED <<counter, call, run, work, crashes>>
      /\ buy[o].pc = "taken"
      /\ BuyMoves(o, "over", 1, 0)
      /\ \A x \in Orders \ {o} : order'[x] = order[x]
      /\ order'[o].state = "held"
      /\ order'[o].op = order[o].op /\ order'[o].n = order[o].n
  BY SaveDoes
<1>2. order[o].state = "none" /\ order[o].n = 0 /\ order[o].op = None
  <2>1. OrderKept(o)
    BY DEF Kept, OrdersKept
  <2>2. order[o].state = "none"
    BY <1>1, <2>1 DEF OrderKept
  <2> QED BY <2>1, <2>2 DEF OrderKept
<1>3. \A k \in Calls : ~Reclaims(k, o)
  BY <1>2 DEF Kept, CallsKept, Reclaims, Reclaiming
<1>4. Counted /\ RunsApply /\ crashes' >= crashes
  BY <1>1, TypedAre DEF Tallied, Counted
<1>5. \A x \in Orders \ {o} : \A i \in 1..Len(Lines[x]) : LineStays(x, i)
  <2>1. \A x \in Orders \ {o} : buy'[x] = buy[x]
    BY <1>1 DEF BuyMoves
  <2>2. \A k \in Calls, x \in Orders : Reclaims(k, x)' <=> Reclaims(k, x)
    BY <1>1 DEF Reclaims, Reclaiming
  <2> QED BY <1>1, <2>1, <2>2, LineKeeps
<1>6. \A i \in 1..Len(Lines[o]) : BuyHolds(o, i) /\ ~BuyHolds(o, i)'
  BY <1>1, LinesAre DEF BuyHolds, Buying, BuyMoves, Typed, BuyPlaced
<1>7. \A i : ~OrderHolds(o, i) /\ OrderHolds(o, i)'
  BY <1>1, <1>2, <1>3 DEF OrderHolds, Reclaims, Reclaiming
<1>8. \A i : ~OpHolds(o, i) /\ ~OpHolds(o, i)' /\ ~SoldAt(o, i) /\ ~SoldAt(o, i)'
  BY <1>1, <1>2 DEF OpHolds, SoldAt
<1>9. \A i \in 1..Len(Lines[o]) :
        /\ HeldBy(o, i)' = HeldBy(o, i) /\ SoldBy(o, i)' = SoldBy(o, i)
        /\ FirstBy(o, i)' <= FirstBy(o, i)
  BY <1>1, <1>2, <1>6, <1>7, <1>8, LinesAre DEF HeldBy, SoldBy, FirstBy, Uses
<1>10. Counted'
  <2>1. \A x \in Orders : \A i \in 1..Len(Lines[x]) : Clean(Lines[x][i])' =>
          /\ HeldBy(x, i)' = HeldBy(x, i) /\ SoldBy(x, i)' = SoldBy(x, i)
          /\ FirstBy(x, i)' <= FirstBy(x, i)
    BY <1>5, <1>9, ByAre, StaysDoes
  <2> QED BY <1>1, <1>4, <2>1, SumsStay
<1>11. \A c : Quiet(c)
  BY <1>5, <1>6, <1>7, AtIs DEF Quiet, LineStays
<1>12. OpsQuiet
  BY <1>1 DEF OpsQuiet
<1>13. RunsApply'
  <2>1. \A x \in Orders : \A i \in 1..Len(Lines[x]) : Clean(Lines[x][i])' =>
          (OpHolds(x, i)' => OpHolds(x, i))
    BY <1>5, <1>8 DEF LineStays
  <2> QED BY <1>1, <1>4, <2>1, RunsKeep
<1> QED BY <1>1, <1>10, <1>11, <1>12, <1>13, Tallies

\* A checkout that died holds nothing any more, but its counters do.
LEMMA TalliedBuyCrash ==
  ASSUME Typed, Typed', Kept, Tallied, Recorded, NEW o \in Orders, BuyCrash(o)
  PROVE  Tallied'
<1>1. /\ UNCHANGED <<counter, order, call, run, work>>
      /\ crashes' = crashes + 1
      /\ BuyMoves(o, "crashed", 1, 0)
  BY BuyCrashDoes
<1>2. Counted /\ RunsApply /\ crashes \in Nat
  BY TypedAre DEF Tallied, Counted
<1>3. \A x \in Orders \ {o} : buy'[x] = buy[x]
  BY <1>1 DEF BuyMoves
<1>4. \A c \in Counters : counter'[c].ops = counter[c].ops
  BY <1>1
<1>5. \A i : ~BuyHolds(o, i)'
  BY <1>1 DEF BuyHolds, Buying, BuyMoves
<1>6. /\ \A x \in Orders \ {o} : \A i \in 1..Len(Lines[x]) : LineStays(x, i)
      /\ \A i \in 1..Len(Lines[o]) :
           /\ OrderHolds(o, i)' <=> OrderHolds(o, i)
           /\ OpHolds(o, i)' <=> OpHolds(o, i)
           /\ SoldAt(o, i)' <=> SoldAt(o, i)
           /\ order'[o].n = order[o].n
      /\ OpsQuiet /\ RunsApply'
  BY <1>1, <1>2, <1>3, <1>4, BuyingStays
<1>7. \A x \in Orders : \A i \in 1..Len(Lines[x]) : Clean(Lines[x][i])' =>
        /\ HeldBy(x, i)' <= HeldBy(x, i) /\ SoldBy(x, i)' = SoldBy(x, i)
        /\ FirstBy(x, i)' <= FirstBy(x, i)
  <2>1. \A i \in 1..Len(Lines[o]) :
          /\ HeldBy(o, i)' <= HeldBy(o, i) /\ SoldBy(o, i)' = SoldBy(o, i)
          /\ FirstBy(o, i)' <= FirstBy(o, i)
    BY <1>5, <1>6, LinesAre DEF HeldBy, SoldBy, FirstBy, Uses
  <2>2. \A x \in Orders \ {o} : \A i \in 1..Len(Lines[x]) : Clean(Lines[x][i])' =>
          /\ HeldBy(x, i)' = HeldBy(x, i) /\ SoldBy(x, i)' = SoldBy(x, i)
          /\ FirstBy(x, i)' = FirstBy(x, i)
    BY <1>6, StaysDoes
  <2>3. \A x \in Orders : \A i : HeldBy(x, i) \in Nat /\ FirstBy(x, i) \in Nat
    BY ByAre
  <2> QED BY <2>1, <2>2, <2>3
<1>13. \A c : Clean(c)' => Clean(c)
  BY CleanStays
<1>8. CountersHold'
  <2>1. \A c \in Counters : /\ Clean(c)' => HeldSum(c)' <= HeldSum(c)
                            /\ HeldSum(c)' \in Nat /\ HeldSum(c) \in Nat
                            /\ counter[c].held \in Nat
    BY <1>7, LinesFall, SumsAre, TypedAre
  <2>2. crashes' # 0
    BY <1>1, <1>2
  <2> QED BY <1>1, <1>2, <1>13, <2>1, <2>2 DEF Counted, CountersHold
<1>9. CountersSold'
  <2>1. \A c \in Counters : Clean(c)' => SoldSum(c)' = SoldSum(c)
    <3> TAKE c \in Counters
    <3> HAVE Clean(c)'
    <3>1. \A x \in Orders : SoldPart(c)'[x] = SoldPart(c)[x]
      BY <1>7, AtIs DEF SoldPart
    <3> QED BY <3>1, OrdersFinite, SumSame DEF SoldSum
  <2> QED BY <1>1, <1>2, <1>13, <2>1 DEF Counted, CountersSold
<1>10. WithinQuota'
  BY <1>1, <1>2, <1>13 DEF Counted, WithinQuota
<1>11. WithinShare'
  <2>1. \A x \in Orders : \A c : IsLine(x, c) /\ Clean(c)' => FirstBy(x, At(x, c))' <= FirstBy(x, At(x, c))
    BY <1>7, AtIs
  <2> QED BY <1>2, <1>8, <1>9, <2>1, SharesKeep DEF Counted
<1>12. \A c : Quiet(c)
  BY <1>5, <1>6, AtIs DEF Quiet, LineStays
<1> QED BY <1>1, <1>6, <1>8, <1>9, <1>10, <1>11, <1>12, Tallies DEF Counted

LEMMA TalliedCheckout ==
  ASSUME Typed, Typed', Kept, Tallied, Recorded, NEW o \in Orders,
         BuyNextStep(o) \/ BuyCrash(o)
  PROVE  Tallied'
<1>1. CASE Start(o)
  <2>1. PICK pc : Onward(o, pc, 1) /\ BuyMoves(o, pc, 1, 0)
    BY <1>1, StartDoes
  <2>2. UNCHANGED <<counter, order, call, run, work, crashes>> /\ buy[o].pc = "start"
    BY <1>1, StartDoes
  <2>3. \A i \in 1..Len(Lines[o]) : BuyHolds(o, i)' <=> BuyHolds(o, i)
    BY <2>1, <2>2 DEF BuyHolds, Buying, BuyMoves
  <2>4. \A x \in Orders \ {o} : buy'[x] = buy[x]
    BY <2>1 DEF BuyMoves
  <2> QED BY <2>2, <2>3, <2>4, BuyingKeeps
<1>2. CASE Ensure(o)
  <2>1. /\ UNCHANGED <<order, call, run, work, crashes>> /\ buy[o].pc = "ensure"
        /\ BuyMoves(o, "take", buy[o].i, buy[o].n)
    BY <1>2, EnsureDoes
  <2>2. \A c \in Counters :
           /\ counter'[c].held = counter[c].held /\ counter'[c].sold = counter[c].sold
           /\ counter'[c].ops = counter[c].ops
           /\ c \in Products =>
                counter'[c].quota = counter[c].quota \/ counter'[c].quota <= Limit[c]
    BY <1>2, EnsureDoes, CountersAre
  <2>3. \A i \in 1..Len(Lines[o]) : BuyHolds(o, i)' <=> BuyHolds(o, i)
    BY <2>1 DEF BuyHolds, Buying, BuyMoves
  <2>4. \A x \in Orders \ {o} : buy'[x] = buy[x]
    BY <2>1 DEF BuyMoves
  <2> QED BY <2>1, <2>2, <2>3, <2>4, BuyingKeeps
<1>3. CASE SaveFails(o)
  <2>1. /\ UNCHANGED <<counter, order, call, run, work, crashes>> /\ buy[o].pc = "taken"
        /\ BuyMoves(o, "undo", 1, buy[o].n)
    BY <1>3, SaveFailsDoes
  <2>3. \A i \in 1..Len(Lines[o]) : BuyHolds(o, i)' <=> BuyHolds(o, i)
    BY <2>1 DEF BuyHolds, Buying, BuyMoves
  <2>4. \A x \in Orders \ {o} : buy'[x] = buy[x]
    BY <2>1 DEF BuyMoves
  <2> QED BY <2>1, <2>3, <2>4, BuyingKeeps
<1> QED BY <1>1, <1>2, <1>3, TalliedTake, TalliedUndo, TalliedSave, TalliedBuyCrash
        DEF BuyNextStep

\* A line none of whose markers changes.
LEMMA LineMarks ==
  ASSUME NEW x \in Orders, NEW i, buy'[x] = buy[x],
         order'[x].op = order[x].op, order'[x].state = order[x].state,
         order'[x].n = order[x].n, UNCHANGED call,
         <<x, order[x].op.n, i>> \in counter'[Lines[x][i]].ops
           <=> <<x, order[x].op.n, i>> \in counter[Lines[x][i]].ops
  PROVE  LineStays(x, i)
<1>1. OpHolds(x, i)' <=> OpHolds(x, i)
  BY DEF OpHolds
<1>2. OrderHolds(x, i)' <=> OrderHolds(x, i)
  BY OrderKeeps DEF Reclaims, Reclaiming
<1> QED BY <1>1, <1>2, BuyKeeps DEF LineStays, SoldAt

LEMMA TalliedApply ==
  ASSUME Typed, Typed', Kept, Tallied, Recorded, NEW w \in Runners, Apply(w)
  PROVE  Tallied'
<1>1. /\ UNCHANGED <<order, buy, call, work, crashes>>
      /\ run[w].pc = "apply"
      /\ RunMoves(w, "apply", run[w].i + 1)
  BY ApplyDoes
<1>2. PICK o \in Orders : o = run[w].o
  BY ApplyDoes
<1>3. PICK i \in 1..Len(Lines[o]) : i = run[w].i
  BY <1>2, ApplyDoes
<1>4. PICK c \in Counters : c = Lines[o][i]
  BY LinesAre
<1>5. PICK q \in Nat : q = Qty[o] /\ q > 0
  BY LinesAre
<1>6. /\ order[o].op # None /\ order[o].op.phase = "apply"
      /\ o \notin torn => (run[w].op.target = "sold" <=> order[o].state = "sold")
      /\ Marker(w) = <<o, order[o].op.n, i>>
      /\ \A v \in Runners \ {w} : run[v].pc # "idle" => run[v].o \in Orders \ {o}
  BY <1>1, <1>2, <1>3
  DEF Kept, RunsKept, OrdersKept, OrderKept, RunsOn, Marker, Typed, RunPlaced
<1>7. Counted /\ RunsApply
  BY DEF Tallied, Counted
<1>8. OpsQuiet
  BY <1>1 DEF OpsQuiet
<1>9. ASSUME \A x \in Orders : \A m \in 1..Len(Lines[x]) : x # o \/ m # i => LineStays(x, m),
             Clean(Lines[o][i])' => ~OpHolds(o, i)'
      PROVE  RunsApply'
  <2> SUFFICES ASSUME NEW v \in Runners, NEW x \in Orders, run'[v].pc = "apply",
                      run'[v].o = x, NEW j \in 1..Len(Lines[x]), j < run'[v].i,
                      Clean(Lines[x][j])'
               PROVE  ~OpHolds(x, j)'
    BY DEF RunsApply
  <2>3. Clean(Lines[x][j])
    BY CleanStays
  <2>1. CASE v = w
    <3>1. x = o /\ run'[v].i = i + 1
      BY <1>1, <1>2, <1>3, <2>1 DEF RunMoves
    <3>2. CASE j = i
      BY <1>9, <3>1, <3>2
    <3>3. CASE j # i
      <4>1. j < i /\ j \in 1..Len(Lines[o])
        BY <3>1, <3>3, LinesAre
      <4>2. ~OpHolds(o, j)
        BY <1>1, <1>2, <1>3, <1>7, <2>3, <3>1, <4>1 DEF RunsApply
      <4> QED BY <1>9, <3>1, <3>3, <4>1, <4>2 DEF LineStays
    <3> QED BY <3>2, <3>3
  <2>2. CASE v # w
    <3>1. run'[v] = run[v]
      BY <1>1, <2>2 DEF RunMoves
    <3>2. x # o /\ run[v].o = x /\ run[v].pc = "apply" /\ j < run[v].i
      BY <1>6, <2>2, <3>1
    <3>3. ~OpHolds(x, j)
      BY <1>7, <2>3, <3>2 DEF RunsApply
    <3> QED BY <1>9, <3>2, <3>3 DEF LineStays
  <2> QED BY <2>1, <2>2
<1>10. CASE Applies(w, c, q)
  <2>1. \A x \in Orders : \A m \in 1..Len(Lines[x]) : x # o \/ m # i => LineStays(x, m)
    <3> SUFFICES ASSUME NEW x \in Orders, NEW m \in 1..Len(Lines[x]), x # o \/ m # i
                 PROVE  LineStays(x, m)
      OBVIOUS
    <3>1. PICK d \in Counters : d = Lines[x][m]
      BY LinesAre
    <3>2. counter'[d].ops = counter[d].ops \cup {Marker(w)} \/ counter'[d].ops = counter[d].ops
      BY <1>10 DEF Applies
    <3>3. <<x, order[x].op.n, m>> # Marker(w)
      BY <1>6
    <3> QED BY <1>1, <3>1, <3>2, <3>3, LineMarks
  <2>2. OpHolds(o, i)
    BY <1>4, <1>6, <1>10 DEF Applies, OpHolds
  <2>3. ~OpHolds(o, i)'
    <3>1. Marker(w) \in counter'[c].ops
      BY <1>10 DEF Applies
    <3> QED BY <1>1, <1>4, <1>6, <3>1 DEF OpHolds
  <2>4. /\ BuyHolds(o, i)' <=> BuyHolds(o, i)
        /\ OrderHolds(o, i)' <=> OrderHolds(o, i)
        /\ order'[o].n = order[o].n
    BY <1>1, BuyKeeps, OrderKeeps DEF Reclaims, Reclaiming
  <2>5. o \notin torn => ~SoldAt(o, i) /\ (SoldAt(o, i)' <=> run[w].op.target = "sold")
    BY <1>1, <1>6, <2>2, <2>3 DEF SoldAt
  <2>6. PICK s \in Int : s = IF run[w].op.target = "sold" THEN q ELSE 0
    BY <1>5
  <2>7. Clean(Lines[o][i])' =>
          /\ HeldBy(o, i)' = HeldBy(o, i) + (-q)
          /\ SoldBy(o, i)' = SoldBy(o, i) + s
          /\ FirstBy(o, i)' <= FirstBy(o, i)
    <3> HAVE Clean(Lines[o][i])'
    <3>3. o \notin torn
      BY CleanIs, CleanStays
    <3>4. ~SoldAt(o, i) /\ (SoldAt(o, i)' <=> run[w].op.target = "sold")
      BY <2>5, <3>3
    <3>1. CASE run[w].op.target = "sold"
      BY <1>5, <2>2, <2>3, <2>4, <2>6, <3>1, <3>4 DEF HeldBy, SoldBy, FirstBy, Uses
    <3>2. CASE run[w].op.target # "sold"
      BY <1>5, <2>2, <2>3, <2>4, <2>6, <3>2, <3>4 DEF HeldBy, SoldBy, FirstBy, Uses
    <3> QED BY <3>1, <3>2
  <2>8. \A d \in Counters :
           /\ counter'[d].held =
                IF d = Lines[o][i] THEN counter[d].held + (-q) ELSE counter[d].held
           /\ counter'[d].sold =
                IF d = Lines[o][i] THEN counter[d].sold + s ELSE counter[d].sold
           /\ counter'[d].quota = counter[d].quota
    <3>1. \A d \in Counters : counter[d].sold \in Nat /\ counter[d].held \in Nat
      BY TypedAre
    <3>2. CASE run[w].op.target = "sold"
      BY <1>4, <1>5, <1>10, <2>6, <3>1, <3>2 DEF Applies
    <3>3. CASE run[w].op.target # "sold"
      <4>1. s = 0
        BY <2>6, <3>3
      <4>2. \A d \in Counters :
              /\ counter'[d].held = IF d = c THEN counter[d].held - q ELSE counter[d].held
              /\ counter'[d].sold = counter[d].sold
              /\ counter'[d].quota = counter[d].quota
        BY <1>10, <3>3 DEF Applies
      <4> QED BY <1>4, <1>5, <3>1, <4>1, <4>2
    <3> QED BY <3>2, <3>3
  <2>9. Counted'
    <3>1. -q \in Int /\ (-q) + s <= 0
      BY <1>5, <2>6
    <3> QED BY <1>1, <1>7, <2>1, <2>7, <2>8, <3>1, OneMoves
  <2>10. \A d \in Counters : Quiet(d) \/ counter'[d].held > counter[d].held
    BY <2>1, <2>4, OneQuiet
  <2>11. RunsApply'
    BY <1>9, <2>1, <2>3
  <2> QED BY <1>1, <1>8, <2>9, <2>10, <2>11, Tallies
<1>11. CASE UNCHANGED counter /\ (counter[c].held < q \/ Marker(w) \in counter[c].ops)
  <2>1. \A x \in Orders : \A m \in 1..Len(Lines[x]) : LineStays(x, m)
    BY <1>1, <1>11, LineMarks
  <2>2. Clean(Lines[o][i])' => ~OpHolds(o, i)
    <3> SUFFICES ASSUME OpHolds(o, i), Clean(Lines[o][i])' PROVE FALSE
      OBVIOUS
    <3>1. counter[c].held < q
      BY <1>4, <1>6, <1>11 DEF OpHolds
    <3>2. HeldBy(o, i) <= counter[c].held
      BY <1>4, <1>7, CleanStays, LineIsHeld DEF Counted
    <3>3. HeldBy(o, i) >= q
      BY <1>5 DEF HeldBy, Uses
    <3>4. HeldBy(o, i) \in Nat /\ counter[c].held \in Nat
      BY ByAre, TypedAre
    <3> QED BY <3>1, <3>2, <3>3, <3>4
  <2>3. Clean(Lines[o][i])' => ~OpHolds(o, i)'
    BY <2>1, <2>2 DEF LineStays
  <2>4. Counted' /\ \A d : Quiet(d)
    BY <1>1, <1>7, <1>11, <2>1, AllStay, TypedAre
  <2>5. RunsApply'
    BY <1>9, <2>1, <2>3
  <2> QED BY <1>1, <1>8, <2>4, <2>5, Tallies
<1> QED BY <1>2, <1>3, <1>4, <1>5, <1>10, <1>11, ApplyDoes

\* A step after which every line is as it was.
LEMMA LinesStay ==
  ASSUME Typed, Typed', Tallied, Recorded, UNCHANGED work, crashes' >= crashes,
         \A v \in Runners : run'[v] = run[v] \/ run'[v].pc # "apply",
         \A x \in Orders : \A i \in 1..Len(Lines[x]) : LineStays(x, i),
         \A c \in Counters :
           /\ Clean(c)' => /\ counter'[c].held = counter[c].held
                           /\ counter'[c].sold = counter[c].sold
           /\ counter'[c].quota = counter[c].quota,
         \A x \in Orders : order'[x].op # None => order[x].op # None
  PROVE  Tallied'
<1>1. Counted /\ RunsApply
  BY DEF Tallied, Counted
<1>2. Counted' /\ \A c : Quiet(c)
  BY <1>1, AllStay
<1>3. OpsQuiet
  BY DEF OpsQuiet
<1>4. RunsApply'
  <2>1. \A x \in Orders : \A i \in 1..Len(Lines[x]) : Clean(Lines[x][i])' =>
          (OpHolds(x, i)' <=> OpHolds(x, i))
    BY DEF LineStays
  <2> QED BY <1>1, <2>1, CleanStays DEF RunsApply
<1> QED BY <1>2, <1>3, <1>4, Tallies

LEMMA CrashesStay ==
  ASSUME Typed, UNCHANGED crashes
  PROVE  crashes' >= crashes
  BY TypedAre

LEMMA TalliedRun ==
  ASSUME Typed, Typed', Kept, Tallied, Recorded, NEW w \in Runners, RunNext(w)
  PROVE  Tallied'
<1>1. /\ run[w].pc # "idle" /\ run[w].o \in Orders
      /\ UNCHANGED <<buy, call, work, crashes>>
  BY DEF RunNext, Apply, ToCleanup, Pull, Unset, Typed, RunPlaced
<1>2. PICK o \in Orders : o = run[w].o
  BY <1>1
<1>3. /\ order[o].op # None /\ order[o].op \in Operation
      /\ order[o].op.n = run[w].op.n /\ Mine(w)
      /\ order[o].op.phase = IF run[w].pc = "apply" THEN "apply" ELSE "cleanup"
  BY <1>1, <1>2, TypedAre DEF Kept, RunsKept, Mine
<1>4. CASE Apply(w)
  BY <1>4, TalliedApply
<1>5. CASE ToCleanup(w)
  <2> DEFINE op == [order[o].op EXCEPT !.phase = "cleanup"]
  <2>1. /\ OpBecomes(o, op) /\ UNCHANGED counter /\ run[w].i > Len(Lines[o])
        /\ RunMoves(w, "pull", 1) /\ run[w].pc = "apply"
    BY <1>2, <1>3, <1>5, ToCleanupDoes
  <2>2. op # None /\ op.phase = "cleanup"
    BY <1>3, OperationIs
  <2> HIDE DEF op
  <2>3. \A i \in 1..Len(Lines[o]) : Clean(Lines[o][i])' => ~OpHolds(o, i) /\ ~OpHolds(o, i)'
    <3>1. \A i \in 1..Len(Lines[o]) : i < run[w].i
      BY <2>1, LinesAre, TypedAre
    <3>2. \A i \in 1..Len(Lines[o]) : Clean(Lines[o][i])' => ~OpHolds(o, i)
      BY <1>2, <2>1, <3>1, CleanStays DEF Tallied, RunsApply
    <3> QED BY <2>1, <2>2, <3>2 DEF OpHolds, OpBecomes
  <2>4. \A x \in Orders : \A i \in 1..Len(Lines[x]) : LineStays(x, i)
    <3>1. \A x \in Orders \ {o} : \A i \in 1..Len(Lines[x]) : LineStays(x, i)
      BY <1>1, <2>1, LineMarks DEF OpBecomes
    <3>2. ASSUME NEW i \in 1..Len(Lines[o]) PROVE LineStays(o, i)
      <4>1. /\ OrderHolds(o, i)' <=> OrderHolds(o, i)
            /\ BuyHolds(o, i)' <=> BuyHolds(o, i)
        BY <1>1, <2>1, OrderKeeps, BuyKeeps DEF OpBecomes, Reclaims, Reclaiming
      <4> QED BY <2>1, <2>3, <4>1 DEF LineStays, SoldAt, OpBecomes
    <3> QED BY <3>1, <3>2
  <2>5. \A x \in Orders : order'[x].op # None => order[x].op # None
    BY <1>3, <2>1 DEF OpBecomes
  <2>6. /\ \A v \in Runners \ {w} : run'[v] = run[v]
        /\ run'[w].pc # "apply"
    BY <2>1 DEF RunMoves
  <2> QED BY <1>1, <2>1, <2>4, <2>5, <2>6, CrashesStay, LinesStay
<1>6. CASE Pull(w)
  <2>1. /\ UNCHANGED order /\ RunMoves(w, "pull", run[w].i + 1) /\ run[w].pc = "pull"
        /\ Pulls(w)
    BY <1>6, PullDoes
  <2>2. \A i : ~OpHolds(o, i) /\ ~OpHolds(o, i)'
    BY <1>3, <2>1 DEF OpHolds
  <2>3. \A x \in Orders : \A i \in 1..Len(Lines[x]) : LineStays(x, i)
    <3>1. ASSUME NEW x \in Orders \ {o}, NEW i \in 1..Len(Lines[x]) PROVE LineStays(x, i)
      <4>1. PICK d \in Counters : d = Lines[x][i]
        BY LinesAre
      <4>2. /\ counter'[d].ops \subseteq counter[d].ops
            /\ \A m \in counter[d].ops \ counter'[d].ops : m[1] = o
        BY <1>2, <2>1 DEF Pulls
      <4>3. <<x, order[x].op.n, i>>[1] # o
        OBVIOUS
      <4>4. <<x, order[x].op.n, i>> \in counter'[d].ops
              <=> <<x, order[x].op.n, i>> \in counter[d].ops
        BY <4>2, <4>3
      <4> QED BY <1>1, <2>1, <4>1, <4>4, LineMarks
    <3>2. ASSUME NEW i \in 1..Len(Lines[o]) PROVE LineStays(o, i)
      <4>1. /\ OrderHolds(o, i)' <=> OrderHolds(o, i)
            /\ BuyHolds(o, i)' <=> BuyHolds(o, i)
        BY <1>1, <2>1, OrderKeeps, BuyKeeps DEF Reclaims, Reclaiming
      <4> QED BY <2>1, <2>2, <4>1 DEF LineStays, SoldAt
    <3> QED BY <3>1, <3>2
  <2>4. /\ \A v \in Runners \ {w} : run'[v] = run[v]
        /\ run'[w].pc # "apply"
    BY <2>1 DEF RunMoves
  <2>5. \A c \in Counters :
           /\ counter'[c].held = counter[c].held /\ counter'[c].sold = counter[c].sold
           /\ counter'[c].quota = counter[c].quota
    BY <2>1 DEF Pulls
  <2> QED BY <1>1, <2>1, <2>3, <2>4, <2>5, CrashesStay, LinesStay
<1>7. CASE Unset(w)
  <2>1. OpBecomes(o, None) /\ UNCHANGED counter /\ RunEnds(w) /\ run[w].pc = "pull"
    BY <1>2, <1>3, <1>7, UnsetDoes
  <2>2. \A i : ~OpHolds(o, i) /\ ~OpHolds(o, i)'
    BY <1>3, <2>1 DEF OpHolds, OpBecomes
  <2>3. \A x \in Orders : \A i \in 1..Len(Lines[x]) : LineStays(x, i)
    <3>1. \A x \in Orders \ {o} : \A i \in 1..Len(Lines[x]) : LineStays(x, i)
      BY <1>1, <2>1, LineMarks DEF OpBecomes
    <3>2. ASSUME NEW i \in 1..Len(Lines[o]) PROVE LineStays(o, i)
      <4>1. /\ OrderHolds(o, i)' <=> OrderHolds(o, i)
            /\ BuyHolds(o, i)' <=> BuyHolds(o, i)
        BY <1>1, <2>1, OrderKeeps, BuyKeeps DEF OpBecomes, Reclaims, Reclaiming
      <4> QED BY <2>1, <2>2, <4>1 DEF LineStays, SoldAt, OpBecomes
    <3> QED BY <3>1, <3>2
  <2>4. /\ \A v \in Runners \ {w} : run'[v] = run[v]
        /\ run'[w].pc # "apply"
        /\ \A x \in Orders : order'[x].op # None => order[x].op # None
    BY <2>1 DEF RunEnds, OpBecomes
  <2> QED BY <1>1, <2>1, <2>3, <2>4, CrashesStay, LinesStay
<1> QED BY <1>4, <1>5, <1>6, <1>7 DEF RunNext

\* An order that no one takes back begins an operation: what it held the
\* operation holds.
LEMMA TalliedBegins ==
  ASSUME Typed, Typed', Kept, Counted, RunsApply, Recorded,
         NEW w \in Runners, NEW o \in Orders, NEW target \in Targets,
         MayBegin(o), OrderBegins(o, target), RunStarts(w, o, order'[o].op),
         UNCHANGED <<counter, buy, crashes>>,
         o \notin torn' => \A k \in Calls : ~Reclaims(k, o),
         \A k \in Calls, x \in Orders \ {o} :
           /\ Reclaims(k, x)' <=> Reclaims(k, x)
           /\ Reclaims(k, x) => call'[k] = call[k]
  PROVE  Counted' /\ RunsApply' /\ OpsQuiet /\ \A c : Quiet(c)
<1>1. order[o].state = "held" /\ order[o].op = None /\ order[o].n \in Nat
  BY TypedAre DEF MayBegin
<1>2. \A x \in Orders \ {o} : \A i \in 1..Len(Lines[x]) : LineStays(x, i)
  BY LineKeeps DEF OrderBegins
<1>3. \A i : ~BuyHolds(o, i) /\ ~BuyHolds(o, i)'
  BY <1>1 DEF BuyHolds, Buying, Kept, OrdersKept, OrderKept
<1>4. \A i : (o \notin torn' => OrderHolds(o, i)) /\ ~OrderHolds(o, i)'
  BY <1>1 DEF OrderHolds, OrderBegins, Targets
<1>5. \A i \in 1..Len(Lines[o]) : ~OpHolds(o, i) /\ OpHolds(o, i)'
  <2> TAKE i \in 1..Len(Lines[o])
  <2>1. PICK c \in Counters : c = Lines[o][i]
    BY LinesAre
  <2>2. PICK n \in Nat, m \in Nat : m = order[o].n /\ n = m + 1 /\ ~(n <= m)
    <3>1. \A m \in Nat : m + 1 \in Nat /\ ~(m + 1 <= m)
      OBVIOUS
    <3> QED BY <1>1, <3>1
  <2>3. <<o, n, i>> \notin counter[c].ops
    <3>1. <<o, n, i>>[1] = o /\ <<o, n, i>>[2] = n
      OBVIOUS
    <3> QED BY <2>2, <3>1 DEF Kept, MarksKept
  <2>4. order'[o].op # None /\ order'[o].op.n = n /\ order'[o].op.phase = "apply"
    BY <2>2, OperationIs DEF OrderBegins
  <2> QED BY <1>1, <2>1, <2>3, <2>4 DEF OpHolds
<1>6. \A i \in 1..Len(Lines[o]) : ~SoldAt(o, i) /\ ~SoldAt(o, i)'
  BY <1>1, <1>5 DEF SoldAt
<1>7. o \notin torn' => \A i \in 1..Len(Lines[o]) :
        /\ HeldBy(o, i)' = HeldBy(o, i) /\ SoldBy(o, i)' = SoldBy(o, i)
        /\ FirstBy(o, i)' <= FirstBy(o, i)
  <2> HAVE o \notin torn'
  <2>1. order'[o].n = order[o].n + 1
    BY DEF OrderBegins
  <2>2. CASE order[o].n = 0
    BY <1>1, <1>3, <1>4, <1>5, <1>6, <2>1, <2>2, LinesAre
    DEF HeldBy, SoldBy, FirstBy, Uses
  <2>3. CASE order[o].n # 0
    <3>1. order'[o].n # 1
      BY <1>1, <2>1, <2>3
    <3> QED BY <1>3, <1>4, <1>5, <1>6, <2>3, <3>1, LinesAre
            DEF HeldBy, SoldBy, FirstBy, Uses
  <2> QED BY <2>2, <2>3
<1>8. Counted'
  <2>1. \A x \in Orders : \A i \in 1..Len(Lines[x]) : Clean(Lines[x][i])' =>
          /\ HeldBy(x, i)' = HeldBy(x, i) /\ SoldBy(x, i)' = SoldBy(x, i)
          /\ FirstBy(x, i)' <= FirstBy(x, i)
    <3>1. \A x \in Orders \ {o} : \A i \in 1..Len(Lines[x]) : Clean(Lines[x][i])' =>
            /\ HeldBy(x, i)' = HeldBy(x, i) /\ SoldBy(x, i)' = SoldBy(x, i)
            /\ FirstBy(x, i)' = FirstBy(x, i)
      BY <1>2, StaysDoes
    <3>2. \A x \in Orders : \A i : FirstBy(x, i) \in Nat
      BY ByAre
    <3> QED BY <1>7, <3>1, <3>2, CleanIs
  <2> QED BY <2>1, SumsStay, TypedAre
<1>9. OpsQuiet
  BY <1>1 DEF OpsQuiet, OrderBegins
<1>10. \A c : Quiet(c)
  BY <1>2, <1>3, <1>4, AtIs, CleanIs DEF Quiet, LineStays
<1>11. RunsApply'
  <2>1. \A v \in Runners \ {w} : run'[v] = run[v]
    BY DEF RunStarts
  <2>2. run'[w].i = 1 /\ run'[w].o = o
    BY DEF RunStarts
  <2>3. \A v \in Runners : run[v].pc # "idle" => run[v].o \in Orders \ {o}
    BY <1>1 DEF Kept, RunsKept, Typed, RunPlaced
  <2>4. \A x \in Orders \ {o} : \A i \in 1..Len(Lines[x]) : Clean(Lines[x][i])' =>
          (OpHolds(x, i)' <=> OpHolds(x, i))
    BY <1>2 DEF LineStays
  <2>5. \A j \in 1..Len(Lines[o]) : ~(j < 1)
    BY LinesAre
  <2> QED BY <2>1, <2>2, <2>3, <2>4, <2>5, CleanStays DEF RunsApply
<1> QED BY <1>8, <1>9, <1>10, <1>11

\* A call that takes nothing back moves no line.
LEMMA CallTallies ==
  ASSUME Typed, Typed', Tallied, Recorded, NEW k \in Calls,
         \A x \in Orders \ torn' : ~Reclaims(k, x) /\ ~Reclaims(k, x)',
         \A j \in Calls \ {k} : call'[j] = call[j],
         UNCHANGED <<counter, buy, work>>, crashes' >= crashes,
         \A v \in Runners : run'[v] = run[v] \/ run'[v].pc # "apply",
         \A x \in Orders : /\ order'[x].op = order[x].op
                           /\ order'[x].state = order[x].state
                           /\ order'[x].n = order[x].n
  PROVE  Tallied'
<1>1. \A j \in Calls : \A x \in Orders \ torn' :
        /\ Reclaims(j, x)' <=> Reclaims(j, x)
        /\ Reclaims(j, x) => call'[j] = call[j]
  BY DEF Reclaims, Reclaiming
<1>2. ASSUME NEW x \in Orders, NEW i \in 1..Len(Lines[x])
      PROVE  LineStays(x, i)
  <2>1. CASE x \in torn'
    BY <2>1, CleanIs DEF LineStays
  <2>2. CASE x \notin torn'
    <3>1. \A j \in Calls : /\ Reclaims(j, x)' <=> Reclaims(j, x)
                           /\ Reclaims(j, x) => call'[j] = call[j]
      BY <1>1, <2>2
    <3> QED BY <3>1, LineKeeps
  <2> QED BY <2>1, <2>2
<1> QED BY <1>2, LinesStay

\* The lines of an order that call k takes back.
LEMMA ReclaimIs ==
  ASSUME Typed, Kept, Recorded, NEW k \in Calls, Reclaiming(k), NEW o \in Orders, o = call[k].o,
         UNCHANGED <<order, buy>>, \A j \in Calls \ {k} : call'[j] = call[j],
         call'[k].o = o, \A c \in Counters : counter'[c].ops = counter[c].ops
  PROVE  /\ \A x \in Orders \ {o} : \A i \in 1..Len(Lines[x]) : LineStays(x, i)
         /\ o \notin torn' => \A i \in 1..Len(Lines[o]) :
              /\ BuyHolds(o, i)' <=> BuyHolds(o, i)
              /\ OpHolds(o, i)' <=> OpHolds(o, i)
              /\ SoldAt(o, i)' <=> SoldAt(o, i)
              /\ OrderHolds(o, i) <=> HasBack(k, o, i)
              /\ Reclaiming(k)' => (OrderHolds(o, i)' <=> HasBack(k, o, i)')
              /\ ~Reclaiming(k)' => OrderHolds(o, i)'
         /\ order'[o].n = order[o].n
         /\ order[o].n # 0
<1>1. /\ order[o].n >= 1 /\ order[o].n \in Nat
      /\ o \notin torn' => /\ order[o].state = "held"
                           /\ \A j \in Calls \ {k} : ~Reclaims(j, o)
  BY TypedAre DEF Kept, CallsKept, Recorded
<1>2. \A j \in Calls, x \in Orders \ {o} : /\ Reclaims(j, x)' <=> Reclaims(j, x)
                                           /\ Reclaims(j, x) => call'[j] = call[j]
  BY DEF Reclaims, Reclaiming
<1>3. \A x \in Orders : \A i \in 1..Len(Lines[x]) :
        counter'[Lines[x][i]].ops = counter[Lines[x][i]].ops
  BY LinesAre
<1>4. \A x \in Orders \ {o} : \A i \in 1..Len(Lines[x]) : LineStays(x, i)
  BY <1>2, <1>3, LineKeeps
<1>5. \A i \in 1..Len(Lines[o]) :
        /\ BuyHolds(o, i)' <=> BuyHolds(o, i)
        /\ OpHolds(o, i)' <=> OpHolds(o, i)
  BY <1>3, BuyKeeps, OpKeeps
<1>6. \A i \in 1..Len(Lines[o]) : SoldAt(o, i)' <=> SoldAt(o, i)
  BY <1>5 DEF SoldAt
<1>7. o \notin torn' => \A i : OrderHolds(o, i) <=> HasBack(k, o, i)
  BY <1>1 DEF OrderHolds, Reclaims
<1>8. o \notin torn' => \A j \in Calls \ {k} : ~Reclaims(j, o)'
  BY <1>1 DEF Reclaims, Reclaiming
<1>9. o \notin torn' => \A i :
        /\ Reclaiming(k)' => (OrderHolds(o, i)' <=> HasBack(k, o, i)')
        /\ ~Reclaiming(k)' => OrderHolds(o, i)'
  BY <1>1, <1>8 DEF OrderHolds, Reclaims
<1> QED BY <1>1, <1>4, <1>5, <1>6, <1>7, <1>9

\* One line of a saved order that was settled is taken back or given back.
LEMMA OrderMoves ==
  ASSUME NEW o \in Orders, NEW j,
         BuyHolds(o, j)' <=> BuyHolds(o, j), OpHolds(o, j)' <=> OpHolds(o, j),
         SoldAt(o, j)' <=> SoldAt(o, j), order'[o].n = order[o].n, order[o].n # 0,
         OrderHolds(o, j)' <=> ~OrderHolds(o, j)
  PROVE  /\ SoldBy(o, j)' = SoldBy(o, j) + 0
         /\ FirstBy(o, j)' <= FirstBy(o, j)
         /\ OrderHolds(o, j) => HeldBy(o, j)' = HeldBy(o, j) + (-Qty[o])
         /\ ~OrderHolds(o, j) => HeldBy(o, j)' = HeldBy(o, j) + Qty[o]
  BY LinesAre DEF HeldBy, SoldBy, FirstBy, Uses

\* Counters as a line of order o moves them.
LEMMA MovesAre ==
  ASSUME Typed, NEW c, NEW h, Moves(c, h)
  PROVE  \A d \in Counters :
           /\ counter'[d].held = IF d = c THEN counter[d].held + h ELSE counter[d].held
           /\ counter'[d].sold = IF d = c THEN counter[d].sold + 0 ELSE counter[d].sold
           /\ counter'[d].quota = counter[d].quota
           /\ counter'[d].ops = counter[d].ops
<1>1. \A d \in Counters : counter[d].sold \in Nat
  BY TypedAre
<1> QED BY <1>1 DEF Moves

LEMMA ReclaimTakes ==
  ASSUME Typed, Typed', Kept, Tallied, Recorded,
         NEW k \in Calls, Reclaiming(k), Reclaiming(k)', NEW o \in Orders, o = call[k].o,
         UNCHANGED <<order, buy, run, work, crashes>>,
         \A j \in Calls \ {k} : call'[j] = call[j], call'[k].o = o,
         NEW i \in 1..Len(Lines[o]), Moves(Lines[o][i], Qty[o]),
         ~HasBack(k, o, i), HasBack(k, o, i)',
         \A m \in 1..Len(Lines[o]) : m # i => (HasBack(k, o, m)' <=> HasBack(k, o, m)),
         Lines[o][i] \in Products =>
           HasRoom(Lines[o][i], Qty[o], counter[Lines[o][i]].quota)
  PROVE  Tallied'
<1>1. PICK c \in Counters : c = Lines[o][i]
  BY LinesAre
<1>2. PICK q \in Nat : q = Qty[o] /\ q > 0
  BY LinesAre
<1>3. \A d \in Counters :
           /\ counter'[d].held =
                IF d = Lines[o][i] THEN counter[d].held + q ELSE counter[d].held
           /\ counter'[d].sold =
                IF d = Lines[o][i] THEN counter[d].sold + 0 ELSE counter[d].sold
           /\ counter'[d].quota = counter[d].quota
           /\ counter'[d].ops = counter[d].ops
  BY <1>2, MovesAre
<1>4. /\ \A x \in Orders \ {o} : \A m \in 1..Len(Lines[x]) : LineStays(x, m)
      /\ o \notin torn' => \A m \in 1..Len(Lines[o]) :
              /\ BuyHolds(o, m)' <=> BuyHolds(o, m)
              /\ OpHolds(o, m)' <=> OpHolds(o, m)
              /\ SoldAt(o, m)' <=> SoldAt(o, m)
              /\ OrderHolds(o, m) <=> HasBack(k, o, m)
              /\ OrderHolds(o, m)' <=> HasBack(k, o, m)'
      /\ order'[o].n = order[o].n
      /\ order[o].n # 0
  BY <1>3, ReclaimIs
<1>5. \A x \in Orders : \A m \in 1..Len(Lines[x]) : x # o \/ m # i => LineStays(x, m)
  BY <1>4, CleanIs DEF LineStays
<1>6. o \notin torn' => /\ HeldBy(o, i)' = HeldBy(o, i) + q
                       /\ SoldBy(o, i)' = SoldBy(o, i) + 0
                       /\ FirstBy(o, i)' <= FirstBy(o, i)
  BY <1>2, <1>4, OrderMoves
<1>7. Counted /\ RunsApply
  BY DEF Tallied, Counted
<1>8. Counted'
  <2>1. q \in Int /\ 0 \in Int
    BY <1>2
  <2>2. c \in Products => counter[c].sold + counter[c].held + q + 0 <= Limit[c]
    <3>1. /\ counter[c].sold \in Nat /\ counter[c].held \in Nat /\ counter[c].quota \in Nat
          /\ Limit[c] \in Nat
          /\ c \in Products => counter[c].quota <= Limit[c]
      BY <1>7, TypedAre, CountersAre DEF Counted, WithinQuota
    <3> HAVE c \in Products
    <3>2. counter[c].sold + counter[c].held + q <= counter[c].quota
      BY <1>1, <1>2 DEF HasRoom
    <3>3. counter[c].quota <= Limit[c]
      BY <3>1
    <3>4. PICK a \in Nat, b \in Nat, u \in Nat, v \in Nat :
            a = counter[c].sold /\ b = counter[c].held /\ u = counter[c].quota /\ v = Limit[c]
      BY <3>1
    <3>5. a + b + q <= u /\ u <= v
      BY <3>2, <3>3, <3>4
    <3>6. a + b + q + 0 <= v
      BY <3>5
    <3> QED BY <3>4, <3>6
  <2>4. Lines[o][i] \in Products =>
          counter[Lines[o][i]].sold + counter[Lines[o][i]].held + q + 0 <= Limit[Lines[o][i]]
    BY <1>1, <2>2
  <2>3. \A d \in Counters :
           /\ counter'[d].held =
                IF d = Lines[o][i] THEN counter[d].held + q ELSE counter[d].held
           /\ counter'[d].sold =
                IF d = Lines[o][i] THEN counter[d].sold + 0 ELSE counter[d].sold
           /\ counter'[d].quota = counter[d].quota
    BY <1>3
  <2>5. Clean(Lines[o][i])' => o \notin torn'
    BY CleanIs
  <2> QED BY <1>5, <1>6, <1>7, <2>1, <2>3, <2>4, <2>5, OneMoves
<1>9. \A d \in Counters : Quiet(d) \/ counter'[d].held > counter[d].held
  <2>1. counter'[Lines[o][i]].held > counter[Lines[o][i]].held
    BY <1>1, <1>2, <1>3, TypedAre
  <2> QED BY <1>5, <2>1, OneQuiet
<1>10. OpsQuiet
  BY DEF OpsQuiet
<1>11. RunsApply'
  <2>1. \A x \in Orders : \A m \in 1..Len(Lines[x]) : Clean(Lines[x][m])' =>
          (OpHolds(x, m)' => OpHolds(x, m))
    BY <1>4, CleanIs DEF LineStays
  <2> QED BY <1>7, <2>1, RunsKeep
<1> QED BY <1>8, <1>9, <1>10, <1>11, Tallies

LEMMA ReclaimGives ==
  ASSUME Typed, Typed', Kept, Tallied, Recorded,
         NEW k \in Calls, Reclaiming(k), Reclaiming(k)', NEW o \in Orders, o = call[k].o,
         UNCHANGED <<order, buy, run, work, crashes>>,
         \A j \in Calls \ {k} : call'[j] = call[j], call'[k].o = o,
         NEW i \in 1..Len(Lines[o]),
         Moves(Lines[o][i], -Qty[o]) \/ (counter[Lines[o][i]].held < Qty[o] /\ UNCHANGED counter),
         HasBack(k, o, i), ~HasBack(k, o, i)',
         \A m \in 1..Len(Lines[o]) : m # i => (HasBack(k, o, m)' <=> HasBack(k, o, m))
  PROVE  Tallied'
<1>1. PICK c \in Counters : c = Lines[o][i]
  BY LinesAre
<1>2. PICK q \in Nat : q = Qty[o] /\ q > 0
  BY LinesAre
<1>7. Counted /\ RunsApply
  BY DEF Tallied, Counted
<1>12. \A d \in Counters : counter'[d].ops = counter[d].ops
  BY DEF Moves
<1>4. /\ \A x \in Orders \ {o} : \A m \in 1..Len(Lines[x]) : LineStays(x, m)
      /\ o \notin torn' => \A m \in 1..Len(Lines[o]) :
              /\ BuyHolds(o, m)' <=> BuyHolds(o, m)
              /\ OpHolds(o, m)' <=> OpHolds(o, m)
              /\ SoldAt(o, m)' <=> SoldAt(o, m)
              /\ OrderHolds(o, m) <=> HasBack(k, o, m)
              /\ OrderHolds(o, m)' <=> HasBack(k, o, m)'
      /\ order'[o].n = order[o].n
      /\ order[o].n # 0
  BY <1>12, ReclaimIs
<1>13. Clean(c)' => Moves(c, -q)
  <2> HAVE Clean(c)'
  <2>4. o \notin torn' /\ Clean(Lines[o][i])
    BY <1>1, CleanIs, CleanStays
  <2>1. HeldBy(o, i) <= counter[c].held
    BY <1>1, <1>7, <2>4, LineIsHeld DEF Counted
  <2>2. HeldBy(o, i) >= q
    BY <1>2, <1>4, <2>4 DEF HeldBy, Uses
  <2>3. HeldBy(o, i) \in Nat /\ counter[c].held \in Nat
    BY ByAre, TypedAre
  <2> QED BY <1>1, <1>2, <2>1, <2>2, <2>3
<1>3. \A d \in Counters :
           /\ Clean(d)' =>
                /\ counter'[d].held =
                     IF d = Lines[o][i] THEN counter[d].held + (-q) ELSE counter[d].held
                /\ counter'[d].sold =
                     IF d = Lines[o][i] THEN counter[d].sold + 0 ELSE counter[d].sold
           /\ counter'[d].quota = counter[d].quota
  <2>1. CASE Moves(c, -q)
    BY <1>1, <1>2, <2>1, MovesAre
  <2>2. CASE UNCHANGED counter /\ ~Moves(c, -q)
    <3>1. \A d \in Counters : counter[d].sold \in Nat
      BY TypedAre
    <3> QED BY <1>1, <1>13, <2>2, <3>1
  <2> QED BY <1>1, <1>2, <2>1, <2>2
<1>5. \A x \in Orders : \A m \in 1..Len(Lines[x]) : x # o \/ m # i => LineStays(x, m)
  BY <1>4, CleanIs DEF LineStays
<1>6. o \notin torn' => /\ HeldBy(o, i)' = HeldBy(o, i) + (-q)
                       /\ SoldBy(o, i)' = SoldBy(o, i) + 0
                       /\ FirstBy(o, i)' <= FirstBy(o, i)
  BY <1>2, <1>4, OrderMoves
<1>8. Counted'
  <2>1. PICK h \in Int : h = -q /\ h + 0 <= 0
    BY <1>2
  <2>2. Clean(Lines[o][i])' =>
          HeldBy(o, i)' = HeldBy(o, i) + h /\ SoldBy(o, i)' = SoldBy(o, i) + 0
    BY <1>6, <2>1, CleanIs
  <2>3. Clean(Lines[o][i])' => FirstBy(o, i)' <= FirstBy(o, i)
    BY <1>6, CleanIs
  <2>4. \A d \in Counters :
           /\ Clean(d)' =>
                /\ counter'[d].held =
                     IF d = Lines[o][i] THEN counter[d].held + h ELSE counter[d].held
                /\ counter'[d].sold =
                     IF d = Lines[o][i] THEN counter[d].sold + 0 ELSE counter[d].sold
           /\ counter'[d].quota = counter[d].quota
    BY <1>3, <2>1
  <2>5. 0 \in Int
    OBVIOUS
  <2> QED BY <1>5, <1>7, <2>1, <2>2, <2>3, <2>4, <2>5, OneMoves
<1>9. \A d \in Counters : Quiet(d) \/ counter'[d].held > counter[d].held
  <2>1. \/ /\ BuyHolds(o, i)' => BuyHolds(o, i)
           /\ OrderHolds(o, i)' => OrderHolds(o, i)
        \/ ~Clean(Lines[o][i])'
    BY <1>4, CleanIs
  <2> QED BY <1>5, <2>1, OneQuiet
<1>10. OpsQuiet
  BY DEF OpsQuiet
<1>11. RunsApply'
  <2>1. \A x \in Orders : \A m \in 1..Len(Lines[x]) : Clean(Lines[x][m])' =>
          (OpHolds(x, m)' => OpHolds(x, m))
    BY <1>4, CleanIs DEF LineStays
  <2> QED BY <1>7, <2>1, RunsKeep
<1> QED BY <1>8, <1>9, <1>10, <1>11, Tallies

\* The call goes on to another part of its work.
LEMMA ReclaimGoesOn ==
  ASSUME Typed, Typed', Kept, Tallied, Recorded,
         NEW k \in Calls, Reclaiming(k), NEW o \in Orders, o = call[k].o,
         UNCHANGED <<counter, order, buy, run, work, crashes>>,
         \A j \in Calls \ {k} : call'[j] = call[j], call'[k].o = o,
         \A m \in 1..Len(Lines[o]) :
           HasBack(k, o, m) <=> IF Reclaiming(k)' THEN HasBack(k, o, m)' ELSE TRUE
  PROVE  Tallied'
<1>1. /\ \A x \in Orders \ {o} : \A m \in 1..Len(Lines[x]) : LineStays(x, m)
      /\ o \notin torn' => \A m \in 1..Len(Lines[o]) :
              /\ BuyHolds(o, m)' <=> BuyHolds(o, m)
              /\ OpHolds(o, m)' <=> OpHolds(o, m)
              /\ SoldAt(o, m)' <=> SoldAt(o, m)
              /\ OrderHolds(o, m) <=> HasBack(k, o, m)
              /\ Reclaiming(k)' => (OrderHolds(o, m)' <=> HasBack(k, o, m)')
              /\ ~Reclaiming(k)' => OrderHolds(o, m)'
      /\ order'[o].n = order[o].n
  BY ReclaimIs
<1>2. \A x \in Orders : \A m \in 1..Len(Lines[x]) : LineStays(x, m)
  BY <1>1, CleanIs DEF LineStays
<1> QED BY <1>2, CrashesStay, LinesStay

LEMMA TalliedTakeBack ==
  ASSUME Typed, Typed', Kept, Tallied, Recorded, NEW k \in Calls, TakeBack(k)
  PROVE  Tallied'
<1>1. UNCHANGED <<order, buy, run, work, crashes>> /\ call[k].pc = "take"
  BY TakeBackDoes
<1>2. PICK o \in Orders : o = call[k].o
  BY TakeBackDoes
<1>3. Reclaiming(k)
  BY <1>1 DEF Reclaiming
<1>4. PICK i \in 1..(Len(Lines[o]) + 1) :
        /\ \A j \in 1..Len(Lines[o]) :
             call[k].got < j /\ j < i => Lines[o][j] \notin Products
        /\ \/ /\ i > Len(Lines[o])
              /\ UNCHANGED counter
              /\ CallMoves(k, "share", 1, call[k].got)
           \/ /\ i <= Len(Lines[o]) /\ call[k].got < i
              /\ Lines[o][i] \in Products
              /\ HasRoom(Lines[o][i], Qty[o], counter[Lines[o][i]].quota)
              /\ Moves(Lines[o][i], Qty[o])
              /\ CallMoves(k, "take", call[k].i, i)
           \/ /\ UNCHANGED counter
              /\ CallMoves(k, "undo", 1, call[k].got)
  BY <1>2, TakeBackDoes
<1>5. PICK got \in Nat : got = call[k].got
  BY TypedAre
<1>6. PICK n \in Nat : n = Len(Lines[o])
  BY LinesAre
<1>7. CASE i > Len(Lines[o]) /\ UNCHANGED counter /\ CallMoves(k, "share", 1, call[k].got)
  <2>1. /\ \A j \in Calls \ {k} : call'[j] = call[j]
        /\ call'[k].o = o /\ call'[k].pc = "share" /\ call'[k].i = 1
    BY <1>2, <1>7 DEF CallMoves
  <2>2. \A m \in 1..n : Lines[o][m] \in Products => m <= got
    BY <1>4, <1>5, <1>6, <1>7
  <2>3. \A m \in 1..n : HasBack(k, o, m) <=> HasBack(k, o, m)'
    BY <1>1, <1>5, <2>1, <2>2 DEF HasBack
  <2>4. Reclaiming(k)'
    BY <2>1 DEF Reclaiming
  <2> QED BY <1>1, <1>2, <1>3, <1>6, <1>7, <2>1, <2>3, <2>4, ReclaimGoesOn
<1>8. CASE /\ i <= Len(Lines[o]) /\ call[k].got < i
           /\ Lines[o][i] \in Products
           /\ HasRoom(Lines[o][i], Qty[o], counter[Lines[o][i]].quota)
           /\ Moves(Lines[o][i], Qty[o])
           /\ CallMoves(k, "take", call[k].i, i)
  <2>1. /\ \A j \in Calls \ {k} : call'[j] = call[j]
        /\ call'[k].o = o /\ call'[k].pc = "take" /\ call'[k].got = i
    BY <1>2, <1>8 DEF CallMoves
  <2>2. i \in 1..n /\ got < i
    BY <1>5, <1>6, <1>8
  <2>3. ~HasBack(k, o, i) /\ HasBack(k, o, i)'
    BY <1>1, <1>5, <1>8, <2>1, <2>2 DEF HasBack
  <2>4. \A m \in 1..n : m # i => (Lines[o][m] \in Products => (m <= got <=> m <= i))
    BY <1>4, <1>5, <1>6, <2>2
  <2>5. \A m \in 1..n : m # i => (HasBack(k, o, m)' <=> HasBack(k, o, m))
    BY <1>1, <1>5, <2>1, <2>4 DEF HasBack
  <2>6. Reclaiming(k)'
    BY <2>1 DEF Reclaiming
  <2>7. i \in 1..Len(Lines[o])
        /\ \A m \in 1..Len(Lines[o]) : m # i => (HasBack(k, o, m)' <=> HasBack(k, o, m))
    BY <1>6, <2>2, <2>5
  <2> QED BY <1>1, <1>2, <1>3, <1>8, <2>1, <2>3, <2>6, <2>7, ReclaimTakes
<1>9. CASE UNCHANGED counter /\ CallMoves(k, "undo", 1, call[k].got)
  <2>1. /\ \A j \in Calls \ {k} : call'[j] = call[j]
        /\ call'[k].o = o /\ call'[k].pc = "undo" /\ call'[k].i = 1 /\ call'[k].got = got
    BY <1>2, <1>5, <1>9 DEF CallMoves
  <2>3. \A m \in 1..n : HasBack(k, o, m) <=> HasBack(k, o, m)'
    BY <1>1, <1>5, <2>1 DEF HasBack
  <2>4. Reclaiming(k)'
    BY <2>1 DEF Reclaiming
  <2> QED BY <1>1, <1>2, <1>3, <1>6, <1>9, <2>1, <2>3, <2>4, ReclaimGoesOn
<1> QED BY <1>4, <1>7, <1>8, <1>9

LEMMA TalliedTakeBackUndo ==
  ASSUME Typed, Typed', Kept, Tallied, Recorded, NEW k \in Calls, TakeBackUndo(k)
  PROVE  Tallied'
<1>1. UNCHANGED <<order, buy, run, work, crashes>> /\ call[k].pc = "undo"
  BY TakeBackUndoDoes
<1>2. PICK o \in Orders : o = call[k].o
  BY TakeBackUndoDoes
<1>3. Reclaiming(k)
  BY <1>1 DEF Reclaiming
<1>4. PICK i \in 1..(Len(Lines[o]) + 1) :
        /\ \A j \in 1..Len(Lines[o]) :
             call[k].i <= j /\ j < i => Lines[o][j] \notin Products
        /\ \/ /\ i > call[k].got
              /\ UNCHANGED counter
              /\ CallMoves(k, "manual", 1, call[k].got)
           \/ /\ i <= Len(Lines[o]) /\ i <= call[k].got /\ call[k].i <= i
              /\ Lines[o][i] \in Products
              /\ CallMoves(k, "undo", i + 1, call[k].got)
              /\ \/ Moves(Lines[o][i], -Qty[o])
                 \/ /\ counter[Lines[o][i]].held < Qty[o]
                    /\ UNCHANGED counter
  BY <1>2, TakeBackUndoDoes
<1>5. PICK got \in Nat, at \in Nat : got = call[k].got /\ at = call[k].i
  BY TypedAre
<1>6. PICK n \in Nat : n = Len(Lines[o])
  BY LinesAre
<1>7. CASE i > call[k].got /\ UNCHANGED counter /\ CallMoves(k, "manual", 1, call[k].got)
  <2>1. /\ \A j \in Calls \ {k} : call'[j] = call[j]
        /\ call'[k].o = o /\ call'[k].pc = "manual"
    BY <1>2, <1>7 DEF CallMoves
  <2>2. \A m \in 1..n : Lines[o][m] \in Products => m < at \/ m > got
    BY <1>4, <1>5, <1>6, <1>7
  <2>3. \A m \in 1..n : HasBack(k, o, m) <=> HasBack(k, o, m)'
    BY <1>1, <1>5, <2>1, <2>2 DEF HasBack
  <2>4. Reclaiming(k)'
    BY <2>1 DEF Reclaiming
  <2> QED BY <1>1, <1>2, <1>3, <1>6, <1>7, <2>1, <2>3, <2>4, ReclaimGoesOn
<1>8. CASE /\ i <= Len(Lines[o]) /\ i <= call[k].got /\ call[k].i <= i
           /\ Lines[o][i] \in Products
           /\ CallMoves(k, "undo", i + 1, call[k].got)
           /\ \/ Moves(Lines[o][i], -Qty[o])
              \/ /\ counter[Lines[o][i]].held < Qty[o]
                 /\ UNCHANGED counter
  <2>1. /\ \A j \in Calls \ {k} : call'[j] = call[j]
        /\ call'[k].o = o /\ call'[k].pc = "undo" /\ call'[k].i = i + 1 /\ call'[k].got = got
    BY <1>2, <1>5, <1>8 DEF CallMoves
  <2>2. i \in 1..n /\ at <= i /\ i <= got
    BY <1>5, <1>6, <1>8
  <2>3. HasBack(k, o, i) /\ ~HasBack(k, o, i)'
    BY <1>1, <1>5, <1>8, <2>1, <2>2 DEF HasBack
  <2>4. \A m \in 1..n : m # i => (Lines[o][m] \in Products => (at <= m <=> i + 1 <= m))
    BY <1>4, <1>5, <1>6, <2>2
  <2>5. \A m \in 1..n : m # i => (HasBack(k, o, m)' <=> HasBack(k, o, m))
    BY <1>1, <1>5, <2>1, <2>4 DEF HasBack
  <2>6. Reclaiming(k)'
    BY <2>1 DEF Reclaiming
  <2>7. i \in 1..Len(Lines[o])
        /\ \A m \in 1..Len(Lines[o]) : m # i => (HasBack(k, o, m)' <=> HasBack(k, o, m))
    BY <1>6, <2>2, <2>5
  <2> QED BY <1>1, <1>2, <1>3, <1>8, <2>1, <2>3, <2>6, <2>7, ReclaimGives
<1> QED BY <1>4, <1>7, <1>8

LEMMA TalliedTakeShare ==
  ASSUME Typed, Typed', Kept, Tallied, Recorded, NEW k \in Calls, TakeShare(k)
  PROVE  Tallied'
<1>1. UNCHANGED <<order, buy, run, work, crashes>> /\ call[k].pc = "share"
  BY TakeShareDoes
<1>2. PICK o \in Orders : o = call[k].o
  BY TakeShareDoes
<1>3. Reclaiming(k)
  BY <1>1 DEF Reclaiming
<1>4. PICK i \in 1..(Len(Lines[o]) + 1) :
        /\ \A j \in 1..Len(Lines[o]) :
             call[k].i <= j /\ j < i => Lines[o][j] \notin Shares
        /\ \/ /\ i > Len(Lines[o])
              /\ UNCHANGED counter
              /\ CallMoves(k, "begin", 1, call[k].got)
           \/ /\ i <= Len(Lines[o]) /\ call[k].i <= i
              /\ Lines[o][i] \in Shares
              /\ Moves(Lines[o][i], Qty[o])
              /\ CallMoves(k, "share", i + 1, call[k].got)
  BY <1>2, TakeShareDoes
<1>5. PICK at \in Nat : at = call[k].i
  BY TypedAre
<1>6. PICK n \in Nat : n = Len(Lines[o])
  BY LinesAre
<1>10. \A m \in 1..n : (Lines[o][m] \in Shares) <=> (Lines[o][m] \notin Products)
  BY <1>6, LinesAre, CountersAre
<1>7. CASE i > Len(Lines[o]) /\ UNCHANGED counter /\ CallMoves(k, "begin", 1, call[k].got)
  <2>1. /\ \A j \in Calls \ {k} : call'[j] = call[j]
        /\ call'[k].o = o /\ call'[k].pc = "begin"
    BY <1>2, <1>7 DEF CallMoves
  <2>2. \A m \in 1..n : Lines[o][m] \in Shares => m < at
    BY <1>4, <1>5, <1>6, <1>7
  <2>3. \A m \in 1..n : HasBack(k, o, m)
    BY <1>1, <1>5, <1>10, <2>2 DEF HasBack
  <2>4. ~Reclaiming(k)'
    BY <2>1 DEF Reclaiming
  <2> QED BY <1>1, <1>2, <1>3, <1>6, <1>7, <2>1, <2>3, <2>4, ReclaimGoesOn
<1>8. CASE /\ i <= Len(Lines[o]) /\ call[k].i <= i
           /\ Lines[o][i] \in Shares
           /\ Moves(Lines[o][i], Qty[o])
           /\ CallMoves(k, "share", i + 1, call[k].got)
  <2>1. /\ \A j \in Calls \ {k} : call'[j] = call[j]
        /\ call'[k].o = o /\ call'[k].pc = "share" /\ call'[k].i = i + 1
    BY <1>2, <1>8 DEF CallMoves
  <2>2. i \in 1..n /\ at <= i
    BY <1>5, <1>6, <1>8
  <2>3. ~HasBack(k, o, i) /\ HasBack(k, o, i)' /\ Lines[o][i] \notin Products
    BY <1>1, <1>5, <1>8, <1>10, <2>1, <2>2 DEF HasBack
  <2>4. \A m \in 1..n : m # i => (Lines[o][m] \in Shares => (m < at <=> m < i + 1))
    BY <1>4, <1>5, <1>6, <2>2
  <2>5. \A m \in 1..n : m # i => (HasBack(k, o, m)' <=> HasBack(k, o, m))
    BY <1>1, <1>5, <1>10, <2>1, <2>4 DEF HasBack
  <2>6. Reclaiming(k)'
    BY <2>1 DEF Reclaiming
  <2>7. i \in 1..Len(Lines[o])
        /\ \A m \in 1..Len(Lines[o]) : m # i => (HasBack(k, o, m)' <=> HasBack(k, o, m))
    BY <1>6, <2>2, <2>5
  <2> QED BY <1>1, <1>2, <1>3, <1>8, <2>1, <2>3, <2>6, <2>7, ReclaimTakes
<1> QED BY <1>4, <1>7, <1>8

\* An order that no line of which counts is put back to held, or released.
LEMMA TalliedState ==
  ASSUME Typed, Typed', Kept, Tallied, Recorded, NEW k \in Calls,
         NEW o \in Orders, o = call[k].o, NEW s, StateBecomes(o, s),
         UNCHANGED <<counter, buy, run, work, crashes>>,
         \A j \in Calls \ {k} : call'[j] = call[j], call'[k].o = o,
         o \notin torn' =>
           /\ order[o].state # "sold" /\ s # "sold"
           /\ \A i \in 1..Len(Lines[o]) : ~OrderHolds(o, i) /\ ~OrderHolds(o, i)'
  PROVE  Tallied'
<1>1. \A x \in Orders : /\ order'[x].op = order[x].op /\ order'[x].n = order[x].n
                        /\ x # o => order'[x].state = order[x].state
  BY DEF StateBecomes
<1>2. \A j \in Calls, x \in Orders \ {o} : /\ Reclaims(j, x)' <=> Reclaims(j, x)
                                           /\ Reclaims(j, x) => call'[j] = call[j]
  BY DEF Reclaims, Reclaiming
<1>3. \A x \in Orders \ {o} : \A i \in 1..Len(Lines[x]) : LineStays(x, i)
  BY <1>1, <1>2, LineKeeps
<1>4. ASSUME NEW i \in 1..Len(Lines[o]), o \notin torn' PROVE LineStays(o, i)
  <2>1. /\ BuyHolds(o, i)' <=> BuyHolds(o, i)
        /\ OpHolds(o, i)' <=> OpHolds(o, i)
    BY <1>1, BuyKeeps, OpKeeps
  <2>2. order'[o].state = s
    BY DEF StateBecomes
  <2>3. ~SoldAt(o, i) /\ ~SoldAt(o, i)'
    BY <1>4, <2>2 DEF SoldAt
  <2> QED BY <1>1, <1>4, <2>1, <2>3 DEF LineStays
<1>5. \A x \in Orders : \A i \in 1..Len(Lines[x]) : LineStays(x, i)
  BY <1>3, <1>4, CleanIs DEF LineStays
<1> QED BY <1>1, <1>5, CrashesStay, LinesStay

LEMMA TalliedFlip ==
  ASSUME Typed, Typed', Kept, Tallied, Recorded, NEW k \in Calls, Flip(k)
  PROVE  Tallied'
<1>1. /\ UNCHANGED <<counter, buy, run, work, crashes>> /\ call[k].pc = "flip"
      /\ call[k].late = 0
  BY FlipDoes
<1>2. PICK o \in Orders : o = call[k].o
  BY FlipDoes
<1>3. CASE UNCHANGED order /\ CallMoves(k, "done", 1, 0)
  <2>1. /\ \A x : ~Reclaims(k, x) /\ ~Reclaims(k, x)'
        /\ \A j \in Calls \ {k} : call'[j] = call[j]
    BY <1>1, <1>3 DEF CallMoves, Reclaims, Reclaiming
  <2> QED BY <1>1, <1>3, <2>1, CrashesStay, CallTallies
<1>4. CASE /\ order[o].state = "released"
           /\ StateBecomes(o, "held")
           /\ \A j \in Calls \ {k} : call'[j] = call[j]
           /\ call'[k].pc = "take" /\ call'[k].got = call[k].got /\ call'[k].o = o
  <2>1. call'[k].got = 0 /\ Reclaims(k, o)'
    BY <1>1, <1>4 DEF Typed, CallPlaced, Reclaims, Reclaiming
  <2>2. \A i \in 1..Len(Lines[o]) : ~HasBack(k, o, i)'
    BY <1>4, <2>1 DEF HasBack
  <2>3. \A i \in 1..Len(Lines[o]) : ~OrderHolds(o, i) /\ ~OrderHolds(o, i)'
    BY <1>4, <2>1, <2>2 DEF OrderHolds
  <2> QED BY <1>1, <1>2, <1>4, <2>3, TalliedState
<1> QED BY <1>2, <1>3, <1>4, FlipDoes

LEMMA TalliedManual ==
  ASSUME Typed, Typed', Kept, Tallied, Recorded, NEW k \in Calls, Manual(k)
  PROVE  Tallied'
<1>1. /\ UNCHANGED <<counter, buy, run, work, crashes>> /\ call[k].pc = "manual"
  BY ManualDoes
<1>2. PICK o \in Orders : o = call[k].o
  BY ManualDoes
<1>3. StateBecomes(o, "released") /\ CallMoves(k, "done", 1, 0)
  BY <1>2, ManualDoes
<1>4. Reclaims(k, o) /\ (o \notin torn' => order[o].state = "held")
  BY <1>1, <1>2 DEF Reclaims, Reclaiming, Kept, CallsKept, Recorded
<1>5. order'[o].state = "released"
  BY <1>3 DEF StateBecomes
<1>6. \A i \in 1..Len(Lines[o]) : ~OrderHolds(o, i) /\ ~OrderHolds(o, i)'
  BY <1>1, <1>4, <1>5 DEF OrderHolds, HasBack
<1>7. \A j \in Calls \ {k} : call'[j] = call[j] /\ call'[k].o = o
  BY <1>2, <1>3 DEF CallMoves
<1>8. call'[k].o = o
  BY <1>2, <1>3 DEF CallMoves
<1> QED BY <1>1, <1>2, <1>3, <1>4, <1>6, <1>7, <1>8, TalliedState

LEMMA TalliedCallBegin ==
  ASSUME Typed, Typed', Kept, Tallied, History,
         NEW k \in Calls, CallBegin(k)
  PROVE  Tallied'
<1>1. /\ UNCHANGED <<counter, buy, work, crashes>> /\ call[k].pc = "begin"
  BY CallBeginDoes
<1>2. PICK o \in Orders : o = call[k].o
  BY CallBeginDoes
<1>3. CASE /\ UNCHANGED <<order, run>>
           /\ \/ CallMoves(k, "flip", 1, call[k].got)
              \/ CallMoves(k, "done", 1, 0)
  <2>1. /\ \A x : ~Reclaims(k, x) /\ ~Reclaims(k, x)'
        /\ \A j \in Calls \ {k} : call'[j] = call[j]
    BY <1>1, <1>3 DEF CallMoves, Reclaims, Reclaiming
  <2> QED BY <1>1, <1>3, <2>1, HistoryRecords, CrashesStay, CallTallies
<1>4. CASE /\ MayBegin(o)
           /\ \E target \in Targets : OrderBegins(o, target)
           /\ RunStarts(k, o, order'[o].op)
           /\ CallMoves(k, "running", call[k].i, call[k].got)
  <2>1. PICK target \in Targets : OrderBegins(o, target)
    BY <1>4
  <2>2. o \notin torn' => \A j \in Calls : ~Reclaims(j, o)
    BY <2>1, ReclaimedApart
  <2>3. \A j \in Calls, x \in Orders \ {o} :
           /\ Reclaims(j, x)' <=> Reclaims(j, x)
           /\ Reclaims(j, x) => call'[j] = call[j]
    BY <1>1, <1>2, <1>4 DEF CallMoves, Reclaims, Reclaiming
  <2>4. Counted /\ RunsApply /\ k \in Runners
    BY DEF Tallied, Counted, Runners
  <2>5. Counted' /\ RunsApply' /\ OpsQuiet /\ \A c : Quiet(c)
    BY <1>1, <1>4, HistoryRecords, <2>1, <2>2, <2>3, <2>4, TalliedBegins
  <2> QED BY <1>1, <2>5, HistoryRecords, Tallies
<1> QED BY <1>2, <1>3, <1>4, CallBeginDoes

LEMMA TalliedCall ==
  ASSUME Typed, Typed', Kept, Tallied, History,
         NEW k \in Calls, \/ Request(k) \/ CallStep(k) \/ CallCrash(k)
  PROVE  Tallied'
<1>0. Recorded
  BY HistoryRecords
<1>1. CASE Request(k)
  <2>1. /\ UNCHANGED <<counter, buy, run, work, crashes>>
        /\ \A x : ~Reclaims(k, x) /\ ~Reclaims(k, x)'
        /\ \A j \in Calls \ {k} : call'[j] = call[j]
        /\ \A x \in Orders : /\ order'[x].op = order[x].op
                             /\ order'[x].state = order[x].state
                             /\ order'[x].n = order[x].n
    BY <1>1, RequestDoes DEF Reclaims, Reclaiming
  <2> QED BY <1>0, <2>1, CrashesStay, CallTallies
<1>2. CASE CallReturns(k)
  <2>1. /\ UNCHANGED <<counter, order, buy, run, work, crashes>>
        /\ \A x : ~Reclaims(k, x) /\ ~Reclaims(k, x)'
        /\ \A j \in Calls \ {k} : call'[j] = call[j]
    BY <1>2, CallReturnsDoes DEF Reclaims, Reclaiming, CallMoves
  <2> QED BY <1>0, <2>1, CrashesStay, CallTallies
<1>3. CASE CallCrash(k)
  <2>1. /\ UNCHANGED <<counter, order, buy, work>> /\ crashes' = crashes + 1
        /\ CallMoves(k, "crashed", 1, 0) /\ RunEnds(k)
    BY <1>3, CallCrashDoes
  <2>2. /\ call'[k].pc = "crashed" /\ \A j \in Calls \ {k} : call'[j] = call[j]
        /\ \A v \in Runners : run'[v] = run[v] \/ run'[v].pc # "apply"
    BY <2>1 DEF CallMoves, RunEnds
  <2>3. \A x \in Orders \ torn' : ~Reclaims(k, x) /\ ~Reclaims(k, x)'
    BY <2>2 DEF History, Torn, Reclaims, Reclaiming
  <2>4. crashes' >= crashes
    BY <2>1, TypedAre
  <2> QED BY <1>0, <2>1, <2>2, <2>3, <2>4, CallTallies
<1> QED BY <1>0, <1>1, <1>2, <1>3, TalliedTakeBack, TalliedTakeBackUndo, TalliedTakeShare,
           TalliedFlip, TalliedManual, TalliedCallBegin DEF CallStep

\* What worker w has found, and no one has touched, it still holds.
Finds(w) == \A c \in Counters :
  work'[w].snap[c] > 0 /\ c \notin stirred' /\ Clean(c)' => Found(w, c)'

\* A worker's step, once what it found of each counter still holds.
LEMMA WorkTallies ==
  ASSUME Typed, Typed', Tallied, Recorded, OpsQuiet, Counted', RunsApply',
         NEW w \in Workers, \A v \in Workers \ {w} : work'[v] = work[v],
         \A c : Quiet(c), Finds(w)
  PROVE  Tallied'
<1>1. SnapsFound'
  <2> SUFFICES ASSUME NEW v \in Workers, NEW c \in Counters, work'[v].snap[c] > 0,
                      c \notin stirred', Clean(c)'
               PROVE  Found(v, c)'
    BY DEF SnapsFound
  <2>1. CASE v = w
    BY <2>1 DEF Finds
  <2>2. CASE v # w
    <3>1. work'[v] = work[v]
      BY <2>2
    <3>2. work[v].snap[c] > 0 /\ Found(v, c)
      BY <3>1, CleanStays DEF Recorded, Tallied, SnapsFound
    <3> QED BY <3>1, <3>2, FoundStays
  <2> QED BY <2>1, <2>2
<1> QED BY <1>1 DEF Tallied, Counted

LEMMA KeepsFound ==
  ASSUME Typed, Typed', Tallied, Recorded, OpsQuiet, NEW w \in Workers, KeepsSnap(w),
         \A c : Quiet(c)
  PROVE  Finds(w)
<1> SUFFICES ASSUME NEW c \in Counters, work'[w].snap[c] > 0, c \notin stirred', Clean(c)'
             PROVE  Found(w, c)'
  BY DEF Finds
<1>1. work[w].snap[c] > 0 /\ Found(w, c)
  BY CleanStays DEF KeepsSnap, Recorded, Tallied, SnapsFound
<1> QED BY <1>1, FoundStays DEF KeepsSnap

\* No line moves while a worker looks.
LEMMA WorkStays ==
  ASSUME Typed, UNCHANGED <<order, buy, call>>,
         \A c \in Counters : counter'[c].ops = counter[c].ops
  PROVE  /\ \A x \in Orders : \A i \in 1..Len(Lines[x]) : LineStays(x, i)
         /\ \A c : Quiet(c)
         /\ OpsQuiet
<1>1. \A x \in Orders : \A i \in 1..Len(Lines[x]) :
        counter'[Lines[x][i]].ops = counter[Lines[x][i]].ops
  BY LinesAre
<1>2. \A x \in Orders : \A i \in 1..Len(Lines[x]) : LineStays(x, i)
  BY <1>1, LineKeeps DEF Reclaims, Reclaiming
<1>3. \A c : Quiet(c)
  BY <1>2, AtIs DEF Quiet, LineStays
<1> QED BY <1>2, <1>3 DEF OpsQuiet

LEMMA RunsGoOn ==
  ASSUME Typed, Recorded, RunsApply, UNCHANGED <<order, counter>>,
         \A v \in Runners : run'[v] = run[v] \/ run'[v].i = 1 \/ run'[v].pc # "apply"
  PROVE  RunsApply'
<1>1. \A x \in Orders : \A i \in 1..Len(Lines[x]) : OpHolds(x, i)' <=> OpHolds(x, i)
  BY OpKeeps
<1>2. \A x \in Orders : \A i \in 1..Len(Lines[x]) : ~(i < 1)
  BY LinesAre
<1> QED BY <1>1, <1>2, CleanStays DEF RunsApply

\* A worker that only looks, or starts what another left.
LEMMA LookTallies ==
  ASSUME Typed, Typed', Tallied, Recorded, UNCHANGED <<counter, order, buy, call>>,
         crashes' >= crashes,
         \A v \in Runners : run'[v] = run[v] \/ run'[v].i = 1 \/ run'[v].pc # "apply",
         NEW w \in Workers, \A v \in Workers \ {w} : work'[v] = work[v],
         \/ KeepsSnap(w)
         \/ Finds(w)
  PROVE  Tallied'
<1>1. Counted /\ RunsApply
  BY DEF Tallied, Counted
<1>2. /\ \A x \in Orders : \A i \in 1..Len(Lines[x]) : LineStays(x, i)
      /\ \A c : Quiet(c)
      /\ OpsQuiet
  BY WorkStays
<1>3. Counted'
  BY <1>1, <1>2, AllStay
<1>4. RunsApply'
  BY <1>1, RunsGoOn
<1>5. Finds(w)
  BY <1>2, KeepsFound
<1> QED BY <1>2, <1>3, <1>4, <1>5, WorkTallies

\* What the query of the orders finds for a counter is no less than what they hold.
LEMMA OrderSumIs ==
  ASSUME NEW c \in Counters
  PROVE  OrderSum(c) <= SumQty(Holding(c, {"held"}))
<1> DEFINE T == Holding(c, {"held"})
           gun == [o \in Orders |-> IF o \in T THEN Qty[o] ELSE 0]
<1>1. T \in SUBSET Orders
  BY DEF Holding
<1>2. \A o \in Orders : Qty[o] \in Int /\ Qty[o] >= 0
  BY LinesAre
<1>3. \A o \in Orders : gun[o] = IF o \in T THEN Qty[o] ELSE 0
  OBVIOUS
<1>4. \A o \in Orders : OrderPart(c)[o] <= gun[o]
  BY <1>2 DEF OrderPart, OrderHolds, Uses, Holding, IsLine
<1>5. \A o \in Orders : OrderPart(c)[o] \in Int /\ gun[o] \in Int
  BY <1>2, PartsAre
<1> HIDE DEF T, gun
<1>6. SumFunctionOnSet(gun, Orders) = SumFunctionOnSet(Qty, T)
  BY <1>1, <1>2, <1>3, OrdersFinite, SumOfSome
<1>7. OrderSum(c) <= SumFunctionOnSet(gun, Orders)
  BY <1>4, <1>5, OrdersFinite, SumAtMost DEF OrderSum
<1> QED BY <1>6, <1>7 DEF SumQty, T

LEMMA OrderSumStays ==
  ASSUME Typed, UNCHANGED <<order, buy, call>>, NEW c
  PROVE  OrderSum(c)' = OrderSum(c)
<1>1. \A o \in Orders : \A j : OrderHolds(o, j)' <=> OrderHolds(o, j)
  BY OrderKeeps DEF Reclaims, Reclaiming
<1>2. \A o \in Orders : OrderPart(c)'[o] = OrderPart(c)[o]
  BY <1>1 DEF OrderPart, Uses
<1> QED BY <1>2, OrdersFinite, SumSame DEF OrderSum

LEMMA TalliedReconcileFind ==
  ASSUME Typed, Typed', Kept, Tallied, Recorded, NEW w \in Workers, ReconcileFind(w)
  PROVE  Tallied'
<1>1. UNCHANGED <<counter, order, buy, call, run, crashes>>
  BY ReconcileFindDoes
<1>2. CASE WorkMoves(w, "idle", {}) /\ work'[w] = NoTick
  <2>1. Finds(w)
    BY <1>2, NoTickIs DEF Finds
  <2> QED BY <1>1, <1>2, <2>1, CrashesStay, LookTallies DEF WorkMoves
<1>3. CASE /\ WorkMoves(w, "expect", {})
           /\ work'[w].asked = {}
           /\ \A c \in Counters : work'[w].snap[c] =
                IF c \in QuietCounters THEN counter[c].held ELSE 0
  <2>1. ASSUME NEW c \in Counters, work'[w].snap[c] > 0 PROVE Found(w, c)'
    <3>1. c \in QuietCounters
      BY <1>3, <2>1
    <3>2. \A o \in Orders : IsLine(o, c) => ~BuyHolds(o, At(o, c))
      BY <3>1 DEF QuietCounters, BuyHolds, IsLine
    <3>3. \A o \in Orders : IsLine(o, c) => ~BuyHolds(o, At(o, c))'
      BY <1>1, <3>2, BuyKeeps
    <3> QED BY <1>3, <3>3 DEF Found
  <2> QED BY <1>1, <1>3, <2>1, CrashesStay, LookTallies DEF WorkMoves, Finds
<1> QED BY <1>2, <1>3, ReconcileFindDoes

LEMMA TalliedReconcileAsk ==
  ASSUME Typed, Typed', Kept, Tallied, Recorded, NEW w \in Workers, ReconcileAsk(w)
  PROVE  Tallied'
<1>1. /\ UNCHANGED <<counter, order, buy, call, run, crashes>>
      /\ \A v \in Workers \ {w} : work'[v] = work[v]
  BY ReconcileAskDoes DEF WorkMoves
<1>2. CASE work'[w] = NoTick
  <2>1. Finds(w)
    BY <1>2, NoTickIs DEF Finds
  <2> QED BY <1>1, <2>1, CrashesStay, LookTallies
<1>3. CASE work'[w] # NoTick
  <2> SUFFICES ASSUME NEW c \in Counters, work'[w].snap[c] > 0, c \notin stirred', Clean(c)'
               PROVE  Found(w, c)'
    BY <1>1, CrashesStay, LookTallies DEF Finds
  <2>1. Found(w, c)
    <3>1. work[w].snap[c] > 0
      BY <1>3, ReconcileAskDoes
    <3>2. c \notin stirred /\ Clean(c)
      BY CleanStays DEF Recorded
    <3> QED BY <3>1, <3>2 DEF Tallied, SnapsFound
  <2>2. \A o \in Orders : IsLine(o, c) => ~BuyHolds(o, At(o, c))'
    BY <1>1, <2>1, BuyKeeps DEF Found
  <2>3. OrderSum(c)' = OrderSum(c)
    BY <1>1, OrderSumStays
  <2>4. CASE /\ work'[w].asked = work[w].asked \cup {"held"}
             /\ work'[w].want[c] = SumQty(Holding(c, {"held"}))
             /\ c \notin work'[w].pending => c \notin work[w].pending
    <3>1. OrderSum(c)' <= work'[w].want[c]
      BY <2>3, <2>4, OrderSumIs
    <3>2. "pending" \in work'[w].asked => "pending" \in work[w].asked
      BY <2>4
    <3> QED BY <1>1, <2>1, <2>2, <2>4, <3>1, <3>2 DEF Found
  <2>5. CASE /\ work'[w].asked = work[w].asked \cup {"pending"}
             /\ work'[w].want[c] = work[w].want[c]
             /\ c \notin work'[w].pending => c \notin CountersOf(Pending)
    <3>1. "held" \in work'[w].asked => OrderSum(c)' <= work'[w].want[c]
      BY <2>1, <2>3, <2>5 DEF Found
    <3>2. c \notin work'[w].pending => \A o \in Orders : IsLine(o, c) => order'[o].op = None
      BY <1>1, <2>5 DEF CountersOf, Pending, IsLine
    <3> QED BY <2>2, <3>1, <3>2 DEF Found
  <2> QED BY <1>3, <2>4, <2>5, ReconcileAskDoes
<1> QED BY <1>2, <1>3

\* Of a counter that was found and asked for, the orders hold what it holds
\* for its lines: what they were found to hold, at most.
LEMMA FoundHolds ==
  ASSUME Typed, Tallied, NEW w \in Workers, work[w].asked = {"held", "pending"},
         NEW c \in Counters, c \notin work[w].pending, work[w].snap[c] > 0,
         c \notin stirred, Clean(c)
  PROVE  HeldSum(c) <= work[w].want[c]
<1>1. Found(w, c)
  BY DEF Tallied, SnapsFound
<1>2. \A o \in Orders : HeldPart(c)[o] = OrderPart(c)[o]
  <2> TAKE o \in Orders
  <2>1. CASE IsLine(o, c)
    <3>1. ~BuyHolds(o, At(o, c)) /\ ~OpHolds(o, At(o, c))
      BY <1>1, <2>1 DEF Found, OpHolds
    <3>2. Uses(o, OrderHolds(o, At(o, c))) \in Nat
      BY ByAre
    <3>3. HeldBy(o, At(o, c)) = Uses(o, OrderHolds(o, At(o, c)))
      BY <3>1, <3>2 DEF HeldBy, Uses
    <3> QED BY <2>1, <3>3 DEF HeldPart, OrderPart
  <2>2. CASE ~IsLine(o, c)
    BY <2>2 DEF HeldPart, OrderPart
  <2> QED BY <2>1, <2>2
<1>3. HeldSum(c) = OrderSum(c)
  BY <1>2, OrdersFinite, SumSame DEF HeldSum, OrderSum
<1> QED BY <1>1, <1>3 DEF Found

LEMMA TalliedReconcileFix ==
  ASSUME Typed, Typed', Kept, Tallied, History, NEW w \in Workers, ReconcileFix(w)
  PROVE  Tallied'
<1>1. /\ UNCHANGED <<order, buy, call, run, crashes>> /\ Recorded
      /\ work[w].asked = {"held", "pending"} /\ work[w].pending = {}
  BY ReconcileFixDoes, HistoryRecords
<1>2. PICK c \in Counters :
              /\ work[w].snap[c] > work[w].want[c]
              /\ work'[w].snap[c] = 0
              /\ \/ WorkMoves(w, "idle", {}) /\ work'[w] = NoTick
                 \/ /\ WorkMoves(w, work[w].pc, work[w].todo)
                    /\ SurplusOnly(work'[w])
                    /\ work'[w].asked = work[w].asked
                    /\ \A d \in Counters : work'[w].snap[d] > 0 =>
                         /\ work[w].snap[d] > 0 /\ work'[w].want[d] = work[w].want[d]
                         /\ d \notin work'[w].pending => d \notin work[w].pending
              /\ \/ UNCHANGED counter
                 \/ /\ counter[c].held = work[w].snap[c]
                    /\ Moves(c, work[w].want[c] - work[w].snap[c])
  BY ReconcileFixDoes
<1>3. \A v \in Workers \ {w} : work'[v] = work[v]
  BY <1>2 DEF WorkMoves
<1>4. \A d \in Counters : counter'[d].ops = counter[d].ops
  BY <1>2 DEF Moves
<1>5. /\ \A x \in Orders : \A i \in 1..Len(Lines[x]) : LineStays(x, i)
      /\ \A d : Quiet(d)
      /\ OpsQuiet
  BY <1>1, <1>4, WorkStays
<1>6. Finds(w)
  <2>1. CASE work'[w] = NoTick
    BY <2>1, NoTickIs DEF Finds
  <2>2. CASE work'[w] # NoTick
    <3> SUFFICES ASSUME NEW d \in Counters, work'[w].snap[d] > 0, d \notin stirred', Clean(d)'
                 PROVE  Found(w, d)'
      BY DEF Finds
    <3>1. /\ work[w].snap[d] > 0 /\ work'[w].want[d] = work[w].want[d]
          /\ work'[w].asked = work[w].asked /\ work'[w].pending = {}
      BY <1>1, <1>2, <2>2 DEF SurplusOnly
    <3>2. Found(w, d)
      BY <1>1, <3>1, CleanStays DEF Recorded, Tallied, SnapsFound
    <3> QED BY <1>1, <1>5, <3>1, <3>2, FoundStays
  <2> QED BY <2>1, <2>2
<1>7. RunsApply'
  <2>1. \A x \in Orders : \A i \in 1..Len(Lines[x]) : Clean(Lines[x][i])' =>
          (OpHolds(x, i)' => OpHolds(x, i))
    BY <1>5 DEF LineStays
  <2> QED BY <1>1, <2>1, RunsKeep DEF Tallied
<1>8. CASE UNCHANGED counter
  <2>1. Counted'
    BY <1>1, <1>5, <1>8, CrashesStay, AllStay DEF Tallied, Counted
  <2> QED BY <1>1, <1>3, <1>5, <1>6, <1>7, <2>1, WorkTallies
<1>9. CASE /\ counter[c].held = work[w].snap[c]
           /\ Moves(c, work[w].want[c] - work[w].snap[c])
  <2>1. PICK s \in Nat, t \in Nat : s = work[w].snap[c] /\ t = work[w].want[c] /\ s > t
    BY <1>2, TypedAre
  <2>2. \A d \in Counters :
          /\ counter'[d].held = IF d = c THEN t ELSE counter[d].held
          /\ counter'[d].sold = counter[d].sold /\ counter'[d].quota = counter[d].quota
    BY <1>9, <2>1 DEF Moves
  <2>3. counter[c].held = s
    BY <1>9, <2>1
  <2>4. /\ \A d \in Counters : Clean(d)' => HeldSum(d)' = HeldSum(d) /\ SoldSum(d)' = SoldSum(d)
        /\ \A d \in Counters : HeldSum(d) \in Nat
        /\ \A d : Clean(d)' => Clean(d)
    BY <1>1, <1>5, StaysDoes, LinesSame, SumsAre, CleanStays
  \* A counter touched since is not clean any more.
  <2>5. Clean(c)' => HeldSum(c) <= t
    <3> HAVE Clean(c)'
    <3>1. Lowers(c)
      <4>1. counter'[c].held < counter[c].held
        BY <2>1, <2>2, <2>3
      <4>2. work'[w].snap[c] < work[w].snap[c]
        BY <1>2, <2>1
      <4> QED BY <4>1, <4>2 DEF Lowers
    <3>2. c \notin stirred
      BY <3>1 DEF History, Clean
    <3>3. work[w].snap[c] > 0
      BY <2>1
    <3> QED BY <1>1, <2>1, <2>4, <3>2, <3>3, FoundHolds
  <2>6. CountersHold'
    <3>1. Clean(c)' => crashes # 0
      <4>1. Clean(c)' /\ crashes = 0 => HeldSum(c) = s
        BY <2>3, <2>4 DEF Tallied, CountersHold
      <4> QED BY <2>1, <2>4, <2>5, <4>1
    <3> QED BY <1>1, <2>2, <2>4, <2>5, <3>1 DEF Tallied, CountersHold
  <2>7. CountersSold'
    BY <2>2, <2>4 DEF Tallied, CountersSold
  <2>8. WithinQuota'
    <3>1. \A d \in Products : d \in Counters
      BY CountersAre
    <3>2. \A d \in Products : /\ counter[d].sold \in Nat /\ counter[d].held \in Nat
                              /\ Limit[d] \in Nat
      BY <3>1, TypedAre, CountersAre
    <3> QED BY <2>1, <2>2, <2>3, <2>4, <3>1, <3>2 DEF Tallied, WithinQuota
  <2>9. WithinShare'
    <3>1. \A d \in Shares : Clean(d)' =>
            \A o \in Orders : IsLine(o, d) => FirstBy(o, At(o, d))' <= FirstBy(o, At(o, d))
      <4>1. \A o \in Orders : \A j : FirstBy(o, j) \in Nat
        BY ByAre
      <4> QED BY <1>5, <4>1, AtIs, StaysDoes
    <3> QED BY <1>1, <2>6, <2>7, <3>1, SharesKeep DEF Tallied
  <2>10. Counted'
    BY <2>6, <2>7, <2>8, <2>9 DEF Counted
  <2> QED BY <1>1, <1>3, <1>5, <1>6, <1>7, <2>10, WorkTallies
<1> QED BY <1>2, <1>8, <1>9

LEMMA TalliedWork ==
  ASSUME Typed, Typed', Kept, Tallied, History,
         NEW w \in Workers, WorkStep(w) \/ WorkerCrash(w)
  PROVE  Tallied'
<1>0. Recorded
  BY HistoryRecords
<1>1. CASE ResumeFind(w)
  <2>1. /\ UNCHANGED <<counter, order, buy, call, run, crashes>> /\ KeepsSnap(w)
        /\ \A v \in Workers \ {w} : work'[v] = work[v]
    BY <1>1, ResumeFindDoes DEF WorkMoves
  <2> QED BY <1>0, <2>1, CrashesStay, LookTallies
<1>2. CASE Resume(w)
  <2>1. /\ UNCHANGED <<counter, order, buy, call, crashes>> /\ KeepsSnap(w)
        /\ \A v \in Workers \ {w} : work'[v] = work[v]
        /\ \A v \in Runners : run'[v] = run[v] \/ run'[v].i = 1
    BY <1>2, ResumeDoes DEF WorkMoves, RunStarts
  <2> QED BY <1>0, <2>1, CrashesStay, LookTallies
<1>3. CASE OrphansFind(w)
  <2>1. /\ UNCHANGED <<counter, order, buy, call, run, crashes>>
        /\ KeepsSnap(w) \/ \A c \in Counters : work'[w].snap[c] = 0
        /\ \A v \in Workers \ {w} : work'[v] = work[v]
    BY <1>3, OrphansFindDoes DEF WorkMoves
  <2> QED BY <1>0, <2>1, CrashesStay, LookTallies DEF Finds
<1>4. CASE OrphanSettle(w)
  <2>1. PICK o \in Orders :
              /\ WorkMoves(w, work[w].pc, work[w].todo \ {o})
              /\ \/ /\ MayBegin(o)
                    /\ \E target \in Targets : OrderBegins(o, target)
                    /\ RunStarts(w, o, order'[o].op)
                 \/ UNCHANGED <<order, run>>
    BY <1>4, OrphanSettleDoes
  <2>2. /\ UNCHANGED <<counter, buy, call, crashes>> /\ KeepsSnap(w)
        /\ \A v \in Workers \ {w} : work'[v] = work[v]
    BY <1>4, <2>1, OrphanSettleDoes DEF WorkMoves
  <2>3. CASE UNCHANGED <<order, run>>
    BY <1>0, <2>2, <2>3, CrashesStay, LookTallies
  <2>4. CASE ~UNCHANGED <<order, run>>
    <3>1. PICK target \in Targets : OrderBegins(o, target)
      BY <2>1, <2>4
    <3>2. o \notin torn' => \A k \in Calls : ~Reclaims(k, o)
      BY <3>1, ReclaimedApart
    <3>3. Counted /\ RunsApply /\ w \in Runners
      BY DEF Tallied, Counted, Runners
    <3>4. \A k \in Calls, x \in Orders \ {o} :
            /\ Reclaims(k, x)' <=> Reclaims(k, x)
            /\ Reclaims(k, x) => call'[k] = call[k]
      BY <2>2 DEF Reclaims, Reclaiming
    <3>5. Counted' /\ RunsApply' /\ OpsQuiet /\ \A c : Quiet(c)
      BY <1>0, <2>1, <2>2, <2>4, <3>1, <3>2, <3>3, <3>4, TalliedBegins
    <3>6. Finds(w)
      BY <1>0, <2>2, <3>5, KeepsFound
    <3> QED BY <1>0, <2>2, <3>5, <3>6, WorkTallies
  <2> QED BY <2>3, <2>4
<1>5. CASE WorkerCrash(w)
  <2>1. /\ UNCHANGED <<counter, order, buy, call>> /\ crashes' = crashes + 1
        /\ work'[w] = NoTick /\ \A v \in Workers \ {w} : work'[v] = work[v]
        /\ \A v \in Runners : run'[v] = run[v] \/ run'[v].pc # "apply"
    BY <1>5, WorkerCrashDoes DEF WorkMoves, RunEnds
  <2>2. crashes' >= crashes
    BY <2>1, TypedAre
  <2>3. Finds(w)
    BY <2>1, NoTickIs DEF Finds
  <2> QED BY <1>0, <2>1, <2>2, <2>3, LookTallies
<1> QED BY <1>0, <1>1, <1>2, <1>3, <1>4, <1>5, TalliedReconcileFind, TalliedReconcileAsk,
           TalliedReconcileFix DEF WorkStep

LEMMA TalliedInit == Init => Tallied
<1> SUFFICES ASSUME Init PROVE Tallied
  OBVIOUS
<1>1. \A o \in Orders : /\ buy[o].pc = "start" /\ order[o].state = "none"
                        /\ order[o].op = None
  BY DEF Init
<1>2. \A c \in Counters : counter[c].held = 0 /\ counter[c].sold = 0 /\ counter[c].quota = 0
  BY DEF Init
<1>3. \A o \in Orders : \A j : ~BuyHolds(o, j) /\ ~OrderHolds(o, j) /\ ~OpHolds(o, j) /\ ~SoldAt(o, j)
  BY <1>1 DEF BuyHolds, Buying, OrderHolds, OpHolds, SoldAt
<1>4. \A o \in Orders : \A j : HeldBy(o, j) = 0 /\ SoldBy(o, j) = 0 /\ FirstBy(o, j) = 0
  BY <1>3 DEF HeldBy, SoldBy, FirstBy, Uses
<1>5. \A c : \A o \in Orders : HeldPart(c)[o] = 0 /\ SoldPart(c)[o] = 0 /\ FirstPart(c)[o] = 0
  BY <1>4 DEF HeldPart, SoldPart, FirstPart
<1>6. \A c : HeldSum(c) = 0 /\ SoldSum(c) = 0 /\ FirstSum(c) = 0
  BY <1>5, OrdersFinite, SumOfZeros DEF HeldSum, SoldSum, FirstSum
<1>7. \A c \in Counters : Limit[c] \in Nat
  BY CountersAre
<1>8. CountersHold /\ CountersSold /\ WithinQuota /\ WithinShare
  BY <1>2, <1>6, <1>7, CountersAre
  DEF CountersHold, CountersSold, WithinQuota, WithinShare
<1>9. RunsApply
  BY DEF Init, RunsApply, NoRun
<1>10. SnapsFound
  BY DEF Init, SnapsFound, NoTick
<1> QED BY <1>8, <1>9, <1>10 DEF Tallied

LEMMA TalliedStep ==
  ASSUME Typed, Typed', Kept, Tallied, [CalmNext]_vars
  PROVE  Tallied'
<1>1. CASE CalmNext
  <2>1. History /\ Recorded /\ Step
    BY <1>1, HistoryRecords DEF CalmNext, Next
  <2>2. ASSUME NEW o \in Orders, BuyNextStep(o) \/ BuyCrash(o) PROVE Tallied'
    BY <2>1, <2>2, TalliedCheckout
  <2>3. ASSUME NEW k \in Calls, Request(k) \/ CallStep(k) \/ CallCrash(k) PROVE Tallied'
    BY <2>1, <2>3, TalliedCall
  <2>4. ASSUME NEW w \in Workers, WorkStep(w) \/ WorkerCrash(w) PROVE Tallied'
    BY <2>1, <2>4, TalliedWork
  <2>5. ASSUME NEW w \in Runners, RunNext(w) PROVE Tallied'
    BY <2>1, <2>5, TalliedRun
  <2> QED BY <2>1, <2>2, <2>3, <2>4, <2>5 DEF Step, Crash
<1>2. CASE UNCHANGED vars
  <2>1. /\ UNCHANGED <<counter, order, buy, call, run, work, crashes>>
        /\ UNCHANGED <<torn, stirred, wrong>>
    BY <1>2 DEF vars
  <2>2. Recorded
    <3>1. \A c \in Counters : counter[c].held \in Nat
      BY TypedAre
    <3> QED BY <2>1, <3>1 DEF Recorded, Stirs
  <2>3. \A x \in Orders : \A i \in 1..Len(Lines[x]) : LineStays(x, i)
    BY <2>1, WorkStays
  <2> QED BY <2>1, <2>2, <2>3, CrashesStay, LinesStay
<1> QED BY <1>1, <1>2

HistoryTyped ==
  torn \in SUBSET Orders /\ stirred \in SUBSET Counters /\ wrong \in SUBSET Counters

LEMMA HistoryTypedStep ==
  ASSUME Typed, HistoryTyped, [CalmNext]_vars
  PROVE  HistoryTyped'
<1>1. CASE UNCHANGED vars
  BY <1>1 DEF vars, HistoryTyped
<1>2. CASE CalmNext
  <2>1. History
    BY <1>2 DEF CalmNext, Next
  <2>2. \A k \in Calls : Torn(k) => call[k].o \in Orders
    BY DEF Torn, Reclaiming, Typed, CallPlaced
  <2> QED BY <2>1, <2>2 DEF History, HistoryTyped
<1> QED BY <1>1, <1>2

Sound == Typed /\ HistoryTyped /\ Kept /\ Tallied

LEMMA AlwaysSound == CalmSpec => []Sound
<1>1. Init => Sound
  <2>1. Init => HistoryTyped
    BY DEF Init, HistoryTyped
  <2> QED BY <2>1, TypedInit, KeptInit, TalliedInit DEF Sound
<1>2. Sound /\ [CalmNext]_vars => Sound'
  BY TypedKeptStep, HistoryTypedStep, TalliedStep DEF Sound
<1> QED BY <1>1, <1>2, PTL DEF CalmSpec

\* Whatever crashes, is resumed or reconciled, every counter stays a number of
\* uses that is not negative, and what each handler keeps of its order is of
\* its kind.
THEOREM TypeCorrect == CalmSpec => []TypeOK
<1>1. Sound => TypeOK
  BY DEF Sound, Typed, HistoryTyped, TypeOK
<1> QED BY <1>1, AlwaysSound, PTL

\* Every operation is applied to each of its counters once, although any
\* process may die at any step and a worker finishes what it began.  A counter
\* that a torn reclaim or the reconciler spoilt is left out, every other not.
THEOREM UsesSoldOnce == CalmSpec => []SoldOnce
<1>1. ASSUME Sound, NEW c \in Counters, Settled(c), Clean(c)
      PROVE  counter[c].sold = SumQty(Holding(c, {"sold"}))
  <2> DEFINE T == Holding(c, {"sold"})
  <2>1. \A o \in Orders : Qty[o] \in Int
    BY LinesAre
  <2>2. \A o \in Orders : IsLine(o, c) => order[o].op = None
    BY <1>1 DEF Settled, Pending, IsLine
  <2>3. \A o \in Orders : SoldPart(c)[o] = IF o \in T THEN Qty[o] ELSE 0
    BY <2>2 DEF SoldPart, SoldBy, SoldAt, OpHolds, Uses, Holding, IsLine
  <2>4. T \in SUBSET Orders
    BY DEF Holding
  <2> HIDE DEF T
  <2>5. SumFunctionOnSet(SoldPart(c), Orders) = SumFunctionOnSet(Qty, T)
    BY <2>1, <2>3, <2>4, OrdersFinite, SumOfSome
  <2>6. SoldSum(c) = counter[c].sold
    BY <1>1 DEF Sound, Tallied, CountersSold
  <2> QED BY <2>5, <2>6 DEF SoldSum, SumQty, T
<1>2. Sound => SoldOnce
  BY <1>1 DEF SoldOnce
<1> QED BY <1>2, AlwaysSound, PTL

\* Where nothing died, refused checkouts, failed saves and failed late payments
\* leave the clean counters at what the saved orders hold.
THEOREM CountersBalance == CalmSpec => []Balanced
<1>1. ASSUME Sound, \A o \in Orders : ~Buying(o), \A k \in Calls : ~Reclaiming(k),
             Pending = {}, crashes = 0, NEW c \in Counters, Clean(c)
      PROVE  counter[c].held = SumQty(Holding(c, {"held"}))
  <2> DEFINE T == Holding(c, {"held"})
  <2>1. \A o \in Orders : Qty[o] \in Nat
    BY LinesAre
  <2>2. \A o \in Orders : order[o].op = None
    BY <1>1 DEF Pending
  <2>3. \A o \in Orders : \A j : /\ ~BuyHolds(o, j) /\ ~OpHolds(o, j)
                                 /\ OrderHolds(o, j) <=> order[o].state = "held"
    BY <1>1, <2>2 DEF BuyHolds, OpHolds, OrderHolds, Reclaims
  <2>4. ASSUME NEW o \in Orders, NEW j
        PROVE  HeldBy(o, j) = IF order[o].state = "held" THEN Qty[o] ELSE 0
    <3>1. ~BuyHolds(o, j) /\ ~OpHolds(o, j) /\ (OrderHolds(o, j) <=> order[o].state = "held")
      BY <2>3
    <3> QED BY <2>1, <3>1 DEF HeldBy, Uses
  <2>5. \A o \in Orders : HeldPart(c)[o] = IF o \in T THEN Qty[o] ELSE 0
    BY <2>4 DEF HeldPart, Holding, IsLine
  <2>6. T \in SUBSET Orders
    BY DEF Holding
  <2>7. \A o \in Orders : Qty[o] \in Int
    BY <2>1
  <2> HIDE DEF T
  <2>8. SumFunctionOnSet(HeldPart(c), Orders) = SumFunctionOnSet(Qty, T)
    BY <2>5, <2>6, <2>7, OrdersFinite, SumOfSome
  <2>9. HeldSum(c) = counter[c].held
    BY <1>1 DEF Sound, Tallied, CountersHold
  <2> QED BY <2>8, <2>9 DEF HeldSum, SumQty, T
<1>2. Sound => Balanced
  BY <1>1 DEF Balanced, HeldExactly
<1> QED BY <1>2, AlwaysSound, PTL

-----------------------------------------------------------------------------
(* CampaignHolds implements CampaignLedger                                  *)

Active == {"held", "sold"}

\* The orders the ledger counts for a counter.
Given(d) ==
  {o \in Orders : /\ IsLine(o, d)
                  /\ Promised(o) \in Active
                  /\ d \in Shares => ~TakenBack(o)}

LEMMA LedgerSums ==
  \A fun, S : Ledger!SumFunctionOnSet(fun, S) = SumFunctionOnSet(fun, S)
BY Zenon DEF Ledger!SumFunctionOnSet, Ledger!FoldFunctionOnSet, Ledger!MapThenFoldSet,
   SumFunctionOnSet, FoldFunctionOnSet, MapThenFoldSet

LEMMA LedgerCounts ==
  ASSUME NEW d
  PROVE  Ledger!Taken(d) = SumFunctionOnSet(Qty, Given(d))
<1>1. \A o \in Orders : /\ [x \in Orders |-> Promised(x)][o] = Promised(o)
                        /\ [x \in Orders |-> ToSet(Lines[x])][o] = ToSet(Lines[o])
                        /\ Promised(o) \in Active =>
                             (o \notin {x \in Orders \ torn : TakenBack(x)} <=> ~TakenBack(o))
  BY DEF Promised, Active
<1>2. Ledger!Counted(d) = Given(d)
  BY <1>1 DEF Ledger!Counted, Given, IsLine, Ledger!Active, Active
<1>3. Ledger!Taken(d) = Ledger!SumFunctionOnSet(Qty, Ledger!Counted(d))
  BY DEF Ledger!Taken
<1> QED BY <1>2, <1>3, LedgerSums, Zenon

\* What an order is promised its counter holds or has sold.
LEMMA GivenIsHeld ==
  ASSUME Typed, Kept, NEW d, NEW o \in Given(d)
  PROVE  /\ Qty[o] <= HeldPart(d)[o] + SoldPart(d)[o]
         /\ d \in Shares => Qty[o] <= FirstPart(d)[o]
<1> DEFINE j == At(o, d)
<1>1. o \in Orders /\ IsLine(o, d) /\ Promised(o) \in Active /\ (d \in Shares => ~TakenBack(o))
  BY DEF Given
<1>2. PICK q \in Nat, n \in Nat : q = Qty[o] /\ n = order[o].n
  BY <1>1, LinesAre, TypedAre
<1>3. Promised(o) = order[o].state /\ \A k \in Calls : ~Reclaims(k, o)
  BY <1>1 DEF Promised, Active, Reclaims
<1>4. /\ HeldPart(d)[o] = HeldBy(o, j) /\ SoldPart(d)[o] = SoldBy(o, j)
      /\ FirstPart(d)[o] = FirstBy(o, j)
  BY <1>1 DEF HeldPart, SoldPart, FirstPart
<1>5. \A P : Uses(o, P) \in {0, q}
  BY <1>2 DEF Uses
<1>6. CASE order[o].state = "held"
  <2>1. OrderHolds(o, j)
    BY <1>3, <1>6 DEF OrderHolds
  <2>2. Uses(o, OrderHolds(o, j)) = q
    BY <1>2, <2>1 DEF Uses
  <2>3. d \in Shares => Uses(o, OrderHolds(o, j) /\ order[o].n = 0) = q
    BY <1>1, <1>2, <1>3, <1>6, <2>1 DEF Uses, TakenBack
  <2> HIDE DEF j
  <2> QED BY <1>2, <1>4, <1>5, <2>2, <2>3 DEF HeldBy, SoldBy, FirstBy
<1>7. CASE order[o].state = "sold"
  <2>1. OpHolds(o, j) \/ SoldAt(o, j)
    BY <1>7 DEF SoldAt
  <2>2. Uses(o, OpHolds(o, j)) = q \/ Uses(o, SoldAt(o, j)) = q
    BY <1>2, <2>1 DEF Uses
  <2>3. d \in Shares => order[o].n = 1
    <3>1. n >= 1
      BY <1>1, <1>2, <1>7 DEF Kept, OrdersKept, OrderKept
    <3>2. d \in Shares => ~(n > 1)
      BY <1>1, <1>2, <1>3, <1>7 DEF TakenBack
    <3> QED BY <1>2, <3>1, <3>2
  <2>4. d \in Shares => \/ Uses(o, OpHolds(o, j) /\ order[o].n = 1) = q
                        \/ Uses(o, SoldAt(o, j) /\ order[o].n = 1) = q
    BY <1>2, <2>1, <2>3 DEF Uses
  <2> HIDE DEF j
  <2> QED BY <1>2, <1>4, <1>5, <2>2, <2>4 DEF HeldBy, SoldBy, FirstBy
<1> QED BY <1>1, <1>3, <1>6, <1>7 DEF Active

\* An order that has taken a counter's uses, and is not counted yet, has room.
LEMMA RoomIs ==
  ASSUME Typed, Kept, Tallied, NEW d \in Counters, Clean(d), NEW o \in Orders, IsLine(o, d),
         o \notin Given(d),
         d \in Products => Qty[o] <= HeldBy(o, At(o, d)),
         d \in Shares => Qty[o] <= FirstBy(o, At(o, d))
  PROVE  Ledger!Taken(d) + Qty[o] <= Limit[d]
<1> DEFINE G == Given(d)
           T == G \cup {o}
           gun == [x \in Orders |-> IF x \in T THEN Qty[x] ELSE 0]
           both == [x \in Orders |-> HeldPart(d)[x] + SoldPart(d)[x]]
<1>1. G \in SUBSET Orders /\ IsFiniteSet(G)
  <2>1. G \subseteq Orders
    BY DEF Given
  <2> QED BY <2>1, OrdersFinite, FS_Subset
<1>2. \A x \in Orders : Qty[x] \in Int /\ Qty[x] >= 0
  BY LinesAre
<1>3. \A x \in Orders : /\ HeldPart(d)[x] \in Nat /\ SoldPart(d)[x] \in Nat
                        /\ FirstPart(d)[x] \in Nat
  BY PartsAre
<1>4. \A x \in Orders : both[x] = HeldPart(d)[x] + SoldPart(d)[x]
  OBVIOUS
<1>5. \A x \in Orders : gun[x] = IF x \in T THEN Qty[x] ELSE 0
  OBVIOUS
<1>6. \A x \in G : /\ Qty[x] <= HeldPart(d)[x] + SoldPart(d)[x]
                   /\ d \in Shares => Qty[x] <= FirstPart(d)[x]
  BY GivenIsHeld
<1>7. /\ HeldPart(d)[o] = HeldBy(o, At(o, d))
      /\ FirstPart(d)[o] = FirstBy(o, At(o, d))
  BY DEF HeldPart, FirstPart
<1>8. o \notin G
  OBVIOUS
<1>9. Ledger!Taken(d) = SumFunctionOnSet(Qty, G)
  BY LedgerCounts
<1>10. T \in SUBSET Orders /\ T = G \cup {o}
  BY <1>1
<1> HIDE DEF G, T, gun, both
<1>11. SumFunctionOnSet(gun, Orders) = SumFunctionOnSet(Qty, G) + Qty[o]
  <2>1. SumFunctionOnSet(gun, Orders) = SumFunctionOnSet(Qty, T)
    BY <1>2, <1>5, <1>10, OrdersFinite, SumOfSome
  <2>2. SumFunctionOnSet(Qty, G \cup {o}) = SumFunctionOnSet(Qty, G) + Qty[o]
    BY <1>1, <1>2, <1>8, SumWith
  <2> QED BY <1>10, <2>1, <2>2
<1>12. \A x \in Orders : gun[x] \in Int
  BY <1>2, <1>5
<1>13. CASE d \in Products
  <2>1. \A x \in Orders : gun[x] <= both[x]
    <3>1. Qty[o] <= both[o]
      BY <1>2, <1>3, <1>4, <1>7, <1>13
    <3> QED BY <1>2, <1>3, <1>4, <1>5, <1>6, <1>10, <3>1
  <2>2. \A x \in Orders : both[x] \in Int
    BY <1>3, <1>4
  <2>3. SumFunctionOnSet(gun, Orders) <= SumFunctionOnSet(both, Orders)
    BY <1>12, <2>1, <2>2, OrdersFinite, SumAtMost
  <2>4. SumFunctionOnSet(both, Orders) = HeldSum(d) + SoldSum(d)
    <3>1. \A x \in Orders : HeldPart(d)[x] \in Int /\ SoldPart(d)[x] \in Int
      BY <1>3
    <3> QED BY <1>4, <3>1, OrdersFinite, SumPlus DEF HeldSum, SoldSum
  <2>5. /\ HeldSum(d) <= counter[d].held /\ SoldSum(d) = counter[d].sold
        /\ counter[d].sold + counter[d].held <= Limit[d]
    BY <1>13 DEF Tallied, CountersHold, CountersSold, WithinQuota
  <2>6. /\ counter[d].held \in Nat /\ counter[d].sold \in Nat /\ Limit[d] \in Nat
        /\ HeldSum(d) \in Nat
    BY TypedAre, CountersAre, SumsAre
  <2>7. SumFunctionOnSet(gun, Orders) \in Int
    BY <1>12, OrdersFinite, SumInt
  <2> QED BY <1>9, <1>11, <2>3, <2>4, <2>5, <2>6, <2>7
<1>14. CASE d \in Shares
  <2>1. \A x \in Orders : gun[x] <= FirstPart(d)[x]
    <3>1. Qty[o] <= FirstPart(d)[o]
      BY <1>7, <1>14
    <3> QED BY <1>2, <1>3, <1>5, <1>6, <1>10, <1>14, <3>1
  <2>2. \A x \in Orders : FirstPart(d)[x] \in Int
    BY <1>3
  <2>3. SumFunctionOnSet(gun, Orders) <= FirstSum(d)
    BY <1>12, <2>1, <2>2, OrdersFinite, SumAtMost DEF FirstSum
  <2>4. FirstSum(d) <= Limit[d]
    BY <1>14 DEF Tallied, WithinShare
  <2>5. /\ FirstSum(d) \in Nat /\ Limit[d] \in Nat
        /\ SumFunctionOnSet(gun, Orders) \in Int
    BY <1>12, OrdersFinite, SumInt, SumsAre, CountersAre
  <2> QED BY <1>9, <1>11, <2>3, <2>4, <2>5
<1> QED BY <1>13, <1>14, CountersAre

\* A counter the ledger relies on is clean.
LEMMA ReliableIs ==
  ASSUME HistoryTyped
  PROVE  \A d : Ledger!Reliable(d) => Clean(d)
<1>1. \A o \in torn : o \in Orders /\ Promised(o) = "astray"
  BY DEF HistoryTyped, Promised
<1>2. \A o \in Orders : /\ [x \in Orders |-> Promised(x)][o] = Promised(o)
                        /\ [x \in Orders |-> ToSet(Lines[x])][o] = ToSet(Lines[o])
  OBVIOUS
<1> QED BY <1>1, <1>2 DEF Ledger!Reliable, Clean

-----------------------------------------------------------------------------
(* What the ledger sees of a step *)

Late(x) == x \notin torn /\ TakenBack(x)

\* The ledger does not see an order that stays as it stands.
Stands(x) == Promised(x)' = Promised(x) /\ (Late(x)' <=> Late(x))

\* An order is torn only by a step that ends its reclaim or settles it.
LEMMA NotTorn ==
  ASSUME History, NEW x \in Orders, x \notin torn, order'[x].n = order[x].n,
         \A k \in Calls : Reclaims(k, x) => call'[k].pc # "crashed"
  PROVE  x \notin torn'
  BY DEF History, Torn, Reclaims

\* A torn order stands whatever happens.
LEMMA TornStands ==
  ASSUME History, NEW x \in torn
  PROVE  Stands(x)
<1>1. x \in torn'
  BY DEF History
<1> QED BY <1>1 DEF Stands, Promised, Late

LEMMA OrderStands ==
  ASSUME History, NEW x \in Orders, order'[x].state = order[x].state, order'[x].n = order[x].n,
         \A k \in Calls : Reclaims(k, x)' <=> Reclaims(k, x)
  PROVE  Stands(x)
<1>1. CASE x \in torn
  BY <1>1, TornStands
<1>2. CASE x \notin torn
  <2>1. \A k \in Calls : Reclaims(k, x) => call'[k].pc # "crashed"
    BY DEF Reclaims, Reclaiming
  <2>2. x \notin torn'
    BY <1>2, <2>1, NotTorn
  <2>3. Promised(x)' = Promised(x)
    BY <1>2, <2>2 DEF Promised, Reclaims
  <2> QED BY <1>2, <2>2, <2>3 DEF Stands, Late, TakenBack
<1> QED BY <1>1, <1>2

\* Only the reconciler writes both a counter and what a tick found.
LEMMA WrongStays ==
  ASSUME Typed, HistoryTyped, History, UNCHANGED counter \/ UNCHANGED work
  PROVE  UNCHANGED wrong
<1>1. \A c \in stirred : c \in Counters
  BY DEF HistoryTyped
<1>2. \A c \in stirred : ~Lowers(c)
  BY <1>1, TypedAre DEF Lowers
<1> QED BY <1>2 DEF History

LEMMA LedgerStays ==
  ASSUME UNCHANGED wrong, \A x \in Orders : Stands(x)
  PROVE  UNCHANGED Ledger!vars
<1>1. [o \in Orders |-> Promised(o)]' = [o \in Orders |-> Promised(o)]
  BY DEF Stands
<1>2. {o \in Orders \ torn : TakenBack(o)}' = {o \in Orders \ torn : TakenBack(o)}
  BY DEF Stands, Late
<1> QED BY <1>1, <1>2 DEF Ledger!vars

\* One order goes to another state.
LEMMA LedgerMoves ==
  ASSUME NEW o \in Orders, \A x \in Orders \ {o} : Stands(x), NEW s, Promised(o)' = s
  PROVE  /\ [x \in Orders |-> Promised(x)]' =
              [[x \in Orders |-> Promised(x)] EXCEPT ![o] = s]
         /\ [x \in Orders |-> Promised(x)][o] = Promised(o)
         /\ (Late(o)' <=> Late(o)) =>
              {x \in Orders \ torn : TakenBack(x)}' = {x \in Orders \ torn : TakenBack(x)}
         /\ Late(o)' =>
              {x \in Orders \ torn : TakenBack(x)}' =
                {x \in Orders \ torn : TakenBack(x)} \cup {o}
         /\ ~Late(o)' =>
              {x \in Orders \ torn : TakenBack(x)}' =
                {x \in Orders \ torn : TakenBack(x)} \ {o}
<1>1. \A x \in Orders : x \in {y \in Orders \ torn : TakenBack(y)} <=> Late(x)
  BY DEF Late
<1>2. \A x \in Orders : x \in {y \in Orders \ torn : TakenBack(y)}' <=> Late(x)'
  BY DEF Late
<1>3. [x \in Orders |-> Promised(x)]' =
              [[x \in Orders |-> Promised(x)] EXCEPT ![o] = s]
  BY DEF Stands
<1>4. \A x \in Orders \ {o} : Late(x)' <=> Late(x)
  BY DEF Stands
<1> QED BY <1>1, <1>2, <1>3, <1>4

LEMMA LedgerInit == Init => Ledger!Init
<1> SUFFICES ASSUME Init PROVE Ledger!Init
  OBVIOUS
<1>1. \A o \in Orders : order[o].state = "none" /\ order[o].n = 0
  BY DEF Init
<1>2. \A k \in Calls : ~Reclaiming(k)
  BY DEF Init, Reclaiming
<1>3. torn = {} /\ wrong = {}
  BY DEF Init
<1>4. \A o \in Orders : Promised(o) = "none" /\ ~TakenBack(o)
  BY <1>1, <1>2, <1>3 DEF Promised, TakenBack
<1> QED BY <1>3, <1>4 DEF Ledger!Init

\* A saved order holds what its checkout took.
LEMMA SaveHolds ==
  ASSUME Typed, HistoryTyped, Kept, Tallied, History, UNCHANGED wrong,
         NEW o \in Orders, o \notin torn, Save(o)
  PROVE  Ledger!Hold(o)
<1>1. /\ UNCHANGED call /\ buy[o].pc = "taken"
      /\ \A x \in Orders \ {o} : order'[x] = order[x]
      /\ order'[o].state = "held" /\ order'[o].n = order[o].n
  BY SaveDoes
<1>2. order[o].state = "none" /\ order[o].n = 0
  BY <1>1, TypedAre DEF Kept, OrdersKept, OrderKept
<1>3. \A k \in Calls : ~Reclaims(k, o) /\ ~Reclaims(k, o)'
  BY <1>1, <1>2 DEF Kept, CallsKept, Reclaims, Reclaiming
<1>4. o \notin torn'
  BY <1>1, <1>3, NotTorn
<1>5. Promised(o) = "none" /\ Promised(o)' = "held" /\ ~TakenBack(o) /\ ~TakenBack(o)'
  BY <1>1, <1>2, <1>3, <1>4 DEF Promised, TakenBack, Reclaims
<1>6. \A x \in Orders \ {o} : Stands(x)
  BY <1>1, OrderStands DEF Reclaims, Reclaiming
<1>7. ASSUME NEW d \in Counters, IsLine(o, d), Clean(d)
      PROVE  Ledger!Taken(d) + Qty[o] <= Limit[d]
  <2>1. PICK j \in 1..Len(Lines[o]) : j = At(o, d)
    BY <1>7, AtIs
  <2>2. BuyHolds(o, j)
    <3>1. buy[o].n = Len(Lines[o]) /\ Len(Lines[o]) \in Nat
      BY <1>1, LinesAre DEF Typed, BuyPlaced
    <3> QED BY <1>1, <3>1 DEF BuyHolds, Buying
  <2>3. PICK q \in Nat : q = Qty[o]
    BY LinesAre
  <2>4. \A P : Uses(o, P) \in {0, q}
    BY <2>3 DEF Uses
  <2>5. Uses(o, BuyHolds(o, j)) = q
    BY <2>2, <2>3 DEF Uses
  <2>6. q <= HeldBy(o, j) /\ q <= FirstBy(o, j)
    BY <2>4, <2>5 DEF HeldBy, FirstBy
  <2>7. o \notin Given(d)
    BY <1>5 DEF Given, Active
  <2> QED BY <1>7, <2>1, <2>3, <2>6, <2>7, RoomIs
<1>8. Ledger!Room(o, Products \cup Shares)
  BY <1>7, ReliableIs DEF Ledger!Room, IsLine, Counters
<1> QED BY <1>5, <1>6, <1>8, LedgerMoves DEF Ledger!Hold, Late

\* An operation settles its order.
LEMMA BeginSettles ==
  ASSUME Typed, Kept, History, UNCHANGED wrong,
         NEW o \in Orders, NEW target \in Targets, MayBegin(o),
         OrderBegins(o, target), o \notin torn',
         \A k \in Calls, x \in Orders : Reclaims(k, x)' <=> Reclaims(k, x)
  PROVE  Ledger!Settle(o)
<1>1. /\ \A x \in Orders \ {o} : order'[x] = order[x]
      /\ order'[o].state = target /\ order'[o].n = order[o].n + 1
      /\ order[o].state = "held"
  BY DEF OrderBegins, MayBegin
<1>2. \A x \in Orders \ {o} : Stands(x)
  BY <1>1, OrderStands
<1>3. o \notin torn /\ \A k \in Calls : ~Reclaims(k, o)
  BY TornStays, ReclaimedApart
<1>4. Promised(o) = "held" /\ Promised(o)' = target
  BY <1>1, <1>3 DEF Promised, Reclaims
<1>5. Late(o)' <=> Late(o)
  <2>1. target # "held"
    BY DEF Targets
  <2>2. order[o].n \in Nat
    BY TypedAre
  <2> QED BY <1>1, <1>3, <1>4, <2>1, <2>2 DEF Late, TakenBack
<1>6. target \in {"sold", "released"}
  BY DEF Targets
<1> QED BY <1>2, <1>4, <1>5, <1>6, LedgerMoves DEF Ledger!Settle

\* An order is torn while its uses are being taken back.
LEMMA GoesAstray ==
  ASSUME History, UNCHANGED wrong, NEW o \in Orders, o \notin torn, o \in torn',
         \A x \in Orders \ {o} : Stands(x)
  PROVE  Ledger!GoAstray(o)
<1>1. PICK k \in Calls : Torn(k) /\ call[k].o = o
  BY DEF History
<1>2. Promised(o) = "released"
  BY <1>1 DEF Promised, Torn
<1>3. Promised(o)' = "astray" /\ ~Late(o)'
  BY DEF Promised, Late
<1> QED BY <1>2, <1>3, LedgerMoves DEF Ledger!GoAstray

\* An operation begins: it settles the order, or tears it.
LEMMA LedgerBegins ==
  ASSUME Typed, Kept, History, UNCHANGED wrong,
         NEW o \in Orders, NEW target \in Targets, MayBegin(o), OrderBegins(o, target),
         \A k \in Calls, x \in Orders : Reclaims(k, x)' <=> Reclaims(k, x)
  PROVE  [Ledger!Next]_(Ledger!vars)
<1>1. \A x \in Orders \ {o} : Stands(x)
  BY OrderStands DEF OrderBegins
<1>2. CASE o \in torn
  <2>1. Stands(o)
    BY <1>2, TornStands
  <2> QED BY <1>1, <2>1, LedgerStays
<1>3. CASE o \notin torn /\ o \in torn'
  <2>1. Ledger!GoAstray(o)
    BY <1>1, <1>3, GoesAstray
  <2> QED BY <2>1 DEF Ledger!Next
<1>4. CASE o \notin torn'
  <2>1. Ledger!Settle(o)
    BY <1>4, BeginSettles
  <2> QED BY <2>1 DEF Ledger!Next
<1> QED BY <1>2, <1>3, <1>4

\* When a late payment has taken all back, its products had the room.
LEMMA ShareReclaims ==
  ASSUME Typed, HistoryTyped, Kept, Tallied, History, UNCHANGED wrong,
         NEW k \in Calls, TakeShare(k), ~Reclaiming(k)', call[k].o \notin torn
  PROVE  \E o \in Orders : Ledger!Reclaim(o)
<1>1. UNCHANGED <<order, buy, run, work, crashes>> /\ call[k].pc = "share"
  BY TakeShareDoes
<1>2. PICK o \in Orders : o = call[k].o
  BY TakeShareDoes
<1>3. /\ \A j \in Calls \ {k} : call'[j] = call[j]
      /\ call'[k].o = o /\ call'[k].pc = "begin"
      /\ \A j \in 1..Len(Lines[o]) : call[k].i <= j => Lines[o][j] \notin Shares
  <2>1. PICK i \in 1..(Len(Lines[o]) + 1) :
        /\ \A j \in 1..Len(Lines[o]) :
             call[k].i <= j /\ j < i => Lines[o][j] \notin Shares
        /\ \/ /\ i > Len(Lines[o])
              /\ UNCHANGED counter
              /\ CallMoves(k, "begin", 1, call[k].got)
           \/ /\ i <= Len(Lines[o]) /\ call[k].i <= i
              /\ Lines[o][i] \in Shares
              /\ Moves(Lines[o][i], Qty[o])
              /\ CallMoves(k, "share", i + 1, call[k].got)
    BY <1>2, TakeShareDoes
  <2>2. i > Len(Lines[o]) /\ CallMoves(k, "begin", 1, call[k].got)
    BY <2>1 DEF CallMoves, Reclaiming
  <2>3. Len(Lines[o]) \in Nat
    BY LinesAre
  <2> QED BY <1>2, <2>1, <2>2, <2>3 DEF CallMoves
<1>4. /\ Reclaims(k, o) /\ order[o].state = "held" /\ order[o].n >= 1 /\ order[o].n \in Nat
      /\ \A j \in Calls \ {k} : ~Reclaims(j, o)
  BY <1>1, <1>2, TypedAre DEF Kept, CallsKept, Reclaims, Reclaiming
<1>5. \A j \in Calls : ~Reclaims(j, o)'
  BY <1>3, <1>4 DEF Reclaims, Reclaiming
<1>6. o \notin torn'
  <2>1. \A j \in Calls : Reclaims(j, o) => call'[j].pc # "crashed"
    BY <1>3, <1>4
  <2> QED BY <1>1, <1>2, <2>1, NotTorn
<1>7. Promised(o) = "released" /\ Promised(o)' = "held" /\ Late(o)'
  <2>1. Promised(o) = "released"
    BY <1>2, <1>4 DEF Promised, Reclaims
  <2>2. Promised(o)' = "held"
    BY <1>1, <1>4, <1>5, <1>6 DEF Promised, Reclaims
  <2> QED BY <1>1, <1>4, <1>6, <2>1, <2>2 DEF Late, TakenBack
<1>8. \A x \in Orders \ {o} : Stands(x)
  <2>1. \A x \in Orders \ {o}, j \in Calls : Reclaims(j, x)' <=> Reclaims(j, x)
    BY <1>2, <1>3 DEF Reclaims, Reclaiming
  <2> QED BY <1>1, <2>1, OrderStands
<1>9. ASSUME NEW d \in Products, IsLine(o, d), Clean(d)
      PROVE  Ledger!Taken(d) + Qty[o] <= Limit[d]
  <2>1. PICK j \in 1..Len(Lines[o]) : j = At(o, d) /\ Lines[o][j] = d
    BY <1>9, AtIs
  <2>2. OrderHolds(o, j)
    BY <1>1, <1>2, <1>4, <2>1 DEF OrderHolds, HasBack
  <2>3. PICK q \in Nat : q = Qty[o]
    BY LinesAre
  <2>4. \A P : Uses(o, P) \in {0, q}
    BY <2>3 DEF Uses
  <2>5. Uses(o, OrderHolds(o, j)) = q
    BY <2>2, <2>3 DEF Uses
  <2>6. q <= HeldBy(o, j)
    BY <2>4, <2>5 DEF HeldBy
  <2>7. o \notin Given(d)
    BY <1>7 DEF Given, Active
  <2>8. d \in Counters /\ d \notin Shares
    BY CountersAre
  <2> QED BY <1>9, <2>1, <2>3, <2>6, <2>7, <2>8, RoomIs
<1>10. Ledger!Room(o, Products)
  BY <1>9, ReliableIs DEF Ledger!Room, IsLine
<1> QED BY <1>7, <1>8, <1>10, LedgerMoves DEF Ledger!Reclaim

LEMMA LedgerCall ==
  ASSUME Typed, HistoryTyped, Kept, Tallied, History, NEW k \in Calls,
         \/ Request(k) \/ CallStep(k) \/ CallCrash(k)
  PROVE  [Ledger!Next]_(Ledger!vars)
<1>0. UNCHANGED wrong
  <2>1. UNCHANGED work
    BY DEF Request, CallStep, CallBegin, CallReturns, Flip, TakeBack, TakeBackUndo, Manual,
           TakeShare, CallCrash
  <2> QED BY <2>1, WrongStays
<1>1. ASSUME \A x \in Orders : order'[x].state = order[x].state /\ order'[x].n = order[x].n,
             \A j \in Calls \ {k} : call'[j] = call[j],
             Reclaiming(k)' <=> Reclaiming(k), Reclaiming(k) => call'[k].o = call[k].o
      PROVE  [Ledger!Next]_(Ledger!vars)
  <2>1. \A x \in Orders, j \in Calls : Reclaims(j, x)' <=> Reclaims(j, x)
    BY <1>1 DEF Reclaims, Reclaiming
  <2> QED BY <1>0, <1>1, <2>1, OrderStands, LedgerStays
<1>2. CASE Request(k)
  BY <1>1, <1>2, RequestDoes DEF Reclaiming
<1>3. CASE CallBegin(k)
  <2>1. PICK o \in Orders : o = call[k].o
    BY <1>3, CallBeginDoes
  <2>2. call[k].pc = "begin"
    BY <1>3, CallBeginDoes
  <2>3. CASE /\ UNCHANGED <<order, run>>
             /\ \/ CallMoves(k, "flip", 1, call[k].got)
                \/ CallMoves(k, "done", 1, 0)
    BY <1>1, <2>2, <2>3 DEF CallMoves, Reclaiming
  <2>4. CASE /\ MayBegin(o)
             /\ \E target \in Targets : OrderBegins(o, target)
             /\ CallMoves(k, "running", call[k].i, call[k].got)
    <3>1. PICK target \in Targets : OrderBegins(o, target)
      BY <2>4
    <3>2. \A j \in Calls, x \in Orders : Reclaims(j, x)' <=> Reclaims(j, x)
      BY <2>2, <2>4 DEF CallMoves, Reclaims, Reclaiming
    <3> QED BY <1>0, <2>4, <3>1, <3>2, LedgerBegins
  <2> QED BY <1>3, <2>1, <2>3, <2>4, CallBeginDoes
<1>4. CASE CallReturns(k)
  BY <1>1, <1>4, CallReturnsDoes DEF CallMoves, Reclaiming
<1>5. CASE Flip(k)
  <2>1. PICK o \in Orders : o = call[k].o
    BY <1>5, FlipDoes
  <2>2. call[k].pc = "flip"
    BY <1>5, FlipDoes
  <2>3. CASE UNCHANGED order /\ CallMoves(k, "done", 1, 0)
    BY <1>1, <2>2, <2>3 DEF CallMoves, Reclaiming
  <2>4. CASE /\ order[o].state = "released"
             /\ StateBecomes(o, "held")
             /\ \A j \in Calls \ {k} : call'[j] = call[j]
             /\ call'[k].pc = "take" /\ call'[k].o = call[k].o
    <3>1. \A j \in Calls, x \in Orders \ {o} : Reclaims(j, x)' <=> Reclaims(j, x)
      BY <2>1, <2>2, <2>4 DEF Reclaims, Reclaiming
    <3>2. \A x \in Orders \ {o} : Stands(x)
      BY <2>4, <3>1, OrderStands DEF StateBecomes
    <3>3. Reclaims(k, o)'
      BY <2>1, <2>4 DEF Reclaims, Reclaiming
    <3>4. Stands(o)
      <4>1. CASE o \in torn
        BY <4>1, TornStands
      <4>2. CASE o \notin torn
        <5>1. \A j \in Calls : Reclaims(j, o) => call'[j].pc # "crashed"
          BY <2>4 DEF Reclaims, Reclaiming
        <5>2. o \notin torn' /\ order'[o].n = order[o].n
          BY <2>4, <4>2, <5>1, NotTorn DEF StateBecomes
        <5>3. Promised(o) = "released" /\ Promised(o)' = "released"
          BY <2>4, <3>3, <4>2, <5>2 DEF Promised, Reclaims
        <5> QED BY <4>2, <5>2, <5>3 DEF Stands, Late, TakenBack
      <4> QED BY <4>1, <4>2
    <3> QED BY <1>0, <3>2, <3>4, LedgerStays
  <2> QED BY <1>5, <2>1, <2>3, <2>4, FlipDoes
<1>6. CASE TakeBack(k)
  BY <1>1, <1>6, TakeBackDoes DEF CallMoves, Reclaiming
<1>7. CASE TakeBackUndo(k)
  BY <1>1, <1>7, TakeBackUndoDoes DEF CallMoves, Reclaiming
<1>8. CASE Manual(k)
  <2>1. PICK o \in Orders : o = call[k].o
    BY <1>8, ManualDoes
  <2>2. /\ call[k].pc = "manual" /\ StateBecomes(o, "released")
        /\ CallMoves(k, "done", 1, 0)
    BY <1>8, <2>1, ManualDoes
  <2>3. \A j \in Calls, x \in Orders \ {o} : Reclaims(j, x)' <=> Reclaims(j, x)
    BY <2>1, <2>2 DEF CallMoves, Reclaims, Reclaiming
  <2>4. \A x \in Orders \ {o} : Stands(x)
    BY <2>2, <2>3, OrderStands DEF StateBecomes
  <2>5. Stands(o)
    <3>1. CASE o \in torn
      BY <3>1, TornStands
    <3>2. CASE o \notin torn
      <4>1. \A j \in Calls : Reclaims(j, o) => call'[j].pc # "crashed"
        BY <2>2 DEF CallMoves, Reclaims, Reclaiming
      <4>2. o \notin torn' /\ order'[o].n = order[o].n
        BY <2>2, <3>2, <4>1, NotTorn DEF StateBecomes
      <4>3. Promised(o) = "released" /\ Promised(o)' = "released"
        BY <2>1, <2>2, <3>2, <4>2 DEF Promised, Reclaiming, StateBecomes
      <4> QED BY <3>2, <4>2, <4>3 DEF Stands, Late, TakenBack
    <3> QED BY <3>1, <3>2
  <2> QED BY <1>0, <2>4, <2>5, LedgerStays
<1>9. CASE TakeShare(k)
  <2>1. CASE ~Reclaiming(k)' /\ call[k].o \notin torn
    BY <1>0, <1>9, <2>1, ShareReclaims DEF Ledger!Next
  <2>2. /\ UNCHANGED order /\ Reclaiming(k)
        /\ \A j \in Calls \ {k} : call'[j] = call[j]
        /\ call'[k].o = call[k].o
    BY <1>9, TakeShareDoes DEF CallMoves, Reclaiming
  <2>3. CASE Reclaiming(k)'
    BY <1>1, <2>2, <2>3
  <2>4. CASE call[k].o \in torn
    <3>1. \A x \in Orders \ {call[k].o}, j \in Calls : Reclaims(j, x)' <=> Reclaims(j, x)
      BY <2>2 DEF Reclaims, Reclaiming
    <3>2. \A x \in Orders : Stands(x)
      BY <2>2, <2>4, <3>1, OrderStands, TornStands
    <3> QED BY <1>0, <3>2, LedgerStays
  <2> QED BY <2>1, <2>3, <2>4
<1>10. CASE CallCrash(k)
  <2>1. UNCHANGED order /\ CallMoves(k, "crashed", 1, 0) /\ call[k].o \in Orders
    BY <1>10, CallCrashDoes DEF Typed, CallPlaced
  <2>2. PICK o \in Orders : o = call[k].o
    BY <2>1
  <2>3. CASE ~Reclaiming(k)
    <3>1. ~Reclaiming(k)'
      BY <2>1 DEF CallMoves, Reclaiming
    <3> QED BY <1>1, <2>1, <2>3, <3>1 DEF CallMoves
  <2>4. CASE Reclaiming(k)
    <3>1. \A x \in Orders \ {o}, j \in Calls : Reclaims(j, x)' <=> Reclaims(j, x)
      BY <2>1, <2>2 DEF CallMoves, Reclaims, Reclaiming
    <3>2. \A x \in Orders \ {o} : Stands(x)
      BY <2>1, <3>1, OrderStands
    <3>3. o \in torn'
      BY <2>1, <2>2, <2>4 DEF CallMoves, History, Torn
    <3>4. CASE o \in torn
      <4>1. Stands(o)
        BY <3>4, TornStands
      <4> QED BY <1>0, <3>2, <4>1, LedgerStays
    <3>5. CASE o \notin torn
      <4>1. Ledger!GoAstray(o)
        BY <1>0, <3>2, <3>3, <3>5, GoesAstray
      <4> QED BY <4>1 DEF Ledger!Next
    <3> QED BY <3>4, <3>5
  <2> QED BY <2>3, <2>4
<1> QED BY <1>2, <1>3, <1>4, <1>5, <1>6, <1>7, <1>8, <1>9, <1>10 DEF CallStep

LEMMA OrdersStand ==
  ASSUME History, UNCHANGED call,
         \A x \in Orders : order'[x].state = order[x].state /\ order'[x].n = order[x].n
  PROVE  \A x \in Orders : Stands(x)
<1>1. \A x \in Orders, j \in Calls : Reclaims(j, x)' <=> Reclaims(j, x)
  BY DEF Reclaims, Reclaiming
<1> QED BY <1>1, OrderStands

\* The reconciler lowers one counter, whether or not it was touched.
LEMMA FixMiscounts ==
  ASSUME Typed, HistoryTyped, History, NEW w \in Workers, ReconcileFix(w)
  PROVE  [Ledger!Next]_(Ledger!vars)
<1>1. PICK c \in Counters :
        \/ UNCHANGED counter
        \/ Moves(c, work[w].want[c] - work[w].snap[c])
  BY ReconcileFixDoes
<1>2. \A d \in Counters : Lowers(d) => d = c
  BY <1>1, TypedAre DEF Lowers, Moves
<1>3. \A x \in Orders : Stands(x)
  BY ReconcileFixDoes, OrdersStand
<1>4. wrong' = wrong \/ wrong' = wrong \cup {c}
  BY <1>2 DEF History, HistoryTyped
<1>5. CASE wrong' = wrong
  BY <1>3, <1>5, LedgerStays
<1>6. CASE wrong' = wrong \cup {c} /\ c \notin wrong
  <2>1. /\ [o \in Orders |-> Promised(o)]' = [o \in Orders |-> Promised(o)]
        /\ {o \in Orders \ torn : TakenBack(o)}' = {o \in Orders \ torn : TakenBack(o)}
    BY <1>3 DEF Stands, Late
  <2>2. Ledger!Miscount(c) /\ c \in Products \cup Shares
    BY <1>6, <2>1 DEF Ledger!Miscount, Counters
  <2> QED BY <2>2 DEF Ledger!Next
<1> QED BY <1>4, <1>5, <1>6

LEMMA LedgerStep ==
  ASSUME Typed, HistoryTyped, Kept, Tallied, [CalmNext]_vars
  PROVE  [Ledger!Next]_(Ledger!vars)
<1>1. CASE UNCHANGED vars
  <2>1. \A x \in Orders : Stands(x)
    BY <1>1 DEF vars, Stands, Promised, Late, TakenBack, Reclaiming
  <2> QED BY <1>1, <2>1, LedgerStays DEF vars
<1>2. CASE CalmNext
  <2>1. Step /\ History
    BY <1>2 DEF CalmNext, Next
  <2>2. ASSUME UNCHANGED call, UNCHANGED counter \/ UNCHANGED work,
               \A x \in Orders : order'[x].state = order[x].state /\ order'[x].n = order[x].n
        PROVE  [Ledger!Next]_(Ledger!vars)
    BY <2>1, <2>2, OrdersStand, WrongStays, LedgerStays
  <2>3. ASSUME NEW o \in Orders, BuyNextStep(o) \/ BuyCrash(o)
        PROVE  [Ledger!Next]_(Ledger!vars)
    <3>0. UNCHANGED <<call, work>>
      BY <2>3 DEF BuyNextStep, Start, Ensure, Take, Undo, Save, SaveFails, BuyCrash
    <3>1. CASE Save(o) /\ o \notin torn
      BY <2>1, <3>0, <3>1, SaveHolds, WrongStays DEF Ledger!Next
    <3>2. CASE Save(o) /\ o \in torn
      <4>1. \A x \in Orders \ {o} : order'[x] = order[x]
        BY <3>2, SaveDoes
      <4>2. \A x \in Orders, j \in Calls : Reclaims(j, x)' <=> Reclaims(j, x)
        BY <3>0 DEF Reclaims, Reclaiming
      <4>3. \A x \in Orders : Stands(x)
        BY <2>1, <3>2, <4>1, <4>2, OrderStands, TornStands
      <4> QED BY <2>1, <3>0, <4>3, WrongStays, LedgerStays
    <3>3. CASE ~Save(o)
      <4>1. UNCHANGED order
        BY <2>3, <3>3 DEF BuyNextStep, Start, Ensure, Take, Undo, SaveFails, BuyCrash
      <4> QED BY <2>2, <3>0, <4>1
    <3> QED BY <3>1, <3>2, <3>3
  <2>4. ASSUME NEW k \in Calls, Request(k) \/ CallStep(k) \/ CallCrash(k)
        PROVE  [Ledger!Next]_(Ledger!vars)
    BY <2>1, <2>4, LedgerCall
  <2>5. ASSUME NEW w \in Workers, WorkStep(w) \/ WorkerCrash(w)
        PROVE  [Ledger!Next]_(Ledger!vars)
    <3>1. CASE OrphanSettle(w)
      <4>1. PICK o \in Orders :
              \/ /\ MayBegin(o)
                 /\ \E target \in Targets : OrderBegins(o, target)
              \/ UNCHANGED order
        BY <3>1, OrphanSettleDoes
      <4>2. UNCHANGED <<counter, call>>
        BY <3>1, OrphanSettleDoes
      <4>3. CASE UNCHANGED order
        BY <2>2, <4>2, <4>3
      <4>4. ASSUME MayBegin(o), NEW target \in Targets, OrderBegins(o, target)
            PROVE  [Ledger!Next]_(Ledger!vars)
        <5>1. \A k \in Calls, x \in Orders : Reclaims(k, x)' <=> Reclaims(k, x)
          BY <4>2 DEF Reclaims, Reclaiming
        <5>2. UNCHANGED wrong
          BY <2>1, <4>2, WrongStays
        <5> QED BY <2>1, <4>4, <5>1, <5>2, LedgerBegins
      <4> QED BY <4>1, <4>3, <4>4
    <3>2. CASE ReconcileFix(w)
      BY <2>1, <3>2, FixMiscounts
    <3>3. CASE ~OrphanSettle(w) /\ ~ReconcileFix(w)
      <4>1. UNCHANGED <<counter, order, call>>
        BY <2>5, <3>3 DEF WorkStep, ResumeFind, Resume, OrphansFind, ReconcileFind,
           ReconcileAsk, WorkerCrash
      <4> QED BY <2>2, <4>1
    <3> QED BY <3>1, <3>2, <3>3
  <2>6. ASSUME NEW w \in Runners, RunNext(w)
        PROVE  [Ledger!Next]_(Ledger!vars)
    <3>1. UNCHANGED <<call, work>>
      BY <2>6 DEF RunNext, Apply, ToCleanup, Pull, Unset
    <3>2. \A x \in Orders : order'[x].state = order[x].state /\ order'[x].n = order[x].n
      <4>1. CASE Apply(w) \/ Pull(w)
        BY <4>1 DEF Apply, Pull
      <4>2. CASE ToCleanup(w)
        BY <4>2, ToCleanupDoes DEF OpBecomes
      <4>3. CASE Unset(w)
        BY <4>3, UnsetDoes DEF OpBecomes
      <4> QED BY <2>6, <4>1, <4>2, <4>3 DEF RunNext
    <3> QED BY <2>2, <3>1, <3>2
  <2> QED BY <2>1, <2>3, <2>4, <2>5, <2>6 DEF Step, Crash
<1> QED BY <1>1, <1>2

\* No product is promised to more orders than its quota and no customer is
\* given more than the limit: whatever dies, is resumed or reconciled, every
\* step is one of CampaignLedger or changes no order's uses.  An order whose
\* reclaim is torn goes astray there, and a counter the reconciler lowers
\* while it is being sold is miscounted: for those nothing is claimed.
THEOREM LedgerImplemented == CalmSpec => ImplementsCampaignLedger
<1>1. Init => Ledger!Init
  BY LedgerInit
<1>2. Sound /\ [CalmNext]_vars => [Ledger!Next]_(Ledger!vars)
  BY LedgerStep DEF Sound
<1> QED BY <1>1, <1>2, AlwaysSound, PTL
        DEF CalmSpec, ImplementsCampaignLedger, Ledger!Spec
=============================================================================
