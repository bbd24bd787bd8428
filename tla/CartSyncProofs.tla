-------------------------- MODULE CartSyncProofs ---------------------------
(***************************************************************************)
(* Proofs about the cart of one customer, for any number of tabs,          *)
(* requests, faults and sign-outs:                                         *)
(*   CartTypeCorrect    CartTypeOK is an invariant;                        *)
(*   NothingAddedTwice  so is NothingDoubled;                              *)
(*   SavesLoseNothing   NoLostUpdate holds of every step.                  *)
(*                                                                         *)
(* NothingDoubled, which promises nothing once a sign-out met another tab, *)
(* is far from inductive.  The invariant CartInv that is has five layers,  *)
(* of which Tidy and Books hold as long as none did:                       *)
(*                                                                         *)
(*   Typed     the types of the variables, a merge under way has a key;    *)
(*   Tidy      who holds the lock, whose the lines on the disk are, that a *)
(*             tab under the lock still has the disk's metadata and        *)
(*             intent, and that a tab that forgets a cart is the only one  *)
(*             open;                                                       *)
(*   Calls     a tab waits exactly while it merges or saves, for a handler *)
(*             of its own that works on its revision;                      *)
(*   Versions  a copy of the cart that has the row's revision has the      *)
(*             row's quantity;                                             *)
(*   Books     some function f says what each merge key stands for         *)
(*             (Claims) such that (Balance) whatever the cart may still    *)
(*             come to, with whatever a tab or the disk has besides and    *)
(*             with what the keys that the server has not seen stand for,  *)
(*             is no more than the customer put in.                        *)
(*                                                                         *)
(* The first layers are proved step by step from what each step does,      *)
(* field by field (the lemmas ...Does).  Most steps of a tab only pass on  *)
(* what counted already (Quiet); those that do not, Add, Remember, the     *)
(* sign-out and Merge, have lemmas of their own.                           *)
(***************************************************************************)
EXTENDS CartSync, Sums

-----------------------------------------------------------------------------
(* The types of the variables, in full. *)

Intents == {NoIntent} \cup [key : Keys, lines : Nat]
Metas == [there : BOOLEAN, key : Keys \cup {Nothing}]
Rows == [qty : Nat, rev : Nat, keys : SUBSET Keys]
TabPcs == {"closed", "boot", "idle"} \cup Syncing \cup Writing \cup Saving
TabLocals ==
  [pc : TabPcs, lines : Nat, user : BOOLEAN, synced : BOOLEAN, rev : Nat,
   ack : Nat, before : Nat, intent : Intents, meta : Metas,
   call : Handlers \cup {Nothing}, resp : CartAnswer, more : Int]
HandlerPcs == {"free", "read", "write", "replied", "refused"}
HandlerLocals ==
  [pc : HandlerPcs, op : {"merge", "save"}, key : Keys \cup {Nothing}, lines : Nat,
   rev : Nat, seen : Rows, resp : CartAnswer]

DiskDocs == [lines : Nat, meta : Metas, intent : Intents]

MergeHasKey(h) ==
  handler[h].op = "merge" /\ handler[h].pc \in {"read", "write"} => handler[h].key \in Keys

Typed ==
  /\ cart \in Rows
  /\ disk \in DiskDocs
  /\ tab \in [Tabs -> TabLocals]
  /\ lock \in Tabs \cup {Nothing}
  /\ handler \in [Handlers -> HandlerLocals]
  /\ session \in BOOLEAN
  /\ minted \in Nat
  /\ put \in Nat
  /\ faults \in 0..MaxFaults
  /\ signOuts \in 0..MaxSignOuts
  /\ crowded \in BOOLEAN
  /\ \A h \in Handlers : MergeHasKey(h)

LEMMA TypedTypeOK == Typed => CartTypeOK
  BY DEF Typed, CartTypeOK, Rows, Metas, Intents, TabLocals, TabPcs, HandlerLocals,
         HandlerPcs, NoIntent, DiskDocs

\* What a tab or a handler starts from.
NoAnswer == [qty |-> 0, rev |-> 0]

LEMMA Nones ==
  /\ NoIntent \in Intents /\ NoMeta \in Metas /\ NoAnswer \in CartAnswer
  /\ NoIntent.lines = 0
  /\ ~NoMeta.there
  BY DEF Intents, Metas, NoIntent, NoMeta, CartAnswer, NoAnswer

LEMMA RestedType ==
  ASSUME NEW m \in TabLocals
  PROVE  /\ Rested(m) \in TabLocals
         /\ Rested(m) = [m EXCEPT !.pc = "idle", !.before = 0, !.intent = NoIntent, !.meta = NoMeta,
                     !.call = Nothing, !.resp = NoAnswer, !.more = 0]
<1>1. Rested(m) = [m EXCEPT !.pc = "idle", !.before = 0, !.intent = NoIntent, !.meta = NoMeta,
                     !.call = Nothing, !.resp = NoAnswer, !.more = 0]
  BY DEF Rested, NoAnswer
<1>2. Rested(m) =
  [pc |-> "idle", lines |-> m.lines, user |-> m.user, synced |-> m.synced, rev |-> m.rev,
   ack |-> m.ack, before |-> 0, intent |-> NoIntent, meta |-> NoMeta, call |-> Nothing,
   resp |-> NoAnswer, more |-> 0]
  BY <1>1 DEF TabLocals
<1>3. m.lines \in Nat /\ m.user \in BOOLEAN /\ m.synced \in BOOLEAN /\ m.rev \in Nat /\ m.ack \in Nat
  BY DEF TabLocals
<1>4. Rested(m) \in TabLocals
  BY <1>2, <1>3, Nones DEF TabLocals, TabPcs
<1> QED BY <1>1, <1>4

LEMMA FreshType ==
  ASSUME NEW l \in Nat
  PROVE  Fresh(l) \in TabLocals
<1>1. Fresh(l) =
  [pc |-> "boot", lines |-> l, user |-> FALSE, synced |-> FALSE, rev |-> 0,
   ack |-> 0, before |-> 0, intent |-> NoIntent, meta |-> NoMeta, call |-> Nothing,
   resp |-> NoAnswer, more |-> 0]
  BY DEF Fresh, NoAnswer
<1> QED BY <1>1, Nones DEF TabLocals, TabPcs

LEMMA ClosedType == Closed \in TabLocals /\ Closed.pc = "closed"
<1>1. Fresh(0) \in TabLocals
  BY FreshType
<1> QED BY <1>1 DEF Closed, TabLocals, TabPcs

LEMMA NoCallType ==
  /\ NoCall \in HandlerLocals
  /\ ~(NoCall.pc \in {"read", "write"})
  BY DEF NoCall, HandlerLocals, HandlerPcs, Rows, CartAnswer

LEMMA TypedInit == CartInit => Typed
<1> SUFFICES ASSUME CartInit PROVE Typed
  OBVIOUS
<1>1. tab \in [Tabs -> TabLocals]
  BY ClosedType DEF CartInit
<1>2. handler \in [Handlers -> HandlerLocals] /\ \A h \in Handlers : MergeHasKey(h)
  BY NoCallType DEF CartInit, MergeHasKey
<1>3. disk \in DiskDocs
  BY Nones, CartAssumption DEF CartInit, DiskDocs
<1>4. cart \in Rows
  BY DEF CartInit, Rows
<1>5. 0 \in 0..MaxFaults /\ 0 \in 0..MaxSignOuts
  BY CartAssumption
<1> QED BY <1>1, <1>2, <1>3, <1>4, <1>5, CartAssumption DEF CartInit, Typed

LEMMA DroppedType ==
  ASSUME Typed, NEW t \in Tabs
  PROVE  /\ Dropped(t) \in [Handlers -> HandlerLocals]
         /\ \A h \in Handlers : Dropped(t)[h] = handler[h] \/ Dropped(t)[h] = NoCall
  BY NoCallType DEF Typed, Dropped

\* One tab's memory changes.
LEMMA TabChanges ==
  ASSUME Typed, NEW t \in Tabs, NEW m \in TabLocals, tab' = [tab EXCEPT ![t] = m]
  PROVE  /\ tab' \in [Tabs -> TabLocals]
         /\ tab'[t] = m
         /\ \A u \in Tabs \ {t} : tab'[u] = tab[u]
  BY DEF Typed

\* The parts of the state that have a type of their own.
LEMMA Parts ==
  ASSUME Typed
  PROVE  /\ \A t \in Tabs : tab[t] \in TabLocals
         /\ \A h \in Handlers : handler[h] \in HandlerLocals
         /\ disk.lines \in Nat /\ disk.meta \in Metas /\ disk.intent \in Intents
         /\ cart.qty \in Nat /\ cart.rev \in Nat /\ cart.keys \in SUBSET Keys
  BY DEF Typed, Rows, DiskDocs

LEMMA TypedAdd ==
  ASSUME Typed, NEW t \in Tabs, Add(t)
  PROVE  Typed'
<1> DEFINE m == [tab[t] EXCEPT !.lines = @ + 1]
<1>1. m \in TabLocals
  BY Parts DEF TabLocals
<1>2. tab' = [tab EXCEPT ![t] = m]
  BY DEF Add
<1>3. tab' \in [Tabs -> TabLocals]
  <2> HIDE DEF m
  <2> QED BY <1>1, <1>2, TabChanges
<1>4. tab[t].lines \in Nat
  BY Parts DEF TabLocals
<1>5. disk' \in DiskDocs /\ put' \in Nat
  BY <1>4 DEF Add, Typed, DiskDocs
<1> QED BY <1>3, <1>5 DEF Add, Typed, MergeHasKey

LEMMA TypedStart ==
  ASSUME Typed, NEW t \in Tabs, Start(t)
  PROVE  Typed'
<1> DEFINE m == [Rested(tab[t]) EXCEPT !.user = TRUE, !.pc = "lock"]
<1>1. m \in TabLocals
  <2> DEFINE r == Rested(tab[t])
  <2>1. r \in TabLocals
    BY Parts, RestedType
  <2> HIDE DEF r
  <2>2. [r EXCEPT !.user = TRUE, !.pc = "lock"] \in TabLocals
    BY <2>1 DEF TabLocals, TabPcs, Syncing
  <2> QED BY <2>2 DEF r
<1>2. tab' = [tab EXCEPT ![t] = m]
  BY DEF Start
<1>3. tab' \in [Tabs -> TabLocals]
  <2> HIDE DEF m
  <2> QED BY <1>1, <1>2, TabChanges
<1> QED BY <1>3 DEF Start, Typed, MergeHasKey

LEMMA TypedOpenTab ==
  ASSUME Typed, NEW t \in Tabs, OpenTab(t)
  PROVE  Typed'
<1> DEFINE m == Fresh(disk.lines)
<1>1. m \in TabLocals
  BY Parts, FreshType
<1>2. tab' = [tab EXCEPT ![t] = m]
  BY DEF OpenTab
<1>3. tab' \in [Tabs -> TabLocals]
  <2> HIDE DEF m
  <2> QED BY <1>1, <1>2, TabChanges
<1>4. crowded' \in BOOLEAN
  BY DEF OpenTab
<1> QED BY <1>3, <1>4 DEF OpenTab, Typed, MergeHasKey

LEMMA TypedClearLines ==
  ASSUME Typed, NEW t \in Tabs, ClearLines(t)
  PROVE  Typed'
<1> DEFINE m == [tab[t] EXCEPT !.lines = 0, !.pc = "intentOut"]
<1>1. m \in TabLocals
  BY Parts DEF TabLocals, TabPcs, Writing
<1>2. tab' = [tab EXCEPT ![t] = m]
  BY DEF ClearLines
<1>3. tab' \in [Tabs -> TabLocals]
  <2> HIDE DEF m
  <2> QED BY <1>1, <1>2, TabChanges
<1>4. disk' \in DiskDocs
  BY DEF ClearLines, Typed, DiskDocs
<1> QED BY <1>3, <1>4 DEF ClearLines, Typed, MergeHasKey

LEMMA TypedClearIntent ==
  ASSUME Typed, NEW t \in Tabs, ClearIntent(t)
  PROVE  Typed'
<1> DEFINE m == [tab[t] EXCEPT !.pc = "metaOut"]
<1>1. m \in TabLocals
  BY Parts DEF TabLocals, TabPcs, Writing
<1>2. tab' = [tab EXCEPT ![t] = m]
  BY DEF ClearIntent
<1>3. tab' \in [Tabs -> TabLocals]
  <2> HIDE DEF m
  <2> QED BY <1>1, <1>2, TabChanges
<1>4. disk' \in DiskDocs
  BY Nones DEF ClearIntent, Typed, DiskDocs
<1> QED BY <1>3, <1>4 DEF ClearIntent, Typed, MergeHasKey

LEMMA TypedClearMeta ==
  ASSUME Typed, NEW t \in Tabs, ClearMeta(t)
  PROVE  Typed'
<1> DEFINE m == [tab[t] EXCEPT !.pc = "idle"]
<1>1. m \in TabLocals
  BY Parts DEF TabLocals, TabPcs
<1>2. tab' = [tab EXCEPT ![t] = m]
  BY DEF ClearMeta
<1>3. tab' \in [Tabs -> TabLocals]
  <2> HIDE DEF m
  <2> QED BY <1>1, <1>2, TabChanges
<1>4. disk' \in DiskDocs
  BY Nones DEF ClearMeta, Typed, DiskDocs
<1> QED BY <1>3, <1>4 DEF ClearMeta, Typed, MergeHasKey

LEMMA TypedLocked ==
  ASSUME Typed, NEW t \in Tabs, Locked(t)
  PROVE  Typed'
<1> DEFINE m == [tab[t] EXCEPT !.pc = "fetch", !.before = tab[t].lines,
                  !.meta = disk.meta, !.intent = disk.intent]
<1>1. m \in TabLocals
  BY Parts DEF TabLocals, TabPcs, Syncing
<1>2. tab' = [tab EXCEPT ![t] = m]
  BY DEF Locked
<1>3. tab' \in [Tabs -> TabLocals]
  <2> HIDE DEF m
  <2> QED BY <1>1, <1>2, TabChanges
<1> QED BY <1>3 DEF Locked, Typed, MergeHasKey

LEMMA TypedFetch ==
  ASSUME Typed, NEW t \in Tabs, Fetch(t)
  PROVE  Typed'
<1> DEFINE m == [tab[t] EXCEPT !.resp = [qty |-> cart.qty, rev |-> cart.rev],
                  !.pc = IF @ = "fetch" THEN "fetched" ELSE "apply"]
<1>1. m \in TabLocals
  <2>1. [qty |-> cart.qty, rev |-> cart.rev] \in CartAnswer
    BY Parts DEF CartAnswer
  <2> QED BY <2>1, Parts DEF TabLocals, TabPcs, Syncing
<1>2. tab' = [tab EXCEPT ![t] = m]
  BY DEF Fetch
<1>3. tab' \in [Tabs -> TabLocals]
  <2> HIDE DEF m
  <2> QED BY <1>1, <1>2, TabChanges
<1> QED BY <1>3 DEF Fetch, Typed, MergeHasKey

LEMMA TypedNoMerge ==
  ASSUME Typed, NEW t \in Tabs, NoMerge(t)
  PROVE  Typed'
<1> DEFINE m == [tab[t] EXCEPT !.pc = "apply"]
<1>1. m \in TabLocals
  BY Parts DEF TabLocals, TabPcs, Syncing
<1>2. tab' = [tab EXCEPT ![t] = m]
  BY DEF NoMerge
<1>3. tab' \in [Tabs -> TabLocals]
  <2> HIDE DEF m
  <2> QED BY <1>1, <1>2, TabChanges
<1> QED BY <1>3 DEF NoMerge, Typed, MergeHasKey

LEMMA TypedRemember ==
  ASSUME Typed, NEW t \in Tabs, Remember(t)
  PROVE  Typed'
<1> DEFINE m == [tab[t] EXCEPT !.rev = tab[t].resp.rev, !.ack = tab[t].resp.qty,
                  !.more = tab[t].lines - Baseline(t), !.pc = "replace"]
<1>1. m \in TabLocals
  <2>1. tab[t].lines - Baseline(t) \in Int
    <3>1. tab[t].lines \in Int /\ tab[t].before \in Int /\ tab[t].intent.lines \in Int
      BY Parts DEF TabLocals, Intents, NoIntent
    <3>2. Baseline(t) \in Int
      BY <3>1 DEF Baseline
    <3> QED BY <3>1, <3>2
  <2> DEFINE e == tab[t].lines - Baseline(t)
  <2> HIDE DEF e
  <2>3. [tab[t] EXCEPT !.rev = tab[t].resp.rev,
          !.ack = tab[t].resp.qty, !.more = e, !.pc = "replace"] \in TabLocals
    BY <2>1, Parts DEF TabLocals, TabPcs, Writing, CartAnswer, e
  <2> QED BY <2>3 DEF e
<1>2. tab' = [tab EXCEPT ![t] = m]
  BY DEF Remember
<1>3. tab' \in [Tabs -> TabLocals]
  <2> HIDE DEF m
  <2> QED BY <1>1, <1>2, TabChanges
<1>4. disk' \in DiskDocs
  <2>1. tab[t].intent.key \in Keys \cup {Nothing}
    <3>1. tab[t].intent \in Intents
      BY Parts DEF TabLocals
    <3> QED BY <3>1 DEF Intents, NoIntent
  <2>2. [there |-> TRUE, key |-> tab[t].intent.key] \in Metas
    BY <2>1 DEF Metas
  <2> QED BY <2>2 DEF Remember, Typed, DiskDocs
<1> QED BY <1>3, <1>4 DEF Remember, Typed, MergeHasKey

LEMMA TypedReplace ==
  ASSUME Typed, NEW t \in Tabs, Replace(t)
  PROVE  Typed'
<1> DEFINE m == [tab[t] EXCEPT !.lines = tab[t].resp.qty, !.pc = "forget"]
<1>1. m \in TabLocals
  BY Parts DEF TabLocals, TabPcs, Writing, CartAnswer
<1>2. tab' = [tab EXCEPT ![t] = m]
  BY DEF Replace
<1>3. tab' \in [Tabs -> TabLocals]
  <2> HIDE DEF m
  <2> QED BY <1>1, <1>2, TabChanges
<1>4. disk' \in DiskDocs
  BY Parts DEF Replace, Typed, DiskDocs, TabLocals, CartAnswer
<1> QED BY <1>3, <1>4 DEF Replace, Typed, MergeHasKey

LEMMA TypedForget ==
  ASSUME Typed, NEW t \in Tabs, Forget(t)
  PROVE  Typed'
<1> DEFINE m == [tab[t] EXCEPT !.pc = "edits"]
<1>1. m \in TabLocals
  BY Parts DEF TabLocals, TabPcs, Writing
<1>2. tab' = [tab EXCEPT ![t] = m]
  BY DEF Forget
<1>3. tab' \in [Tabs -> TabLocals]
  <2> HIDE DEF m
  <2> QED BY <1>1, <1>2, TabChanges
<1>4. disk' \in DiskDocs
  BY Nones DEF Forget, Typed, DiskDocs
<1> QED BY <1>3, <1>4 DEF Forget, Typed, MergeHasKey

LEMMA TypedSaveStart ==
  ASSUME Typed, NEW t \in Tabs, SaveStart(t)
  PROVE  Typed'
<1> DEFINE m == [tab[t] EXCEPT !.pc = "save"]
<1>1. m \in TabLocals
  BY Parts DEF TabLocals, TabPcs, Saving
<1>2. tab' = [tab EXCEPT ![t] = m]
  BY DEF SaveStart
<1>3. tab' \in [Tabs -> TabLocals]
  <2> HIDE DEF m
  <2> QED BY <1>1, <1>2, TabChanges
<1> QED BY <1>3 DEF SaveStart, Typed, MergeHasKey

\* The quantity that a synced tab shows.
Kept(t) ==
  IF tab[t].resp.qty + tab[t].more < 0 THEN 0 ELSE tab[t].resp.qty + tab[t].more

LEMMA KeptType ==
  ASSUME Typed, NEW t \in Tabs
  PROVE  Kept(t) \in Nat
  BY Parts DEF Kept, TabLocals, CartAnswer

LEMMA TypedEdits ==
  ASSUME Typed, NEW t \in Tabs, Edits(t)
  PROVE  Typed'
<1> DEFINE m == [Rested(tab[t]) EXCEPT !.lines = Kept(t), !.synced = TRUE]
<1>1. m \in TabLocals
  <2> DEFINE r == Rested(tab[t])
             l == Kept(t)
  <2>1. r \in TabLocals /\ l \in Nat
    BY Parts, RestedType, KeptType
  <2> HIDE DEF r, l
  <2>2. [r EXCEPT !.lines = l, !.synced = TRUE] \in TabLocals
    BY <2>1 DEF TabLocals, TabPcs
  <2> QED BY <2>2 DEF r, l
<1>2. tab' = [tab EXCEPT ![t] = m]
  BY DEF Edits, Kept
<1>3. tab' \in [Tabs -> TabLocals]
  <2> HIDE DEF m
  <2> QED BY <1>1, <1>2, TabChanges
<1>4. disk' \in DiskDocs
  BY KeptType DEF Edits, Kept, Typed, DiskDocs
<1>5. lock' \in Tabs \cup {Nothing}
  BY DEF Edits, Typed, Unlocked
<1> QED BY <1>3, <1>4, <1>5 DEF Edits, Typed, MergeHasKey

LEMMA TypedCloseTab ==
  ASSUME Typed, NEW t \in Tabs, CloseTab(t)
  PROVE  Typed'
<1> DEFINE m == Closed
<1>1. m \in TabLocals
  BY ClosedType
<1>2. tab' = [tab EXCEPT ![t] = m]
  BY DEF CloseTab
<1>3. tab' \in [Tabs -> TabLocals]
  <2> HIDE DEF m
  <2> QED BY <1>1, <1>2, TabChanges
<1>5. lock' \in Tabs \cup {Nothing}
  BY DEF CloseTab, Typed, Unlocked
<1>6. handler' \in [Handlers -> HandlerLocals] /\ \A h \in Handlers : MergeHasKey(h)'
  <2>1. handler' = Dropped(t)
    BY DEF CloseTab
  <2> QED BY <2>1, DroppedType, NoCallType DEF Typed, MergeHasKey
<1>7. faults' \in 0..MaxFaults
  BY CartAssumption DEF CloseTab, Typed
<1> QED BY <1>3, <1>5, <1>6, <1>7 DEF CloseTab, Typed, MergeHasKey

LEMMA TypedRequestFails ==
  ASSUME Typed, NEW t \in Tabs, RequestFails(t)
  PROVE  Typed'
<1> DEFINE m == Rested(tab[t])
<1>1. m \in TabLocals
  BY Parts, RestedType
<1>2. tab' = [tab EXCEPT ![t] = m]
  BY DEF RequestFails
<1>3. tab' \in [Tabs -> TabLocals]
  <2> HIDE DEF m
  <2> QED BY <1>1, <1>2, TabChanges
<1>5. lock' \in Tabs \cup {Nothing}
  BY DEF RequestFails, Typed, Unlocked
<1>6. handler' \in [Handlers -> HandlerLocals] /\ \A h \in Handlers : MergeHasKey(h)'
  <2>1. handler' = Dropped(t)
    BY DEF RequestFails
  <2> QED BY <2>1, DroppedType, NoCallType DEF Typed, MergeHasKey
<1>7. faults' \in 0..MaxFaults
  BY CartAssumption DEF RequestFails, Typed
<1> QED BY <1>3, <1>5, <1>6, <1>7 DEF RequestFails, Typed, MergeHasKey

LEMMA TypedUserGone ==
  ASSUME Typed, NEW t \in Tabs, UserGone(t)
  PROVE  Typed'
<1> DEFINE m == [Rested(tab[t]) EXCEPT !.user = FALSE, !.synced = FALSE, !.rev = 0, !.ack = 0,
                  !.pc = IF tab[t].synced \/ disk.meta.there \/ disk.intent # NoIntent THEN "clear" ELSE "idle"]
<1>1. m \in TabLocals
  <2> DEFINE r == Rested(tab[t])
             p == IF tab[t].synced \/ disk.meta.there \/ disk.intent # NoIntent THEN "clear" ELSE "idle"
  <2>1. r \in TabLocals /\ p \in TabPcs
    BY Parts, RestedType DEF TabPcs, Writing
  <2> HIDE DEF r, p
  <2>2. [r EXCEPT !.user = FALSE, !.synced = FALSE, !.rev = 0, !.ack = 0, !.pc = p] \in TabLocals
    BY <2>1 DEF TabLocals
  <2> QED BY <2>2 DEF r, p
<1>2. tab' = [tab EXCEPT ![t] = m]
  BY DEF UserGone
<1>3. tab' \in [Tabs -> TabLocals]
  <2> HIDE DEF m
  <2> QED BY <1>1, <1>2, TabChanges
<1>5. lock' \in Tabs \cup {Nothing}
  BY DEF UserGone, Typed, Unlocked
<1>6. handler' \in [Handlers -> HandlerLocals] /\ \A h \in Handlers : MergeHasKey(h)'
  <2>1. handler' = Dropped(t)
    BY DEF UserGone
  <2> QED BY <2>1, DroppedType, NoCallType DEF Typed, MergeHasKey
<1> QED BY <1>3, <1>5, <1>6 DEF UserGone, Typed, MergeHasKey

LEMMA HandlerChanges ==
  ASSUME Typed, NEW h \in Handlers, NEW r \in HandlerLocals, handler' = [handler EXCEPT ![h] = r],
         r.op = "merge" /\ r.pc \in {"read", "write"} => r.key \in Keys
  PROVE  /\ handler' \in [Handlers -> HandlerLocals]
         /\ handler'[h] = r
         /\ \A g \in Handlers \ {h} : handler'[g] = handler[g]
         /\ \A g \in Handlers : MergeHasKey(g)'
  BY DEF Typed, MergeHasKey

LEMMA SendsType ==
  ASSUME Typed, NEW t, NEW h \in Handlers, NEW op \in {"merge", "save"}, NEW key \in Keys \cup {Nothing},
         NEW lines \in Nat, NEW rev \in Nat, Sends(t, h, op, key, lines, rev), op = "merge" => key \in Keys
  PROVE  /\ handler' \in [Handlers -> HandlerLocals]
         /\ \A g \in Handlers : MergeHasKey(g)'
         /\ \A g \in Handlers \ {h} : handler'[g] = handler[g]
         /\ handler'[h] = [NoCall EXCEPT !.pc = "read", !.op = op, !.key = key, !.lines = lines, !.rev = rev]
<1> DEFINE r == [NoCall EXCEPT !.pc = "read", !.op = op, !.key = key, !.lines = lines, !.rev = rev]
<1>1. r \in HandlerLocals /\ r.op = op /\ r.key = key
  BY NoCallType DEF HandlerLocals, HandlerPcs
<1>2. handler' = [handler EXCEPT ![h] = r]
  BY DEF Sends
<1> HIDE DEF r
<1>3. /\ handler' \in [Handlers -> HandlerLocals]
      /\ \A g \in Handlers : MergeHasKey(g)'
      /\ \A g \in Handlers \ {h} : handler'[g] = handler[g]
      /\ handler'[h] = r
  BY <1>1, <1>2, HandlerChanges
<1> QED BY <1>3 DEF r

LEMMA IntentType ==
  ASSUME Typed, NEW t \in Tabs
  PROVE  /\ Intent(t) \in Intents
         /\ Intent(t) # NoIntent => Intent(t).key \in Keys /\ Intent(t).lines \in Nat
<1>1. tab[t].intent \in Intents /\ tab[t].before \in Nat /\ minted + 1 \in Keys
  BY Parts DEF TabLocals, Typed, Keys
<1>2. [key |-> minted + 1, lines |-> tab[t].before] \in [key : Keys, lines : Nat]
  BY <1>1
<1>3. Intent(t) \in Intents
  BY <1>1, <1>2 DEF Intent, Intents
<1> QED BY <1>3 DEF Intents

LEMMA TypedMerge ==
  ASSUME Typed, NEW t \in Tabs, NEW h \in Handlers, Merge(t, h)
  PROVE  Typed'
<1> DEFINE m == [tab[t] EXCEPT !.intent = Intent(t), !.call = h, !.pc = "merging"]
<1>1. m \in TabLocals
  <2> DEFINE i == Intent(t)
  <2>1. i \in Intents
    BY IntentType
  <2> HIDE DEF i
  <2>2. [tab[t] EXCEPT !.intent = i, !.call = h, !.pc = "merging"] \in TabLocals
    BY <2>1, Parts DEF TabLocals, TabPcs, Syncing
  <2> QED BY <2>2 DEF i
<1>2. tab' = [tab EXCEPT ![t] = m]
  BY DEF Merge
<1>3. tab' \in [Tabs -> TabLocals]
  <2> HIDE DEF m
  <2> QED BY <1>1, <1>2, TabChanges
<1>4. disk' \in DiskDocs /\ minted' \in Nat
  BY IntentType DEF Merge, Typed, DiskDocs
<1>5. handler' \in [Handlers -> HandlerLocals] /\ \A g \in Handlers : MergeHasKey(g)'
  <2>1. Sends(t, h, "merge", Intent(t).key, Intent(t).lines, 0)
    BY DEF Merge
  <2>2. Intent(t).key \in Keys /\ Intent(t).lines \in Nat
    BY IntentType DEF Merge
  <2> QED BY <2>1, <2>2, SendsType
<1> QED BY <1>3, <1>4, <1>5 DEF Merge, Typed, MergeHasKey

LEMMA TypedSave ==
  ASSUME Typed, NEW t \in Tabs, NEW h \in Handlers, Save(t, h)
  PROVE  Typed'
<1> DEFINE m == [tab[t] EXCEPT !.call = h, !.pc = "saving"]
<1>1. m \in TabLocals
  BY Parts DEF TabLocals, TabPcs, Saving
<1>2. tab' = [tab EXCEPT ![t] = m]
  BY DEF Save
<1>3. tab' \in [Tabs -> TabLocals]
  <2> HIDE DEF m
  <2> QED BY <1>1, <1>2, TabChanges
<1>5. handler' \in [Handlers -> HandlerLocals] /\ \A g \in Handlers : MergeHasKey(g)'
  <2>1. Sends(t, h, "save", Nothing, tab[t].lines, tab[t].rev)
    BY DEF Save
  <2>2. tab[t].lines \in Nat /\ tab[t].rev \in Nat
    BY Parts DEF TabLocals
  <2> QED BY <2>1, <2>2, SendsType
<1> QED BY <1>3, <1>5 DEF Save, Typed, MergeHasKey

\* A tab that got its answer: the handler is free again.
LEMMA AnswerTaken ==
  ASSUME Typed, NEW t \in Tabs, tab[t].call \in Handlers,
         handler' = [handler EXCEPT ![tab[t].call] = NoCall]
  PROVE  /\ handler' \in [Handlers -> HandlerLocals]
         /\ \A g \in Handlers : MergeHasKey(g)'
         /\ handler'[tab[t].call] = NoCall
         /\ \A g \in Handlers \ {tab[t].call} : handler'[g] = handler[g]
  BY NoCallType, HandlerChanges

\* A tab waits for a handler exactly while it merges or saves, and no two
\* tabs for the same one.
CallOf(t) ==
  /\ tab[t].call # Nothing <=> tab[t].pc \in {"merging", "saving"}
  /\ tab[t].call # Nothing => LET h == handler[tab[t].call] IN
       /\ h.pc # "free"
       /\ h.op = (IF Is(t, "saving") THEN "save" ELSE "merge")
       /\ Is(t, "saving") /\ h.pc \in {"read", "write"} =>
            h.rev = tab[t].rev /\ h.lines <= tab[t].lines
       /\ \A u \in Tabs \ {t} : tab[u].call # tab[t].call

LEMMA TypedMerged ==
  ASSUME Typed, NEW t \in Tabs, CallOf(t), Merged(t)
  PROVE  Typed'
<1>0. tab[t].call \in Handlers /\ handler[tab[t].call] \in HandlerLocals
  BY Parts DEF Merged, CallOf, Is, TabLocals
<1> DEFINE m == [tab[t] EXCEPT !.resp = handler[tab[t].call].resp, !.call = Nothing, !.pc = "apply"]
<1>1. m \in TabLocals
  <2> DEFINE a == handler[tab[t].call].resp
  <2>1. a \in CartAnswer
    BY <1>0 DEF HandlerLocals
  <2> HIDE DEF a
  <2>2. [tab[t] EXCEPT !.resp = a, !.call = Nothing, !.pc = "apply"] \in TabLocals
    BY <2>1, Parts DEF TabLocals, TabPcs, Syncing
  <2> QED BY <2>2 DEF a
<1>2. tab' = [tab EXCEPT ![t] = m]
  BY DEF Merged
<1>3. tab' \in [Tabs -> TabLocals]
  <2> HIDE DEF m
  <2> QED BY <1>1, <1>2, TabChanges
<1>4. handler' \in [Handlers -> HandlerLocals] /\ \A g \in Handlers : MergeHasKey(g)'
  BY <1>0, AnswerTaken DEF Merged
<1> QED BY <1>3, <1>4 DEF Merged, Typed, MergeHasKey

LEMMA TypedSaveRefused ==
  ASSUME Typed, NEW t \in Tabs, CallOf(t), SaveRefused(t)
  PROVE  Typed'
<1>0. tab[t].call \in Handlers /\ handler[tab[t].call] \in HandlerLocals
  BY Parts DEF SaveRefused, CallOf, Is, TabLocals
<1> DEFINE m == [tab[t] EXCEPT !.pc = "conflict", !.call = Nothing]
<1>1. m \in TabLocals
  BY Parts DEF TabLocals, TabPcs, Saving
<1>2. tab' = [tab EXCEPT ![t] = m]
  BY DEF SaveRefused
<1>3. tab' \in [Tabs -> TabLocals]
  <2> HIDE DEF m
  <2> QED BY <1>1, <1>2, TabChanges
<1>4. handler' \in [Handlers -> HandlerLocals] /\ \A g \in Handlers : MergeHasKey(g)'
  BY <1>0, AnswerTaken DEF SaveRefused
<1> QED BY <1>3, <1>4 DEF SaveRefused, Typed, MergeHasKey

LEMMA TypedSaved ==
  ASSUME Typed, NEW t \in Tabs, CallOf(t), Saved(t)
  PROVE  Typed'
<1>0. tab[t].call \in Handlers /\ handler[tab[t].call] \in HandlerLocals
  BY Parts DEF Saved, CallOf, Is, TabLocals
<1> DEFINE m == [Rested(tab[t]) EXCEPT !.rev = handler[tab[t].call].resp.rev, !.ack = handler[tab[t].call].resp.qty]
<1>1. m \in TabLocals
  <2> DEFINE a == handler[tab[t].call].resp
             r == Rested(tab[t])
  <2>1. a.rev \in Nat /\ a.qty \in Nat /\ r \in TabLocals
    BY <1>0, Parts, RestedType DEF HandlerLocals, CartAnswer
  <2> HIDE DEF a, r
  <2>2. [r EXCEPT !.rev = a.rev, !.ack = a.qty] \in TabLocals
    BY <2>1 DEF TabLocals
  <2> QED BY <2>2 DEF a, r
<1>2. tab' = [tab EXCEPT ![t] = m]
  BY DEF Saved
<1>3. tab' \in [Tabs -> TabLocals]
  <2> HIDE DEF m
  <2> QED BY <1>1, <1>2, TabChanges
<1>4. handler' \in [Handlers -> HandlerLocals] /\ \A g \in Handlers : MergeHasKey(g)'
  BY <1>0, AnswerTaken DEF Saved
<1>5. disk' \in DiskDocs /\ lock' \in Tabs \cup {Nothing}
  BY DEF Saved, Typed, DiskDocs, Metas, Unlocked
<1> QED BY <1>3, <1>4, <1>5 DEF Saved, Typed, MergeHasKey

LEMMA TypedReadCart ==
  ASSUME Typed, NEW h \in Handlers, ReadCart(h)
  PROVE  Typed'
<1> DEFINE a == [qty |-> cart.qty, rev |-> cart.rev]
<1>1. handler[h] \in HandlerLocals /\ cart \in Rows /\ a \in CartAnswer /\ MergeHasKey(h)
  BY Parts DEF Typed, CartAnswer
<1> HIDE DEF a
<1>2. \/ handler' = [handler EXCEPT ![h] = [handler[h] EXCEPT !.pc = "write", !.seen = cart]]
      \/ handler' = [handler EXCEPT ![h] = NoCall]
      \/ handler' = [handler EXCEPT ![h] = [handler[h] EXCEPT !.pc = "replied", !.resp = a]]
      \/ handler' = [handler EXCEPT ![h] = [handler[h] EXCEPT !.pc = "refused", !.resp = a]]
  BY DEF ReadCart, a
<1>3. [handler[h] EXCEPT !.pc = "write", !.seen = cart] \in HandlerLocals
  BY <1>1 DEF HandlerLocals, HandlerPcs
<1>4. \A p \in {"replied", "refused"} : [handler[h] EXCEPT !.pc = p, !.resp = a] \in HandlerLocals
  BY <1>1 DEF HandlerLocals, HandlerPcs
<1>5. handler' \in [Handlers -> HandlerLocals] /\ \A g \in Handlers : MergeHasKey(g)'
  <2>1. CASE handler' = [handler EXCEPT ![h] = [handler[h] EXCEPT !.pc = "write", !.seen = cart]]
    <3> DEFINE r == [handler[h] EXCEPT !.pc = "write", !.seen = cart]
    <3>1. r.op = "merge" => r.key \in Keys
      BY <1>1 DEF ReadCart, MergeHasKey, HandlerLocals
    <3>2. r \in HandlerLocals /\ handler' = [handler EXCEPT ![h] = r]
      BY <1>3, <2>1
    <3> HIDE DEF r
    <3> QED BY <3>1, <3>2, HandlerChanges
  <2>2. CASE handler' = [handler EXCEPT ![h] = NoCall]
    BY <2>2, NoCallType, HandlerChanges
  <2>3. CASE handler' = [handler EXCEPT ![h] = [handler[h] EXCEPT !.pc = "replied", !.resp = a]]
    BY <1>1, <1>4, <2>3, HandlerChanges DEF HandlerLocals
  <2>4. CASE handler' = [handler EXCEPT ![h] = [handler[h] EXCEPT !.pc = "refused", !.resp = a]]
    BY <1>1, <1>4, <2>4, HandlerChanges DEF HandlerLocals
  <2> QED BY <1>2, <2>1, <2>2, <2>3, <2>4
<1> QED BY <1>5 DEF ReadCart, Typed

\* The quantity that a request writes.
Written(h) ==
  IF handler[h].op = "merge" THEN handler[h].seen.qty + handler[h].lines ELSE handler[h].lines

LEMMA WritesWhat ==
  ASSUME Typed, NEW h \in Handlers, WriteCart(h)
  PROVE  \/ /\ SameVersion(h)
            /\ cart' = [qty |-> Written(h), rev |-> handler[h].seen.rev + 1,
                        keys |-> IF handler[h].op = "merge" THEN handler[h].seen.keys \cup {handler[h].key}
                                 ELSE cart.keys]
            /\ \/ handler' = [handler EXCEPT ![h] = NoCall]
               \/ /\ Waited(h)
                  /\ handler' = [handler EXCEPT ![h] =
                       [NoCall EXCEPT !.pc = "replied", !.op = handler[h].op,
                         !.resp = [qty |-> Written(h), rev |-> handler[h].seen.rev + 1]]]
         \/ /\ ~SameVersion(h)
            /\ cart' = cart
            /\ \/ /\ handler[h].op = "merge"
                  /\ handler' = [handler EXCEPT ![h] = [handler[h] EXCEPT !.pc = "read"]]
               \/ /\ handler[h].op # "merge"
                  /\ \/ handler' = [handler EXCEPT ![h] = [NoCall EXCEPT !.pc = "refused"]]
                     \/ handler' = [handler EXCEPT ![h] = NoCall]
  BY DEF WriteCart, Written

LEMMA TypedWriteCart ==
  ASSUME Typed, NEW h \in Handlers, WriteCart(h)
  PROVE  Typed'
<1>1. /\ handler[h] \in HandlerLocals /\ MergeHasKey(h) /\ handler[h].pc = "write"
      /\ handler[h].seen \in Rows /\ handler[h].lines \in Nat /\ cart \in Rows
  BY Parts DEF Typed, WriteCart, HandlerLocals
<1>2. Written(h) \in Nat /\ handler[h].seen.rev + 1 \in Nat
  BY <1>1 DEF Written, Rows
<1>3. handler[h].op = "merge" => handler[h].seen.keys \cup {handler[h].key} \in SUBSET Keys
  BY <1>1 DEF MergeHasKey, Rows
<1>4. cart' \in Rows
  <2>1. CASE SameVersion(h)
    <3>1. cart' = [qty |-> Written(h), rev |-> handler[h].seen.rev + 1,
                        keys |-> IF handler[h].op = "merge" THEN handler[h].seen.keys \cup {handler[h].key}
                                 ELSE cart.keys]
      BY <2>1, WritesWhat
    <3>2. cart.keys \in SUBSET Keys
      BY <1>1 DEF Rows
    <3> QED BY <3>1, <3>2, <1>2, <1>3 DEF Rows
  <2>2. CASE ~SameVersion(h)
    BY <2>2, <1>1, WritesWhat
  <2> QED BY <2>1, <2>2
<1>5. handler' \in [Handlers -> HandlerLocals] /\ \A g \in Handlers : MergeHasKey(g)'
  <2>1. CASE handler' = [handler EXCEPT ![h] = NoCall]
    BY <2>1, NoCallType, HandlerChanges
  <2>2. CASE handler' = [handler EXCEPT ![h] = [NoCall EXCEPT !.pc = "refused"]]
    <3>1. [NoCall EXCEPT !.pc = "refused"] \in HandlerLocals /\ [NoCall EXCEPT !.pc = "refused"].pc = "refused"
      BY NoCallType DEF HandlerLocals, HandlerPcs
    <3> QED BY <2>2, <3>1, HandlerChanges
  <2>3. CASE /\ handler[h].op = "merge"
             /\ handler' = [handler EXCEPT ![h] = [handler[h] EXCEPT !.pc = "read"]]
    <3>1. /\ [handler[h] EXCEPT !.pc = "read"] \in HandlerLocals
          /\ [handler[h] EXCEPT !.pc = "read"].key \in Keys
      BY <1>1, <2>3 DEF HandlerLocals, HandlerPcs, MergeHasKey
    <3> QED BY <2>3, <3>1, HandlerChanges
  <2>4. CASE handler' = [handler EXCEPT ![h] =
                       [NoCall EXCEPT !.pc = "replied", !.op = handler[h].op,
                         !.resp = [qty |-> Written(h), rev |-> handler[h].seen.rev + 1]]]
    <3> DEFINE a == [qty |-> Written(h), rev |-> handler[h].seen.rev + 1]
    <3>1. a \in CartAnswer /\ handler[h].op \in {"merge", "save"}
      BY <1>1, <1>2 DEF CartAnswer, HandlerLocals
    <3> HIDE DEF a
    <3>2. /\ [NoCall EXCEPT !.pc = "replied", !.op = handler[h].op, !.resp = a] \in HandlerLocals
          /\ [NoCall EXCEPT !.pc = "replied", !.op = handler[h].op, !.resp = a].pc = "replied"
      BY <3>1, NoCallType DEF HandlerLocals, HandlerPcs
    <3>3. handler' = [handler EXCEPT ![h] = [NoCall EXCEPT !.pc = "replied", !.op = handler[h].op, !.resp = a]]
      BY <2>4 DEF a
    <3> QED BY <3>2, <3>3, HandlerChanges
  <2> QED BY <2>1, <2>2, <2>3, <2>4, WritesWhat
<1> QED BY <1>4, <1>5 DEF WriteCart, Typed

LEMMA TypedSession ==
  ASSUME Typed, SignIn \/ SignOut
  PROVE  Typed'
<1>1. CASE SignIn
  BY <1>1 DEF SignIn, Typed, MergeHasKey
<1>2. CASE SignOut
  <2>1. signOuts' \in 0..MaxSignOuts
    BY <1>2, CartAssumption DEF SignOut, Typed
  <2>2. crowded' \in BOOLEAN
    BY <1>2 DEF SignOut
  <2> QED BY <1>2, <2>1, <2>2 DEF SignOut, Typed, MergeHasKey
<1> QED BY <1>1, <1>2

-----------------------------------------------------------------------------
(* What the steps of a tab do, field by field. *)

SamePc(t) == tab'[t].pc = tab[t].pc
SameLines(t) == tab'[t].lines = tab[t].lines
SameCall(t) == tab'[t].call = tab[t].call
SameUser(t) == tab'[t].user = tab[t].user /\ tab'[t].synced = tab[t].synced
SameRev(t) == tab'[t].rev = tab[t].rev /\ tab'[t].ack = tab[t].ack
SameCopy(t) ==
  /\ tab'[t].before = tab[t].before
  /\ tab'[t].intent = tab[t].intent /\ tab'[t].meta = tab[t].meta
SameAnswer(t) == tab'[t].resp = tab[t].resp /\ tab'[t].more = tab[t].more
AtRest(t) ==
  /\ tab'[t].before = 0 /\ tab'[t].intent = NoIntent /\ tab'[t].meta = NoMeta
  /\ tab'[t].call = Nothing /\ tab'[t].resp = NoAnswer /\ tab'[t].more = 0
OthersSame(t) == \A u \in Tabs \ {t} : tab'[u] = tab[u]

LEMMA AddDoes ==
  ASSUME Typed, NEW t \in Tabs, Add(t)
  PROVE  /\ tab[t].pc \notin Writing \cup {"closed"} /\ OthersSame(t)
         /\ SamePc(t) /\ tab'[t].lines = tab[t].lines + 1 /\ SameCall(t)
         /\ SameUser(t) /\ SameRev(t) /\ SameCopy(t) /\ SameAnswer(t)
         /\ disk'.lines = tab[t].lines + 1 /\ disk'.meta = disk.meta
         /\ disk'.intent = disk.intent /\ put' = put + 1 /\ cart' = cart
         /\ lock' = lock /\ handler' = handler /\ session' = session
         /\ minted' = minted
<1>1. tab[t] \in TabLocals /\ disk \in DiskDocs
  BY Parts DEF Typed
<1> QED BY <1>1
        DEF Add, Typed, SamePc, SameCall, SameUser, SameRev, SameCopy, SameAnswer,
            OthersSame

LEMMA StartDoes ==
  ASSUME Typed, NEW t \in Tabs, Start(t)
  PROVE  /\ session /\ tab[t].pc \in {"boot", "idle"}
         /\ (tab[t].pc = "idle" => ~tab[t].synced) /\ OthersSame(t)
         /\ AtRest(t) /\ tab'[t].pc = "lock" /\ SameLines(t)
         /\ tab'[t].user = TRUE /\ tab'[t].synced = tab[t].synced
         /\ SameRev(t) /\ disk' = disk /\ cart' = cart /\ lock' = lock
         /\ handler' = handler /\ session' = session /\ minted' = minted
         /\ put' = put
<1>1. tab[t] \in TabLocals /\ disk \in DiskDocs
  BY Parts DEF Typed
<1> DEFINE r == Rested(tab[t])
<1>2. /\ r \in TabLocals
      /\ r = [tab[t] EXCEPT !.pc = "idle", !.before = 0, !.intent = NoIntent,
                !.meta = NoMeta, !.call = Nothing, !.resp = NoAnswer, !.more = 0]
  BY <1>1, RestedType
<1>3. /\ r.pc = "idle" /\ r.lines = tab[t].lines /\ r.user = tab[t].user
      /\ r.synced = tab[t].synced /\ r.rev = tab[t].rev /\ r.ack = tab[t].ack
      /\ r.before = 0 /\ r.intent = NoIntent /\ r.meta = NoMeta /\ r.call = Nothing
      /\ r.resp = NoAnswer /\ r.more = 0
  BY <1>1, <1>2 DEF TabLocals
<1>4. \A u \in Tabs \ {t} : tab'[u] = tab[u]
  BY DEF Start
<1>5. tab'[t] = [r EXCEPT !.user = TRUE, !.pc = "lock"]
  BY DEF Start, Typed
<1> HIDE DEF r
<1>6. /\ AtRest(t)
      /\ tab'[t].pc = "lock"
      /\ SameLines(t)
      /\ tab'[t].user = TRUE
      /\ tab'[t].synced = tab[t].synced
      /\ SameRev(t)
  BY <1>2, <1>3, <1>5 DEF SameLines, SameRev, AtRest
<1>7. OthersSame(t)
  BY <1>4 DEF OthersSame
<1> QED BY <1>1, <1>6, <1>7 DEF Start, Is

LEMMA ClearLinesDoes ==
  ASSUME Typed, NEW t \in Tabs, ClearLines(t)
  PROVE  /\ tab[t].pc = "clear" /\ OthersSame(t) /\ tab'[t].pc = "intentOut"
         /\ tab'[t].lines = 0 /\ SameCall(t) /\ SameUser(t) /\ SameRev(t)
         /\ SameCopy(t) /\ SameAnswer(t) /\ disk'.lines = 0
         /\ disk'.meta = disk.meta /\ disk'.intent = disk.intent
         /\ cart' = cart /\ lock' = lock /\ handler' = handler
         /\ session' = session /\ minted' = minted /\ put' = put
<1>1. tab[t] \in TabLocals /\ disk \in DiskDocs
  BY Parts DEF Typed
<1> QED BY <1>1
        DEF ClearLines, Typed, SameCall, SameUser, SameRev, SameCopy, SameAnswer,
            OthersSame, Is

LEMMA ClearIntentDoes ==
  ASSUME Typed, NEW t \in Tabs, ClearIntent(t)
  PROVE  /\ tab[t].pc = "intentOut" /\ OthersSame(t)
         /\ tab'[t].pc = "metaOut" /\ SameLines(t) /\ SameCall(t)
         /\ SameUser(t) /\ SameRev(t) /\ SameCopy(t) /\ SameAnswer(t)
         /\ disk'.lines = disk.lines /\ disk'.meta = disk.meta
         /\ disk'.intent = NoIntent /\ cart' = cart /\ lock' = lock
         /\ handler' = handler /\ session' = session /\ minted' = minted
         /\ put' = put
<1>1. tab[t] \in TabLocals /\ disk \in DiskDocs
  BY Parts DEF Typed
<1> QED BY <1>1
        DEF ClearIntent, Typed, SameLines, SameCall, SameUser, SameRev, SameCopy,
            SameAnswer, OthersSame, Is

LEMMA ClearMetaDoes ==
  ASSUME Typed, NEW t \in Tabs, ClearMeta(t)
  PROVE  /\ tab[t].pc = "metaOut" /\ OthersSame(t) /\ tab'[t].pc = "idle"
         /\ SameLines(t) /\ SameCall(t) /\ SameUser(t) /\ SameRev(t)
         /\ SameCopy(t) /\ SameAnswer(t) /\ disk'.lines = disk.lines
         /\ disk'.meta = NoMeta /\ disk'.intent = disk.intent /\ cart' = cart
         /\ lock' = lock /\ handler' = handler /\ session' = session
         /\ minted' = minted /\ put' = put
<1>1. tab[t] \in TabLocals /\ disk \in DiskDocs
  BY Parts DEF Typed
<1> QED BY <1>1
        DEF ClearMeta, Typed, SameLines, SameCall, SameUser, SameRev, SameCopy,
            SameAnswer, OthersSame, Is

LEMMA LockedDoes ==
  ASSUME Typed, NEW t \in Tabs, Locked(t)
  PROVE  /\ tab[t].pc = "lock" /\ lock = Nothing /\ OthersSame(t)
         /\ tab'[t].pc = "fetch" /\ SameLines(t) /\ SameCall(t)
         /\ SameUser(t) /\ SameRev(t) /\ tab'[t].before = tab[t].lines
         /\ tab'[t].intent = disk.intent /\ tab'[t].meta = disk.meta
         /\ SameAnswer(t) /\ disk' = disk /\ lock' = t /\ cart' = cart
         /\ handler' = handler /\ session' = session /\ minted' = minted
         /\ put' = put
<1>1. tab[t] \in TabLocals /\ disk \in DiskDocs
  BY Parts DEF Typed
<1> QED BY <1>1
        DEF Locked, Typed, SameLines, SameCall, SameUser, SameRev, SameAnswer,
            OthersSame, Is

LEMMA FetchDoes ==
  ASSUME Typed, NEW t \in Tabs, Fetch(t)
  PROVE  /\ session /\ tab[t].pc \in {"fetch", "conflict"} /\ OthersSame(t)
         /\ tab'[t].pc = (IF tab[t].pc = "fetch" THEN "fetched" ELSE "apply")
         /\ SameLines(t) /\ SameCall(t) /\ SameUser(t) /\ SameRev(t)
         /\ SameCopy(t)
         /\ tab'[t].resp = [qty |-> cart.qty, rev |-> cart.rev]
         /\ tab'[t].more = tab[t].more /\ disk' = disk /\ cart' = cart
         /\ lock' = lock /\ handler' = handler /\ session' = session
         /\ minted' = minted /\ put' = put
<1>1. tab[t] \in TabLocals /\ disk \in DiskDocs
  BY Parts DEF Typed
<1> QED BY <1>1
        DEF Fetch, Typed, SameLines, SameCall, SameUser, SameRev, SameCopy, OthersSame,
            Is

LEMMA NoMergeDoes ==
  ASSUME Typed, NEW t \in Tabs, NoMerge(t)
  PROVE  /\ tab[t].pc = "fetched" /\ Intent(t) = NoIntent /\ OthersSame(t)
         /\ tab'[t].pc = "apply" /\ SameLines(t) /\ SameCall(t)
         /\ SameUser(t) /\ SameRev(t) /\ SameCopy(t) /\ SameAnswer(t)
         /\ disk' = disk /\ cart' = cart /\ lock' = lock
         /\ handler' = handler /\ session' = session /\ minted' = minted
         /\ put' = put
<1>1. tab[t] \in TabLocals /\ disk \in DiskDocs
  BY Parts DEF Typed
<1> QED BY <1>1
        DEF NoMerge, Typed, SameLines, SameCall, SameUser, SameRev, SameCopy,
            SameAnswer, OthersSame, Is

LEMMA RememberDoes ==
  ASSUME Typed, NEW t \in Tabs, Remember(t)
  PROVE  /\ tab[t].pc = "apply" /\ OthersSame(t) /\ tab'[t].pc = "replace"
         /\ SameLines(t) /\ SameCall(t) /\ SameUser(t)
         /\ tab'[t].rev = tab[t].resp.rev /\ tab'[t].ack = tab[t].resp.qty
         /\ SameCopy(t) /\ tab'[t].resp = tab[t].resp
         /\ tab'[t].more = tab[t].lines - Baseline(t)
         /\ disk'.lines = disk.lines
         /\ disk'.meta = [there |-> TRUE, key |-> tab[t].intent.key]
         /\ disk'.intent = disk.intent /\ cart' = cart /\ lock' = lock
         /\ handler' = handler /\ session' = session /\ minted' = minted
         /\ put' = put
<1>1. tab[t] \in TabLocals /\ disk \in DiskDocs
  BY Parts DEF Typed
<1> QED BY <1>1
        DEF Remember, Typed, SameLines, SameCall, SameUser, SameCopy, OthersSame, Is

LEMMA ReplaceDoes ==
  ASSUME Typed, NEW t \in Tabs, Replace(t)
  PROVE  /\ tab[t].pc = "replace" /\ OthersSame(t) /\ tab'[t].pc = "forget"
         /\ tab'[t].lines = tab[t].resp.qty /\ SameCall(t) /\ SameUser(t)
         /\ SameRev(t) /\ SameCopy(t) /\ SameAnswer(t)
         /\ disk'.lines = tab[t].resp.qty /\ disk'.meta = disk.meta
         /\ disk'.intent = disk.intent /\ cart' = cart /\ lock' = lock
         /\ handler' = handler /\ session' = session /\ minted' = minted
         /\ put' = put
<1>1. tab[t] \in TabLocals /\ disk \in DiskDocs
  BY Parts DEF Typed
<1> QED BY <1>1
        DEF Replace, Typed, SameCall, SameUser, SameRev, SameCopy, SameAnswer,
            OthersSame, Is

LEMMA ForgetDoes ==
  ASSUME Typed, NEW t \in Tabs, Forget(t)
  PROVE  /\ tab[t].pc = "forget" /\ OthersSame(t) /\ tab'[t].pc = "edits"
         /\ SameLines(t) /\ SameCall(t) /\ SameUser(t) /\ SameRev(t)
         /\ SameCopy(t) /\ SameAnswer(t) /\ disk'.lines = disk.lines
         /\ disk'.meta = disk.meta
         /\ disk'.intent = (IF tab[t].intent # NoIntent THEN NoIntent ELSE disk.intent)
         /\ cart' = cart /\ lock' = lock /\ handler' = handler
         /\ session' = session /\ minted' = minted /\ put' = put
<1>1. tab[t] \in TabLocals /\ disk \in DiskDocs
  BY Parts DEF Typed
<1> QED BY <1>1
        DEF Forget, Typed, SameLines, SameCall, SameUser, SameRev, SameCopy,
            SameAnswer, OthersSame, Is

LEMMA SaveStartDoes ==
  ASSUME Typed, NEW t \in Tabs, SaveStart(t)
  PROVE  /\ tab[t].pc = "idle" /\ tab[t].user /\ tab[t].synced
         /\ OthersSame(t) /\ tab'[t].pc = "save" /\ SameLines(t)
         /\ SameCall(t) /\ SameUser(t) /\ SameRev(t) /\ SameCopy(t)
         /\ SameAnswer(t) /\ disk' = disk /\ cart' = cart /\ lock' = lock
         /\ handler' = handler /\ session' = session /\ minted' = minted
         /\ put' = put
<1>1. tab[t] \in TabLocals /\ disk \in DiskDocs
  BY Parts DEF Typed
<1> QED BY <1>1
        DEF SaveStart, Typed, TabLocals, SameLines, SameCall, SameUser, SameRev,
            SameCopy, SameAnswer, OthersSame, Is

LEMMA OpenTabDoes ==
  ASSUME Typed, NEW t \in Tabs, OpenTab(t)
  PROVE  /\ tab[t].pc = "closed"
         /\ OthersSame(t) /\ AtRest(t) /\ tab'[t].pc = "boot"
         /\ tab'[t].lines = disk.lines /\ tab'[t].user = FALSE
         /\ tab'[t].synced = FALSE /\ tab'[t].rev = 0 /\ tab'[t].ack = 0
         /\ disk' = disk /\ cart' = cart /\ lock' = lock
         /\ handler' = handler /\ session' = session /\ minted' = minted
         /\ put' = put
<1>1. disk.lines \in Nat
  BY Parts
<1>2. tab' = [tab EXCEPT ![t] = Fresh(disk.lines)]
  BY DEF OpenTab
<1>3. tab'[t] = Fresh(disk.lines) /\ \A u \in Tabs \ {t} : tab'[u] = tab[u]
  BY <1>2 DEF Typed
<1> QED BY <1>3
        DEF OpenTab, Is, Fresh, NoAnswer, SamePc, SameLines, SameCall, SameUser,
            SameRev, SameCopy, SameAnswer, AtRest, OthersSame

LEMMA EditsDoes ==
  ASSUME Typed, NEW t \in Tabs, Edits(t)
  PROVE  /\ tab[t].pc = "edits" /\ OthersSame(t) /\ AtRest(t)
         /\ tab'[t].pc = "idle" /\ tab'[t].lines = Kept(t)
         /\ tab'[t].user = tab[t].user /\ tab'[t].synced = TRUE /\ SameRev(t)
         /\ disk'.lines = (IF tab[t].more = 0 THEN disk.lines ELSE Kept(t))
         /\ disk'.meta = disk.meta /\ disk'.intent = disk.intent
         /\ lock' = Unlocked(t) /\ cart' = cart /\ handler' = handler
         /\ session' = session /\ minted' = minted /\ put' = put
<1>1. tab[t] \in TabLocals /\ disk \in DiskDocs
  BY Parts DEF Typed
<1> DEFINE r == Rested(tab[t])
<1>2. /\ r \in TabLocals
      /\ r = [tab[t] EXCEPT !.pc = "idle", !.before = 0, !.intent = NoIntent,
                !.meta = NoMeta, !.call = Nothing, !.resp = NoAnswer, !.more = 0]
  BY <1>1, RestedType
<1>3. /\ r.pc = "idle" /\ r.lines = tab[t].lines /\ r.user = tab[t].user
      /\ r.synced = tab[t].synced /\ r.rev = tab[t].rev /\ r.ack = tab[t].ack
      /\ r.before = 0 /\ r.intent = NoIntent /\ r.meta = NoMeta /\ r.call = Nothing
      /\ r.resp = NoAnswer /\ r.more = 0
  BY <1>1, <1>2 DEF TabLocals
<1>4. \A u \in Tabs \ {t} : tab'[u] = tab[u]
  BY DEF Edits
<1>5. tab'[t] = [r EXCEPT !.lines = Kept(t), !.synced = TRUE]
  BY DEF Edits, Typed, Kept
<1> HIDE DEF r
<1>6. /\ AtRest(t)
      /\ tab'[t].pc = "idle"
      /\ tab'[t].lines = Kept(t)
      /\ tab'[t].user = tab[t].user
      /\ tab'[t].synced = TRUE
      /\ SameRev(t)
  BY <1>2, <1>3, <1>5 DEF SameRev, AtRest
<1>7. OthersSame(t)
  BY <1>4 DEF OthersSame
<1> QED BY <1>1, <1>6, <1>7 DEF Edits, Is

LEMMA CloseTabDoes ==
  ASSUME Typed, NEW t \in Tabs, CloseTab(t)
  PROVE  /\ tab[t].pc # "closed" /\ OthersSame(t) /\ AtRest(t)
         /\ tab'[t].pc = "closed" /\ tab'[t].lines = 0
         /\ tab'[t].user = FALSE /\ tab'[t].synced = FALSE /\ tab'[t].rev = 0
         /\ tab'[t].ack = 0 /\ disk' = disk /\ lock' = Unlocked(t)
         /\ handler' = Dropped(t) /\ cart' = cart /\ session' = session
         /\ minted' = minted /\ put' = put
<1>2. tab' = [tab EXCEPT ![t] = Closed]
  BY DEF CloseTab
<1>3. tab'[t] = Closed /\ \A u \in Tabs \ {t} : tab'[u] = tab[u]
  BY <1>2 DEF Typed
<1> QED BY <1>3
        DEF CloseTab, Is, Closed, Fresh, NoAnswer, SamePc, SameLines, SameCall,
            SameUser, SameRev, SameCopy, SameAnswer, AtRest, OthersSame

LEMMA RequestFailsDoes ==
  ASSUME Typed, NEW t \in Tabs, RequestFails(t)
  PROVE  /\ tab[t].pc \in {"fetch", "merging", "saving", "conflict"}
         /\ OthersSame(t) /\ AtRest(t) /\ tab'[t].pc = "idle" /\ SameLines(t)
         /\ SameUser(t) /\ SameRev(t) /\ disk' = disk /\ lock' = Unlocked(t)
         /\ handler' = Dropped(t) /\ cart' = cart /\ session' = session
         /\ minted' = minted /\ put' = put
<1>1. tab[t] \in TabLocals /\ disk \in DiskDocs
  BY Parts DEF Typed
<1> DEFINE r == Rested(tab[t])
<1>2. /\ r \in TabLocals
      /\ r = [tab[t] EXCEPT !.pc = "idle", !.before = 0, !.intent = NoIntent,
                !.meta = NoMeta, !.call = Nothing, !.resp = NoAnswer, !.more = 0]
  BY <1>1, RestedType
<1>3. /\ r.pc = "idle" /\ r.lines = tab[t].lines /\ r.user = tab[t].user
      /\ r.synced = tab[t].synced /\ r.rev = tab[t].rev /\ r.ack = tab[t].ack
      /\ r.before = 0 /\ r.intent = NoIntent /\ r.meta = NoMeta /\ r.call = Nothing
      /\ r.resp = NoAnswer /\ r.more = 0
  BY <1>1, <1>2 DEF TabLocals
<1>4. \A u \in Tabs \ {t} : tab'[u] = tab[u]
  BY DEF RequestFails
<1>5. tab'[t] = r
  BY DEF RequestFails, Typed
<1> HIDE DEF r
<1>6. /\ AtRest(t)
      /\ tab'[t].pc = "idle"
      /\ SameLines(t)
      /\ SameUser(t)
      /\ SameRev(t)
  BY <1>2, <1>3, <1>5 DEF SameLines, SameUser, SameRev, AtRest
<1>7. OthersSame(t)
  BY <1>4 DEF OthersSame
<1> QED BY <1>1, <1>6, <1>7 DEF RequestFails

LEMMA UserGoneDoes ==
  ASSUME Typed, NEW t \in Tabs, UserGone(t)
  PROVE  /\ ~session
         /\ (tab[t].pc = "boot" \/ (tab[t].user /\ tab[t].pc \notin Writing))
         /\ OthersSame(t) /\ AtRest(t)
         /\ tab'[t].pc = (IF tab[t].synced \/ disk.meta.there \/ disk.intent # NoIntent THEN "clear" ELSE "idle")
         /\ SameLines(t) /\ tab'[t].user = FALSE /\ tab'[t].synced = FALSE
         /\ tab'[t].rev = 0 /\ tab'[t].ack = 0 /\ disk' = disk
         /\ lock' = Unlocked(t) /\ handler' = Dropped(t) /\ cart' = cart
         /\ session' = session /\ minted' = minted /\ put' = put
<1>1. tab[t] \in TabLocals /\ disk \in DiskDocs
  BY Parts DEF Typed
<1> DEFINE r == Rested(tab[t])
<1>2. /\ r \in TabLocals
      /\ r = [tab[t] EXCEPT !.pc = "idle", !.before = 0, !.intent = NoIntent,
                !.meta = NoMeta, !.call = Nothing, !.resp = NoAnswer, !.more = 0]
  BY <1>1, RestedType
<1>3. /\ r.pc = "idle" /\ r.lines = tab[t].lines /\ r.user = tab[t].user
      /\ r.synced = tab[t].synced /\ r.rev = tab[t].rev /\ r.ack = tab[t].ack
      /\ r.before = 0 /\ r.intent = NoIntent /\ r.meta = NoMeta /\ r.call = Nothing
      /\ r.resp = NoAnswer /\ r.more = 0
  BY <1>1, <1>2 DEF TabLocals
<1>4. \A u \in Tabs \ {t} : tab'[u] = tab[u]
  BY DEF UserGone
<1>5. tab'[t] = [r EXCEPT !.user = FALSE, !.synced = FALSE, !.rev = 0, !.ack = 0,
                !.pc = IF tab[t].synced \/ disk.meta.there \/ disk.intent # NoIntent THEN "clear" ELSE "idle"]
  BY DEF UserGone, Typed
<1> HIDE DEF r
<1>6. /\ AtRest(t)
      /\ tab'[t].pc = (IF tab[t].synced \/ disk.meta.there \/ disk.intent # NoIntent THEN "clear" ELSE "idle")
      /\ SameLines(t)
      /\ tab'[t].user = FALSE
      /\ tab'[t].synced = FALSE
      /\ tab'[t].rev = 0
      /\ tab'[t].ack = 0
  BY <1>2, <1>3, <1>5 DEF SameLines, AtRest
<1>7. OthersSame(t)
  BY <1>4 DEF OthersSame
<1> QED BY <1>1, <1>6, <1>7 DEF UserGone, Is

LEMMA MergeDoes ==
  ASSUME Typed, NEW t \in Tabs, NEW h \in Handlers, Merge(t, h)
  PROVE  /\ tab[t].pc = "fetched" /\ Intent(t) # NoIntent /\ OthersSame(t)
         /\ tab'[t].pc = "merging" /\ SameLines(t) /\ tab'[t].call = h
         /\ SameUser(t) /\ SameRev(t) /\ tab'[t].before = tab[t].before
         /\ tab'[t].intent = Intent(t) /\ tab'[t].meta = tab[t].meta
         /\ SameAnswer(t) /\ disk'.lines = disk.lines
         /\ disk'.meta = disk.meta /\ disk'.intent = Intent(t)
         /\ Sends(t, h, "merge", Intent(t).key, Intent(t).lines, 0)
         /\ minted' = (IF Intent(t).key > minted THEN minted + 1 ELSE minted)
         /\ cart' = cart /\ lock' = lock /\ session' = session /\ put' = put
<1>1. tab[t] \in TabLocals /\ disk \in DiskDocs
  BY Parts DEF Typed
<1> QED BY <1>1
        DEF Merge, Typed, SameLines, SameUser, SameRev, SameAnswer, OthersSame, Is

LEMMA SaveDoes ==
  ASSUME Typed, NEW t \in Tabs, NEW h \in Handlers, Save(t, h)
  PROVE  /\ session /\ tab[t].pc = "save" /\ lock = Nothing /\ OthersSame(t)
         /\ tab'[t].pc = "saving" /\ SameLines(t) /\ tab'[t].call = h
         /\ SameUser(t) /\ SameRev(t) /\ SameCopy(t) /\ SameAnswer(t)
         /\ disk' = disk
         /\ Sends(t, h, "save", Nothing, tab[t].lines, tab[t].rev)
         /\ lock' = t /\ cart' = cart /\ session' = session
         /\ minted' = minted /\ put' = put
<1>1. tab[t] \in TabLocals /\ disk \in DiskDocs
  BY Parts DEF Typed
<1> QED BY <1>1
        DEF Save, Typed, SameLines, SameUser, SameRev, SameCopy, SameAnswer,
            OthersSame, Is

LEMMA MergedDoes ==
  ASSUME Typed, NEW t \in Tabs, Merged(t)
  PROVE  /\ tab[t].pc = "merging" /\ handler[tab[t].call].pc = "replied"
         /\ OthersSame(t) /\ tab'[t].pc = "apply" /\ SameLines(t)
         /\ tab'[t].call = Nothing /\ SameUser(t) /\ SameRev(t)
         /\ SameCopy(t) /\ tab'[t].resp = handler[tab[t].call].resp
         /\ tab'[t].more = tab[t].more /\ disk' = disk
         /\ handler' = [handler EXCEPT ![tab[t].call] = NoCall]
         /\ cart' = cart /\ lock' = lock /\ session' = session
         /\ minted' = minted /\ put' = put
<1>1. tab[t] \in TabLocals /\ disk \in DiskDocs
  BY Parts DEF Typed
<1> QED BY <1>1
        DEF Merged, Typed, SameLines, SameUser, SameRev, SameCopy, OthersSame, Is

LEMMA SaveRefusedDoes ==
  ASSUME Typed, NEW t \in Tabs, SaveRefused(t)
  PROVE  /\ tab[t].pc = "saving" /\ handler[tab[t].call].pc = "refused"
         /\ OthersSame(t) /\ tab'[t].pc = "conflict" /\ SameLines(t)
         /\ tab'[t].call = Nothing /\ SameUser(t) /\ SameRev(t)
         /\ SameCopy(t) /\ SameAnswer(t) /\ disk' = disk
         /\ handler' = [handler EXCEPT ![tab[t].call] = NoCall]
         /\ cart' = cart /\ lock' = lock /\ session' = session
         /\ minted' = minted /\ put' = put
<1>1. tab[t] \in TabLocals /\ disk \in DiskDocs
  BY Parts DEF Typed
<1> QED BY <1>1
        DEF SaveRefused, Typed, SameLines, SameUser, SameRev, SameCopy, SameAnswer,
            OthersSame, Is

LEMMA SavedDoes ==
  ASSUME Typed, NEW t \in Tabs, Saved(t)
  PROVE  /\ tab[t].pc = "saving" /\ handler[tab[t].call].pc = "replied"
         /\ OthersSame(t) /\ AtRest(t) /\ tab'[t].pc = "idle" /\ SameLines(t)
         /\ SameUser(t) /\ tab'[t].rev = handler[tab[t].call].resp.rev
         /\ tab'[t].ack = handler[tab[t].call].resp.qty
         /\ disk'.lines = disk.lines
         /\ disk'.meta = [there |-> TRUE, key |-> Nothing]
         /\ disk'.intent = disk.intent
         /\ handler' = [handler EXCEPT ![tab[t].call] = NoCall]
         /\ lock' = Unlocked(t) /\ cart' = cart /\ session' = session
         /\ minted' = minted /\ put' = put
<1>1. tab[t] \in TabLocals /\ disk \in DiskDocs
  BY Parts DEF Typed
<1> DEFINE r == Rested(tab[t])
<1>2. /\ r \in TabLocals
      /\ r = [tab[t] EXCEPT !.pc = "idle", !.before = 0, !.intent = NoIntent,
                !.meta = NoMeta, !.call = Nothing, !.resp = NoAnswer, !.more = 0]
  BY <1>1, RestedType
<1>3. /\ r.pc = "idle" /\ r.lines = tab[t].lines /\ r.user = tab[t].user
      /\ r.synced = tab[t].synced /\ r.rev = tab[t].rev /\ r.ack = tab[t].ack
      /\ r.before = 0 /\ r.intent = NoIntent /\ r.meta = NoMeta /\ r.call = Nothing
      /\ r.resp = NoAnswer /\ r.more = 0
  BY <1>1, <1>2 DEF TabLocals
<1>4. \A u \in Tabs \ {t} : tab'[u] = tab[u]
  BY DEF Saved
<1>5. tab'[t] = [r EXCEPT !.rev = handler[tab[t].call].resp.rev, !.ack = handler[tab[t].call].resp.qty]
  BY DEF Saved, Typed
<1> HIDE DEF r
<1>6. /\ AtRest(t)
      /\ tab'[t].pc = "idle"
      /\ SameLines(t)
      /\ SameUser(t)
      /\ tab'[t].rev = handler[tab[t].call].resp.rev
      /\ tab'[t].ack = handler[tab[t].call].resp.qty
  BY <1>2, <1>3, <1>5 DEF SameLines, SameUser, AtRest
<1>7. OthersSame(t)
  BY <1>4 DEF OthersSame
<1> QED BY <1>1, <1>6, <1>7 DEF Saved, Is

-----------------------------------------------------------------------------
(* Where the tabs are, and what that says of the lock and the disk. *)

Applying == {"replace", "forget", "edits"}
Comparing == {"fetch", "fetched", "merging", "apply"}
Clearing == {"clear", "intentOut", "metaOut"}
Locking == Comparing \cup Applying \cup {"saving", "conflict"}

\* The disk says of no account whose the lines are.
Clean == ~disk.meta.there /\ disk.intent = NoIntent

Alone(t) == \A u \in Tabs \ {t} : tab[u].pc = "closed"

StateOf(t) ==
  /\ tab[t].pc \in Locking => lock = t
  /\ ~tab[t].user => tab[t].pc \in {"closed", "boot", "idle"} \cup Clearing
  /\ tab[t].pc \in {"closed", "boot"} \cup Clearing => ~tab[t].user
  /\ tab[t].synced => /\ tab[t].user
                      /\ tab[t].pc \in {"idle", "save", "saving", "conflict", "apply"} \cup Applying
  /\ tab[t].pc \in {"save", "saving", "conflict"} => tab[t].synced

\* What a tab that holds the lock read from the disk is still there; a tab
\* that is synced has an account's metadata and no intent on the disk.
CopyOf(t) ==
  /\ tab[t].synced => disk.meta.there /\ disk.intent = NoIntent
  /\ tab[t].pc \in Comparing /\ ~tab[t].synced =>
       /\ tab[t].meta = disk.meta /\ tab[t].intent = disk.intent
       /\ tab[t].before <= tab[t].lines
  /\ tab[t].pc = "apply" /\ ~tab[t].synced /\ Clean => tab[t].before = 0
  /\ tab[t].pc = "merging" => tab[t].intent # NoIntent
  /\ tab[t].pc \in Applying => disk.meta.there
  /\ tab[t].pc \in {"replace", "forget"} /\ ~tab[t].synced => tab[t].intent = disk.intent
  /\ tab[t].pc = "edits" => disk.intent = NoIntent

\* A tab that forgets an account's cart is the only one.
AloneOf(t) ==
  /\ tab[t].pc \in Clearing => Alone(t)
  /\ tab[t].pc \in {"intentOut", "metaOut"} => tab[t].lines = 0 /\ disk.lines = 0
  /\ tab[t].pc = "metaOut" => disk.intent = NoIntent
  /\ ~session /\ tab[t].user => Alone(t)
  /\ ~session /\ tab[t].pc = "boot" /\ ~Clean => Alone(t)
  /\ ~session /\ tab[t].pc = "idle" /\ ~tab[t].user => Clean

DiskTidy ==
  /\ disk.meta.there /\ disk.intent # NoIntent => disk.meta.key = disk.intent.key
  /\ ~disk.meta.there => disk.meta = NoMeta

Tidy == DiskTidy /\ \A t \in Tabs : StateOf(t) /\ CopyOf(t) /\ AloneOf(t)

LEMMA TidyAdd ==
  ASSUME Typed, Tidy, NEW t \in Tabs, Add(t)
  PROVE  Tidy'
<1>0. /\ tab[t] \in TabLocals /\ disk \in DiskDocs /\ lock \in Tabs \cup {Nothing}
      /\ DiskTidy /\ \A u \in Tabs : StateOf(u) /\ CopyOf(u) /\ AloneOf(u)
      /\ session \in BOOLEAN /\ tab[t].user \in BOOLEAN /\ tab[t].synced \in BOOLEAN
  BY Parts DEF Typed, Tidy, TabLocals
<1>1. StateOf(t)'
  BY <1>0, Nones, AddDoes DEF SamePc, SameLines, SameUser, StateOf
<1>2. CopyOf(t)'
  BY <1>0, Nones, AddDoes
  DEF SamePc, SameLines, SameUser, SameCopy, CopyOf, Clean, TabLocals
<1>3. AloneOf(t)'
  BY <1>0, Nones, AddDoes
  DEF Writing, SamePc, SameLines, SameUser, OthersSame, AloneOf, Clean, Alone
<1>4. ASSUME NEW u \in Tabs \ {t}
      PROVE  StateOf(u)' /\ CopyOf(u)' /\ AloneOf(u)'
  <2>0. u \in Tabs /\ tab'[u] = tab[u] /\ StateOf(u) /\ CopyOf(u) /\ AloneOf(u)
    BY <1>0, <1>4, AddDoes DEF OthersSame
  <2>1. StateOf(u)'
    BY <1>0, <1>4, <2>0, AddDoes, CartAssumption DEF StateOf
  <2>2. CopyOf(u)'
    BY <1>0, <1>4, <2>0, AddDoes DEF CopyOf, Clean
  <2>3. AloneOf(u)'
    BY <1>0, <1>4, <2>0, AddDoes DEF AloneOf, Clean, Alone, Clearing
  <2> QED BY <2>1, <2>2, <2>3
<1>5. DiskTidy'
  BY <1>0, Nones, AddDoes DEF DiskTidy
<1> QED BY <1>1, <1>2, <1>3, <1>4, <1>5 DEF Tidy

LEMMA TidyStart ==
  ASSUME Typed, Tidy, NEW t \in Tabs, Start(t)
  PROVE  Tidy'
<1>0. /\ tab[t] \in TabLocals /\ disk \in DiskDocs /\ lock \in Tabs \cup {Nothing}
      /\ DiskTidy /\ \A u \in Tabs : StateOf(u) /\ CopyOf(u) /\ AloneOf(u)
      /\ session \in BOOLEAN /\ tab[t].user \in BOOLEAN /\ tab[t].synced \in BOOLEAN
  BY Parts DEF Typed, Tidy, TabLocals
<1>1. StateOf(t)'
  BY <1>0, Nones, StartDoes DEF SamePc, StateOf, Locking, Applying, Comparing, Clearing
<1>2. CopyOf(t)'
  BY <1>0, Nones, StartDoes DEF SamePc, CopyOf, Applying, Comparing
<1>3. AloneOf(t)'
  BY <1>0, Nones, StartDoes DEF SamePc, AloneOf, Clearing
<1>4. ASSUME NEW u \in Tabs \ {t}
      PROVE  StateOf(u)' /\ CopyOf(u)' /\ AloneOf(u)'
  <2>0. u \in Tabs /\ tab'[u] = tab[u] /\ StateOf(u) /\ CopyOf(u) /\ AloneOf(u)
    BY <1>0, <1>4, StartDoes DEF OthersSame
  <2>1. StateOf(u)'
    BY <1>0, <1>4, <2>0, StartDoes, CartAssumption DEF StateOf
  <2>2. CopyOf(u)'
    BY <1>0, <1>4, <2>0, StartDoes DEF CopyOf, Clean
  <2>3. AloneOf(u)'
    BY <1>0, <1>4, <2>0, StartDoes DEF SamePc, AloneOf, Alone
  <2> QED BY <2>1, <2>2, <2>3
<1>5. DiskTidy'
  BY <1>0, Nones, StartDoes DEF DiskTidy
<1> QED BY <1>1, <1>2, <1>3, <1>4, <1>5 DEF Tidy

LEMMA TidyClearLines ==
  ASSUME Typed, Tidy, NEW t \in Tabs, ClearLines(t)
  PROVE  Tidy'
<1>0. /\ tab[t] \in TabLocals /\ disk \in DiskDocs /\ lock \in Tabs \cup {Nothing}
      /\ DiskTidy /\ \A u \in Tabs : StateOf(u) /\ CopyOf(u) /\ AloneOf(u)
      /\ session \in BOOLEAN /\ tab[t].user \in BOOLEAN /\ tab[t].synced \in BOOLEAN
  BY Parts DEF Typed, Tidy, TabLocals
<1>1. StateOf(t)'
  BY <1>0, Nones, ClearLinesDoes
  DEF SamePc, SameLines, SameUser, StateOf, Locking, Applying, Comparing, Clearing
<1>2. CopyOf(t)'
  BY <1>0, Nones, ClearLinesDoes
  DEF SamePc, SameLines, SameUser, CopyOf, Applying, Comparing
<1>3. AloneOf(t)'
  BY <1>0, Nones, ClearLinesDoes
  DEF SamePc, SameLines, OthersSame, AloneOf, Alone, Clearing
<1>4. ASSUME NEW u \in Tabs \ {t}
      PROVE  StateOf(u)' /\ CopyOf(u)' /\ AloneOf(u)'
  <2>0. u \in Tabs /\ tab'[u] = tab[u] /\ StateOf(u) /\ CopyOf(u) /\ AloneOf(u)
    BY <1>0, <1>4, ClearLinesDoes DEF OthersSame
  <2>1. StateOf(u)'
    BY <1>0, <1>4, <2>0, ClearLinesDoes, CartAssumption DEF StateOf
  <2>2. CopyOf(u)'
    BY <1>0, <1>4, <2>0, ClearLinesDoes DEF CopyOf, Clean
  <2>3. AloneOf(u)'
    BY <1>0, <1>4, <2>0, ClearLinesDoes DEF SamePc, SameLines, AloneOf, Alone, Clearing
  <2> QED BY <2>1, <2>2, <2>3
<1>5. DiskTidy'
  BY <1>0, Nones, ClearLinesDoes DEF DiskTidy
<1> QED BY <1>1, <1>2, <1>3, <1>4, <1>5 DEF Tidy

LEMMA TidyClearIntent ==
  ASSUME Typed, Tidy, NEW t \in Tabs, ClearIntent(t)
  PROVE  Tidy'
<1>0. /\ tab[t] \in TabLocals /\ disk \in DiskDocs /\ lock \in Tabs \cup {Nothing}
      /\ DiskTidy /\ \A u \in Tabs : StateOf(u) /\ CopyOf(u) /\ AloneOf(u)
      /\ session \in BOOLEAN /\ tab[t].user \in BOOLEAN /\ tab[t].synced \in BOOLEAN
  BY Parts DEF Typed, Tidy, TabLocals
<1>1. StateOf(t)'
  BY <1>0, Nones, ClearIntentDoes
  DEF SamePc, SameUser, StateOf, Locking, Applying, Comparing, Clearing
<1>2. CopyOf(t)'
  BY <1>0, Nones, ClearIntentDoes DEF SamePc, SameUser, CopyOf, Applying, Comparing
<1>3. AloneOf(t)'
  BY <1>0, Nones, ClearIntentDoes
  DEF SamePc, SameLines, OthersSame, AloneOf, Alone, Clearing
<1>4. ASSUME NEW u \in Tabs \ {t}
      PROVE  StateOf(u)' /\ CopyOf(u)' /\ AloneOf(u)'
  <2>0. u \in Tabs /\ tab'[u] = tab[u] /\ StateOf(u) /\ CopyOf(u) /\ AloneOf(u)
    BY <1>0, <1>4, ClearIntentDoes DEF OthersSame
  <2>1. StateOf(u)'
    BY <1>0, <1>4, <2>0, ClearIntentDoes, CartAssumption DEF StateOf
  <2>2. CopyOf(u)'
    BY <1>0, <1>4, <2>0, ClearIntentDoes DEF CopyOf, AloneOf, Alone, Comparing, Clearing
  <2>3. AloneOf(u)'
    BY <1>0, <1>4, <2>0, ClearIntentDoes DEF SamePc, AloneOf, Alone, Clearing
  <2> QED BY <2>1, <2>2, <2>3
<1>5. DiskTidy'
  BY <1>0, Nones, ClearIntentDoes DEF DiskTidy
<1> QED BY <1>1, <1>2, <1>3, <1>4, <1>5 DEF Tidy

LEMMA TidyClearMeta ==
  ASSUME Typed, Tidy, NEW t \in Tabs, ClearMeta(t)
  PROVE  Tidy'
<1>0. /\ tab[t] \in TabLocals /\ disk \in DiskDocs /\ lock \in Tabs \cup {Nothing}
      /\ DiskTidy /\ \A u \in Tabs : StateOf(u) /\ CopyOf(u) /\ AloneOf(u)
      /\ session \in BOOLEAN /\ tab[t].user \in BOOLEAN /\ tab[t].synced \in BOOLEAN
  BY Parts DEF Typed, Tidy, TabLocals
<1>1. StateOf(t)'
  BY <1>0, Nones, ClearMetaDoes
  DEF SamePc, SameUser, StateOf, Locking, Applying, Comparing, Clearing
<1>2. CopyOf(t)'
  BY <1>0, Nones, ClearMetaDoes
  DEF SamePc, SameUser, StateOf, CopyOf, Applying, Comparing
<1>3. AloneOf(t)'
  BY <1>0, Nones, ClearMetaDoes DEF SamePc, OthersSame, AloneOf, Clean, Alone, Clearing
<1>4. ASSUME NEW u \in Tabs \ {t}
      PROVE  StateOf(u)' /\ CopyOf(u)' /\ AloneOf(u)'
  <2>0. u \in Tabs /\ tab'[u] = tab[u] /\ StateOf(u) /\ CopyOf(u) /\ AloneOf(u)
    BY <1>0, <1>4, ClearMetaDoes DEF OthersSame
  <2>1. StateOf(u)'
    BY <1>0, <1>4, <2>0, ClearMetaDoes, CartAssumption DEF StateOf
  <2>2. CopyOf(u)'
    BY <1>0, <1>4, <2>0, ClearMetaDoes
    DEF StateOf, CopyOf, AloneOf, Alone, Applying, Comparing, Clearing
  <2>3. AloneOf(u)'
    BY <1>0, <1>4, <2>0, ClearMetaDoes DEF SamePc, AloneOf, Alone, Clearing
  <2> QED BY <2>1, <2>2, <2>3
<1>5. DiskTidy'
  BY <1>0, Nones, ClearMetaDoes DEF DiskTidy
<1> QED BY <1>1, <1>2, <1>3, <1>4, <1>5 DEF Tidy

LEMMA TidyLocked ==
  ASSUME Typed, Tidy, NEW t \in Tabs, Locked(t)
  PROVE  Tidy'
<1>0. /\ tab[t] \in TabLocals /\ disk \in DiskDocs /\ lock \in Tabs \cup {Nothing}
      /\ DiskTidy /\ \A u \in Tabs : StateOf(u) /\ CopyOf(u) /\ AloneOf(u)
      /\ session \in BOOLEAN /\ tab[t].user \in BOOLEAN /\ tab[t].synced \in BOOLEAN
  BY Parts DEF Typed, Tidy, TabLocals
<1>1. StateOf(t)'
  BY <1>0, Nones, LockedDoes DEF SamePc, SameUser, StateOf, Applying, Clearing
<1>2. CopyOf(t)'
  BY <1>0, Nones, LockedDoes
  DEF SamePc, SameLines, SameUser, CopyOf, Applying, TabLocals
<1>3. AloneOf(t)'
  BY <1>0, Nones, LockedDoes DEF SamePc, OthersSame, StateOf, AloneOf, Alone, Clearing
<1>4. ASSUME NEW u \in Tabs \ {t}
      PROVE  StateOf(u)' /\ CopyOf(u)' /\ AloneOf(u)'
  <2>0. u \in Tabs /\ tab'[u] = tab[u] /\ StateOf(u) /\ CopyOf(u) /\ AloneOf(u)
    BY <1>0, <1>4, LockedDoes DEF OthersSame
  <2>1. StateOf(u)'
    BY <1>0, <1>4, <2>0, LockedDoes, CartAssumption DEF StateOf
  <2>2. CopyOf(u)'
    BY <1>0, <1>4, <2>0, LockedDoes DEF CopyOf, Clean
  <2>3. AloneOf(u)'
    BY <1>0, <1>4, <2>0, LockedDoes DEF SamePc, AloneOf, Clean, Alone
  <2> QED BY <2>1, <2>2, <2>3
<1>5. DiskTidy'
  BY <1>0, Nones, LockedDoes DEF DiskTidy
<1> QED BY <1>1, <1>2, <1>3, <1>4, <1>5 DEF Tidy

LEMMA TidyFetch ==
  ASSUME Typed, Tidy, NEW t \in Tabs, Fetch(t)
  PROVE  Tidy'
<1>0. /\ tab[t] \in TabLocals /\ disk \in DiskDocs /\ lock \in Tabs \cup {Nothing}
      /\ DiskTidy /\ \A u \in Tabs : StateOf(u) /\ CopyOf(u) /\ AloneOf(u)
      /\ session \in BOOLEAN /\ tab[t].user \in BOOLEAN /\ tab[t].synced \in BOOLEAN
  BY Parts DEF Typed, Tidy, TabLocals
<1>1. StateOf(t)'
  BY <1>0, Nones, FetchDoes
  DEF SamePc, SameUser, StateOf, Locking, Applying, Comparing, Clearing
<1>2. CopyOf(t)'
  BY <1>0, Nones, FetchDoes
  DEF SamePc, SameLines, SameUser, SameCopy, StateOf, CopyOf, Applying, Comparing
<1>3. AloneOf(t)'
  BY <1>0, Nones, FetchDoes DEF SamePc, AloneOf, Clearing
<1>4. ASSUME NEW u \in Tabs \ {t}
      PROVE  StateOf(u)' /\ CopyOf(u)' /\ AloneOf(u)'
  <2>0. u \in Tabs /\ tab'[u] = tab[u] /\ StateOf(u) /\ CopyOf(u) /\ AloneOf(u)
    BY <1>0, <1>4, FetchDoes DEF OthersSame
  <2>1. StateOf(u)'
    BY <1>0, <1>4, <2>0, FetchDoes, CartAssumption DEF StateOf
  <2>2. CopyOf(u)'
    BY <1>0, <1>4, <2>0, FetchDoes DEF CopyOf, Clean
  <2>3. AloneOf(u)'
    BY <1>0, <1>4, <2>0, FetchDoes DEF SamePc, AloneOf, Alone
  <2> QED BY <2>1, <2>2, <2>3
<1>5. DiskTidy'
  BY <1>0, Nones, FetchDoes DEF DiskTidy
<1> QED BY <1>1, <1>2, <1>3, <1>4, <1>5 DEF Tidy

LEMMA TidyNoMerge ==
  ASSUME Typed, Tidy, NEW t \in Tabs, NoMerge(t)
  PROVE  Tidy'
<1>0. /\ tab[t] \in TabLocals /\ disk \in DiskDocs /\ lock \in Tabs \cup {Nothing}
      /\ DiskTidy /\ \A u \in Tabs : StateOf(u) /\ CopyOf(u) /\ AloneOf(u)
      /\ session \in BOOLEAN /\ tab[t].user \in BOOLEAN /\ tab[t].synced \in BOOLEAN
  BY Parts DEF Typed, Tidy, TabLocals
<1>1. StateOf(t)'
  BY <1>0, Nones, NoMergeDoes
  DEF SamePc, SameUser, StateOf, Locking, Comparing, Clearing
<1>2. CopyOf(t)'
  <2>1. tab'[t].pc = "apply" /\ ~tab'[t].synced /\ Clean' => tab'[t].before = 0
    <3>1. minted + 1 # Nothing
      BY CartAssumption DEF Typed
    <3>2. tab[t].intent = NoIntent /\ ~tab[t].meta.there => tab[t].before = 0
      BY <3>1, NoMergeDoes DEF Intent, NoIntent
    <3> QED BY <1>0, <3>2, NoMergeDoes DEF SameCopy, CopyOf, Comparing, Clean
  <2> QED BY <1>0, <2>1, NoMergeDoes
          DEF SamePc, SameLines, SameUser, SameCopy, CopyOf, Comparing, Applying
<1>3. AloneOf(t)'
  BY <1>0, Nones, NoMergeDoes DEF SamePc, OthersSame, StateOf, AloneOf, Alone, Clearing
<1>4. ASSUME NEW u \in Tabs \ {t}
      PROVE  StateOf(u)' /\ CopyOf(u)' /\ AloneOf(u)'
  <2>0. u \in Tabs /\ tab'[u] = tab[u] /\ StateOf(u) /\ CopyOf(u) /\ AloneOf(u)
    BY <1>0, <1>4, NoMergeDoes DEF OthersSame
  <2>1. StateOf(u)'
    BY <1>0, <1>4, <2>0, NoMergeDoes, CartAssumption DEF StateOf
  <2>2. CopyOf(u)'
    BY <1>0, <1>4, <2>0, NoMergeDoes DEF CopyOf, Clean
  <2>3. AloneOf(u)'
    BY <1>0, <1>4, <2>0, NoMergeDoes DEF SamePc, AloneOf, Clean, Alone
  <2> QED BY <2>1, <2>2, <2>3
<1>5. DiskTidy'
  BY <1>0, Nones, NoMergeDoes DEF DiskTidy
<1> QED BY <1>1, <1>2, <1>3, <1>4, <1>5 DEF Tidy

LEMMA TidyRemember ==
  ASSUME Typed, Tidy, NEW t \in Tabs, Remember(t)
  PROVE  Tidy'
<1>0. /\ tab[t] \in TabLocals /\ disk \in DiskDocs /\ lock \in Tabs \cup {Nothing}
      /\ DiskTidy /\ \A u \in Tabs : StateOf(u) /\ CopyOf(u) /\ AloneOf(u)
      /\ session \in BOOLEAN /\ tab[t].user \in BOOLEAN /\ tab[t].synced \in BOOLEAN
  BY Parts DEF Typed, Tidy, TabLocals
<1>8. disk'.meta.there = TRUE /\ disk'.meta.key = tab[t].intent.key
  <2>1. disk'.meta = [there |-> TRUE, key |-> tab[t].intent.key]
    BY RememberDoes
  <2> QED BY <2>1
<1>1. StateOf(t)'
  BY <1>0, Nones, RememberDoes
  DEF SamePc, SameUser, StateOf, Locking, Applying, Comparing, Clearing
<1>2. CopyOf(t)'
  <2>1. /\ tab'[t].pc = "replace" /\ SameUser(t) /\ SameCopy(t)
        /\ disk'.intent = disk.intent /\ tab[t].pc = "apply"
    BY RememberDoes
  <2> QED BY <1>0, <1>8, <2>1 DEF SameUser, SameCopy, CopyOf, Comparing
<1>3. AloneOf(t)'
  <2>1. /\ tab'[t].pc = "replace" /\ SameUser(t) /\ OthersSame(t) /\ session' = session
        /\ tab[t].pc = "apply"
    BY RememberDoes
  <2>2. ~session /\ tab[t].user => Alone(t)'
    BY <1>0, <2>1 DEF OthersSame, AloneOf, Alone
  <2> QED BY <1>0, <2>1, <2>2 DEF SameUser, AloneOf, Clearing
<1>4. ASSUME NEW u \in Tabs \ {t}
      PROVE  StateOf(u)' /\ CopyOf(u)' /\ AloneOf(u)'
  <2>0. u \in Tabs /\ tab'[u] = tab[u] /\ StateOf(u) /\ CopyOf(u) /\ AloneOf(u)
    BY <1>0, <1>4, RememberDoes DEF OthersSame
  <2>1. StateOf(u)'
    BY <1>0, <1>4, <2>0, RememberDoes, CartAssumption DEF StateOf
  <2>2. CopyOf(u)'
    BY <1>0, <1>4, <2>0, RememberDoes, <1>8 DEF StateOf, CopyOf, Locking, Comparing
  <2>3. AloneOf(u)'
    BY <1>0, <1>4, <2>0, RememberDoes DEF SamePc, StateOf, AloneOf, Alone
  <2> QED BY <2>1, <2>2, <2>3
<1>5. DiskTidy'
  BY <1>0, Nones, RememberDoes, <1>8 DEF StateOf, DiskTidy, CopyOf, Comparing
<1> QED BY <1>1, <1>2, <1>3, <1>4, <1>5 DEF Tidy

LEMMA TidyReplace ==
  ASSUME Typed, Tidy, NEW t \in Tabs, Replace(t)
  PROVE  Tidy'
<1>0. /\ tab[t] \in TabLocals /\ disk \in DiskDocs /\ lock \in Tabs \cup {Nothing}
      /\ DiskTidy /\ \A u \in Tabs : StateOf(u) /\ CopyOf(u) /\ AloneOf(u)
      /\ session \in BOOLEAN /\ tab[t].user \in BOOLEAN /\ tab[t].synced \in BOOLEAN
  BY Parts DEF Typed, Tidy, TabLocals
<1>1. StateOf(t)'
  BY <1>0, Nones, ReplaceDoes
  DEF SamePc, SameLines, SameUser, StateOf, Locking, Applying, Clearing
<1>2. CopyOf(t)'
  BY <1>0, Nones, ReplaceDoes
  DEF SamePc, SameLines, SameUser, SameCopy, CopyOf, Applying, Comparing
<1>3. AloneOf(t)'
  BY <1>0, Nones, ReplaceDoes
  DEF SamePc, SameLines, OthersSame, StateOf, AloneOf, Alone, Clearing
<1>4. ASSUME NEW u \in Tabs \ {t}
      PROVE  StateOf(u)' /\ CopyOf(u)' /\ AloneOf(u)'
  <2>0. u \in Tabs /\ tab'[u] = tab[u] /\ StateOf(u) /\ CopyOf(u) /\ AloneOf(u)
    BY <1>0, <1>4, ReplaceDoes DEF OthersSame
  <2>1. StateOf(u)'
    BY <1>0, <1>4, <2>0, ReplaceDoes, CartAssumption DEF StateOf
  <2>2. CopyOf(u)'
    BY <1>0, <1>4, <2>0, ReplaceDoes DEF CopyOf, Clean
  <2>3. AloneOf(u)'
    BY <1>0, <1>4, <2>0, ReplaceDoes
    DEF SamePc, SameLines, AloneOf, Clean, Alone, Clearing
  <2> QED BY <2>1, <2>2, <2>3
<1>5. DiskTidy'
  BY <1>0, Nones, ReplaceDoes DEF DiskTidy
<1> QED BY <1>1, <1>2, <1>3, <1>4, <1>5 DEF Tidy

LEMMA TidyForget ==
  ASSUME Typed, Tidy, NEW t \in Tabs, Forget(t)
  PROVE  Tidy'
<1>0. /\ tab[t] \in TabLocals /\ disk \in DiskDocs /\ lock \in Tabs \cup {Nothing}
      /\ DiskTidy /\ \A u \in Tabs : StateOf(u) /\ CopyOf(u) /\ AloneOf(u)
      /\ session \in BOOLEAN /\ tab[t].user \in BOOLEAN /\ tab[t].synced \in BOOLEAN
  BY Parts DEF Typed, Tidy, TabLocals
<1>1. StateOf(t)'
  BY <1>0, Nones, ForgetDoes DEF SamePc, SameUser, StateOf, Locking, Applying, Clearing
<1>2. CopyOf(t)'
  BY <1>0, Nones, ForgetDoes DEF SamePc, CopyOf, Applying, Comparing
<1>3. AloneOf(t)'
  BY <1>0, Nones, ForgetDoes DEF SamePc, OthersSame, StateOf, AloneOf, Alone, Clearing
<1>4. ASSUME NEW u \in Tabs \ {t}
      PROVE  StateOf(u)' /\ CopyOf(u)' /\ AloneOf(u)'
  <2>0. u \in Tabs /\ tab'[u] = tab[u] /\ StateOf(u) /\ CopyOf(u) /\ AloneOf(u)
    BY <1>0, <1>4, ForgetDoes DEF OthersSame
  <2>1. StateOf(u)'
    BY <1>0, <1>4, <2>0, ForgetDoes, CartAssumption DEF StateOf
  <2>2. CopyOf(u)'
    BY <1>0, <1>4, <2>0, ForgetDoes DEF StateOf, CopyOf, Locking, Applying, Comparing
  <2>3. AloneOf(u)'
    BY <1>0, <1>4, <2>0, ForgetDoes DEF SamePc, AloneOf, Clean, Alone
  <2> QED BY <2>1, <2>2, <2>3
<1>5. DiskTidy'
  BY <1>0, Nones, ForgetDoes DEF DiskTidy
<1> QED BY <1>1, <1>2, <1>3, <1>4, <1>5 DEF Tidy

LEMMA TidySaveStart ==
  ASSUME Typed, Tidy, NEW t \in Tabs, SaveStart(t)
  PROVE  Tidy'
<1>0. /\ tab[t] \in TabLocals /\ disk \in DiskDocs /\ lock \in Tabs \cup {Nothing}
      /\ DiskTidy /\ \A u \in Tabs : StateOf(u) /\ CopyOf(u) /\ AloneOf(u)
      /\ session \in BOOLEAN /\ tab[t].user \in BOOLEAN /\ tab[t].synced \in BOOLEAN
  BY Parts DEF Typed, Tidy, TabLocals
<1>1. StateOf(t)'
  BY <1>0, Nones, SaveStartDoes
  DEF SamePc, SameUser, StateOf, Locking, Applying, Comparing, Clearing
<1>2. CopyOf(t)'
  BY <1>0, Nones, SaveStartDoes DEF SamePc, CopyOf, Comparing
<1>3. AloneOf(t)'
  BY <1>0, Nones, SaveStartDoes DEF SamePc, OthersSame, AloneOf, Alone, Clearing
<1>4. ASSUME NEW u \in Tabs \ {t}
      PROVE  StateOf(u)' /\ CopyOf(u)' /\ AloneOf(u)'
  <2>0. u \in Tabs /\ tab'[u] = tab[u] /\ StateOf(u) /\ CopyOf(u) /\ AloneOf(u)
    BY <1>0, <1>4, SaveStartDoes DEF OthersSame
  <2>1. StateOf(u)'
    BY <1>0, <1>4, <2>0, SaveStartDoes, CartAssumption DEF StateOf
  <2>2. CopyOf(u)'
    BY <1>0, <1>4, <2>0, SaveStartDoes DEF CopyOf, Clean
  <2>3. AloneOf(u)'
    BY <1>0, <1>4, <2>0, SaveStartDoes DEF SamePc, AloneOf, Alone
  <2> QED BY <2>1, <2>2, <2>3
<1>5. DiskTidy'
  BY <1>0, Nones, SaveStartDoes DEF DiskTidy
<1> QED BY <1>1, <1>2, <1>3, <1>4, <1>5 DEF Tidy

LEMMA TidyOpenTab ==
  ASSUME Typed, Tidy, NEW t \in Tabs, OpenTab(t), ~crowded'
  PROVE  Tidy'
<1>0. /\ tab[t] \in TabLocals /\ disk \in DiskDocs /\ lock \in Tabs \cup {Nothing}
      /\ DiskTidy /\ \A u \in Tabs : StateOf(u) /\ CopyOf(u) /\ AloneOf(u)
      /\ session \in BOOLEAN /\ tab[t].user \in BOOLEAN /\ tab[t].synced \in BOOLEAN
  BY Parts DEF Typed, Tidy, TabLocals
<1>1. StateOf(t)'
  BY <1>0, Nones, OpenTabDoes
  DEF SamePc, SameLines, SameCall, SameUser, SameRev, SameCopy, SameAnswer, StateOf,
      Locking, Applying, Comparing
<1>2. CopyOf(t)'
  BY <1>0, Nones, OpenTabDoes
  DEF SamePc, SameLines, SameCall, SameUser, SameRev, SameCopy, SameAnswer, CopyOf,
      Applying, Comparing
<1>3. AloneOf(t)'
  <2>0. \A u \in Tabs : ~SigningOut(u)
    BY DEF OpenTab
  <2>1. \A u \in Tabs \ {t} : tab[u].pc # "closed" /\ ~session => Clean
    BY <1>0, <2>0, Parts, OpenTabDoes DEF SigningOut, StateOf, AloneOf, Clearing, Is
  <2> QED BY <1>0, <2>1, Nones, OpenTabDoes
          DEF OthersSame, AloneOf, Alone, Clean, Clearing
<1>4. ASSUME NEW u \in Tabs \ {t}
      PROVE  StateOf(u)' /\ CopyOf(u)' /\ AloneOf(u)'
  <2>4. ~SigningOut(u)
    BY DEF OpenTab
  <2>0. u \in Tabs /\ tab'[u] = tab[u] /\ StateOf(u) /\ CopyOf(u) /\ AloneOf(u)
    BY <1>0, <1>4, OpenTabDoes DEF OthersSame
  <2>1. StateOf(u)'
    BY <1>0, <1>4, <2>0, OpenTabDoes, CartAssumption DEF StateOf
  <2>2. CopyOf(u)'
    BY <1>0, <1>4, <2>0, OpenTabDoes DEF CopyOf, Clean
  <2>3. AloneOf(u)'
    BY <1>0, <1>4, <2>0, <2>4, OpenTabDoes
    DEF SamePc, SameLines, SameCall, SameUser, SameRev, SameCopy, SameAnswer, StateOf,
        AloneOf, Clean, Clearing, SigningOut, Is
  <2> QED BY <2>1, <2>2, <2>3
<1>5. DiskTidy'
  BY <1>0, Nones, OpenTabDoes DEF DiskTidy
<1> QED BY <1>1, <1>2, <1>3, <1>4, <1>5 DEF Tidy

LEMMA TidyEdits ==
  ASSUME Typed, Tidy, NEW t \in Tabs, Edits(t)
  PROVE  Tidy'
<1>0. /\ tab[t] \in TabLocals /\ disk \in DiskDocs /\ lock \in Tabs \cup {Nothing}
      /\ DiskTidy /\ \A u \in Tabs : StateOf(u) /\ CopyOf(u) /\ AloneOf(u)
      /\ session \in BOOLEAN /\ tab[t].user \in BOOLEAN /\ tab[t].synced \in BOOLEAN
  BY Parts DEF Typed, Tidy, TabLocals
<1>1. StateOf(t)'
  BY <1>0, Nones, EditsDoes
  DEF SamePc, SameLines, SameCall, SameUser, StateOf, Locking, Applying, Comparing,
      Clearing
<1>2. CopyOf(t)'
  BY <1>0, Nones, EditsDoes DEF SamePc, SameLines, SameCall, SameUser, CopyOf, Applying
<1>3. AloneOf(t)'
  <2>1. tab[t].user /\ tab[t].pc = "edits" /\ (~session => Alone(t))
    BY <1>0, EditsDoes DEF StateOf, AloneOf, Clearing
  <2>2. ~session' => Alone(t)'
    BY <2>1, EditsDoes DEF Alone, OthersSame
  <2>3. tab'[t].user /\ tab'[t].pc = "idle"
    BY <2>1, EditsDoes
  <2> QED BY <2>2, <2>3 DEF AloneOf, Clearing
<1>4. ASSUME NEW u \in Tabs \ {t}
      PROVE  StateOf(u)' /\ CopyOf(u)' /\ AloneOf(u)'
  <2>0. u \in Tabs /\ tab'[u] = tab[u] /\ StateOf(u) /\ CopyOf(u) /\ AloneOf(u)
    BY <1>0, <1>4, EditsDoes DEF OthersSame
  <2>1. StateOf(u)'
    BY <1>0, <1>4, <2>0, EditsDoes, CartAssumption DEF StateOf, Unlocked
  <2>2. CopyOf(u)'
    BY <1>0, <1>4, <2>0, EditsDoes DEF CopyOf, Clean
  <2>3. AloneOf(u)'
    BY <1>0, <1>4, <2>0, EditsDoes
    DEF SamePc, SameLines, SameCall, SameUser, AloneOf, Clean, Alone, Clearing
  <2> QED BY <2>1, <2>2, <2>3
<1>5. DiskTidy'
  BY <1>0, Nones, EditsDoes DEF DiskTidy
<1> QED BY <1>1, <1>2, <1>3, <1>4, <1>5 DEF Tidy

LEMMA TidyCloseTab ==
  ASSUME Typed, Tidy, NEW t \in Tabs, CloseTab(t)
  PROVE  Tidy'
<1>0. /\ tab[t] \in TabLocals /\ disk \in DiskDocs /\ lock \in Tabs \cup {Nothing}
      /\ DiskTidy /\ \A u \in Tabs : StateOf(u) /\ CopyOf(u) /\ AloneOf(u)
      /\ session \in BOOLEAN /\ tab[t].user \in BOOLEAN /\ tab[t].synced \in BOOLEAN
  BY Parts DEF Typed, Tidy, TabLocals
<1>1. StateOf(t)'
  BY <1>0, Nones, CloseTabDoes
  DEF SamePc, SameLines, SameCall, SameUser, SameRev, SameCopy, SameAnswer, StateOf,
      Locking, Applying, Comparing
<1>2. CopyOf(t)'
  BY <1>0, Nones, CloseTabDoes
  DEF SamePc, SameLines, SameCall, SameUser, SameRev, SameCopy, SameAnswer, CopyOf,
      Applying, Comparing
<1>3. AloneOf(t)'
  BY <1>0, Nones, CloseTabDoes
  DEF SamePc, SameLines, SameCall, SameUser, SameRev, SameCopy, SameAnswer, AloneOf,
      Clearing
<1>4. ASSUME NEW u \in Tabs \ {t}
      PROVE  StateOf(u)' /\ CopyOf(u)' /\ AloneOf(u)'
  <2>0. u \in Tabs /\ tab'[u] = tab[u] /\ StateOf(u) /\ CopyOf(u) /\ AloneOf(u)
    BY <1>0, <1>4, CloseTabDoes DEF OthersSame
  <2>1. StateOf(u)'
    BY <1>0, <1>4, <2>0, CloseTabDoes, CartAssumption DEF StateOf, Unlocked
  <2>2. CopyOf(u)'
    BY <1>0, <1>4, <2>0, CloseTabDoes DEF CopyOf, Clean
  <2>3. AloneOf(u)'
    BY <1>0, <1>4, <2>0, CloseTabDoes
    DEF SamePc, SameLines, SameCall, SameUser, SameRev, SameCopy, SameAnswer, AloneOf,
        Clean, Alone
  <2> QED BY <2>1, <2>2, <2>3
<1>5. DiskTidy'
  BY <1>0, Nones, CloseTabDoes DEF DiskTidy
<1> QED BY <1>1, <1>2, <1>3, <1>4, <1>5 DEF Tidy

LEMMA TidyRequestFails ==
  ASSUME Typed, Tidy, NEW t \in Tabs, RequestFails(t)
  PROVE  Tidy'
<1>0. /\ tab[t] \in TabLocals /\ disk \in DiskDocs /\ lock \in Tabs \cup {Nothing}
      /\ DiskTidy /\ \A u \in Tabs : StateOf(u) /\ CopyOf(u) /\ AloneOf(u)
      /\ session \in BOOLEAN /\ tab[t].user \in BOOLEAN /\ tab[t].synced \in BOOLEAN
  BY Parts DEF Typed, Tidy, TabLocals
<1>1. StateOf(t)'
  BY <1>0, Nones, RequestFailsDoes
  DEF SamePc, SameUser, StateOf, Locking, Applying, Comparing, Clearing
<1>2. CopyOf(t)'
  BY <1>0, Nones, RequestFailsDoes DEF SamePc, SameUser, CopyOf, Applying, Comparing
<1>3. AloneOf(t)'
  BY <1>0, Nones, RequestFailsDoes
  DEF SamePc, SameUser, OthersSame, StateOf, AloneOf, Alone, Clearing
<1>4. ASSUME NEW u \in Tabs \ {t}
      PROVE  StateOf(u)' /\ CopyOf(u)' /\ AloneOf(u)'
  <2>0. u \in Tabs /\ tab'[u] = tab[u] /\ StateOf(u) /\ CopyOf(u) /\ AloneOf(u)
    BY <1>0, <1>4, RequestFailsDoes DEF OthersSame
  <2>1. StateOf(u)'
    BY <1>0, <1>4, <2>0, RequestFailsDoes, CartAssumption DEF StateOf, Unlocked
  <2>2. CopyOf(u)'
    BY <1>0, <1>4, <2>0, RequestFailsDoes DEF CopyOf, Clean
  <2>3. AloneOf(u)'
    BY <1>0, <1>4, <2>0, RequestFailsDoes DEF SamePc, AloneOf, Clean, Alone
  <2> QED BY <2>1, <2>2, <2>3
<1>5. DiskTidy'
  BY <1>0, Nones, RequestFailsDoes DEF DiskTidy
<1> QED BY <1>1, <1>2, <1>3, <1>4, <1>5 DEF Tidy

LEMMA TidyUserGone ==
  ASSUME Typed, Tidy, NEW t \in Tabs, UserGone(t)
  PROVE  Tidy'
<1>0. /\ tab[t] \in TabLocals /\ disk \in DiskDocs /\ lock \in Tabs \cup {Nothing}
      /\ DiskTidy /\ \A u \in Tabs : StateOf(u) /\ CopyOf(u) /\ AloneOf(u)
      /\ session \in BOOLEAN /\ tab[t].user \in BOOLEAN /\ tab[t].synced \in BOOLEAN
  BY Parts DEF Typed, Tidy, TabLocals
<1>1. StateOf(t)'
  BY <1>0, Nones, UserGoneDoes
  DEF SamePc, StateOf, Locking, Applying, Comparing, Clearing
<1>2. CopyOf(t)'
  BY <1>0, Nones, UserGoneDoes DEF SamePc, CopyOf, Applying, Comparing
<1>3. AloneOf(t)'
  <2>1. Alone(t) \/ (Clean /\ ~tab[t].synced)
    BY <1>0, UserGoneDoes DEF AloneOf, StateOf
  <2>2. (tab'[t].pc = "clear" /\ Alone(t)) \/ (tab'[t].pc = "idle" /\ Clean)
    <3>1. tab[t].synced \/ disk.meta.there \/ disk.intent # NoIntent => tab'[t].pc = "clear"
      BY UserGoneDoes
    <3>2. ~(tab[t].synced \/ disk.meta.there \/ disk.intent # NoIntent) => tab'[t].pc = "idle"
      BY UserGoneDoes, Zenon
    <3> QED BY <2>1, <3>1, <3>2 DEF Clean
  <2>3. (Alone(t) => Alone(t)') /\ (Clean => Clean') /\ ~tab'[t].user
    BY UserGoneDoes DEF Alone, OthersSame, Clean
  <2> QED BY <2>2, <2>3 DEF AloneOf, Clearing
<1>4. ASSUME NEW u \in Tabs \ {t}
      PROVE  StateOf(u)' /\ CopyOf(u)' /\ AloneOf(u)'
  <2>0. u \in Tabs /\ tab'[u] = tab[u] /\ StateOf(u) /\ CopyOf(u) /\ AloneOf(u)
    BY <1>0, <1>4, UserGoneDoes DEF OthersSame
  <2>1. StateOf(u)'
    BY <1>0, <1>4, <2>0, UserGoneDoes, CartAssumption DEF StateOf, Unlocked
  <2>2. CopyOf(u)'
    BY <1>0, <1>4, <2>0, UserGoneDoes DEF CopyOf, Clean
  <2>3. AloneOf(u)'
    BY <1>0, <1>4, <2>0, UserGoneDoes DEF SamePc, StateOf, AloneOf, Clean, Alone
  <2> QED BY <2>1, <2>2, <2>3
<1>5. DiskTidy'
  BY <1>0, Nones, UserGoneDoes DEF DiskTidy
<1> QED BY <1>1, <1>2, <1>3, <1>4, <1>5 DEF Tidy

LEMMA TidyMerge ==
  ASSUME Typed, Tidy, NEW t \in Tabs, NEW h \in Handlers, Merge(t, h)
  PROVE  Tidy'
<1>0. /\ tab[t] \in TabLocals /\ disk \in DiskDocs /\ lock \in Tabs \cup {Nothing}
      /\ DiskTidy /\ \A u \in Tabs : StateOf(u) /\ CopyOf(u) /\ AloneOf(u)
      /\ session \in BOOLEAN /\ tab[t].user \in BOOLEAN /\ tab[t].synced \in BOOLEAN
  BY Parts DEF Typed, Tidy, TabLocals
<1>8. disk.intent # NoIntent \/ disk.meta.there => Intent(t) = disk.intent
  BY <1>0, MergeDoes DEF Intent, CopyOf, StateOf, Comparing, Applying
<1>1. StateOf(t)'
  BY <1>0, Nones, MergeDoes
  DEF SamePc, SameUser, StateOf, Locking, Applying, Comparing, Clearing
<1>2. CopyOf(t)'
  BY <1>0, Nones, MergeDoes
  DEF SamePc, SameLines, SameCall, SameUser, StateOf, CopyOf, Applying, Comparing
<1>3. AloneOf(t)'
  BY <1>0, Nones, MergeDoes DEF SamePc, OthersSame, StateOf, AloneOf, Alone, Clearing
<1>4. ASSUME NEW u \in Tabs \ {t}
      PROVE  StateOf(u)' /\ CopyOf(u)' /\ AloneOf(u)'
  <2>0. u \in Tabs /\ tab'[u] = tab[u] /\ StateOf(u) /\ CopyOf(u) /\ AloneOf(u)
    BY <1>0, <1>4, MergeDoes DEF OthersSame
  <2>1. StateOf(u)'
    BY <1>0, <1>4, <2>0, MergeDoes, CartAssumption DEF StateOf
  <2>2. CopyOf(u)'
    BY <1>0, <1>4, <2>0, MergeDoes, <1>8
    DEF StateOf, CopyOf, Locking, Applying, Comparing
  <2>3. AloneOf(u)'
    BY <1>0, <1>4, <2>0, MergeDoes DEF SamePc, StateOf, AloneOf, Alone, Clearing
  <2> QED BY <2>1, <2>2, <2>3
<1>5. DiskTidy'
  BY <1>0, Nones, MergeDoes, <1>8 DEF DiskTidy
<1> QED BY <1>1, <1>2, <1>3, <1>4, <1>5 DEF Tidy

LEMMA TidySave ==
  ASSUME Typed, Tidy, NEW t \in Tabs, NEW h \in Handlers, Save(t, h)
  PROVE  Tidy'
<1>0. /\ tab[t] \in TabLocals /\ disk \in DiskDocs /\ lock \in Tabs \cup {Nothing}
      /\ DiskTidy /\ \A u \in Tabs : StateOf(u) /\ CopyOf(u) /\ AloneOf(u)
      /\ session \in BOOLEAN /\ tab[t].user \in BOOLEAN /\ tab[t].synced \in BOOLEAN
  BY Parts DEF Typed, Tidy, TabLocals
<1>1. StateOf(t)'
  BY <1>0, Nones, SaveDoes DEF SamePc, SameUser, StateOf, Clearing
<1>2. CopyOf(t)'
  BY <1>0, Nones, SaveDoes DEF SamePc, StateOf, CopyOf, Comparing
<1>3. AloneOf(t)'
  BY <1>0, Nones, SaveDoes DEF SamePc, AloneOf, Clearing
<1>4. ASSUME NEW u \in Tabs \ {t}
      PROVE  StateOf(u)' /\ CopyOf(u)' /\ AloneOf(u)'
  <2>0. u \in Tabs /\ tab'[u] = tab[u] /\ StateOf(u) /\ CopyOf(u) /\ AloneOf(u)
    BY <1>0, <1>4, SaveDoes DEF OthersSame
  <2>1. StateOf(u)'
    BY <1>0, <1>4, <2>0, SaveDoes, CartAssumption DEF StateOf
  <2>2. CopyOf(u)'
    BY <1>0, <1>4, <2>0, SaveDoes DEF CopyOf, Clean
  <2>3. AloneOf(u)'
    BY <1>0, <1>4, <2>0, SaveDoes DEF SamePc, AloneOf, Alone
  <2> QED BY <2>1, <2>2, <2>3
<1>5. DiskTidy'
  BY <1>0, Nones, SaveDoes DEF DiskTidy
<1> QED BY <1>1, <1>2, <1>3, <1>4, <1>5 DEF Tidy

LEMMA TidyMerged ==
  ASSUME Typed, Tidy, NEW t \in Tabs, Merged(t)
  PROVE  Tidy'
<1>0. /\ tab[t] \in TabLocals /\ disk \in DiskDocs /\ lock \in Tabs \cup {Nothing}
      /\ DiskTidy /\ \A u \in Tabs : StateOf(u) /\ CopyOf(u) /\ AloneOf(u)
      /\ session \in BOOLEAN /\ tab[t].user \in BOOLEAN /\ tab[t].synced \in BOOLEAN
  BY Parts DEF Typed, Tidy, TabLocals
<1>1. StateOf(t)'
  BY <1>0, Nones, MergedDoes DEF SamePc, SameUser, StateOf, Locking, Comparing, Clearing
<1>2. CopyOf(t)'
  BY <1>0, Nones, MergedDoes
  DEF SamePc, SameLines, SameCall, SameUser, SameCopy, CopyOf, Clean, Applying,
      Comparing
<1>3. AloneOf(t)'
  BY <1>0, Nones, MergedDoes DEF SamePc, OthersSame, StateOf, AloneOf, Alone, Clearing
<1>4. ASSUME NEW u \in Tabs \ {t}
      PROVE  StateOf(u)' /\ CopyOf(u)' /\ AloneOf(u)'
  <2>0. u \in Tabs /\ tab'[u] = tab[u] /\ StateOf(u) /\ CopyOf(u) /\ AloneOf(u)
    BY <1>0, <1>4, MergedDoes DEF OthersSame
  <2>1. StateOf(u)'
    BY <1>0, <1>4, <2>0, MergedDoes, CartAssumption DEF StateOf
  <2>2. CopyOf(u)'
    BY <1>0, <1>4, <2>0, MergedDoes DEF CopyOf, Clean
  <2>3. AloneOf(u)'
    BY <1>0, <1>4, <2>0, MergedDoes DEF SamePc, AloneOf, Clean, Alone
  <2> QED BY <2>1, <2>2, <2>3
<1>5. DiskTidy'
  BY <1>0, Nones, MergedDoes DEF DiskTidy
<1> QED BY <1>1, <1>2, <1>3, <1>4, <1>5 DEF Tidy

LEMMA TidySaveRefused ==
  ASSUME Typed, Tidy, NEW t \in Tabs, SaveRefused(t)
  PROVE  Tidy'
<1>0. /\ tab[t] \in TabLocals /\ disk \in DiskDocs /\ lock \in Tabs \cup {Nothing}
      /\ DiskTidy /\ \A u \in Tabs : StateOf(u) /\ CopyOf(u) /\ AloneOf(u)
      /\ session \in BOOLEAN /\ tab[t].user \in BOOLEAN /\ tab[t].synced \in BOOLEAN
  BY Parts DEF Typed, Tidy, TabLocals
<1>1. StateOf(t)'
  BY <1>0, Nones, SaveRefusedDoes DEF SamePc, SameUser, StateOf, Locking, Clearing
<1>2. CopyOf(t)'
  BY <1>0, Nones, SaveRefusedDoes DEF SamePc, StateOf, CopyOf, Comparing
<1>3. AloneOf(t)'
  BY <1>0, Nones, SaveRefusedDoes
  DEF SamePc, OthersSame, StateOf, AloneOf, Alone, Clearing
<1>4. ASSUME NEW u \in Tabs \ {t}
      PROVE  StateOf(u)' /\ CopyOf(u)' /\ AloneOf(u)'
  <2>0. u \in Tabs /\ tab'[u] = tab[u] /\ StateOf(u) /\ CopyOf(u) /\ AloneOf(u)
    BY <1>0, <1>4, SaveRefusedDoes DEF OthersSame
  <2>1. StateOf(u)'
    BY <1>0, <1>4, <2>0, SaveRefusedDoes, CartAssumption DEF StateOf
  <2>2. CopyOf(u)'
    BY <1>0, <1>4, <2>0, SaveRefusedDoes DEF CopyOf, Clean
  <2>3. AloneOf(u)'
    BY <1>0, <1>4, <2>0, SaveRefusedDoes DEF SamePc, AloneOf, Clean, Alone
  <2> QED BY <2>1, <2>2, <2>3
<1>5. DiskTidy'
  BY <1>0, Nones, SaveRefusedDoes DEF DiskTidy
<1> QED BY <1>1, <1>2, <1>3, <1>4, <1>5 DEF Tidy

LEMMA TidySaved ==
  ASSUME Typed, Tidy, NEW t \in Tabs, Saved(t)
  PROVE  Tidy'
<1>0. /\ tab[t] \in TabLocals /\ disk \in DiskDocs /\ lock \in Tabs \cup {Nothing}
      /\ DiskTidy /\ \A u \in Tabs : StateOf(u) /\ CopyOf(u) /\ AloneOf(u)
      /\ session \in BOOLEAN /\ tab[t].user \in BOOLEAN /\ tab[t].synced \in BOOLEAN
  BY Parts DEF Typed, Tidy, TabLocals
<1>1. StateOf(t)'
  BY <1>0, Nones, SavedDoes
  DEF SamePc, SameUser, StateOf, Locking, Applying, Comparing, Clearing
<1>2. CopyOf(t)'
  BY <1>0, Nones, SavedDoes DEF SamePc, StateOf, CopyOf, Comparing
<1>3. AloneOf(t)'
  BY <1>0, Nones, SavedDoes
  DEF SamePc, SameUser, OthersSame, StateOf, AloneOf, Alone, Clearing
<1>4. ASSUME NEW u \in Tabs \ {t}
      PROVE  StateOf(u)' /\ CopyOf(u)' /\ AloneOf(u)'
  <2>0. u \in Tabs /\ tab'[u] = tab[u] /\ StateOf(u) /\ CopyOf(u) /\ AloneOf(u)
    BY <1>0, <1>4, SavedDoes DEF OthersSame
  <2>1. StateOf(u)'
    BY <1>0, <1>4, <2>0, SavedDoes, CartAssumption DEF StateOf, Unlocked
  <2>2. CopyOf(u)'
    BY <1>0, <1>4, <2>0, SavedDoes DEF StateOf, CopyOf, Locking, Comparing
  <2>3. AloneOf(u)'
    BY <1>0, <1>4, <2>0, SavedDoes DEF SamePc, StateOf, AloneOf, Alone
  <2> QED BY <2>1, <2>2, <2>3
<1>5. DiskTidy'
  BY <1>0, Nones, SavedDoes DEF StateOf, DiskTidy, CopyOf
<1> QED BY <1>1, <1>2, <1>3, <1>4, <1>5 DEF Tidy

LEMMA TidyServer ==
  ASSUME Tidy, UNCHANGED <<tab, disk, lock, session>>
  PROVE  Tidy'
  BY DEF Tidy, DiskTidy, StateOf, CopyOf, AloneOf, Clean, Alone

LEMMA TidySession ==
  ASSUME Typed, Tidy, SignIn \/ SignOut, ~crowded'
  PROVE  Tidy'
<1>1. /\ tab' = tab /\ disk' = disk /\ lock' = lock
      /\ session' = TRUE \/ (\A t, u \in Tabs : tab[t].pc # "closed" /\ tab[u].pc # "closed" => t = u /\ tab[t].user)
  BY DEF SignIn, SignOut, OneTab, Is
<1>2. DiskTidy' /\ \A t \in Tabs : StateOf(t)' /\ CopyOf(t)'
  BY <1>1 DEF Tidy, DiskTidy, StateOf, CopyOf, Clean
<1>3. ASSUME NEW t \in Tabs
      PROVE  AloneOf(t)'
  <2>0. AloneOf(t) /\ StateOf(t)
    BY DEF Tidy
  <2>1. CASE session' = TRUE
    BY <1>1, <2>0, <2>1 DEF AloneOf, Alone, Clean
  <2>2. CASE \A r, u \in Tabs : tab[r].pc # "closed" /\ tab[u].pc # "closed" => r = u /\ tab[r].user
    <3>1. tab[t].pc # "closed" => Alone(t) /\ tab[t].user
      BY <2>2 DEF Alone
    <3>2. Alone(t) => Alone(t)'
      BY <1>1 DEF Alone
    <3>3. tab[t].user => tab[t].pc # "closed"
      BY <2>0 DEF StateOf
    <3> QED BY <1>1, <2>0, <3>1, <3>2, <3>3 DEF AloneOf, Clean, Clearing
  <2> QED BY <1>1, <2>1, <2>2
<1> QED BY <1>2, <1>3 DEF Tidy

LEMMA TidyInit == CartInit => Tidy
<1> SUFFICES ASSUME CartInit PROVE Tidy
  OBVIOUS
<1>1. \A t \in Tabs : tab[t].pc = "closed" /\ tab[t].user = FALSE /\ tab[t].synced = FALSE
  BY DEF CartInit, Closed, Fresh
<1>2. disk.meta = NoMeta /\ disk.intent = NoIntent
  BY DEF CartInit
<1> QED BY <1>1, <1>2, Nones
        DEF Tidy, DiskTidy, StateOf, CopyOf, AloneOf, Locking, Comparing, Applying,
            Clearing

-----------------------------------------------------------------------------
(* Who waits for which request. *)

Calls == \A t \in Tabs : CallOf(t)

\* A tab that waits for nothing after the step.
LEMMA CallsKept ==
  ASSUME Calls, NEW t \in Tabs, OthersSame(t),
         tab'[t].call = Nothing, tab'[t].pc \notin {"merging", "saving"},
         \A u \in Tabs \ {t} : tab[u].call # Nothing => handler'[tab[u].call] = handler[tab[u].call]
  PROVE  Calls'
<1>1. ASSUME NEW u \in Tabs \ {t}
      PROVE  CallOf(u)'
  <2>1. tab'[u] = tab[u] /\ CallOf(u)
    BY <1>1 DEF OthersSame, Calls
  <2>2. \A v \in Tabs \ {u} : tab'[v].call = tab[v].call \/ tab'[v].call = Nothing
    BY DEF OthersSame
  <2> QED BY <1>1, <2>1, <2>2 DEF CallOf, Is
<1>2. CallOf(t)'
  BY DEF CallOf, Is
<1> QED BY <1>1, <1>2 DEF Calls

\* The steps of a tab that waits for nothing, before or after.
LEMMA CallsIdle ==
  ASSUME Typed, Calls, NEW t \in Tabs,
         \/ Start(t) \/ ClearLines(t) \/ ClearIntent(t) \/ ClearMeta(t) \/ Locked(t) \/ Fetch(t)
         \/ NoMerge(t) \/ Remember(t) \/ Replace(t) \/ Forget(t) \/ Edits(t) \/ SaveStart(t)
         \/ OpenTab(t)
  PROVE  Calls'
<1>1. /\ OthersSame(t) /\ handler' = handler /\ tab[t].pc \notin {"merging", "saving"}
      /\ tab'[t].pc \notin {"merging", "saving"} /\ (SameCall(t) \/ AtRest(t))
  <2>1. CASE Start(t) BY <2>1, StartDoes DEF SamePc, AtRest
  <2>2. CASE ClearLines(t) BY <2>2, ClearLinesDoes DEF SamePc, AtRest
  <2>3. CASE ClearIntent(t) BY <2>3, ClearIntentDoes DEF SamePc, AtRest
  <2>4. CASE ClearMeta(t) BY <2>4, ClearMetaDoes DEF SamePc, AtRest
  <2>5. CASE Locked(t) BY <2>5, LockedDoes DEF SamePc, AtRest
  <2>6. CASE Fetch(t) BY <2>6, FetchDoes DEF SamePc, AtRest
  <2>7. CASE NoMerge(t) BY <2>7, NoMergeDoes DEF SamePc, AtRest
  <2>8. CASE Remember(t) BY <2>8, RememberDoes DEF SamePc, AtRest
  <2>9. CASE Replace(t) BY <2>9, ReplaceDoes DEF SamePc, AtRest
  <2>10. CASE Forget(t) BY <2>10, ForgetDoes DEF SamePc, AtRest
  <2>11. CASE Edits(t) BY <2>11, EditsDoes DEF SamePc, AtRest
  <2>12. CASE SaveStart(t) BY <2>12, SaveStartDoes DEF SamePc, AtRest
  <2>13. CASE OpenTab(t) BY <2>13, OpenTabDoes DEF SamePc, AtRest
  <2> QED BY <2>1, <2>2, <2>3, <2>4, <2>5, <2>6, <2>7,
             <2>8, <2>9, <2>10, <2>11, <2>12, <2>13
<1>2. tab'[t].call = Nothing
  BY <1>1 DEF Calls, CallOf, SameCall, AtRest
<1> QED BY <1>1, <1>2, CallsKept

\* A tab waits no more: its handler drops the answer, or goes on for nobody.
LEMMA CallsDropped ==
  ASSUME Typed, Calls, NEW t \in Tabs, CloseTab(t) \/ RequestFails(t) \/ UserGone(t)
  PROVE  Calls'
<1>1. OthersSame(t) /\ handler' = Dropped(t)
  BY CloseTabDoes, RequestFailsDoes, UserGoneDoes
<1>2. tab'[t].call = Nothing /\ tab'[t].pc \notin {"merging", "saving"}
  BY CloseTabDoes, RequestFailsDoes, UserGoneDoes DEF AtRest
<1>3. ASSUME NEW u \in Tabs \ {t}, tab[u].call # Nothing
      PROVE  handler'[tab[u].call] = handler[tab[u].call]
  <2>1. tab[u].call \in Handlers
    BY <1>3, Parts DEF TabLocals
  <2>2. tab[t].call # tab[u].call
    BY <1>3 DEF Calls, CallOf
  <2> QED BY <1>1, <2>1, <2>2 DEF Dropped
<1> QED BY <1>1, <1>2, <1>3, CallsKept

\* A tab takes its answer, and its handler is free.
LEMMA CallsAnswered ==
  ASSUME Typed, Calls, NEW t \in Tabs, Merged(t) \/ SaveRefused(t) \/ Saved(t)
  PROVE  Calls'
<1>1. OthersSame(t) /\ handler' = [handler EXCEPT ![tab[t].call] = NoCall]
  BY MergedDoes, SaveRefusedDoes, SavedDoes
<1>2. tab'[t].call = Nothing /\ tab'[t].pc \notin {"merging", "saving"}
  BY MergedDoes, SaveRefusedDoes, SavedDoes DEF AtRest
<1>3. ASSUME NEW u \in Tabs \ {t}, tab[u].call # Nothing
      PROVE  handler'[tab[u].call] = handler[tab[u].call]
  <2>1. tab[u].call \in Handlers
    BY <1>3, Parts DEF TabLocals
  <2>2. tab[t].call # tab[u].call
    BY <1>3 DEF Calls, CallOf
  <2> QED BY <1>1, <2>1, <2>2 DEF Typed
<1> QED BY <1>1, <1>2, <1>3, CallsKept

LEMMA CallsAdd ==
  ASSUME Typed, Calls, NEW t \in Tabs, Add(t)
  PROVE  Calls'
<1>1. /\ OthersSame(t) /\ handler' = handler /\ SamePc(t) /\ SameCall(t) /\ SameRev(t)
      /\ tab'[t].lines = tab[t].lines + 1
  BY AddDoes
<1>2. ASSUME NEW u \in Tabs
      PROVE  CallOf(u)'
  <2>1. /\ tab'[u].call = tab[u].call /\ tab'[u].pc = tab[u].pc /\ tab'[u].rev = tab[u].rev
        /\ tab'[u].lines \in {tab[u].lines, tab[u].lines + 1}
    BY <1>1 DEF OthersSame, SamePc, SameCall, SameRev
  <2>2. \A v \in Tabs : tab'[v].call = tab[v].call
    BY <1>1 DEF OthersSame, SameCall
  <2>3. tab[u].call # Nothing => tab[u].lines \in Nat /\ handler[tab[u].call].lines \in Nat
    BY Parts DEF TabLocals, HandlerLocals
  <2>4. CallOf(u)
    BY DEF Calls
  <2> QED BY <1>1, <2>1, <2>2, <2>3, <2>4 DEF CallOf, Is
<1> QED BY <1>2 DEF Calls

\* A tab that sends a request waits for a handler that was free.
LEMMA CallsSent ==
  ASSUME Typed, Calls, NEW t \in Tabs, NEW h \in Handlers, OthersSame(t), NEW op \in {"merge", "save"},
         tab'[t].call = h, tab'[t].pc = (IF op = "save" THEN "saving" ELSE "merging"),
         handler[h].pc = "free", \A g \in Handlers \ {h} : handler'[g] = handler[g],
         handler'[h].pc = "read", handler'[h].op = op,
         op = "save" => handler'[h].rev = tab'[t].rev /\ handler'[h].lines <= tab'[t].lines
  PROVE  Calls'
<1>0. ASSUME NEW u \in Tabs
      PROVE  tab[u].call # h /\ (tab[u].call # Nothing => tab[u].call \in Handlers)
  <2>1. tab[u].call \in Handlers \cup {Nothing} /\ h # Nothing
    BY Parts, CartAssumption DEF TabLocals
  <2>2. tab[u].call # Nothing => handler[tab[u].call].pc # "free"
    BY DEF Calls, CallOf
  <2>3. tab[u].call # h
    BY <2>1, <2>2, Zenon
  <2> QED BY <2>1, <2>3
<1>1. ASSUME NEW u \in Tabs \ {t}
      PROVE  CallOf(u)'
  <2>1. tab'[u] = tab[u] /\ CallOf(u) /\ tab[u].call # h /\ u \in Tabs
    BY <1>0, <1>1 DEF OthersSame, Calls
  <2>2. tab[u].call # Nothing => handler'[tab[u].call] = handler[tab[u].call]
    BY <1>0, <2>1
  <2>3. \A v \in Tabs \ {u} : tab'[v].call = tab[v].call \/ tab'[v].call = h
    BY DEF OthersSame
  <2> QED BY <2>1, <2>2, <2>3 DEF CallOf, Is
<1>2. CallOf(t)'
  <2>1. h # Nothing
    BY CartAssumption
  <2>2. \A u \in Tabs \ {t} : tab'[u].call # h
    BY <1>0 DEF OthersSame
  <2> QED BY <2>1, <2>2 DEF CallOf, Is
<1> QED BY <1>1, <1>2 DEF Calls

\* What sending a request does to the handlers.
LEMMA SendsDoes ==
  ASSUME Typed, NEW h \in Handlers, NEW t, NEW op, NEW key, NEW lines, NEW rev,
         Sends(t, h, op, key, lines, rev)
  PROVE  /\ handler[h].pc = "free"
         /\ \A g \in Handlers \ {h} : handler'[g] = handler[g]
         /\ handler'[h].pc = "read" /\ handler'[h].op = op /\ handler'[h].key = key
         /\ handler'[h].lines = lines /\ handler'[h].rev = rev /\ handler'[h].resp = NoAnswer
<1>1. /\ handler[h].pc = "free"
      /\ handler' = [handler EXCEPT ![h] = [NoCall EXCEPT !.pc = "read", !.op = op,
                       !.key = key, !.lines = lines, !.rev = rev]]
  BY DEF Sends
<1>2. /\ handler'[h] = [NoCall EXCEPT !.pc = "read", !.op = op, !.key = key, !.lines = lines, !.rev = rev]
      /\ \A g \in Handlers \ {h} : handler'[g] = handler[g]
  BY <1>1 DEF Typed
<1>3. handler'[h].resp = NoAnswer
  BY <1>2 DEF NoCall, NoAnswer
<1>4. handler'[h].pc = "read" /\ handler'[h].op = op /\ handler'[h].key = key
  BY <1>2 DEF NoCall
<1>5. handler'[h].lines = lines /\ handler'[h].rev = rev
  BY <1>2 DEF NoCall
<1> QED BY <1>1, <1>2, <1>3, <1>4, <1>5

LEMMA CallsMerge ==
  ASSUME Typed, Calls, NEW t \in Tabs, NEW h \in Handlers, Merge(t, h)
  PROVE  Calls'
<1>1. /\ OthersSame(t) /\ tab'[t].call = h /\ tab'[t].pc = "merging"
      /\ Sends(t, h, "merge", Intent(t).key, Intent(t).lines, 0)
  BY MergeDoes
<1>2. /\ handler[h].pc = "free" /\ \A g \in Handlers \ {h} : handler'[g] = handler[g]
      /\ handler'[h].pc = "read" /\ handler'[h].op = "merge"
  BY <1>1, SendsDoes
<1> QED BY <1>1, <1>2, CallsSent

LEMMA CallsSave ==
  ASSUME Typed, Calls, NEW t \in Tabs, NEW h \in Handlers, Save(t, h)
  PROVE  Calls'
<1>1. /\ OthersSame(t) /\ tab'[t].call = h /\ tab'[t].pc = "saving"
      /\ Sends(t, h, "save", Nothing, tab[t].lines, tab[t].rev)
      /\ SameLines(t) /\ SameRev(t)
  BY SaveDoes
<1>2. /\ handler[h].pc = "free" /\ \A g \in Handlers \ {h} : handler'[g] = handler[g]
      /\ handler'[h].pc = "read" /\ handler'[h].op = "save"
      /\ handler'[h].rev = tab[t].rev /\ handler'[h].lines = tab[t].lines
  BY <1>1, SendsDoes
<1>3. handler'[h].rev = tab'[t].rev /\ handler'[h].lines <= tab'[t].lines
  <2>1. tab[t].lines \in Nat
    BY Parts DEF TabLocals
  <2> QED BY <1>1, <1>2, <2>1 DEF SameLines, SameRev
<1> QED BY <1>1, <1>2, <1>3, CallsSent

\* A request goes on at the server.
LEMMA CallsServed ==
  ASSUME Calls, NEW h \in Handlers, tab' = tab, \A g \in Handlers \ {h} : handler'[g] = handler[g],
         \/ ~Waited(h)
         \/ /\ handler'[h].op = handler[h].op /\ handler'[h].pc # "free"
            /\ handler'[h].pc \in {"read", "write"} =>
                 /\ handler[h].pc \in {"read", "write"}
                 /\ handler'[h].rev = handler[h].rev /\ handler'[h].lines = handler[h].lines,
         \A t \in Tabs : tab[t].call # Nothing => tab[t].call \in Handlers
  PROVE  Calls'
<1> SUFFICES ASSUME NEW t \in Tabs PROVE CallOf(t)'
  BY DEF Calls
<1>1. CallOf(t)
  BY DEF Calls
<1>2. CASE tab[t].call = h
  <2>1. Waited(h)
    BY <1>2 DEF Waited
  <2> QED BY <1>1, <1>2, <2>1 DEF CallOf, Is
<1>3. CASE tab[t].call # h
  <2>1. tab[t].call # Nothing => handler'[tab[t].call] = handler[tab[t].call]
    BY <1>3
  <2> QED BY <1>1, <2>1 DEF CallOf, Is
<1> QED BY <1>2, <1>3

\* What reading the row does to a request.
LEMMA ReadsWhat ==
  ASSUME Typed, NEW h \in Handlers, ReadCart(h)
  PROVE  /\ handler[h].pc = "read"
         /\ cart' = cart /\ tab' = tab /\ disk' = disk /\ lock' = lock /\ session' = session
         /\ minted' = minted /\ put' = put
         /\ \A g \in Handlers \ {h} : handler'[g] = handler[g]
         /\ \/ /\ handler'[h].pc = "write" /\ handler'[h].seen = cart
               /\ handler'[h].resp = handler[h].resp
               /\ handler'[h].op = handler[h].op /\ handler'[h].key = handler[h].key
               /\ handler'[h].lines = handler[h].lines /\ handler'[h].rev = handler[h].rev
               /\ handler[h].op = "merge" => handler[h].key \notin cart.keys
               /\ handler[h].op = "save" => handler[h].rev = cart.rev
            \/ ~Waited(h) /\ handler'[h] = NoCall
            \/ /\ handler'[h].pc \in {"replied", "refused"} /\ handler'[h].op = handler[h].op
               /\ handler'[h].pc = "replied" => handler[h].op = "merge"
               /\ handler'[h].resp = [qty |-> cart.qty, rev |-> cart.rev]
<1>1. handler[h] \in HandlerLocals /\ handler \in [Handlers -> HandlerLocals]
  BY DEF Typed
<1> QED BY <1>1 DEF ReadCart, HandlerLocals

LEMMA CallsReadCart ==
  ASSUME Typed, Calls, NEW h \in Handlers, ReadCart(h)
  PROVE  Calls'
<1>1. \A t \in Tabs : tab[t].call # Nothing => tab[t].call \in Handlers
  BY Parts DEF TabLocals
<1> QED BY <1>1, ReadsWhat, CallsServed

\* What writing the row does to a request and to the cart.
LEMMA WriteDoes ==
  ASSUME Typed, NEW h \in Handlers, WriteCart(h)
  PROVE  /\ handler[h].pc = "write"
         /\ tab' = tab /\ disk' = disk /\ lock' = lock /\ session' = session
         /\ minted' = minted /\ put' = put
         /\ \A g \in Handlers \ {h} : handler'[g] = handler[g]
         /\ \/ /\ handler[h].seen.rev = cart.rev
               /\ cart'.qty = Written(h) /\ cart'.rev = cart.rev + 1
               /\ cart'.keys = IF handler[h].op = "merge" THEN handler[h].seen.keys \cup {handler[h].key}
                               ELSE cart.keys
               /\ \/ ~Waited(h) /\ handler'[h] = NoCall
                  \/ /\ handler'[h].pc = "replied" /\ handler'[h].op = handler[h].op
                     /\ handler'[h].resp = [qty |-> cart'.qty, rev |-> cart'.rev]
            \/ /\ handler[h].seen.rev # cart.rev
               /\ cart' = cart
               /\ \/ /\ handler[h].op = "merge"
                     /\ handler'[h] = [handler[h] EXCEPT !.pc = "read"]
                  \/ ~Waited(h) /\ handler'[h] = NoCall
                  \/ handler[h].op = "save" /\ handler'[h] = [NoCall EXCEPT !.pc = "refused"]
<1>1. handler[h] \in HandlerLocals /\ handler \in [Handlers -> HandlerLocals]
  BY DEF Typed
<1>2. handler[h].op \in {"merge", "save"} /\ handler[h].seen.rev \in Nat
  BY <1>1 DEF HandlerLocals, Rows
<1>3. /\ handler[h].pc = "write" /\ tab' = tab /\ disk' = disk /\ lock' = lock
      /\ session' = session /\ minted' = minted /\ put' = put
      /\ \A g \in Handlers \ {h} : handler'[g] = handler[g]
  BY <1>1 DEF WriteCart
<1>4. CASE SameVersion(h)
  <2>1. /\ handler[h].seen.rev = cart.rev
        /\ cart' = [qty |-> Written(h), rev |-> handler[h].seen.rev + 1,
                        keys |-> IF handler[h].op = "merge" THEN handler[h].seen.keys \cup {handler[h].key}
                                 ELSE cart.keys]
    BY <1>4 DEF SameVersion, WriteCart, Written
  <2>2. \/ ~Waited(h) /\ handler'[h] = NoCall
        \/ handler'[h] = [NoCall EXCEPT !.pc = "replied", !.op = handler[h].op,
                         !.resp = [qty |-> Written(h), rev |-> handler[h].seen.rev + 1]]
    BY <1>1, <1>4 DEF WriteCart, Written
  <2>3. /\ cart'.qty = Written(h) /\ cart'.rev = cart.rev + 1
        /\ cart'.keys = IF handler[h].op = "merge" THEN handler[h].seen.keys \cup {handler[h].key}
                               ELSE cart.keys
    BY <2>1
  <2>4. \/ ~Waited(h) /\ handler'[h] = NoCall
        \/ /\ handler'[h].pc = "replied" /\ handler'[h].op = handler[h].op
           /\ handler'[h].resp = [qty |-> cart'.qty, rev |-> cart'.rev]
    BY <2>1, <2>2, <2>3 DEF NoCall
  <2> QED BY <1>3, <2>1, <2>3, <2>4
<1>5. CASE ~SameVersion(h)
  <2>1. handler[h].seen.rev # cart.rev /\ cart' = cart
    BY <1>5 DEF SameVersion, WriteCart
  <2>2. \/ /\ handler[h].op = "merge"
           /\ handler'[h] = [handler[h] EXCEPT !.pc = "read"]
        \/ ~Waited(h) /\ handler'[h] = NoCall
        \/ handler[h].op = "save" /\ handler'[h] = [NoCall EXCEPT !.pc = "refused"]
    BY <1>1, <1>2, <1>5 DEF WriteCart
  <2> QED BY <1>3, <2>1, <2>2
<1> QED BY <1>4, <1>5

LEMMA CallsWriteCart ==
  ASSUME Typed, Calls, NEW h \in Handlers, WriteCart(h)
  PROVE  Calls'
<1>1. \A t \in Tabs : tab[t].call # Nothing => tab[t].call \in Handlers
  BY Parts DEF TabLocals
<1>2. /\ tab' = tab /\ handler[h].pc = "write"
      /\ \A g \in Handlers \ {h} : handler'[g] = handler[g]
  BY WriteDoes
<1>3. \/ ~Waited(h)
      \/ /\ handler'[h].op = handler[h].op /\ handler'[h].pc # "free"
         /\ handler'[h].pc \in {"read", "write"} =>
              handler'[h].rev = handler[h].rev /\ handler'[h].lines = handler[h].lines
  <2>1. handler[h] \in HandlerLocals
    BY Parts
  <2> QED BY <2>1, WriteDoes DEF HandlerLocals, NoCall
<1> QED BY <1>1, <1>2, <1>3, CallsServed

LEMMA CallsInit == CartInit => Calls
<1> SUFFICES ASSUME CartInit, NEW t \in Tabs PROVE CallOf(t)
  BY DEF Calls
<1>1. tab[t].pc = "closed" /\ tab[t].call = Nothing
  BY DEF CartInit, Closed, Fresh
<1> QED BY <1>1 DEF CallOf, Is

-----------------------------------------------------------------------------
(* Which revision the copies of the cart are of. *)

\* A copy of the cart that has the row's revision has its quantity.
Same(q, r) == r <= cart.rev /\ (r = cart.rev => q = cart.qty)

RowSeen(h) ==
  handler[h].pc = "write" =>
    /\ Same(handler[h].seen.qty, handler[h].seen.rev)
    /\ handler[h].seen.rev = cart.rev => handler[h].seen.keys = cart.keys
    /\ handler[h].op = "save" => handler[h].rev = handler[h].seen.rev

Versions ==
  /\ Same(0, 0)
  /\ \A t \in Tabs : /\ Same(tab[t].ack, tab[t].rev)
                     /\ Same(tab[t].resp.qty, tab[t].resp.rev)
  /\ \A h \in Handlers : Same(handler[h].resp.qty, handler[h].resp.rev) /\ RowSeen(h)

\* The request goes on no further with this step.
Rests(h) ==
  \/ handler'[h] = handler[h]
  \/ handler'[h].pc \in {"free", "read"} /\ handler'[h].resp = NoAnswer

LEMMA NoCallRests ==
  /\ NoCall.pc = "free" /\ NoCall.resp = NoAnswer
  /\ NoAnswer.qty = 0 /\ NoAnswer.rev = 0
  BY DEF NoCall, NoAnswer

\* The steps of a tab take no request further.
LEMMA TabsLeaveRequests ==
  ASSUME Typed, NEW t \in Tabs,
         \/ TabStep(t) \/ OpenTab(t) \/ CloseTab(t) \/ Add(t) \/ RequestFails(t)
  PROVE  \A h \in Handlers : Rests(h)
<1>1. CASE handler' = handler
  BY <1>1 DEF Rests
<1>2. CASE handler' = Dropped(t)
  BY <1>2, DroppedType, NoCallRests DEF Rests
<1>3. CASE handler' = [handler EXCEPT ![tab[t].call] = NoCall]
  BY <1>3, NoCallRests DEF Rests, Typed
<1>4. CASE \E h \in Handlers : Merge(t, h) \/ Save(t, h)
  <2>1. PICK h \in Handlers : Merge(t, h) \/ Save(t, h)
    BY <1>4
  <2>2. /\ handler'[h].pc = "read" /\ handler'[h].resp = NoAnswer
        /\ \A g \in Handlers \ {h} : handler'[g] = handler[g]
    <3>1. CASE Merge(t, h)
      <4>1. Sends(t, h, "merge", Intent(t).key, Intent(t).lines, 0)
        BY <3>1, MergeDoes
      <4> QED BY <4>1, SendsDoes
    <3>2. CASE Save(t, h)
      <4>1. Sends(t, h, "save", Nothing, tab[t].lines, tab[t].rev)
        BY <3>2, SaveDoes
      <4> QED BY <4>1, SendsDoes
    <3> QED BY <2>1, <3>1, <3>2
  <2> QED BY <2>2 DEF Rests
<1>5. \/ handler' = handler \/ handler' = Dropped(t)
      \/ handler' = [handler EXCEPT ![tab[t].call] = NoCall]
      \/ \E h \in Handlers : Merge(t, h) \/ Save(t, h)
  BY
  DEF TabStep, Start, UserGone, ClearLines, ClearIntent, ClearMeta, Locked, Fetch,
      NoMerge,
         Merged, Remember, Replace, Forget, Edits, SaveStart, Saved, SaveRefused, OpenTab,
         CloseTab, Add, RequestFails
<1> QED BY <1>1, <1>2, <1>3, <1>4, <1>5

\* A tab changes what it knows of the cart.
LEMMA VersionsTab ==
  ASSUME Versions, NEW t \in Tabs, OthersSame(t), cart' = cart, \A h \in Handlers : Rests(h),
         Same(tab'[t].ack, tab'[t].rev), Same(tab'[t].resp.qty, tab'[t].resp.rev)
  PROVE  Versions'
<1>1. \A q, r : Same(q, r)' <=> Same(q, r)
  BY DEF Same
<1>2. ASSUME NEW h \in Handlers
      PROVE  Same(handler[h].resp.qty, handler[h].resp.rev)' /\ RowSeen(h)'
  <2>1. CASE handler'[h] = handler[h]
    BY <1>1, <2>1 DEF Versions, RowSeen, Same
  <2>2. CASE handler'[h].pc \in {"free", "read"} /\ handler'[h].resp = NoAnswer
    BY <2>2, NoCallRests DEF Versions, RowSeen, Same
  <2> QED BY <2>1, <2>2 DEF Rests
<1>3. ASSUME NEW u \in Tabs
      PROVE  /\ Same(tab[u].ack, tab[u].rev)'
             /\ Same(tab[u].resp.qty, tab[u].resp.rev)'
  <2>1. CASE u = t
    BY <2>1 DEF Same
  <2>2. CASE u # t
    <3>1. tab'[u] = tab[u]
      BY <2>2 DEF OthersSame
    <3> QED BY <3>1 DEF Versions, Same
  <2> QED BY <2>1, <2>2
<1> QED BY <1>2, <1>3 DEF Versions, Same

LEMMA VersionsTabStep ==
  ASSUME Typed, Calls, Versions, NEW t \in Tabs,
         \/ TabStep(t) \/ OpenTab(t) \/ CloseTab(t) \/ Add(t) \/ RequestFails(t)
  PROVE  Versions'
<1>1. \A h \in Handlers : Rests(h)
  BY TabsLeaveRequests
<1>2. /\ Same(tab[t].ack, tab[t].rev) /\ Same(tab[t].resp.qty, tab[t].resp.rev)
      /\ Same(NoAnswer.qty, NoAnswer.rev) /\ Same(0, 0)
  BY NoCallRests DEF Versions
<1>3. \A h \in Handlers : Same(handler[h].resp.qty, handler[h].resp.rev)
  BY DEF Versions
<1>4. Same([qty |-> cart.qty, rev |-> cart.rev].qty, [qty |-> cart.qty, rev |-> cart.rev].rev)
  BY Parts DEF Same
<1>5. CASE Start(t)
  <2>1. OthersSame(t) /\ cart' = cart
        /\ Same(tab'[t].ack, tab'[t].rev) /\ Same(tab'[t].resp.qty, tab'[t].resp.rev)
    BY <1>2, <1>5, StartDoes DEF SameRev, SameAnswer, AtRest
  <2> QED BY <1>1, <2>1, VersionsTab
<1>6. CASE UserGone(t)
  <2>1. OthersSame(t) /\ cart' = cart
        /\ Same(tab'[t].ack, tab'[t].rev) /\ Same(tab'[t].resp.qty, tab'[t].resp.rev)
    BY <1>2, <1>6, UserGoneDoes DEF SameRev, SameAnswer, AtRest
  <2> QED BY <1>1, <2>1, VersionsTab
<1>7. CASE ClearLines(t)
  <2>1. OthersSame(t) /\ cart' = cart
        /\ Same(tab'[t].ack, tab'[t].rev) /\ Same(tab'[t].resp.qty, tab'[t].resp.rev)
    BY <1>2, <1>7, ClearLinesDoes DEF SameRev, SameAnswer, AtRest
  <2> QED BY <1>1, <2>1, VersionsTab
<1>8. CASE ClearIntent(t)
  <2>1. OthersSame(t) /\ cart' = cart
        /\ Same(tab'[t].ack, tab'[t].rev) /\ Same(tab'[t].resp.qty, tab'[t].resp.rev)
    BY <1>2, <1>8, ClearIntentDoes DEF SameRev, SameAnswer, AtRest
  <2> QED BY <1>1, <2>1, VersionsTab
<1>9. CASE ClearMeta(t)
  <2>1. OthersSame(t) /\ cart' = cart
        /\ Same(tab'[t].ack, tab'[t].rev) /\ Same(tab'[t].resp.qty, tab'[t].resp.rev)
    BY <1>2, <1>9, ClearMetaDoes DEF SameRev, SameAnswer, AtRest
  <2> QED BY <1>1, <2>1, VersionsTab
<1>10. CASE Locked(t)
  <2>1. OthersSame(t) /\ cart' = cart
        /\ Same(tab'[t].ack, tab'[t].rev) /\ Same(tab'[t].resp.qty, tab'[t].resp.rev)
    BY <1>2, <1>10, LockedDoes DEF SameRev, SameAnswer, AtRest
  <2> QED BY <1>1, <2>1, VersionsTab
<1>11. CASE Fetch(t)
  <2>1. OthersSame(t) /\ cart' = cart
        /\ Same(tab'[t].ack, tab'[t].rev) /\ Same(tab'[t].resp.qty, tab'[t].resp.rev)
    BY <1>2, <1>4, <1>11, FetchDoes DEF SameRev, SameAnswer, AtRest
  <2> QED BY <1>1, <2>1, VersionsTab
<1>12. CASE NoMerge(t)
  <2>1. OthersSame(t) /\ cart' = cart
        /\ Same(tab'[t].ack, tab'[t].rev) /\ Same(tab'[t].resp.qty, tab'[t].resp.rev)
    BY <1>2, <1>12, NoMergeDoes DEF SameRev, SameAnswer, AtRest
  <2> QED BY <1>1, <2>1, VersionsTab
<1>13. CASE Merged(t)
  <2>1. tab[t].call \in Handlers
    BY <1>13, Parts, MergedDoes DEF Calls, CallOf, TabLocals
  <2>2. OthersSame(t) /\ cart' = cart
        /\ Same(tab'[t].ack, tab'[t].rev) /\ Same(tab'[t].resp.qty, tab'[t].resp.rev)
    BY <1>2, <1>3, <1>13, <2>1, MergedDoes DEF SameRev, SameAnswer, AtRest
  <2> QED BY <1>1, <2>2, VersionsTab
<1>14. CASE Remember(t)
  <2>1. OthersSame(t) /\ cart' = cart
        /\ Same(tab'[t].ack, tab'[t].rev) /\ Same(tab'[t].resp.qty, tab'[t].resp.rev)
    BY <1>2, <1>14, RememberDoes DEF SameRev, SameAnswer, AtRest
  <2> QED BY <1>1, <2>1, VersionsTab
<1>15. CASE Replace(t)
  <2>1. OthersSame(t) /\ cart' = cart
        /\ Same(tab'[t].ack, tab'[t].rev) /\ Same(tab'[t].resp.qty, tab'[t].resp.rev)
    BY <1>2, <1>15, ReplaceDoes DEF SameRev, SameAnswer, AtRest
  <2> QED BY <1>1, <2>1, VersionsTab
<1>16. CASE Forget(t)
  <2>1. OthersSame(t) /\ cart' = cart
        /\ Same(tab'[t].ack, tab'[t].rev) /\ Same(tab'[t].resp.qty, tab'[t].resp.rev)
    BY <1>2, <1>16, ForgetDoes DEF SameRev, SameAnswer, AtRest
  <2> QED BY <1>1, <2>1, VersionsTab
<1>17. CASE Edits(t)
  <2>1. OthersSame(t) /\ cart' = cart
        /\ Same(tab'[t].ack, tab'[t].rev) /\ Same(tab'[t].resp.qty, tab'[t].resp.rev)
    BY <1>2, <1>17, EditsDoes DEF SameRev, SameAnswer, AtRest
  <2> QED BY <1>1, <2>1, VersionsTab
<1>18. CASE SaveStart(t)
  <2>1. OthersSame(t) /\ cart' = cart
        /\ Same(tab'[t].ack, tab'[t].rev) /\ Same(tab'[t].resp.qty, tab'[t].resp.rev)
    BY <1>2, <1>18, SaveStartDoes DEF SameRev, SameAnswer, AtRest
  <2> QED BY <1>1, <2>1, VersionsTab
<1>19. CASE Saved(t)
  <2>1. tab[t].call \in Handlers
    BY <1>19, Parts, SavedDoes DEF Calls, CallOf, TabLocals
  <2>2. OthersSame(t) /\ cart' = cart
        /\ Same(tab'[t].ack, tab'[t].rev) /\ Same(tab'[t].resp.qty, tab'[t].resp.rev)
    BY <1>2, <1>3, <1>19, <2>1, SavedDoes DEF SameRev, SameAnswer, AtRest
  <2> QED BY <1>1, <2>2, VersionsTab
<1>20. CASE SaveRefused(t)
  <2>1. OthersSame(t) /\ cart' = cart
        /\ Same(tab'[t].ack, tab'[t].rev) /\ Same(tab'[t].resp.qty, tab'[t].resp.rev)
    BY <1>2, <1>20, SaveRefusedDoes DEF SameRev, SameAnswer, AtRest
  <2> QED BY <1>1, <2>1, VersionsTab
<1>21. CASE OpenTab(t)
  <2>1. OthersSame(t) /\ cart' = cart
        /\ Same(tab'[t].ack, tab'[t].rev) /\ Same(tab'[t].resp.qty, tab'[t].resp.rev)
    BY <1>2, <1>21, OpenTabDoes DEF SameRev, SameAnswer, AtRest
  <2> QED BY <1>1, <2>1, VersionsTab
<1>22. CASE CloseTab(t)
  <2>1. OthersSame(t) /\ cart' = cart
        /\ Same(tab'[t].ack, tab'[t].rev) /\ Same(tab'[t].resp.qty, tab'[t].resp.rev)
    BY <1>2, <1>22, CloseTabDoes DEF SameRev, SameAnswer, AtRest
  <2> QED BY <1>1, <2>1, VersionsTab
<1>23. CASE Add(t)
  <2>1. OthersSame(t) /\ cart' = cart
        /\ Same(tab'[t].ack, tab'[t].rev) /\ Same(tab'[t].resp.qty, tab'[t].resp.rev)
    BY <1>2, <1>23, AddDoes DEF SameRev, SameAnswer, AtRest
  <2> QED BY <1>1, <2>1, VersionsTab
<1>24. CASE RequestFails(t)
  <2>1. OthersSame(t) /\ cart' = cart
        /\ Same(tab'[t].ack, tab'[t].rev) /\ Same(tab'[t].resp.qty, tab'[t].resp.rev)
    BY <1>2, <1>24, RequestFailsDoes DEF SameRev, SameAnswer, AtRest
  <2> QED BY <1>1, <2>1, VersionsTab
<1>25. CASE \E h \in Handlers : Merge(t, h)
  <2>1. PICK h \in Handlers : Merge(t, h)
    BY <1>25
  <2>2. OthersSame(t) /\ cart' = cart
        /\ Same(tab'[t].ack, tab'[t].rev) /\ Same(tab'[t].resp.qty, tab'[t].resp.rev)
    BY <1>2, <2>1, MergeDoes DEF SameRev, SameAnswer, AtRest
  <2> QED BY <1>1, <2>2, VersionsTab
<1>26. CASE \E h \in Handlers : Save(t, h)
  <2>1. PICK h \in Handlers : Save(t, h)
    BY <1>26
  <2>2. OthersSame(t) /\ cart' = cart
        /\ Same(tab'[t].ack, tab'[t].rev) /\ Same(tab'[t].resp.qty, tab'[t].resp.rev)
    BY <1>2, <2>1, SaveDoes DEF SameRev, SameAnswer, AtRest
  <2> QED BY <1>1, <2>2, VersionsTab
<1> QED BY <1>5, <1>6, <1>7, <1>8, <1>9, <1>10, <1>11, <1>12, <1>13, <1>14, <1>15,
           <1>16, <1>17, <1>18, <1>19, <1>20, <1>21, <1>22, <1>23, <1>24, <1>25, <1>26
        DEF TabStep

LEMMA VersionsReadCart ==
  ASSUME Typed, Versions, NEW h \in Handlers, ReadCart(h)
  PROVE  Versions'
<1>1. cart' = cart /\ tab' = tab /\ \A g \in Handlers \ {h} : handler'[g] = handler[g]
  BY ReadsWhat
<1>2. Same(handler[h].resp.qty, handler[h].resp.rev)' /\ RowSeen(h)'
  <2>1. /\ Same(handler[h].resp.qty, handler[h].resp.rev)
        /\ Same(NoAnswer.qty, NoAnswer.rev) /\ Same(cart.qty, cart.rev)
    BY Parts, NoCallRests DEF Versions, Same
  <2>2. CASE /\ handler'[h].pc = "write" /\ handler'[h].seen = cart
             /\ handler'[h].resp = handler[h].resp
             /\ handler'[h].op = handler[h].op /\ handler'[h].rev = handler[h].rev
             /\ handler[h].op = "save" => handler[h].rev = cart.rev
    BY <1>1, <2>1, <2>2 DEF RowSeen, Same
  <2>3. CASE handler'[h] = NoCall
    BY <1>1, <2>1, <2>3, NoCallRests DEF RowSeen, Same
  <2>4. CASE /\ handler'[h].pc \in {"replied", "refused"}
             /\ handler'[h].resp = [qty |-> cart.qty, rev |-> cart.rev]
    BY <1>1, <2>1, <2>4 DEF RowSeen, Same
  <2> QED BY <2>2, <2>3, <2>4, ReadsWhat
<1>3. \A g \in Handlers \ {h} : Same(handler[g].resp.qty, handler[g].resp.rev)' /\ RowSeen(g)'
  BY <1>1 DEF Versions, RowSeen, Same
<1> QED BY <1>1, <1>2, <1>3 DEF Versions, Same

\* Every copy of the cart is of an older revision once the row is written.
LEMMA VersionsWriteCart ==
  ASSUME Typed, Versions, NEW h \in Handlers, WriteCart(h)
  PROVE  Versions'
<1>1. tab' = tab /\ \A g \in Handlers \ {h} : handler'[g] = handler[g]
  BY WriteDoes
<1>2. CASE /\ cart'.rev = cart.rev + 1
           /\ \/ handler'[h] = NoCall
              \/ /\ handler'[h].pc = "replied"
                 /\ handler'[h].resp = [qty |-> cart'.qty, rev |-> cart'.rev]
  <2>1. ASSUME NEW q, NEW r \in Nat, Same(q, r)
        PROVE  Same(q, r)' /\ r # cart'.rev
    BY <1>2, <2>1, Parts DEF Same
  <2>2. \A t \in Tabs : tab[t].rev \in Nat /\ tab[t].resp.rev \in Nat
    BY Parts DEF TabLocals, CartAnswer
  <2>3. \A g \in Handlers : handler[g].resp.rev \in Nat /\ handler[g].seen.rev \in Nat
    BY Parts DEF HandlerLocals, CartAnswer, Rows
  <2>4. \A t \in Tabs : Same(tab[t].ack, tab[t].rev)' /\ Same(tab[t].resp.qty, tab[t].resp.rev)'
    <3>1. \A t \in Tabs : Same(tab[t].ack, tab[t].rev) /\ Same(tab[t].resp.qty, tab[t].resp.rev)
      BY DEF Versions
    <3> QED BY <1>1, <2>1, <2>2, <3>1
  <2>5. ASSUME NEW g \in Handlers \ {h}
        PROVE  Same(handler[g].resp.qty, handler[g].resp.rev)' /\ RowSeen(g)'
    <3>1. Same(handler[g].resp.qty, handler[g].resp.rev) /\ RowSeen(g) /\ handler'[g] = handler[g]
      BY <1>1 DEF Versions
    <3>2. Same(handler[g].resp.qty, handler[g].resp.rev)'
      BY <2>1, <2>3, <3>1
    <3>3. handler[g].pc = "write" =>
            Same(handler[g].seen.qty, handler[g].seen.rev)' /\ handler[g].seen.rev # cart'.rev
      BY <2>1, <2>3, <3>1 DEF RowSeen
    <3> QED BY <3>1, <3>2, <3>3 DEF RowSeen
  <2>6. Same(0, 0)'
    BY <2>1 DEF Versions
  <2>7. cart'.rev \in Nat
    BY <1>2, Parts
  <2>8. Same(handler[h].resp.qty, handler[h].resp.rev)' /\ RowSeen(h)'
    BY <1>2, <2>6, <2>7, NoCallRests DEF RowSeen, Same
  <2> QED BY <2>4, <2>5, <2>6, <2>8 DEF Versions
<1>3. CASE /\ cart' = cart
           /\ \/ handler'[h] = [handler[h] EXCEPT !.pc = "read"]
              \/ handler'[h] = NoCall
              \/ handler'[h] = [NoCall EXCEPT !.pc = "refused"]
  <2>1. handler'[h].pc # "write" /\ handler'[h].resp \in {handler[h].resp, NoAnswer}
    <3>1. handler[h] \in HandlerLocals
      BY Parts
    <3> QED BY <1>3, <3>1 DEF HandlerLocals, NoCall, NoAnswer
  <2>2. Same(handler[h].resp.qty, handler[h].resp.rev)' /\ RowSeen(h)'
    BY <1>3, <2>1, NoCallRests DEF Versions, RowSeen, Same
  <2>3. \A g \in Handlers \ {h} : Same(handler[g].resp.qty, handler[g].resp.rev)' /\ RowSeen(g)'
    BY <1>1, <1>3 DEF Versions, RowSeen, Same
  <2> QED BY <1>1, <1>3, <2>2, <2>3 DEF Versions, Same
<1> QED BY <1>2, <1>3, WriteDoes

LEMMA VersionsKept ==
  ASSUME Versions, UNCHANGED <<cart, tab, handler>>
  PROVE  Versions'
  BY DEF Versions, RowSeen, Same

LEMMA VersionsInit == CartInit => Versions
<1> SUFFICES ASSUME CartInit PROVE Versions
  OBVIOUS
<1>1. cart.qty = 0 /\ cart.rev = 0
  BY DEF CartInit
<1>2. \A t \in Tabs : tab[t].ack = 0 /\ tab[t].rev = 0 /\ tab[t].resp.qty = 0 /\ tab[t].resp.rev = 0
  BY DEF CartInit, Closed, Fresh
<1>3. \A h \in Handlers : handler[h] = NoCall
  BY DEF CartInit
<1> QED BY <1>1, <1>2, <1>3, NoCallRests DEF Versions, Same, RowSeen

\* A save that replaces the cart is of the revision that its tab has.
LEMMA SavesReplaceTheirOwn ==
  ASSUME Typed, Calls, Versions, NEW t \in Tabs, tab[t].call # Nothing,
         handler[tab[t].call].op = "save", handler[tab[t].call].pc = "write",
         handler'[tab[t].call].pc = "replied", CartNext
  PROVE  tab[t].ack = cart.qty
<1> DEFINE h == tab[t].call
<1>0. h \in Handlers
  BY Parts DEF TabLocals
<1>1. CASE \E u \in Tabs : TabStep(u) \/ OpenTab(u) \/ CloseTab(u) \/ Add(u) \/ RequestFails(u)
  BY <1>0, <1>1, TabsLeaveRequests DEF Rests
<1>2. CASE \E g \in Handlers : ServerStep(g)
  <2>1. PICK g \in Handlers : ServerStep(g)
    BY <1>2
  <2>2. ~ReadCart(g)
    BY <1>0, ReadsWhat
  <2>3. WriteCart(g)
    BY <2>1, <2>2 DEF ServerStep
  <2>4. g = h
    BY <1>0, <2>3, WriteDoes
  <2>5. handler[h].seen.rev = cart.rev
    <3>1. CASE handler'[h] = [handler[h] EXCEPT !.pc = "read"]
      <4>1. handler[h] \in HandlerLocals
        BY <1>0, Parts
      <4> QED BY <3>1, <4>1 DEF HandlerLocals
    <3>2. NoCall.pc # "replied" /\ [NoCall EXCEPT !.pc = "refused"].pc # "replied"
      BY DEF NoCall
    <3> QED BY <2>3, <2>4, <3>1, <3>2, WriteDoes
  <2>6. handler[h].rev = handler[h].seen.rev
    BY <1>0 DEF Versions, RowSeen
  <2>7. handler[h].rev = tab[t].rev
    BY DEF Calls, CallOf, Is
  <2> QED BY <2>5, <2>6, <2>7 DEF Versions, Same
<1>3. CASE SignIn \/ SignOut
  BY <1>3 DEF SignIn, SignOut
<1> QED BY <1>1, <1>2, <1>3 DEF CartNext

-----------------------------------------------------------------------------
(* What the account's cart may still come to. *)

\* The quantity a tab may still have the cart replaced with.
OwnCould(t, x) ==
  \/ /\ tab[t].synced /\ tab[t].pc \notin Applying
     /\ \/ tab[t].rev = cart.rev
        \/ /\ tab[t].pc = "saving" /\ handler[tab[t].call].pc = "replied"
           /\ handler[tab[t].call].resp.rev = cart.rev
     /\ x = tab[t].lines
  \/ /\ tab[t].pc \in Applying /\ tab[t].rev = cart.rev
     /\ x = tab[t].resp.qty \/ x = tab[t].resp.qty + tab[t].more

\* The quantity a save under way may still replace the cart with.
CallCould(h, x) ==
  /\ handler[h].op = "save" /\ handler[h].pc \in {"read", "write"}
  /\ handler[h].rev = cart.rev
  /\ x = handler[h].lines

CouldBe(x) ==
  \/ x = cart.qty
  \/ \E h \in Handlers : CallCould(h, x)
  \/ \E t \in Tabs : OwnCould(t, x)

\* What a tab has that neither the cart nor a merge key stands for.
OwnMore(t, g) ==
  IF disk.meta.there
    THEN ~tab[t].synced /\ tab[t].pc \in Comparing /\ g = tab[t].lines - tab[t].before
    ELSE tab[t].pc # "closed" /\ g = tab[t].lines - disk.intent.lines

DiskMore(g) == ~disk.meta.there /\ g = disk.lines - disk.intent.lines

More(g) == g = 0 \/ DiskMore(g) \/ \E t \in Tabs : OwnMore(t, g)

\* What the merge keys that the server has not seen stand for, by f.
Owed(f) == SumFunctionOnSet(f, (1..minted) \ cart.keys)

Balance(f) ==
  \A x, g \in Int : CouldBe(x) /\ More(g) => x + g + Owed(f) <= put

LEMMA OwedType ==
  ASSUME NEW f \in [Keys -> Nat], minted \in Nat
  PROVE  Owed(f) \in Nat /\ IsFiniteSet((1..minted) \ cart.keys)
<1>1. IsFiniteSet((1..minted) \ cart.keys)
  <2>1. IsFiniteSet(1..minted)
    BY FS_Interval
  <2> QED BY <2>1, FS_Difference
<1>2. \A k \in (1..minted) \ cart.keys : f[k] \in Nat
  BY DEF Keys
<1> QED BY <1>1, <1>2, SumNat DEF Owed

\* What a step of a tab may do to a request.
NewCall(t, h) ==
  \/ handler'[h] = handler[h]
  \/ handler'[h].pc = "free"
  \/ handler'[h].pc = "read" /\ handler'[h].op = "merge"
  \/ /\ handler'[h].pc = "read" /\ handler'[h].op = "save"
     /\ handler'[h].rev = tab[t].rev /\ handler'[h].lines = tab[t].lines
     /\ tab[t].pc = "save"

LEMMA TabsCall ==
  ASSUME Typed, NEW t \in Tabs,
         \/ TabStep(t) \/ OpenTab(t) \/ CloseTab(t) \/ Add(t) \/ RequestFails(t)
  PROVE  \A h \in Handlers : NewCall(t, h)
<1>1. CASE handler' = handler
  BY <1>1 DEF NewCall
<1>2. CASE handler' = Dropped(t)
  BY <1>2, DroppedType, NoCallRests DEF NewCall
<1>3. CASE handler' = [handler EXCEPT ![tab[t].call] = NoCall]
  BY <1>3, NoCallRests DEF NewCall
<1>4. ASSUME NEW h \in Handlers, Merge(t, h)
      PROVE  \A g \in Handlers : NewCall(t, g)
  <2>1. Sends(t, h, "merge", Intent(t).key, Intent(t).lines, 0)
    BY <1>4, MergeDoes
  <2> QED BY <2>1, SendsDoes DEF NewCall
<1>5. ASSUME NEW h \in Handlers, Save(t, h)
      PROVE  \A g \in Handlers : NewCall(t, g)
  <2>1. Sends(t, h, "save", Nothing, tab[t].lines, tab[t].rev) /\ tab[t].pc = "save"
    BY <1>5, SaveDoes
  <2> QED BY <2>1, SendsDoes DEF NewCall
<1>6. \/ handler' = handler \/ handler' = Dropped(t)
      \/ handler' = [handler EXCEPT ![tab[t].call] = NoCall]
      \/ \E h \in Handlers : Merge(t, h) \/ Save(t, h)
  BY
  DEF TabStep, Start, UserGone, ClearLines, ClearIntent, ClearMeta, Locked, Fetch,
      NoMerge,
         Merged, Remember, Replace, Forget, Edits, SaveStart, Saved, SaveRefused, OpenTab,
         CloseTab, Add, RequestFails
<1> QED BY <1>1, <1>2, <1>3, <1>4, <1>5, <1>6

\* Of what the cart may come to, a step of a tab changes the tab's own part.
LEMMA CouldTab ==
  ASSUME NEW t \in Tabs, StateOf(t), OthersSame(t), cart' = cart,
         \A h \in Handlers : NewCall(t, h), \A u \in Tabs : tab[u].call \in Handlers \cup {Nothing},
         Calls, NEW x, CouldBe(x)'
  PROVE  CouldBe(x) \/ OwnCould(t, x)'
<1>1. CASE x = cart'.qty
  BY <1>1 DEF CouldBe
<1>2. ASSUME NEW h \in Handlers, CallCould(h, x)'
      PROVE  CouldBe(x)
  <2>1. CASE handler'[h] = handler[h]
    BY <1>2, <2>1 DEF CallCould, CouldBe
  <2>2. CASE /\ handler'[h].rev = tab[t].rev /\ handler'[h].lines = tab[t].lines
             /\ tab[t].pc = "save"
    <3>1. tab[t].rev = cart.rev /\ x = tab[t].lines
      BY <1>2, <2>2 DEF CallCould
    <3>2. tab[t].synced /\ tab[t].pc \notin Applying
      BY <2>2 DEF StateOf, Applying
    <3> QED BY <3>1, <3>2 DEF CouldBe, OwnCould
  <2> QED BY <1>2, <2>1, <2>2 DEF NewCall, CallCould
<1>3. ASSUME NEW u \in Tabs \ {t}, OwnCould(u, x)'
      PROVE  OwnCould(u, x)
  <2>1. tab'[u] = tab[u]
    BY DEF OthersSame
  <2>2. CASE tab[u].pc = "saving" /\ handler'[tab[u].call].pc = "replied"
    <3>1. tab[u].call \in Handlers
      BY <2>2 DEF Calls, CallOf
    <3>2. handler'[tab[u].call] = handler[tab[u].call]
      BY <2>2, <3>1 DEF NewCall
    <3> QED BY <1>3, <2>1, <3>2 DEF OwnCould
  <2>3. CASE ~(tab[u].pc = "saving" /\ handler'[tab[u].call].pc = "replied")
    BY <1>3, <2>1, <2>3 DEF OwnCould
  <2> QED BY <2>2, <2>3
<1> QED BY <1>1, <1>2, <1>3 DEF CouldBe

\* Likewise of what is not yet in the cart.
LEMMA MoreTab ==
  ASSUME NEW t \in Tabs, OthersSame(t), disk'.meta.there = disk.meta.there,
         disk.meta.there \/ (disk'.lines = disk.lines /\ disk'.intent = disk.intent),
         NEW g, More(g)'
  PROVE  More(g) \/ OwnMore(t, g)'
<1>1. CASE DiskMore(g)'
  BY <1>1 DEF DiskMore, More
<1>2. ASSUME NEW u \in Tabs \ {t}, OwnMore(u, g)'
      PROVE  OwnMore(u, g)
  <2>1. tab'[u] = tab[u]
    BY DEF OthersSame
  <2> QED BY <1>2, <2>1 DEF OwnMore
<1> QED BY <1>1, <1>2 DEF More

\* The balance stands when nothing that counts grows.
LEMMA NoMoreThan ==
  ASSUME NEW f \in [Keys -> Nat], Typed, Balance(f),
         cart' = cart, minted' = minted, put' = put,
         \A x \in Int : CouldBe(x)' => \E y \in Int : CouldBe(y) /\ x <= y,
         \A g \in Int : More(g)' => \E k \in Int : More(k) /\ g <= k
  PROVE  Balance(f)'
<1> SUFFICES ASSUME NEW x \in Int, NEW g \in Int, CouldBe(x)', More(g)'
             PROVE  x + g + Owed(f)' <= put'
  BY DEF Balance
<1>1. Owed(f)' = Owed(f) /\ Owed(f) \in Int /\ put \in Int
  <2>1. Owed(f)' = Owed(f)
    BY DEF Owed
  <2>2. minted \in Nat /\ put \in Nat
    BY DEF Typed
  <2>3. Owed(f) \in Nat
    BY <2>2, OwedType
  <2> QED BY <2>1, <2>2, <2>3
<1>2. PICK y \in Int : CouldBe(y) /\ x <= y
  OBVIOUS
<1>3. PICK k \in Int : More(k) /\ g <= k
  OBVIOUS
<1>4. y + k + Owed(f) <= put
  BY <1>2, <1>3 DEF Balance
<1> QED BY <1>1, <1>2, <1>3, <1>4

LEMMA QuietTab ==
  ASSUME NEW f \in [Keys -> Nat], Typed, Tidy, Calls, Balance(f), NEW t \in Tabs, OthersSame(t),
         cart' = cart, minted' = minted, put' = put, \A h \in Handlers : NewCall(t, h),
         disk'.meta.there = disk.meta.there,
         disk.meta.there \/ (disk'.lines = disk.lines /\ disk'.intent = disk.intent),
         \A x \in Int : OwnCould(t, x)' => OwnCould(t, x) \/ x <= cart.qty,
         \A g \in Int : OwnMore(t, g)' => OwnMore(t, g) \/ g <= 0 \/ DiskMore(g)
  PROVE  Balance(f)'
<1>1. cart.qty \in Int /\ CouldBe(cart.qty) /\ More(0)
  BY Parts DEF CouldBe, More
<1>2. ASSUME NEW x \in Int, CouldBe(x)'
      PROVE  \E y \in Int : CouldBe(y) /\ x <= y
  <2>1. CouldBe(x) \/ OwnCould(t, x)'
    <3>1. StateOf(t) /\ \A u \in Tabs : tab[u].call \in Handlers \cup {Nothing}
      BY Parts DEF Tidy, TabLocals
    <3> QED BY <1>2, <3>1, CouldTab
  <2>2. CouldBe(x) \/ x <= cart.qty
    BY <2>1 DEF CouldBe
  <2>3. x <= x
    OBVIOUS
  <2> QED BY <1>1, <2>2, <2>3
<1>3. ASSUME NEW g \in Int, More(g)'
      PROVE  \E k \in Int : More(k) /\ g <= k
  <2>1. More(g) \/ OwnMore(t, g)'
    BY <1>3, MoreTab
  <2>2. More(g) \/ g <= 0
    BY <2>1 DEF More
  <2>3. g <= g
    OBVIOUS
  <2> QED BY <1>1, <2>2, <2>3
<1> QED BY <1>2, <1>3, NoMoreThan

\* The steps that leave the tab's own part no greater than it was.
Quiet(t) ==
  \/ Start(t) \/ UserGone(t) \/ Locked(t) \/ Fetch(t) \/ NoMerge(t) \/ Merged(t)
  \/ Replace(t) \/ Forget(t) \/ Edits(t) \/ SaveStart(t)
  \/ (\E h \in Handlers : Save(t, h)) \/ Saved(t) \/ SaveRefused(t) \/ OpenTab(t)
  \/ CloseTab(t) \/ RequestFails(t)

LEMMA OwnCouldQuiet ==
  ASSUME Typed, Tidy, Calls, Versions, NEW t \in Tabs, Quiet(t), NEW x \in Int, OwnCould(t, x)'
  PROVE  OwnCould(t, x) \/ x <= cart.qty
<1>0. /\ tab[t] \in TabLocals /\ StateOf(t) /\ CopyOf(t) /\ AloneOf(t) /\ CallOf(t)
      /\ disk.lines \in Nat /\ disk.intent \in Intents /\ cart.qty \in Nat /\ cart.rev \in Nat
      /\ Same(tab[t].resp.qty, tab[t].resp.rev)
  BY Parts DEF Tidy, Calls, Versions
<1>a. /\ tab[t].lines \in Nat /\ tab[t].before \in Nat /\ tab[t].resp.qty \in Nat /\ tab[t].more \in Int
      /\ tab[t].synced \in BOOLEAN /\ tab[t].user \in BOOLEAN
  BY <1>0 DEF TabLocals, CartAnswer
<1>1. CASE Start(t)
  BY <1>0, <1>a, <1>1, StartDoes DEF OwnCould, SameLines, SameRev, Applying
<1>2. CASE UserGone(t)
  BY <1>0, <1>a, <1>2, UserGoneDoes DEF OwnCould, Applying
<1>3. CASE Locked(t)
  BY <1>0, <1>a, <1>3, LockedDoes DEF OwnCould, SameLines, SameUser, SameRev, Applying
<1>4. CASE Fetch(t)
  BY <1>0, <1>a, <1>4, FetchDoes DEF OwnCould, SameLines, SameUser, SameRev, Applying
<1>5. CASE NoMerge(t)
  BY <1>0, <1>a, <1>5, NoMergeDoes DEF OwnCould, SameLines, SameUser, SameRev, Applying
<1>6. CASE Merged(t)
  BY <1>0, <1>a, <1>6, MergedDoes DEF OwnCould, SameLines, SameUser, SameRev, Applying
<1>7. CASE Replace(t)
  BY <1>0, <1>a, <1>7, ReplaceDoes DEF OwnCould, SameRev, SameAnswer, Applying
<1>8. CASE Forget(t)
  BY <1>0, <1>a, <1>8, ForgetDoes DEF OwnCould, SameRev, SameAnswer, Applying
<1>9. CASE Edits(t)
  <2>1. tab[t].pc = "edits" /\ tab'[t].pc = "idle" /\ tab'[t].lines = Kept(t) /\ SameRev(t) /\ cart' = cart
    BY <1>9, EditsDoes
  <2>2. tab[t].rev = cart.rev /\ x = Kept(t)
    BY <2>1 DEF OwnCould, SameRev, Applying
  <2>3. x = tab[t].resp.qty + tab[t].more \/ x = 0
    BY <2>2 DEF Kept
  <2> QED BY <1>0, <2>1, <2>2, <2>3 DEF OwnCould, Applying
<1>10. CASE SaveStart(t)
  BY <1>0, <1>a, <1>10, SaveStartDoes DEF OwnCould, SameLines, SameRev, Applying
<1>11. ASSUME NEW h \in Handlers, Save(t, h)
      PROVE  OwnCould(t, x)
  <2>1. Sends(t, h, "save", Nothing, tab[t].lines, tab[t].rev) /\ tab'[t].call = h
        /\ tab[t].pc = "save" /\ tab'[t].pc = "saving" /\ SameUser(t) /\ SameRev(t) /\ SameLines(t) /\ cart' = cart
    BY <1>11, SaveDoes
  <2>2. handler'[h].pc # "replied"
    BY <2>1, SendsDoes
  <2> QED BY <2>1, <2>2 DEF OwnCould, SameUser, SameRev, SameLines, Applying
<1>12. CASE Saved(t)
  <2>1. /\ tab[t].pc = "saving" /\ handler[tab[t].call].pc = "replied" /\ tab'[t].pc = "idle"
        /\ tab'[t].rev = handler[tab[t].call].resp.rev /\ SameLines(t) /\ SameUser(t) /\ cart' = cart
    BY <1>12, SavedDoes
  <2> QED BY <2>1 DEF OwnCould, SameLines, SameUser, Applying
<1>13. CASE SaveRefused(t)
  BY <1>0, <1>a, <1>13, SaveRefusedDoes
  DEF OwnCould, SameLines, SameUser, SameRev, Applying
<1>14. CASE OpenTab(t)
  BY <1>0, <1>a, <1>14, OpenTabDoes DEF OwnCould, Applying
<1>15. CASE CloseTab(t)
  BY <1>0, <1>a, <1>15, CloseTabDoes DEF OwnCould, Applying
<1>16. CASE RequestFails(t)
  BY <1>0, <1>a, <1>16, RequestFailsDoes
  DEF OwnCould, SameLines, SameUser, SameRev, Applying
<1> QED BY <1>1, <1>2, <1>3, <1>4, <1>5, <1>6, <1>7, <1>8, <1>9, <1>10, <1>11, <1>12,
           <1>13, <1>14, <1>15, <1>16
        DEF Quiet

LEMMA OwnMoreQuiet ==
  ASSUME Typed, Tidy, Calls, Versions, NEW t \in Tabs, Quiet(t), NEW g \in Int, OwnMore(t, g)'
  PROVE  OwnMore(t, g) \/ g <= 0 \/ DiskMore(g)
<1>0. /\ tab[t] \in TabLocals /\ StateOf(t) /\ CopyOf(t) /\ AloneOf(t) /\ CallOf(t)
      /\ disk.lines \in Nat /\ disk.intent \in Intents /\ cart.qty \in Nat /\ cart.rev \in Nat
      /\ Same(tab[t].resp.qty, tab[t].resp.rev)
  BY Parts DEF Tidy, Calls, Versions
<1>a. /\ tab[t].lines \in Nat /\ tab[t].before \in Nat /\ tab[t].resp.qty \in Nat /\ tab[t].more \in Int
      /\ tab[t].synced \in BOOLEAN /\ tab[t].user \in BOOLEAN
  BY <1>0 DEF TabLocals, CartAnswer
<1>1. CASE Start(t)
  BY <1>0, <1>a, <1>1, StartDoes DEF OwnMore, SameLines, Comparing
<1>2. CASE UserGone(t)
  BY <1>0, <1>a, <1>2, UserGoneDoes DEF OwnMore, StateOf, SameLines, Comparing
<1>3. CASE Locked(t)
  BY <1>0, <1>a, <1>3, LockedDoes DEF OwnMore, SameLines
<1>4. CASE Fetch(t)
  BY <1>0, <1>a, <1>4, FetchDoes
  DEF OwnMore, StateOf, SameLines, SameUser, SameCopy, Comparing
<1>5. CASE NoMerge(t)
  BY <1>0, <1>a, <1>5, NoMergeDoes DEF OwnMore, SameLines, SameUser, SameCopy, Comparing
<1>6. CASE Merged(t)
  BY <1>0, <1>a, <1>6, MergedDoes DEF OwnMore, SameLines, SameUser, SameCopy, Comparing
<1>7. CASE Replace(t)
  BY <1>0, <1>a, <1>7, ReplaceDoes DEF OwnMore, CopyOf, Applying, Comparing
<1>8. CASE Forget(t)
  BY <1>0, <1>a, <1>8, ForgetDoes DEF OwnMore, CopyOf, Applying, Comparing
<1>9. CASE Edits(t)
  BY <1>0, <1>a, <1>9, EditsDoes DEF OwnMore, CopyOf, Applying
<1>10. CASE SaveStart(t)
  BY <1>0, <1>a, <1>10, SaveStartDoes DEF OwnMore, SameLines, Comparing
<1>11. CASE \E h \in Handlers : Save(t, h)
  BY <1>0, <1>a, <1>11, SaveDoes DEF OwnMore, SameLines, Comparing
<1>12. CASE Saved(t)
  BY <1>0, <1>a, <1>12, SavedDoes DEF OwnMore, Comparing
<1>13. CASE SaveRefused(t)
  BY <1>0, <1>a, <1>13, SaveRefusedDoes DEF OwnMore, SameLines, Comparing
<1>14. CASE OpenTab(t)
  BY <1>0, <1>a, <1>14, OpenTabDoes DEF OwnMore, DiskMore, Comparing
<1>15. CASE CloseTab(t)
  BY <1>0, <1>a, <1>15, CloseTabDoes DEF OwnMore, Comparing
<1>16. CASE RequestFails(t)
  BY <1>0, <1>a, <1>16, RequestFailsDoes DEF OwnMore, SameLines, Comparing
<1> QED BY <1>1, <1>2, <1>3, <1>4, <1>5, <1>6, <1>7, <1>8, <1>9, <1>10, <1>11, <1>12,
           <1>13, <1>14, <1>15, <1>16
        DEF Quiet

LEMMA QuietFrame ==
  ASSUME Typed, Tidy, NEW t \in Tabs, Quiet(t)
  PROVE  /\ OthersSame(t) /\ cart' = cart /\ minted' = minted /\ put' = put
         /\ disk'.meta.there = disk.meta.there
         /\ disk.meta.there \/ (disk'.lines = disk.lines /\ disk'.intent = disk.intent)
<1>0. StateOf(t) /\ CopyOf(t)
  BY DEF Tidy
<1>1. CASE Start(t)
  BY <1>1, StartDoes
<1>2. CASE UserGone(t)
  BY <1>2, UserGoneDoes
<1>3. CASE Locked(t)
  BY <1>3, LockedDoes
<1>4. CASE Fetch(t)
  BY <1>4, FetchDoes
<1>5. CASE NoMerge(t)
  BY <1>5, NoMergeDoes
<1>6. CASE Merged(t)
  BY <1>6, MergedDoes
<1>7. CASE Replace(t)
  BY <1>0, <1>7, ReplaceDoes DEF CopyOf, Applying
<1>8. CASE Forget(t)
  BY <1>0, <1>8, ForgetDoes DEF CopyOf, Applying
<1>9. CASE Edits(t)
  BY <1>0, <1>9, EditsDoes DEF CopyOf, Applying
<1>10. CASE SaveStart(t)
  BY <1>10, SaveStartDoes
<1>11. CASE \E h \in Handlers : Save(t, h)
  BY <1>11, SaveDoes
<1>12. CASE Saved(t)
  <2>1. tab[t].pc = "saving" /\ disk'.meta = [there |-> TRUE, key |-> Nothing]
    BY <1>12, SavedDoes
  <2>2. disk.meta.there /\ disk'.meta.there
    BY <1>0, <2>1, Parts DEF StateOf, CopyOf
  <2>3. disk'.meta.there = disk.meta.there
    BY <2>1, <2>2, Parts DEF Metas
  <2> QED BY <1>12, <2>2, <2>3, SavedDoes
<1>13. CASE SaveRefused(t)
  BY <1>13, SaveRefusedDoes
<1>14. CASE OpenTab(t)
  BY <1>14, OpenTabDoes
<1>15. CASE CloseTab(t)
  BY <1>15, CloseTabDoes
<1>16. CASE RequestFails(t)
  BY <1>16, RequestFailsDoes
<1> QED BY <1>1, <1>2, <1>3, <1>4, <1>5, <1>6, <1>7, <1>8, <1>9, <1>10, <1>11, <1>12,
           <1>13, <1>14, <1>15, <1>16
        DEF Quiet

LEMMA BalanceQuiet ==
  ASSUME NEW f \in [Keys -> Nat], Typed, Tidy, Calls, Versions, Balance(f), NEW t \in Tabs, Quiet(t)
  PROVE  Balance(f)'
<1>1. \A h \in Handlers : NewCall(t, h)
  BY TabsCall DEF Quiet, TabStep
<1>2. \A x \in Int : OwnCould(t, x)' => OwnCould(t, x) \/ x <= cart.qty
  BY OwnCouldQuiet
<1>3. \A g \in Int : OwnMore(t, g)' => OwnMore(t, g) \/ g <= 0 \/ DiskMore(g)
  BY OwnMoreQuiet
<1>4. /\ OthersSame(t) /\ cart' = cart /\ minted' = minted /\ put' = put
      /\ disk'.meta.there = disk.meta.there
      /\ disk.meta.there \/ (disk'.lines = disk.lines /\ disk'.intent = disk.intent)
  BY QuietFrame
<1> QED BY <1>1, <1>2, <1>3, <1>4, QuietTab

\* At sign-out the tab is the only one, and what it forgets was an account's.
LEMMA BalanceClear ==
  ASSUME NEW f \in [Keys -> Nat], Typed, Tidy, Calls, Balance(f), NEW t \in Tabs,
         ClearLines(t) \/ ClearIntent(t) \/ ClearMeta(t)
  PROVE  Balance(f)'
<1>0. /\ StateOf(t) /\ AloneOf(t) /\ disk.intent.lines \in Nat /\ disk.lines \in Nat
      /\ tab[t].synced \in BOOLEAN /\ NoIntent.lines = 0 /\ cart.qty \in Int
  BY Parts, Nones DEF Tidy, TabLocals, Intents
<1>1. /\ tab[t].pc \in Clearing /\ tab'[t].pc \notin Comparing /\ ~tab'[t].synced
      /\ tab'[t].pc \notin Applying
      /\ OthersSame(t) /\ cart' = cart /\ minted' = minted /\ put' = put
  BY <1>0, ClearLinesDoes, ClearIntentDoes, ClearMetaDoes
     DEF StateOf, SameUser, Clearing, Comparing, Applying
<1>2. Alone(t) /\ \A u \in Tabs \ {t} : tab'[u].pc = "closed"
  BY <1>0, <1>1 DEF AloneOf, Alone, OthersSame
<1>3. ASSUME NEW x \in Int, CouldBe(x)'
      PROVE  CouldBe(x)
  <2>1. \A h \in Handlers : NewCall(t, h)
    BY TabsCall DEF TabStep
  <2>2. CouldBe(x) \/ OwnCould(t, x)'
    BY <1>0, <1>1, <1>3, <2>1, CouldTab, Parts DEF TabLocals
  <2> QED BY <1>1, <2>2 DEF OwnCould
<1>4. ASSUME NEW g \in Int, More(g)', g > 0
      PROVE  FALSE
  <2>1. CASE DiskMore(g)'
    <3>1. disk'.lines = 0 /\ disk'.intent.lines \in Nat
      BY <1>0, ClearLinesDoes, ClearIntentDoes, ClearMetaDoes DEF AloneOf
    <3> QED BY <1>4, <2>1, <3>1 DEF DiskMore
  <2>2. ASSUME NEW u \in Tabs, OwnMore(u, g)'
        PROVE  FALSE
    <3>1. u = t
      BY <1>2, <2>2 DEF OwnMore, Comparing
    <3>2. tab'[t].lines = 0 /\ disk'.intent.lines \in Nat
      BY <1>0, ClearLinesDoes, ClearIntentDoes, ClearMetaDoes DEF AloneOf, SameLines
    <3> QED BY <1>1, <1>4, <2>2, <3>1, <3>2 DEF OwnMore
  <2> QED BY <1>4, <2>1, <2>2 DEF More
<1>5. More(0) /\ 0 \in Int
  BY DEF More
<1>6. \A x \in Int : CouldBe(x)' => \E y \in Int : CouldBe(y) /\ x <= y
  <2>1. \A x \in Int : x <= x
    OBVIOUS
  <2> QED BY <1>3, <2>1
<1>7. \A g \in Int : More(g)' => \E k \in Int : More(k) /\ g <= k
  <2>1. \A g \in Int : g > 0 \/ g <= 0
    OBVIOUS
  <2> QED BY <1>4, <1>5, <2>1
<1> QED BY <1>1, <1>6, <1>7, NoMoreThan

\* A synced tab's lines may come to the cart, another's are more than it has:
\* one more counts once.
LEMMA BalanceAdd ==
  ASSUME NEW f \in [Keys -> Nat], Typed, Tidy, Calls, Balance(f), NEW t \in Tabs, Add(t)
  PROVE  Balance(f)'
<1>0. /\ StateOf(t) /\ CopyOf(t) /\ tab[t].synced \in BOOLEAN
      /\ tab[t].lines \in Nat /\ tab[t].before \in Nat /\ disk.intent.lines \in Nat
  BY Parts DEF Tidy, TabLocals, Intents, NoIntent
<1>1. /\ OthersSame(t) /\ cart' = cart /\ minted' = minted /\ put' = put + 1
      /\ tab[t].pc \notin Writing /\ tab[t].pc # "closed"
      /\ SamePc(t) /\ SameUser(t) /\ SameRev(t) /\ SameCall(t) /\ SameCopy(t)
      /\ tab'[t].lines = tab[t].lines + 1 /\ disk'.lines = tab[t].lines + 1
      /\ disk'.meta = disk.meta /\ disk'.intent = disk.intent /\ handler' = handler
  BY AddDoes
<1>2. SUFFICES ASSUME NEW x \in Int, NEW g \in Int, CouldBe(x)', More(g)'
               PROVE  x + g + Owed(f)' <= put'
  BY DEF Balance
<1>3. Owed(f)' = Owed(f) /\ Owed(f) \in Int /\ put \in Int
  <2>1. Owed(f)' = Owed(f)
    BY <1>1 DEF Owed
  <2>2. minted \in Nat /\ put \in Nat
    BY DEF Typed
  <2>3. Owed(f) \in Nat
    BY <2>2, OwedType
  <2> QED BY <2>1, <2>2, <2>3
<1>4. CouldBe(x) \/ (tab[t].synced /\ CouldBe(x - 1))
  <2>1. \A h \in Handlers : NewCall(t, h)
    BY TabsCall
  <2>2. CouldBe(x) \/ OwnCould(t, x)'
    BY <1>0, <1>1, <1>2, <2>1, CouldTab, Parts DEF TabLocals
  <2>3. OwnCould(t, x)' => tab[t].synced /\ OwnCould(t, x - 1)
    BY <1>0, <1>1 DEF OwnCould, SamePc, SameUser, SameRev, SameCall, Applying, Writing
  <2> QED BY <2>2, <2>3 DEF CouldBe
<1>5. More(g) \/ (~tab[t].synced /\ More(g - 1))
  <2>1. CASE DiskMore(g)'
    <3>0. ~disk'.meta.there /\ g = disk'.lines - disk'.intent.lines
      BY <2>1 DEF DiskMore
    <3>1. ~disk.meta.there /\ g = (tab[t].lines + 1) - disk.intent.lines
      BY <1>1, <3>0
    <3>2. OwnMore(t, g - 1) /\ ~tab[t].synced
      BY <1>0, <1>1, <3>1 DEF OwnMore, CopyOf
    <3> QED BY <3>2 DEF More
  <2>2. CASE OwnMore(t, g)'
    <3>1. OwnMore(t, g - 1) /\ ~tab[t].synced
      BY <1>0, <1>1, <2>2 DEF OwnMore, CopyOf, SamePc, SameUser, SameCopy
    <3> QED BY <3>1 DEF More
  <2>3. ASSUME NEW u \in Tabs \ {t}, OwnMore(u, g)'
        PROVE  OwnMore(u, g)
    BY <1>1, <2>3 DEF OwnMore, OthersSame
  <2> QED BY <1>2, <2>1, <2>2, <2>3 DEF More
<1>6. PICK y \in Int : CouldBe(y) /\ (y = x \/ (tab[t].synced /\ y = x - 1))
  BY <1>4
<1>7. PICK k \in Int : More(k) /\ (k = g \/ (~tab[t].synced /\ k = g - 1))
  BY <1>5
<1>8. y + k + Owed(f) <= put
  BY <1>6, <1>7 DEF Balance
<1> QED BY <1>1, <1>3, <1>6, <1>7, <1>8

\* The tab puts what it has more than the cart on top of it, and nothing else
\* has more: the metadata now says whose the lines are.
LEMMA BalanceRemember ==
  ASSUME NEW f \in [Keys -> Nat], Typed, Tidy, Calls, Versions, Balance(f), NEW t \in Tabs, Remember(t)
  PROVE  Balance(f)'
<1>0. /\ StateOf(t) /\ CopyOf(t) /\ DiskTidy /\ tab[t].synced \in BOOLEAN
      /\ tab[t].lines \in Nat /\ tab[t].before \in Nat /\ tab[t].intent \in Intents
      /\ Same(tab[t].resp.qty, tab[t].resp.rev) /\ cart.qty \in Nat
      /\ tab[t].resp.qty \in Nat
  BY Parts DEF Tidy, TabLocals, Versions, CartAnswer
<1>1. /\ OthersSame(t) /\ cart' = cart /\ minted' = minted /\ put' = put
      /\ tab[t].pc = "apply" /\ tab'[t].pc = "replace" /\ SameUser(t)
      /\ tab'[t].rev = tab[t].resp.rev /\ tab'[t].resp = tab[t].resp
      /\ tab'[t].more = tab[t].lines - Baseline(t)
      /\ disk'.meta = [there |-> TRUE, key |-> tab[t].intent.key] /\ handler' = handler
  BY RememberDoes
<1>2. SUFFICES ASSUME NEW x \in Int, NEW g \in Int, CouldBe(x)', More(g)'
               PROVE  x + g + Owed(f)' <= put'
  BY DEF Balance
<1>3. Owed(f)' = Owed(f) /\ Owed(f) \in Int /\ put \in Int
  <2>1. Owed(f)' = Owed(f)
    BY <1>1 DEF Owed
  <2>2. minted \in Nat /\ put \in Nat
    BY DEF Typed
  <2>3. Owed(f) \in Nat
    BY <2>2, OwedType
  <2> QED BY <2>1, <2>2, <2>3
<1>4. g = 0
  <2>1. lock = t
    BY <1>0, <1>1 DEF StateOf, Locking, Comparing
  <2>2. ASSUME NEW u \in Tabs \ {t}
        PROVE  tab'[u].pc \notin Comparing
    <3>1. StateOf(u) /\ tab'[u] = tab[u]
      BY <1>1 DEF Tidy, OthersSame
    <3> QED BY <2>1, <3>1 DEF StateOf, Locking
  <2>3. \A u \in Tabs : tab'[u].pc \notin Comparing
    BY <1>1, <2>2 DEF Comparing
  <2>4. disk'.meta.there
    BY <1>1
  <2> QED BY <1>2, <2>3, <2>4 DEF More, DiskMore, OwnMore
<1>5. DEFINE k == tab[t].lines - Baseline(t)
<1>6. More(k) /\ k \in Int
  <2>1. CASE tab[t].synced
    BY <1>0, <2>1 DEF Baseline, More
  <2>2. CASE ~tab[t].synced /\ disk.meta.there
    <3>1. /\ tab[t].meta = disk.meta /\ tab[t].intent = disk.intent
      BY <1>0, <1>1, <2>2 DEF CopyOf, Comparing
    <3>2. Baseline(t) = tab[t].before
      BY <1>0, <2>2, <3>1 DEF Baseline, DiskTidy
    <3>3. OwnMore(t, k)
      BY <1>1, <2>2, <3>2 DEF OwnMore, Comparing
    <3> QED BY <1>0, <3>2, <3>3 DEF More
  <2>3. CASE ~tab[t].synced /\ ~disk.meta.there
    <3>1. /\ tab[t].meta = NoMeta /\ tab[t].intent = disk.intent
          /\ disk.intent = NoIntent => tab[t].before = 0
      BY <1>0, <1>1, <2>3 DEF CopyOf, Comparing, DiskTidy, Clean
    <3>2. Baseline(t) = disk.intent.lines /\ disk.intent.lines \in Nat
      <4>1. CASE disk.intent = NoIntent
        BY <2>3, <3>1, <4>1, Nones DEF Baseline
      <4>2. CASE disk.intent # NoIntent
        <5>1. disk.intent.key # Nothing /\ disk.intent.lines \in Nat
          BY <1>0, <3>1, <4>2, CartAssumption DEF Intents, Keys
        <5> QED BY <2>3, <3>1, <4>2, <5>1 DEF Baseline, NoMeta
      <4> QED BY <4>1, <4>2
    <3>3. OwnMore(t, k)
      BY <1>1, <2>3, <3>2 DEF OwnMore
    <3> QED BY <1>0, <3>2, <3>3 DEF More
  <2> QED BY <2>1, <2>2, <2>3
<1> HIDE DEF k
<1>7. CouldBe(x) \/ x = cart.qty \/ x = cart.qty + k
  <2>1. \A h \in Handlers : NewCall(t, h)
    BY TabsCall DEF TabStep
  <2>2. CouldBe(x) \/ OwnCould(t, x)'
    BY <1>0, <1>1, <1>2, <2>1, CouldTab, Parts DEF TabLocals
  <2>3. OwnCould(t, x)' => x = tab[t].resp.qty \/ x = tab[t].resp.qty + k
    BY <1>1 DEF OwnCould, Applying, k
  <2>4. OwnCould(t, x)' => tab[t].resp.qty = cart.qty
    BY <1>0, <1>1 DEF OwnCould, Applying, Same
  <2> QED BY <2>2, <2>3, <2>4
<1>8. CouldBe(cart.qty) /\ More(0)
  BY DEF CouldBe, More
<1>9. /\ CouldBe(x) => x + 0 + Owed(f) <= put
      /\ cart.qty + 0 + Owed(f) <= put
      /\ cart.qty + k + Owed(f) <= put
  BY <1>0, <1>2, <1>6, <1>8 DEF Balance
<1> QED BY <1>0, <1>1, <1>3, <1>4, <1>6, <1>7, <1>9

\* Reading the row makes nothing new of the cart.
LEMMA BalanceReadCart ==
  ASSUME NEW f \in [Keys -> Nat], Typed, Calls, Balance(f), NEW h \in Handlers, ReadCart(h)
  PROVE  Balance(f)'
<1>1. /\ handler[h].pc = "read" /\ cart' = cart /\ tab' = tab /\ disk' = disk
      /\ minted' = minted /\ put' = put
      /\ \A g \in Handlers \ {h} : handler'[g] = handler[g]
  BY ReadsWhat
<1>2. \/ /\ handler'[h].pc = "write" /\ handler'[h].op = handler[h].op
         /\ handler'[h].lines = handler[h].lines /\ handler'[h].rev = handler[h].rev
      \/ handler'[h].pc = "free"
      \/ /\ handler'[h].pc \in {"replied", "refused"}
         /\ handler'[h].pc = "replied" => handler[h].op = "merge"
  BY ReadsWhat, NoCallRests
<1>3. ASSUME NEW x \in Int, CouldBe(x)'
      PROVE  CouldBe(x)
  <2>1. \A g \in Handlers : CallCould(g, x)' => CallCould(g, x)
    BY <1>1, <1>2 DEF CallCould
  <2>2. ASSUME NEW t \in Tabs, OwnCould(t, x)'
        PROVE  OwnCould(t, x)
    <3>1. CASE tab[t].pc = "saving" /\ handler'[tab[t].call].pc = "replied"
      <4>1. tab[t].call \in Handlers /\ handler[tab[t].call].op = "save"
        BY <3>1, Parts DEF Calls, CallOf, TabLocals, Is
      <4>2. tab[t].call # h
        BY <1>2, <3>1, <4>1
      <4> QED BY <1>1, <2>2, <4>1, <4>2 DEF OwnCould
    <3>2. CASE ~(tab[t].pc = "saving" /\ handler'[tab[t].call].pc = "replied")
      BY <1>1, <2>2, <3>2 DEF OwnCould
    <3> QED BY <3>1, <3>2
  <2> QED BY <1>1, <1>3, <2>1, <2>2 DEF CouldBe
<1>4. \A g \in Int : More(g)' => More(g)
  BY <1>1 DEF More, DiskMore, OwnMore
<1>5. \A x \in Int : x <= x
  OBVIOUS
<1>6. /\ \A x \in Int : CouldBe(x)' => \E y \in Int : CouldBe(y) /\ x <= y
      /\ \A g \in Int : More(g)' => \E k \in Int : More(k) /\ g <= k
  BY <1>3, <1>4, <1>5
<1> QED BY <1>1, <1>6, NoMoreThan

-----------------------------------------------------------------------------
(* What the merge keys stand for. *)

\* An intent to merge has a key of its own, for the quantity that f says.
Claim(i, f) == i = NoIntent \/ (i.key \in 1..minted /\ i.lines = f[i.key])

CallClaims(h, f) ==
  /\ handler[h].op = "merge" /\ handler[h].pc \in {"read", "write"} =>
       handler[h].key \in 1..minted /\ handler[h].lines = f[handler[h].key]
  /\ handler[h].op = "merge" /\ handler[h].pc = "write" => handler[h].key \notin handler[h].seen.keys
  /\ handler[h].op = "save" /\ handler[h].pc \in {"read", "write"} => handler[h].rev <= cart.rev

Claims(f) ==
  /\ cart.keys \subseteq 1..minted
  /\ Claim(disk.intent, f)
  /\ \A t \in Tabs : Claim(tab[t].intent, f)
  /\ \A h \in Handlers : CallClaims(h, f)

LEMMA ClaimsReadCart ==
  ASSUME NEW f, Typed, Claims(f), NEW h \in Handlers, ReadCart(h)
  PROVE  Claims(f)'
<1>1. /\ handler[h].pc = "read" /\ cart' = cart /\ tab' = tab /\ disk' = disk /\ minted' = minted
      /\ \A g \in Handlers \ {h} : handler'[g] = handler[g]
  BY ReadsWhat
<1>2. CallClaims(h, f)'
  <2>1. CASE /\ handler'[h].pc = "write" /\ handler'[h].seen = cart
             /\ handler'[h].op = handler[h].op /\ handler'[h].key = handler[h].key
             /\ handler'[h].lines = handler[h].lines /\ handler'[h].rev = handler[h].rev
             /\ handler[h].op = "merge" => handler[h].key \notin cart.keys
    BY <1>1, <2>1 DEF Claims, CallClaims
  <2>2. CASE handler'[h].pc \notin {"read", "write"}
    BY <2>2 DEF CallClaims
  <2> QED BY <2>1, <2>2, ReadsWhat, NoCallRests
<1>3. \A g \in Handlers \ {h} : CallClaims(g, f)'
  BY <1>1 DEF Claims, CallClaims
<1>4. cart'.keys \subseteq 1..minted'
  BY <1>1 DEF Claims
<1>5. Claim(disk.intent, f)' /\ \A t \in Tabs : Claim(tab[t].intent, f)'
  BY <1>1 DEF Claims, Claim
<1> QED BY <1>2, <1>3, <1>4, <1>5 DEF Claims

LEMMA ClaimsWriteCart ==
  ASSUME NEW f, Typed, Versions, Claims(f), NEW h \in Handlers, WriteCart(h)
  PROVE  Claims(f)'
<1>1. /\ handler[h].pc = "write" /\ tab' = tab /\ disk' = disk /\ minted' = minted
      /\ \A g \in Handlers \ {h} : handler'[g] = handler[g]
  BY WriteDoes
<1>2. /\ cart.rev \in Nat /\ cart'.rev \in {cart.rev, cart.rev + 1}
      /\ \A g \in Handlers : handler[g].rev \in Nat
  BY WriteDoes, Parts DEF HandlerLocals
<1>3. cart'.keys \subseteq 1..minted'
  <2>1. CASE /\ handler[h].seen.rev = cart.rev
             /\ cart'.keys = IF handler[h].op = "merge" THEN handler[h].seen.keys \cup {handler[h].key}
                             ELSE cart.keys
    <3>1. handler[h].seen.keys = cart.keys
      BY <1>1, <2>1 DEF Versions, RowSeen
    <3> QED BY <1>1, <2>1, <3>1 DEF Claims, CallClaims
  <2>2. CASE cart' = cart
    BY <1>1, <2>2 DEF Claims
  <2> QED BY <2>1, <2>2, WriteDoes
<1>4. CallClaims(h, f)'
  <2>1. CASE handler[h].op = "merge" /\ handler'[h] = [handler[h] EXCEPT !.pc = "read"]
    <3>1. /\ handler'[h].op = "merge" /\ handler'[h].pc = "read" /\ handler'[h].key = handler[h].key
          /\ handler'[h].lines = handler[h].lines
      BY <2>1, Parts DEF HandlerLocals
    <3> QED BY <1>1, <2>1, <3>1 DEF Claims, CallClaims
  <2>2. CASE handler'[h].pc \notin {"read", "write"}
    BY <2>2 DEF CallClaims
  <2>3. NoCall.pc \notin {"read", "write"} /\ [NoCall EXCEPT !.pc = "refused"].pc \notin {"read", "write"}
    BY DEF NoCall
  <2> QED BY <2>1, <2>2, <2>3, WriteDoes
<1>5. \A g \in Handlers \ {h} : CallClaims(g, f)'
  BY <1>1, <1>2 DEF Claims, CallClaims
<1>6. Claim(disk.intent, f)' /\ \A t \in Tabs : Claim(tab[t].intent, f)'
  BY <1>1 DEF Claims, Claim
<1> QED BY <1>3, <1>4, <1>5, <1>6 DEF Claims

\* What is written has been counted: a save's lines as what the cart may come
\* to, a merge's by its key.
LEMMA BalanceWriteCart ==
  ASSUME NEW f \in [Keys -> Nat], Typed, Calls, Versions, Claims(f), Balance(f),
         NEW h \in Handlers, WriteCart(h)
  PROVE  Balance(f)'
<1>0. /\ handler[h].pc = "write" /\ tab' = tab /\ disk' = disk /\ minted' = minted /\ put' = put
      /\ \A g \in Handlers \ {h} : handler'[g] = handler[g]
      /\ handler[h].op \in {"merge", "save"} /\ handler[h].lines \in Nat /\ cart.qty \in Nat
      /\ minted \in Nat /\ put \in Nat
  BY WriteDoes, Parts DEF HandlerLocals, Typed
<1>1. \A g \in Int : More(g)' => More(g)
  BY <1>0 DEF More, DiskMore, OwnMore
<1>2. CASE /\ handler[h].seen.rev # cart.rev /\ cart' = cart
           /\ \/ handler[h].op = "merge" /\ handler'[h] = [handler[h] EXCEPT !.pc = "read"]
              \/ handler'[h] = NoCall
              \/ handler'[h] = [NoCall EXCEPT !.pc = "refused"]
  <2>1. handler'[h].pc # "replied" /\ (handler'[h].pc \in {"read", "write"} => handler'[h].op = "merge")
    <3>1. handler[h] \in HandlerLocals
      BY Parts
    <3> QED BY <1>2, <3>1 DEF HandlerLocals, NoCall
  <2>2. ASSUME NEW x \in Int, CouldBe(x)'
        PROVE  CouldBe(x)
    <3>1. \A g \in Handlers : CallCould(g, x)' => CallCould(g, x)
      BY <1>0, <1>2, <2>1 DEF CallCould
    <3>2. ASSUME NEW t \in Tabs, OwnCould(t, x)'
          PROVE  OwnCould(t, x)
      <4>1. CASE tab[t].pc = "saving" /\ handler'[tab[t].call].pc = "replied"
        <5>1. tab[t].call \in Handlers
          BY <4>1, Parts DEF Calls, CallOf, TabLocals
        <5>2. tab[t].call # h
          BY <2>1, <4>1
        <5> QED BY <1>0, <1>2, <3>2, <5>1, <5>2 DEF OwnCould
      <4>2. CASE ~(tab[t].pc = "saving" /\ handler'[tab[t].call].pc = "replied")
        BY <1>0, <1>2, <3>2, <4>2 DEF OwnCould
      <4> QED BY <4>1, <4>2
    <3> QED BY <1>2, <2>2, <3>1, <3>2 DEF CouldBe
  <2>3. \A x \in Int : x <= x
    OBVIOUS
  <2>4. /\ \A x \in Int : CouldBe(x)' => \E y \in Int : CouldBe(y) /\ x <= y
        /\ \A g \in Int : More(g)' => \E k \in Int : More(k) /\ g <= k
    BY <1>1, <2>2, <2>3
  <2> QED BY <1>0, <1>2, <2>4, NoMoreThan
<1>3. CASE /\ handler[h].seen.rev = cart.rev
           /\ cart'.qty = Written(h) /\ cart'.rev = cart.rev + 1
           /\ cart'.keys = IF handler[h].op = "merge" THEN handler[h].seen.keys \cup {handler[h].key}
                           ELSE cart.keys
           /\ \/ handler'[h] = NoCall
              \/ /\ handler'[h].pc = "replied" /\ handler'[h].op = handler[h].op
                 /\ handler'[h].resp = [qty |-> cart'.qty, rev |-> cart'.rev]
  <2>0. SUFFICES ASSUME NEW x \in Int, NEW g \in Int, CouldBe(x)', More(g)'
                 PROVE  x + g + Owed(f)' <= put
    BY <1>0 DEF Balance
  <2>1. cart.rev \in Nat /\ handler'[h].pc \notin {"read", "write"}
    BY <1>3, Parts, NoCallRests
  <2>2. \A e \in Handlers : ~CallCould(e, x)'
    <3>1. \A e \in Handlers \ {h} : handler[e].op = "save" /\ handler[e].pc \in {"read", "write"} =>
            handler[e].rev <= cart.rev /\ handler[e].rev \in Nat
      BY Parts DEF Claims, CallClaims, HandlerLocals
    <3> QED BY <1>0, <1>3, <2>1, <3>1 DEF CallCould
  <2>3. ASSUME NEW t \in Tabs, OwnCould(t, x)'
        PROVE  handler[h].op = "save" /\ CouldBe(x)
    <3>1. tab[t].rev \in Nat /\ tab[t].rev <= cart.rev
      BY Parts DEF Versions, Same, TabLocals
    <3>2. /\ tab[t].synced /\ tab[t].pc \notin Applying /\ tab[t].pc = "saving"
          /\ handler'[tab[t].call].pc = "replied" /\ handler'[tab[t].call].resp.rev = cart'.rev
          /\ x = tab[t].lines
      BY <1>0, <1>3, <2>1, <2>3, <3>1 DEF OwnCould
    <3>3. tab[t].call \in Handlers
      BY <3>2, Parts DEF Calls, CallOf, TabLocals
    <3>4. tab[t].call = h
      <4>1. \A e \in Handlers : handler[e].resp.rev <= cart.rev /\ handler[e].resp.rev \in Nat
        BY Parts DEF Versions, Same, HandlerLocals, CartAnswer
      <4> QED BY <1>0, <1>3, <2>1, <3>2, <3>3, <4>1
    <3>5. handler[h].op = "save" /\ handler[h].rev = tab[t].rev
      BY <1>0, <3>2, <3>3, <3>4, CartAssumption DEF Calls, CallOf, Is
    <3>6. handler[h].rev = cart.rev
      BY <1>0, <1>3, <3>5 DEF Versions, RowSeen
    <3> QED BY <3>2, <3>5, <3>6 DEF CouldBe, OwnCould
  <2>4. CASE handler[h].op = "save"
    <3>1. CouldBe(handler[h].lines)
      BY <1>0, <1>3, <2>4 DEF CouldBe, CallCould, Versions, RowSeen
    <3>2. CouldBe(x)
      BY <1>3, <2>0, <2>2, <2>3, <2>4, <3>1 DEF CouldBe, Written
    <3>3. Owed(f)' = Owed(f)
      BY <1>0, <1>3, <2>4 DEF Owed
    <3>4. More(g)
      BY <1>1, <2>0
    <3> QED BY <3>2, <3>3, <3>4 DEF Balance
  <2>5. CASE handler[h].op = "merge"
    <3>1. x = cart'.qty
      BY <2>0, <2>2, <2>3, <2>5 DEF CouldBe
    <3>2. handler[h].seen.keys = cart.keys /\ handler[h].seen.qty = cart.qty
      BY <1>0, <1>3 DEF Versions, RowSeen, Same
    <3>3. /\ handler[h].key \in 1..minted /\ handler[h].key \notin cart.keys
          /\ handler[h].lines = f[handler[h].key]
      BY <1>0, <2>5, <3>2 DEF Claims, CallClaims
    <3>4. Owed(f) = f[handler[h].key] + Owed(f)'
      <4> DEFINE S == (1..minted) \ cart.keys
      <4>1. IsFiniteSet(S) /\ handler[h].key \in S
        BY <1>0, <3>3, OwedType
      <4>2. \A k \in S : f[k] \in Int
        BY DEF Keys
      <4>3. (1..minted') \ cart'.keys = S \ {handler[h].key}
        BY <1>0, <1>3, <2>5, <3>2
      <4>4. Owed(f)' = SumFunctionOnSet(f, S \ {handler[h].key})
        BY <4>3, Zenon DEF Owed
      <4>5. Owed(f) = SumFunctionOnSet(f, S)
        BY DEF Owed
      <4> HIDE DEF S
      <4> QED BY <4>1, <4>2, <4>4, <4>5, SumStep
    <3>5. x = cart.qty + f[handler[h].key]
      BY <1>3, <2>5, <3>1, <3>2, <3>3 DEF Written
    <3>6. CouldBe(cart.qty) /\ More(g)
      BY <1>1, <2>0 DEF CouldBe
    <3>7. cart.qty + g + Owed(f) <= put
      BY <1>0, <3>6 DEF Balance
    <3>8. f[handler[h].key] \in Nat /\ Owed(f) \in Nat
      BY <1>0, <3>3, OwedType DEF Keys
    <3> HIDE DEF Owed
    <3>9. Owed(f)' = Owed(f) - f[handler[h].key]
      <4> DEFINE w == Owed(f)'
      <4>1. w \in Int
        <5>1. minted' \in Nat
          BY <1>0
        <5>2. IsFiniteSet((1..minted') \ cart'.keys)
          <6>1. IsFiniteSet(1..minted')
            BY <5>1, FS_Interval
          <6> QED BY <6>1, FS_Difference
        <5>3. \A k \in (1..minted') \ cart'.keys : f[k] \in Int
          BY DEF Keys
        <5> QED BY <5>2, <5>3, SumInt DEF Owed
      <4>2. Owed(f) = f[handler[h].key] + w
        BY <3>4
      <4> HIDE DEF w
      <4>3. w = Owed(f) - f[handler[h].key]
        BY <3>8, <4>1, <4>2
      <4> QED BY <4>3 DEF w
    <3> QED BY <1>0, <3>5, <3>7, <3>8, <3>9
  <2> QED BY <1>0, <2>4, <2>5
<1> QED BY <1>2, <1>3, WriteDoes

\* A step of a tab that makes no key.
LEMMA ClaimsTab ==
  ASSUME NEW f, Claims(f), NEW t \in Tabs, OthersSame(t), cart' = cart, minted' = minted,
         tab'[t].intent \in {tab[t].intent, disk.intent, NoIntent},
         disk'.intent \in {tab[t].intent, disk.intent, NoIntent},
         \A h \in Handlers :
           \/ handler'[h] = handler[h]
           \/ handler'[h].pc = "free"
           \/ /\ handler'[h].pc = "read" /\ handler'[h].op = "merge"
              /\ handler'[h].key \in 1..minted /\ handler'[h].lines = f[handler'[h].key]
           \/ handler'[h].pc = "read" /\ handler'[h].op = "save" /\ handler'[h].rev <= cart.rev
  PROVE  Claims(f)'
<1>1. \A i : Claim(i, f)' <=> Claim(i, f)
  BY DEF Claim
<1>2. Claim(disk.intent, f) /\ Claim(NoIntent, f) /\ \A u \in Tabs : Claim(tab[u].intent, f)
  BY DEF Claims, Claim
<1>3. Claim(disk.intent, f)'
  <2>1. Claim(disk'.intent, f)
    BY <1>2
  <2> QED BY <2>1 DEF Claim
<1>4. ASSUME NEW u \in Tabs
      PROVE  Claim(tab[u].intent, f)'
  <2>1. Claim(tab'[u].intent, f)
    <3>1. CASE u = t
      BY <1>2, <3>1
    <3>2. CASE u # t
      BY <1>2, <3>2 DEF OthersSame
    <3> QED BY <3>1, <3>2
  <2> QED BY <2>1 DEF Claim
<1>5. \A h \in Handlers : CallClaims(h, f)'
  BY DEF Claims, CallClaims
<1>6. cart'.keys \subseteq 1..minted'
  BY DEF Claims
<1> QED BY <1>3, <1>4, <1>5, <1>6 DEF Claims

\* The steps of a tab but Merge.
LEMMA ClaimsTabStep ==
  ASSUME NEW f, Typed, Versions, Claims(f), NEW t \in Tabs,
         \/ TabStep(t) \/ OpenTab(t) \/ CloseTab(t) \/ Add(t) \/ RequestFails(t),
         \A h \in Handlers : ~Merge(t, h)
  PROVE  Claims(f)'
<1>1. /\ OthersSame(t) /\ cart' = cart /\ minted' = minted
      /\ tab'[t].intent \in {tab[t].intent, disk.intent, NoIntent}
      /\ disk'.intent \in {disk.intent, NoIntent}
  <2>1. CASE Start(t) BY <2>1, StartDoes DEF AtRest
  <2>2. CASE UserGone(t) BY <2>2, UserGoneDoes DEF AtRest
  <2>3. CASE ClearLines(t) BY <2>3, ClearLinesDoes DEF SameCopy
  <2>4. CASE ClearIntent(t) BY <2>4, ClearIntentDoes DEF SameCopy
  <2>5. CASE ClearMeta(t) BY <2>5, ClearMetaDoes DEF SameCopy
  <2>6. CASE Locked(t) BY <2>6, LockedDoes
  <2>7. CASE Fetch(t) BY <2>7, FetchDoes DEF SameCopy
  <2>8. CASE NoMerge(t) BY <2>8, NoMergeDoes DEF SameCopy
  <2>9. CASE Merged(t) BY <2>9, MergedDoes DEF SameCopy
  <2>10. CASE Remember(t) BY <2>10, RememberDoes DEF SameCopy
  <2>11. CASE Replace(t) BY <2>11, ReplaceDoes DEF SameCopy
  <2>12. CASE Forget(t) BY <2>12, ForgetDoes DEF SameCopy
  <2>13. CASE Edits(t) BY <2>13, EditsDoes DEF AtRest
  <2>14. CASE SaveStart(t) BY <2>14, SaveStartDoes DEF SameCopy
  <2>15. CASE \E h \in Handlers : Save(t, h) BY <2>15, SaveDoes DEF SameCopy
  <2>16. CASE Saved(t) BY <2>16, SavedDoes DEF AtRest
  <2>17. CASE SaveRefused(t) BY <2>17, SaveRefusedDoes DEF SameCopy
  <2>18. CASE OpenTab(t) BY <2>18, OpenTabDoes DEF AtRest
  <2>19. CASE CloseTab(t) BY <2>19, CloseTabDoes DEF AtRest
  <2>20. CASE Add(t) BY <2>20, AddDoes DEF SameCopy
  <2>21. CASE RequestFails(t) BY <2>21, RequestFailsDoes DEF AtRest
  <2> QED BY <2>1, <2>2, <2>3, <2>4, <2>5, <2>6, <2>7, <2>8, <2>9, <2>10, <2>11, <2>12,
             <2>13, <2>14, <2>15, <2>16, <2>17, <2>18, <2>19, <2>20, <2>21 DEF TabStep
<1>2. ASSUME NEW h \in Handlers
      PROVE  \/ handler'[h] = handler[h]
             \/ handler'[h].pc = "free"
             \/ handler'[h].pc = "read" /\ handler'[h].op = "save" /\ handler'[h].rev <= cart.rev
  <2>1. CASE handler' = handler \/ handler' = Dropped(t) \/ handler' = [handler EXCEPT ![tab[t].call] = NoCall]
    BY <2>1, DroppedType, NoCallRests DEF Typed
  <2>2. CASE \E g \in Handlers : Save(t, g)
    <3>1. PICK g \in Handlers : Save(t, g)
      BY <2>2
    <3>2. Sends(t, g, "save", Nothing, tab[t].lines, tab[t].rev)
      BY <3>1, SaveDoes
    <3>3. tab[t].rev <= cart.rev
      BY DEF Versions, Same
    <3> QED BY <3>2, <3>3, SendsDoes
  <2> QED BY <2>1, <2>2
          DEF TabStep, Start, UserGone, ClearLines, ClearIntent, ClearMeta, Locked,
         Fetch, NoMerge, Merged, Remember, Replace, Forget, Edits, SaveStart, Saved, SaveRefused,
         OpenTab, CloseTab, Add, RequestFails
<1> QED BY <1>1, <1>2, ClaimsTab

\* An intent that waits on the disk is sent again, under its key.
LEMMA MergeAgain ==
  ASSUME NEW f \in [Keys -> Nat], Typed, Tidy, Calls, Claims(f), Balance(f),
         NEW t \in Tabs, NEW h \in Handlers, Merge(t, h), tab[t].intent # NoIntent
  PROVE  Claims(f)' /\ Balance(f)'
<1>0. /\ StateOf(t) /\ CopyOf(t) /\ tab[t].synced \in BOOLEAN /\ minted \in Nat
  BY Parts DEF Tidy, TabLocals, Typed
<1>1. Intent(t) = tab[t].intent
  BY DEF Intent
<1>2. /\ OthersSame(t) /\ cart' = cart /\ put' = put /\ tab[t].pc = "fetched"
      /\ tab'[t].pc = "merging" /\ SameLines(t) /\ SameUser(t) /\ tab'[t].before = tab[t].before
      /\ tab'[t].intent = tab[t].intent /\ disk'.lines = disk.lines /\ disk'.meta = disk.meta
      /\ disk'.intent = tab[t].intent
      /\ minted' = (IF tab[t].intent.key > minted THEN minted + 1 ELSE minted)
      /\ Sends(t, h, "merge", tab[t].intent.key, tab[t].intent.lines, 0)
  BY <1>1, MergeDoes
<1>3. tab[t].intent.key \in 1..minted /\ tab[t].intent.lines = f[tab[t].intent.key]
  BY DEF Claims, Claim
<1>4. minted' = minted
  BY <1>0, <1>2, <1>3
<1>5. ~tab[t].synced /\ disk.intent = tab[t].intent
  BY <1>0, <1>2 DEF StateOf, CopyOf, Comparing, Applying
<1>6. Claims(f)'
  <2>1. /\ handler'[h].pc = "read" /\ handler'[h].op = "merge" /\ handler'[h].key = tab[t].intent.key
        /\ handler'[h].lines = tab[t].intent.lines
        /\ \A g \in Handlers \ {h} : handler'[g] = handler[g]
    BY <1>2, SendsDoes
  <2>2. \A g \in Handlers :
           \/ handler'[g] = handler[g]
           \/ /\ handler'[g].pc = "read" /\ handler'[g].op = "merge"
              /\ handler'[g].key \in 1..minted /\ handler'[g].lines = f[handler'[g].key]
    BY <1>3, <2>1
  <2> QED BY <1>2, <1>4, <2>2, ClaimsTab
<1>7. Balance(f)'
  <2>1. \A g \in Handlers : NewCall(t, g)
    BY TabsCall DEF TabStep
  <2>2. \A x \in Int : OwnCould(t, x)' => OwnCould(t, x) \/ x <= cart.qty
    BY <1>2, <1>5 DEF OwnCould, SameUser, Applying
  <2>3. \A g \in Int : OwnMore(t, g)' => OwnMore(t, g) \/ g <= 0 \/ DiskMore(g)
    BY <1>2, <1>5 DEF OwnMore, SameLines, SameUser, Comparing
  <2> QED BY <1>2, <1>4, <1>5, <2>1, <2>2, <2>3, QuietTab
<1> QED BY <1>6, <1>7

\* A guest's lines get a key: they are counted by it, and no longer as lines
\* that no account knows of.
LEMMA MergeNew ==
  ASSUME NEW f \in [Keys -> Nat], Typed, Tidy, Calls, Versions, Claims(f), Balance(f),
         NEW t \in Tabs, NEW h \in Handlers, Merge(t, h), tab[t].intent = NoIntent,
         NEW fnew, fnew = [f EXCEPT ![minted + 1] = tab[t].before]
  PROVE  fnew \in [Keys -> Nat] /\ Claims(fnew)' /\ Balance(fnew)'
<1>0. /\ StateOf(t) /\ CopyOf(t) /\ tab[t].synced \in BOOLEAN /\ minted \in Nat /\ put \in Nat
      /\ tab[t].before \in Nat /\ tab[t].lines \in Nat /\ disk.lines \in Nat
      /\ minted + 1 \in Keys
  BY Parts DEF Tidy, TabLocals, Typed, Keys
<1>1. /\ OthersSame(t) /\ cart' = cart /\ put' = put /\ tab[t].pc = "fetched"
      /\ tab'[t].pc = "merging" /\ SameLines(t) /\ SameUser(t) /\ tab'[t].before = tab[t].before
      /\ tab'[t].intent = Intent(t) /\ disk'.lines = disk.lines /\ disk'.meta = disk.meta
      /\ disk'.intent = Intent(t) /\ Intent(t) # NoIntent
      /\ minted' = (IF Intent(t).key > minted THEN minted + 1 ELSE minted)
      /\ Sends(t, h, "merge", Intent(t).key, Intent(t).lines, 0)
  BY MergeDoes
<1>2. /\ ~tab[t].synced /\ disk.intent = NoIntent /\ tab[t].meta = disk.meta
      /\ tab[t].before <= tab[t].lines
  BY <1>0, <1>1 DEF StateOf, CopyOf, Comparing, Applying
<1>3. ~disk.meta.there /\ Intent(t).key = minted + 1 /\ Intent(t).lines = tab[t].before
  <2>1. ~(tab[t].meta.there \/ tab[t].before = 0)
    BY <1>1 DEF Intent
  <2>2. Intent(t) = [key |-> minted + 1, lines |-> tab[t].before]
    BY <2>1 DEF Intent
  <2> QED BY <1>2, <2>1, <2>2
<1>4. minted' = minted + 1
  BY <1>0, <1>1, <1>3
<1>5. /\ fnew \in [Keys -> Nat] /\ fnew[minted + 1] = tab[t].before
      /\ \A k \in 1..minted : fnew[k] = f[k] /\ k \in 1..minted'
      /\ minted + 1 \in 1..minted'
  BY <1>0, <1>4 DEF Keys
<1>6. ASSUME NEW i, Claim(i, f)
      PROVE  Claim(i, fnew)'
  BY <1>5, <1>6 DEF Claim
<1>7. Claims(fnew)'
  <2>1. Intent(t).key \in 1..minted' /\ Intent(t).lines = fnew[Intent(t).key]
    BY <1>3, <1>5
  <2>2. Claim(disk.intent, fnew)'
    BY <1>1, <2>1 DEF Claim
  <2>3. ASSUME NEW u \in Tabs
        PROVE  Claim(tab[u].intent, fnew)'
    <3>1. CASE u = t
      BY <1>1, <2>1, <3>1 DEF Claim
    <3>2. CASE u # t
      BY <1>1, <1>6, <3>2 DEF OthersSame, Claims
    <3> QED BY <3>1, <3>2
  <2>4. /\ handler'[h].pc = "read" /\ handler'[h].op = "merge" /\ handler'[h].key = Intent(t).key
        /\ handler'[h].lines = Intent(t).lines
        /\ \A g \in Handlers \ {h} : handler'[g] = handler[g]
    BY <1>1, SendsDoes
  <2>5. CallClaims(h, fnew)'
    BY <1>3, <1>5, <2>4 DEF CallClaims
  <2>6. \A g \in Handlers \ {h} : CallClaims(g, fnew)'
    BY <1>1, <1>5, <2>4 DEF Claims, CallClaims
  <2>7. cart'.keys \subseteq 1..minted'
    BY <1>1, <1>5 DEF Claims
  <2> QED BY <2>2, <2>3, <2>5, <2>6, <2>7 DEF Claims
<1>8. Owed(fnew)' = Owed(f) + tab[t].before
  <2> DEFINE S == (1..minted) \ cart.keys
  <2>0. IsFiniteSet(S)
    BY <1>0, OwedType
  <2>1. \A k \in S : fnew[k] = f[k] /\ fnew[k] \in Int
    <3>1. \A k \in 1..minted : f[k] \in Int
      BY DEF Keys
    <3> QED BY <1>5, <3>1
  <2>2. (1..minted') \ cart'.keys = S \cup {minted + 1} /\ minted + 1 \notin S
    <3>1. cart'.keys = cart.keys /\ cart.keys \subseteq 1..minted
      BY <1>1 DEF Claims
    <3>2. 1..minted' = (1..minted) \cup {minted + 1} /\ minted + 1 \notin 1..minted
      BY <1>0, <1>4
    <3> QED BY <3>1, <3>2
  <2>3. Owed(fnew)' = SumFunctionOnSet(fnew, S \cup {minted + 1})
    <3>1. Owed(fnew)' = SumFunctionOnSet(fnew, (1..minted') \ cart'.keys)
      BY DEF Owed
    <3> QED BY <2>2, <3>1, Zenon
  <2>4. Owed(f) = SumFunctionOnSet(f, S)
    BY DEF Owed
  <2> HIDE DEF S
  <2>5. fnew[minted + 1] \in Int
    BY <1>0, <1>5
  <2>6. SumFunctionOnSet(fnew, S \cup {minted + 1}) = SumFunctionOnSet(fnew, S) + fnew[minted + 1]
    BY <2>0, <2>1, <2>2, <2>5, SumWith
  <2>7. SumFunctionOnSet(fnew, S) = SumFunctionOnSet(f, S)
    <3>1. \A k \in S : fnew[k] = f[k]
      BY <2>1
    <3> QED BY ONLY <2>0, <3>1, SumSame
  <2> QED BY <1>5, <2>3, <2>4, <2>6, <2>7
<1>9. Balance(fnew)'
  <2> SUFFICES ASSUME NEW x \in Int, NEW g \in Int, CouldBe(x)', More(g)'
               PROVE  x + g + Owed(fnew)' <= put'
    BY DEF Balance
  <2>1. Owed(f) \in Int
    BY <1>0, OwedType
  <2>2. CouldBe(x)
    <3>1. \A e \in Handlers : NewCall(t, e)
      BY TabsCall DEF TabStep
    <3>2. CouldBe(x) \/ OwnCould(t, x)'
      BY <1>0, <1>1, <3>1, CouldTab, Parts DEF TabLocals
    <3> QED BY <1>1, <1>2, <3>2 DEF OwnCould, SameUser, Applying
  <2>3. NoIntent.lines = 0 /\ ~disk'.meta.there /\ disk'.intent.lines = tab[t].before
    BY <1>1, <1>3, Nones
  <2>4. \E k \in Int : More(k) /\ g + tab[t].before <= k
    <3>1. CASE g = 0
      <4>1. OwnMore(t, tab[t].lines)
        BY <1>0, <1>1, <1>2, <1>3, <2>3 DEF OwnMore
      <4> QED BY <1>0, <1>2, <3>1, <4>1 DEF More
    <3>2. CASE DiskMore(g)'
      <4>1. g = disk.lines - tab[t].before
        BY <1>1, <2>3, <3>2 DEF DiskMore
      <4>2. DiskMore(disk.lines)
        BY <1>0, <1>2, <1>3, <2>3 DEF DiskMore
      <4> QED BY <1>0, <4>1, <4>2 DEF More
    <3>3. ASSUME NEW u \in Tabs, OwnMore(u, g)'
          PROVE  \E k \in Int : More(k) /\ g + tab[t].before <= k
      <4>1. tab'[u].lines = tab[u].lines /\ tab[u].lines \in Nat /\ tab[u].pc # "closed"
        <5>1. CASE u = t
          BY <1>0, <1>1, <5>1 DEF SameLines
        <5>2. CASE u # t
          BY <1>1, <2>3, <3>3, <5>2, Parts DEF OthersSame, OwnMore, TabLocals
        <5> QED BY <5>1, <5>2
      <4>2. g = tab[u].lines - tab[t].before
        BY <2>3, <3>3, <4>1 DEF OwnMore
      <4>3. OwnMore(u, tab[u].lines)
        BY <1>2, <1>3, <2>3, <4>1 DEF OwnMore
      <4> QED BY <1>0, <4>1, <4>2, <4>3 DEF More
    <3> QED BY <3>1, <3>2, <3>3 DEF More
  <2>5. PICK k \in Int : More(k) /\ g + tab[t].before <= k
    BY <2>4
  <2>6. x + k + Owed(f) <= put
    BY <2>2, <2>5 DEF Balance
  <2> QED BY <1>0, <1>1, <1>8, <2>1, <2>5, <2>6
<1> QED BY <1>5, <1>7, <1>9

-----------------------------------------------------------------------------
(* The invariant and the theorems. *)

\* Each step of a tab keeps the types.
LEMMA TypedTabStep ==
  ASSUME Typed, Calls, NEW t \in Tabs,
         \/ TabStep(t) \/ OpenTab(t) \/ CloseTab(t) \/ Add(t) \/ RequestFails(t)
  PROVE  Typed'
  BY TypedStart, TypedUserGone, TypedClearLines, TypedClearIntent, TypedClearMeta,
     TypedLocked, TypedFetch, TypedNoMerge, TypedMerged, TypedRemember, TypedReplace,
     TypedForget, TypedEdits, TypedSaveStart, TypedSaved, TypedSaveRefused, TypedOpenTab,
     TypedCloseTab, TypedAdd, TypedRequestFails, TypedMerge, TypedSave DEF TabStep, Calls

\* Each step of a tab keeps the tabs and the disk in step.
LEMMA TidyTabStep ==
  ASSUME Typed, Tidy, Calls, ~crowded', NEW t \in Tabs,
         \/ TabStep(t) \/ OpenTab(t) \/ CloseTab(t) \/ Add(t) \/ RequestFails(t)
  PROVE  Tidy'
  BY TidyStart, TidyUserGone, TidyClearLines, TidyClearIntent, TidyClearMeta,
     TidyLocked,
     TidyFetch, TidyNoMerge, TidyMerged, TidyRemember, TidyReplace, TidyForget, TidyEdits,
     TidySaveStart, TidySaved, TidySaveRefused, TidyOpenTab, TidyCloseTab, TidyAdd,
     TidyRequestFails, TidyMerge, TidySave DEF TabStep

\* Each step of a tab keeps its own request.
LEMMA CallsTabStep ==
  ASSUME Typed, Calls, NEW t \in Tabs,
         \/ TabStep(t) \/ OpenTab(t) \/ CloseTab(t) \/ Add(t) \/ RequestFails(t)
  PROVE  Calls'
  BY CallsIdle, CallsDropped, CallsAnswered, CallsAdd, CallsMerge, CallsSave DEF TabStep

\* Some reading of the merge keys accounts for everything the customer put in.
Books == \E f \in [Keys -> Nat] : Claims(f) /\ Balance(f)

\* As long as no sign-out met another tab.
Undoubled == ~crowded => Tidy /\ Books

CartInv == Typed /\ Calls /\ Versions /\ Undoubled

\* What is crowded once stays so.
LEMMA CrowdedStays ==
  ASSUME Typed, [CartNext]_cartVars
  PROVE  crowded => crowded'
<1>1. CASE UNCHANGED cartVars
  BY <1>1 DEF cartVars
<1>2. CASE \E h \in Handlers : ServerStep(h)
  BY <1>2 DEF ServerStep, ReadCart, WriteCart
<1>3. CASE SignIn \/ SignOut
  BY <1>3 DEF SignIn, SignOut
<1>4. CASE \E t \in Tabs : OpenTab(t) \/ CloseTab(t) \/ Add(t) \/ RequestFails(t)
  BY <1>4 DEF OpenTab, CloseTab, Add, RequestFails
<1>5. CASE \E t \in Tabs : TabStep(t)
  BY <1>5
  DEF TabStep, Start, UserGone, ClearLines, ClearIntent, ClearMeta, Locked, Fetch, Merge,
      NoMerge, Merged, Remember, Replace, Forget, Edits, SaveStart, Save, Saved, SaveRefused
<1> QED BY <1>1, <1>2, <1>3, <1>4, <1>5 DEF CartNext

LEMMA BooksTabStep ==
  ASSUME Typed, Tidy, Calls, Versions, Books, NEW t \in Tabs,
         \/ TabStep(t) \/ OpenTab(t) \/ CloseTab(t) \/ Add(t) \/ RequestFails(t)
  PROVE  Books'
<1>1. PICK f \in [Keys -> Nat] : Claims(f) /\ Balance(f)
  BY DEF Books
<1>2. CASE \E h \in Handlers : Merge(t, h)
  <2>1. PICK h \in Handlers : Merge(t, h)
    BY <1>2
  <2>2. CASE tab[t].intent # NoIntent
    BY <1>1, <2>1, <2>2, MergeAgain DEF Books
  <2>3. CASE tab[t].intent = NoIntent
    <3>1. PICK fnew : fnew = [f EXCEPT ![minted + 1] = tab[t].before]
      OBVIOUS
    <3>2. fnew \in [Keys -> Nat] /\ Claims(fnew)' /\ Balance(fnew)'
      BY <1>1, <2>1, <2>3, <3>1, MergeNew
    <3> QED BY <3>2 DEF Books
  <2> QED BY <2>2, <2>3
<1>3. CASE \A h \in Handlers : ~Merge(t, h)
  <2>1. Claims(f)'
    BY <1>1, <1>3, ClaimsTabStep
  <2>2. CASE Quiet(t)
    BY <1>1, <2>1, <2>2, BalanceQuiet DEF Books
  <2>3. CASE ClearLines(t) \/ ClearIntent(t) \/ ClearMeta(t)
    BY <1>1, <2>1, <2>3, BalanceClear DEF Books
  <2>4. CASE Add(t)
    BY <1>1, <2>1, <2>4, BalanceAdd DEF Books
  <2>5. CASE Remember(t)
    BY <1>1, <2>1, <2>5, BalanceRemember DEF Books
  <2> QED BY <1>3, <2>2, <2>3, <2>4, <2>5 DEF TabStep, Quiet
<1> QED BY <1>2, <1>3

LEMMA BooksServer ==
  ASSUME Typed, Calls, Versions, Books, NEW h \in Handlers, ServerStep(h)
  PROVE  Books'
<1>1. PICK f \in [Keys -> Nat] : Claims(f) /\ Balance(f)
  BY DEF Books
<1>2. CASE ReadCart(h)
  BY <1>1, <1>2, ClaimsReadCart, BalanceReadCart DEF Books
<1>3. CASE WriteCart(h)
  BY <1>1, <1>3, ClaimsWriteCart, BalanceWriteCart DEF Books
<1> QED BY <1>2, <1>3 DEF ServerStep

LEMMA BooksKept ==
  ASSUME Books, UNCHANGED <<cart, disk, tab, handler, minted, put>>
  PROVE  Books'
<1>1. PICK f \in [Keys -> Nat] : Claims(f) /\ Balance(f)
  BY DEF Books
<1>2. Claims(f)'
  BY <1>1 DEF Claims, Claim, CallClaims
<1>3. Balance(f)'
  BY <1>1 DEF Balance, CouldBe, CallCould, OwnCould, More, DiskMore, OwnMore, Owed
<1> QED BY <1>2, <1>3 DEF Books

LEMMA BooksInit == CartInit => Books
<1> SUFFICES ASSUME CartInit PROVE Books
  OBVIOUS
<1>1. /\ cart.qty = 0 /\ cart.keys = {} /\ minted = 0 /\ put = Guest /\ Guest \in Nat
      /\ disk.lines = Guest /\ disk.intent = NoIntent /\ NoIntent.lines = 0
  BY CartAssumption, Nones DEF CartInit
<1>2. \A t \in Tabs : tab[t].pc = "closed" /\ tab[t].synced = FALSE /\ tab[t].intent = NoIntent
  BY DEF CartInit, Closed, Fresh
<1>3. \A h \in Handlers : handler[h].pc = "free"
  BY NoCallRests DEF CartInit
<1> DEFINE f == [k \in Keys |-> 0]
<1>4. f \in [Keys -> Nat]
  OBVIOUS
<1> HIDE DEF f
<1>5. Claims(f)
  BY <1>1, <1>2, <1>3 DEF Claims, Claim, CallClaims
<1>6. Owed(f) = 0
  <2>1. (1..minted) \ cart.keys = {}
    BY <1>1
  <2> QED BY <2>1, SumOfNone, Zenon DEF Owed
<1>7. \A x \in Int : CouldBe(x) => x = 0
  BY <1>1, <1>2, <1>3 DEF CouldBe, CallCould, OwnCould, Applying
<1>8. \A g \in Int : More(g) => g = 0 \/ g = Guest
  BY <1>1, <1>2 DEF More, DiskMore, OwnMore, Comparing
<1>9. Balance(f)
  BY <1>1, <1>6, <1>7, <1>8 DEF Balance
<1> QED BY <1>4, <1>5, <1>9 DEF Books

LEMMA CartInvStep == CartInv /\ [CartNext]_cartVars => CartInv'
<1> SUFFICES ASSUME CartInv, [CartNext]_cartVars
             PROVE  CartInv'
  OBVIOUS
<1>0. Typed /\ Calls /\ Versions /\ (~crowded' => Tidy /\ Books)
  BY CrowdedStays DEF CartInv, Undoubled
<1>1. CASE \E t \in Tabs : TabStep(t) \/ OpenTab(t) \/ CloseTab(t) \/ Add(t) \/ RequestFails(t)
  <2>1. Typed' /\ Calls' /\ Versions'
    BY <1>0, <1>1, TypedTabStep, CallsTabStep, VersionsTabStep
  <2>2. ~crowded' => Tidy' /\ Books'
    BY <1>0, <1>1, TidyTabStep, BooksTabStep
  <2> QED BY <2>1, <2>2 DEF CartInv, Undoubled
<1>2. CASE \E h \in Handlers : ServerStep(h)
  <2>1. PICK h \in Handlers : ServerStep(h)
    BY <1>2
  <2>2. Typed' /\ Calls' /\ Versions'
    BY <1>0, <2>1, TypedReadCart, TypedWriteCart, CallsReadCart, CallsWriteCart,
       VersionsReadCart, VersionsWriteCart DEF ServerStep
  <2>3. ~crowded' => Tidy'
    BY <1>0, <2>1, TidyServer DEF ServerStep, ReadCart, WriteCart
  <2>4. ~crowded' => Books'
    BY <1>0, <2>1, BooksServer
  <2> QED BY <2>2, <2>3, <2>4 DEF CartInv, Undoubled
<1>3. CASE SignIn \/ SignOut
  <2>1. UNCHANGED <<cart, disk, tab, handler, minted, put>>
    BY <1>3 DEF SignIn, SignOut
  <2>2. Typed' /\ Calls' /\ Versions'
    BY <1>0, <1>3, <2>1, TypedSession, VersionsKept DEF Calls, CallOf, Is
  <2>3. ~crowded' => Tidy' /\ Books'
    BY <1>0, <1>3, <2>1, TidySession, BooksKept
  <2> QED BY <2>2, <2>3 DEF CartInv, Undoubled
<1>4. CASE UNCHANGED cartVars
  <2>1. UNCHANGED <<cart, disk, tab, handler, minted, put>> /\ UNCHANGED <<tab, disk, lock, session>>
    BY <1>4 DEF cartVars
  <2>2. Calls' /\ Versions' /\ Typed'
    BY <1>0, <1>4, VersionsKept DEF Calls, CallOf, Is, Typed, MergeHasKey, cartVars
  <2>3. ~crowded' => Tidy' /\ Books'
    BY <1>0, <2>1, TidyServer, BooksKept
  <2> QED BY <2>2, <2>3 DEF CartInv, Undoubled
<1> QED BY <1>1, <1>2, <1>3, <1>4 DEF CartNext

LEMMA CartInvInit == CartInit => CartInv
  BY TypedInit, TidyInit, CallsInit, VersionsInit, BooksInit DEF CartInv, Undoubled

\* Every variable keeps its type, whatever the tabs and the requests do.
THEOREM CartTypeCorrect == CartSpec => []CartTypeOK
<1>1. CartInv => CartTypeOK
  BY TypedTypeOK DEF CartInv
<1> QED BY <1>1, CartInvInit, CartInvStep, PTL DEF CartSpec

\* The account's cart never has more than the customer put in, as long as no
\* sign-out met another tab: no merge is added twice and no guest's lines
\* count besides the merge they became.
THEOREM NothingAddedTwice == CartSpec => []NothingDoubled
<1>1. CartInv => NothingDoubled
  <2> SUFFICES ASSUME CartInv, ~crowded PROVE cart.qty <= put
    BY DEF NothingDoubled
  <2>1. PICK f \in [Keys -> Nat] : Claims(f) /\ Balance(f)
    BY DEF CartInv, Undoubled, Books
  <2>2. cart.qty \in Nat /\ minted \in Nat /\ put \in Nat
    BY Parts DEF CartInv, Typed
  <2>3. cart.qty + 0 + Owed(f) <= put
    BY <2>1, <2>2 DEF Balance, CouldBe, More
  <2>4. Owed(f) \in Nat
    BY <2>2, OwedType
  <2> QED BY <2>2, <2>3, <2>4
<1> QED BY <1>1, CartInvInit, CartInvStep, PTL DEF CartSpec

\* A save replaces the cart only when its tab has had the cart it replaces.
THEOREM SavesLoseNothing == CartSpec => NoLostUpdate
<1> DEFINE A == \A t \in Tabs : LET h == tab[t].call IN
       h # Nothing /\ handler[h].op = "save" /\ handler[h].pc = "write"
                   /\ handler'[h].pc = "replied"
         => tab[t].ack = cart.qty
<1>1. CartInv /\ [CartNext]_cartVars => [A]_cartVars
  BY SavesReplaceTheirOwn DEF CartInv
<1>2. CartSpec => [][A]_cartVars
  <2> HIDE DEF A
  <2> QED BY <1>1, CartInvInit, CartInvStep, PTL DEF CartSpec
<1> QED BY <1>2 DEF NoLostUpdate
=============================================================================
