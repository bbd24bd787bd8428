------------------------------ MODULE CartSync ------------------------------
(***************************************************************************)
(* The cart of one customer: tabs of one browser that keep it in memory    *)
(* and on the disk they share (frontend/lib/cartSync.ts), and the account's*)
(* cart on the server (backend/shopCart/writes.ts).  What a guest put in   *)
(* the cart is added to the account's at sign-in, under a key that the     *)
(* server remembers; later changes are saved against a revision.           *)
(*                                                                         *)
(* A cart is the quantity of one product.  An action is what a tab does    *)
(* between two awaits, or one query of a handler; where a tab writes to    *)
(* the disk several times in a row each write is an action, for the tab    *)
(* may be closed in between.                                               *)
(***************************************************************************)
EXTENDS Integers, FiniteSets

CONSTANTS
  Tabs,        \* tabs of the browser
  Handlers,    \* requests the server works on at a time
  Guest,       \* what the guest has in the cart at first
  MaxEdits,    \* bound: how often the customer adds one to the cart
  MaxFaults,   \* bound: answers lost and tabs closed
  MaxSignOuts, \* bound: how often the customer signs out
  Nothing      \* no tab, no key, no request

ASSUME CartAssumption ==
  /\ Guest \in Nat /\ MaxEdits \in Nat /\ MaxFaults \in Nat /\ MaxSignOuts \in Nat
  /\ Nothing \notin Tabs \cup Handlers \cup Nat

VARIABLES
  cart,     \* the account's cart on the server
  disk,     \* localStorage: the lines, META_KEY and MERGE_KEY
  tab,      \* Tabs -> the memory of a tab
  lock,     \* the Web Lock of the tabs
  handler,  \* Handlers -> a request the server works on
  session,  \* the customer is signed in
  minted,   \* merge keys made so far
  put,      \* how much the customer has put in carts, all in all
  faults,
  signOuts,
  crowded   \* history: a sign-out met another tab, see OneTab and OpenTab

cartVars == <<cart, disk, tab, lock, handler, session, minted, put, faults, signOuts, crowded>>

-----------------------------------------------------------------------------
(* State *)

Keys == Nat \ {0}

NoIntent == [key |-> Nothing, lines |-> 0]
NoMeta == [there |-> FALSE, key |-> Nothing]

\* A tab as it opens: the lines of the disk, not synced with any account.
Fresh(lines) ==
  [pc |-> "boot", lines |-> lines, user |-> FALSE, synced |-> FALSE, rev |-> 0,
   ack |-> 0, before |-> 0, intent |-> NoIntent, meta |-> NoMeta, call |-> Nothing,
   resp |-> [qty |-> 0, rev |-> 0], more |-> 0]

Closed == [Fresh(0) EXCEPT !.pc = "closed"]

NoCall == [pc |-> "free", op |-> "save", key |-> Nothing, lines |-> 0, rev |-> 0,
           seen |-> [qty |-> 0, rev |-> 0, keys |-> {}], resp |-> [qty |-> 0, rev |-> 0]]

CartAnswer == [qty : Nat, rev : Nat]

Syncing == {"lock", "fetch", "fetched", "merging", "apply"}
Writing == {"replace", "forget", "edits", "clear", "intentOut", "metaOut"}
Saving == {"save", "saving", "conflict"}

CartTypeOK ==
  /\ cart \in [qty : Nat, rev : Nat, keys : SUBSET Keys]
  /\ disk \in [lines : Nat, meta : [there : BOOLEAN, key : Keys \cup {Nothing}],
               intent : [key : Keys \cup {Nothing}, lines : Nat]]
  /\ tab \in [Tabs -> [pc : {"closed", "boot", "idle"} \cup Syncing \cup Writing \cup Saving,
       lines : Nat, user : BOOLEAN, synced : BOOLEAN, rev : Nat, ack : Nat, before : Nat,
       intent : [key : Keys \cup {Nothing}, lines : Nat],
       meta : [there : BOOLEAN, key : Keys \cup {Nothing}],
       call : Handlers \cup {Nothing}, resp : CartAnswer, more : Int]]
  /\ lock \in Tabs \cup {Nothing}
  /\ \A h \in Handlers :
       /\ handler[h].pc \in {"free", "read", "write", "replied", "refused"}
       /\ handler[h].op \in {"merge", "save"}
  /\ session \in BOOLEAN
  /\ faults \in 0..MaxFaults /\ signOuts \in 0..MaxSignOuts
  /\ crowded \in BOOLEAN

CartInit ==
  /\ cart = [qty |-> 0, rev |-> 0, keys |-> {}]
  /\ disk = [lines |-> Guest, meta |-> NoMeta, intent |-> NoIntent]
  /\ tab = [t \in Tabs |-> Closed]
  /\ lock = Nothing
  /\ handler = [h \in Handlers |-> NoCall]
  /\ session = FALSE
  /\ minted = 0
  /\ put = Guest
  /\ faults = 0
  /\ signOuts = 0
  /\ crowded = FALSE

Is(t, pc) == tab[t].pc = pc
Unlocked(t) == IF lock = t THEN Nothing ELSE lock

\* What a tab forgets when it has nothing under way.
Rested(m) == [m EXCEPT !.pc = "idle", !.before = 0, !.intent = NoIntent, !.meta = NoMeta,
                     !.call = Nothing, !.resp = [qty |-> 0, rev |-> 0], !.more = 0]

\* A handler nobody waits for any more goes on; its answer is dropped.
Dropped(t) ==
  [h \in Handlers |-> IF tab[t].call = h /\ handler[h].pc \in {"replied", "refused"}
                        THEN NoCall ELSE handler[h]]

-----------------------------------------------------------------------------
(* The server: mergeCart and saveCart                                      *)

Waited(h) == \E t \in Tabs : tab[t].call = h

\* The row is read.  A merge done before answers with the cart as it is, a
\* save of another revision is refused.
ReadCart(h) ==
  LET r == handler[h]
      pc == CASE r.op = "merge" /\ r.key \in cart.keys -> "replied"
              [] r.op = "save" /\ r.rev # cart.rev -> "refused"
              [] OTHER -> "write"
  IN
  /\ r.pc = "read"
  /\ handler' = [handler EXCEPT ![h] =
       IF pc = "write" THEN [@ EXCEPT !.pc = pc, !.seen = cart]
       ELSE IF ~Waited(h) THEN NoCall
       ELSE [@ EXCEPT !.pc = pc, !.resp = [qty |-> cart.qty, rev |-> cart.rev]]]
  /\ UNCHANGED <<cart, disk, tab, lock, session, minted, put, faults, signOuts, crowded>>

\* Mutant: the row is written whatever its revision.
SameVersionAny(h) == TRUE

SameVersion(h) == cart.rev = handler[h].seen.rev

\* versionFilter: a merge reads again when the row has changed.
WriteCart(h) ==
  LET r == handler[h]
      qty == IF r.op = "merge" THEN r.seen.qty + r.lines ELSE r.lines
      keys == IF r.op = "merge" THEN r.seen.keys \cup {r.key} ELSE cart.keys
  IN
  /\ r.pc = "write"
  /\ IF SameVersion(h)
       THEN /\ cart' = [qty |-> qty, rev |-> r.seen.rev + 1, keys |-> keys]
            /\ handler' = [handler EXCEPT ![h] = IF ~Waited(h) THEN NoCall
                 ELSE [NoCall EXCEPT !.pc = "replied", !.op = r.op,
                         !.resp = [qty |-> qty, rev |-> r.seen.rev + 1]]]
       ELSE /\ handler' = [handler EXCEPT ![h] =
                 IF r.op = "merge" THEN [@ EXCEPT !.pc = "read"]
                 ELSE IF Waited(h) THEN [NoCall EXCEPT !.pc = "refused"] ELSE NoCall]
            /\ UNCHANGED cart
  /\ UNCHANGED <<disk, tab, lock, session, minted, put, faults, signOuts, crowded>>

-----------------------------------------------------------------------------
(* The customer                                                            *)

\* The tab has yet to forget the account's cart.
SigningOut(t) ==
  \/ tab[t].pc \in {"clear", "intentOut", "metaOut"}
  \/ ~session /\ (tab[t].user \/ Is(t, "boot"))

OpenTab(t) ==
  /\ Is(t, "closed")
  /\ tab' = [tab EXCEPT ![t] = Fresh(disk.lines)]
  /\ crowded' = (crowded \/ \E u \in Tabs : SigningOut(u))
  /\ UNCHANGED <<cart, disk, lock, handler, session, minted, put, faults, signOuts>>

\* A tab is closed, or dies, whatever it was doing.
CloseTab(t) ==
  /\ ~Is(t, "closed") /\ faults < MaxFaults
  /\ tab' = [tab EXCEPT ![t] = Closed]
  /\ lock' = Unlocked(t)
  /\ handler' = Dropped(t)
  /\ faults' = faults + 1
  /\ UNCHANGED <<cart, disk, session, minted, put, signOuts, crowded>>

\* The store persists the tab's lines with every change.
Add(t) ==
  /\ tab[t].pc \notin Writing \cup {"closed"}
  /\ put < Guest + MaxEdits
  /\ tab' = [tab EXCEPT ![t].lines = @ + 1]
  /\ disk' = [disk EXCEPT !.lines = tab[t].lines + 1]
  /\ put' = put + 1
  /\ UNCHANGED <<cart, lock, handler, session, minted, faults, signOuts, crowded>>

SignIn ==
  /\ ~session
  /\ session' = TRUE
  /\ UNCHANGED <<cart, disk, tab, lock, handler, minted, put, faults, signOuts, crowded>>

\* At most one tab is open, and it knows of the session.
OneTab ==
  \A t, u \in Tabs : ~Is(t, "closed") /\ ~Is(u, "closed") => t = u /\ tab[t].user

SignOut ==
  /\ session /\ signOuts < MaxSignOuts
  /\ session' = FALSE
  /\ signOuts' = signOuts + 1
  /\ crowded' = (crowded \/ ~OneTab)
  /\ UNCHANGED <<cart, disk, tab, lock, handler, minted, put, faults>>

-----------------------------------------------------------------------------
(* onShopUserChanged                                                       *)

\* A sync starts at sign-in, when a tab opens, and again after a failure.
Start(t) ==
  /\ session
  /\ Is(t, "boot") \/ (Is(t, "idle") /\ ~tab[t].synced)
  /\ tab' = [tab EXCEPT ![t] = [Rested(@) EXCEPT !.user = TRUE, !.pc = "lock"]]
  /\ UNCHANGED <<cart, disk, lock, handler, session, minted, put, faults, signOuts, crowded>>

\* The cart of an account does not become a guest's.  Answers still to come
\* belong to an earlier session and are dropped.
UserGone(t) ==
  /\ ~session
  /\ Is(t, "boot") \/ (tab[t].user /\ tab[t].pc \notin Writing)
  /\ LET was == tab[t].synced \/ disk.meta.there \/ disk.intent # NoIntent
     IN  tab' = [tab EXCEPT ![t] = [Rested(@) EXCEPT !.user = FALSE, !.synced = FALSE,
                  !.rev = 0, !.ack = 0, !.pc = IF was THEN "clear" ELSE "idle"]]
  /\ lock' = Unlocked(t)
  /\ handler' = Dropped(t)
  /\ UNCHANGED <<cart, disk, session, minted, put, faults, signOuts, crowded>>

\* Lines first: a crash must not leave them without their owner.
ClearLines(t) ==
  /\ Is(t, "clear")
  /\ tab' = [tab EXCEPT ![t].lines = 0, ![t].pc = "intentOut"]
  /\ disk' = [disk EXCEPT !.lines = 0]
  /\ UNCHANGED <<cart, lock, handler, session, minted, put, faults, signOuts, crowded>>

ClearIntent(t) ==
  /\ Is(t, "intentOut")
  /\ disk' = [disk EXCEPT !.intent = NoIntent]
  /\ tab' = [tab EXCEPT ![t].pc = "metaOut"]
  /\ UNCHANGED <<cart, lock, handler, session, minted, put, faults, signOuts, crowded>>

ClearMeta(t) ==
  /\ Is(t, "metaOut")
  /\ disk' = [disk EXCEPT !.meta = NoMeta]
  /\ tab' = [tab EXCEPT ![t].pc = "idle"]
  /\ UNCHANGED <<cart, lock, handler, session, minted, put, faults, signOuts, crowded>>

-----------------------------------------------------------------------------
(* pullOrMerge, under the Web Lock                                         *)

Locked(t) ==
  /\ Is(t, "lock") /\ lock = Nothing
  /\ lock' = t
  /\ tab' = [tab EXCEPT ![t].pc = "fetch", ![t].before = tab[t].lines,
                        ![t].meta = disk.meta, ![t].intent = disk.intent]
  /\ UNCHANGED <<cart, disk, handler, session, minted, put, faults, signOuts, crowded>>

Fetch(t) ==
  /\ session
  /\ Is(t, "fetch") \/ Is(t, "conflict")
  /\ tab' = [tab EXCEPT ![t].resp = [qty |-> cart.qty, rev |-> cart.rev],
       ![t].pc = IF @ = "fetch" THEN "fetched" ELSE "apply"]
  /\ UNCHANGED <<cart, disk, lock, handler, session, minted, put, faults, signOuts, crowded>>

Sends(t, h, op, key, lines, rev) ==
  /\ handler[h].pc = "free"
  /\ handler' = [handler EXCEPT ![h] = [NoCall EXCEPT !.pc = "read", !.op = op,
                   !.key = key, !.lines = lines, !.rev = rev]]

\* Mutant: every attempt to merge makes a key of its own.
IntentAfresh(t) ==
  IF tab[t].meta.there \/ tab[t].before = 0 THEN NoIntent
  ELSE [key |-> minted + 1, lines |-> tab[t].before]

\* The intent that waits on the disk, or a new one of a guest's lines.
Intent(t) ==
  IF tab[t].intent # NoIntent THEN tab[t].intent
  ELSE IF tab[t].meta.there \/ tab[t].before = 0 THEN NoIntent
  ELSE [key |-> minted + 1, lines |-> tab[t].before]

\* It is on the disk before it is sent.
Merge(t, h) ==
  /\ Is(t, "fetched")
  /\ Intent(t) # NoIntent
  /\ Sends(t, h, "merge", Intent(t).key, Intent(t).lines, 0)
  /\ disk' = [disk EXCEPT !.intent = Intent(t)]
  /\ minted' = IF Intent(t).key > minted THEN minted + 1 ELSE minted
  /\ tab' = [tab EXCEPT ![t].intent = Intent(t), ![t].call = h, ![t].pc = "merging"]
  /\ UNCHANGED <<cart, lock, session, put, faults, signOuts, crowded>>

NoMerge(t) ==
  /\ Is(t, "fetched")
  /\ Intent(t) = NoIntent
  /\ tab' = [tab EXCEPT ![t].pc = "apply"]
  /\ UNCHANGED <<cart, disk, lock, handler, session, minted, put, faults, signOuts, crowded>>

Merged(t) ==
  /\ Is(t, "merging") /\ handler[tab[t].call].pc = "replied"
  /\ tab' = [tab EXCEPT ![t].resp = handler[tab[t].call].resp, ![t].call = Nothing,
                        ![t].pc = "apply"]
  /\ handler' = [handler EXCEPT ![tab[t].call] = NoCall]
  /\ UNCHANGED <<cart, disk, lock, session, minted, put, faults, signOuts, crowded>>

\* What the tab's lines are compared with to find the customer's changes, which
\* a conflict drops.
Baseline(t) ==
  LET m == tab[t] IN
  IF m.synced THEN m.lines
  ELSE IF m.intent # NoIntent /\ m.meta.key # m.intent.key THEN m.intent.lines ELSE m.before

\* hydrate: the metadata, then the lines, and the intent is over.
Remember(t) ==
  /\ Is(t, "apply")
  /\ disk' = [disk EXCEPT !.meta = [there |-> TRUE, key |-> tab[t].intent.key]]
  /\ tab' = [tab EXCEPT ![t].rev = tab[t].resp.rev, ![t].ack = tab[t].resp.qty,
                        ![t].more = tab[t].lines - Baseline(t), ![t].pc = "replace"]
  /\ UNCHANGED <<cart, lock, handler, session, minted, put, faults, signOuts, crowded>>

Replace(t) ==
  /\ Is(t, "replace")
  /\ tab' = [tab EXCEPT ![t].lines = tab[t].resp.qty, ![t].pc = "forget"]
  /\ disk' = [disk EXCEPT !.lines = tab[t].resp.qty]
  /\ UNCHANGED <<cart, lock, handler, session, minted, put, faults, signOuts, crowded>>

Forget(t) ==
  /\ Is(t, "forget")
  /\ disk' = [disk EXCEPT !.intent = IF tab[t].intent # NoIntent THEN NoIntent ELSE @]
  /\ tab' = [tab EXCEPT ![t].pc = "edits"]
  /\ UNCHANGED <<cart, lock, handler, session, minted, put, faults, signOuts, crowded>>

\* applyLocalDelta: what was changed meanwhile is put on top, to be saved.
Edits(t) ==
  LET lines == tab[t].resp.qty + tab[t].more
      kept == IF lines < 0 THEN 0 ELSE lines
  IN
  /\ Is(t, "edits")
  /\ tab' = [tab EXCEPT ![t] = [Rested(@) EXCEPT !.lines = kept, !.synced = TRUE]]
  /\ disk' = IF tab[t].more = 0 THEN disk ELSE [disk EXCEPT !.lines = kept]
  /\ lock' = Unlocked(t)
  /\ UNCHANGED <<cart, handler, session, minted, put, faults, signOuts, crowded>>

-----------------------------------------------------------------------------
(* pushCartToServerNow                                                     *)

SaveStart(t) ==
  /\ Is(t, "idle") /\ tab[t].user /\ tab[t].synced
  /\ tab[t].lines # tab[t].ack
  /\ tab' = [tab EXCEPT ![t].pc = "save"]
  /\ UNCHANGED <<cart, disk, lock, handler, session, minted, put, faults, signOuts, crowded>>

Save(t, h) ==
  /\ session
  /\ Is(t, "save") /\ lock = Nothing
  /\ Sends(t, h, "save", Nothing, tab[t].lines, tab[t].rev)
  /\ lock' = t
  /\ tab' = [tab EXCEPT ![t].call = h, ![t].pc = "saving"]
  /\ UNCHANGED <<cart, disk, session, minted, put, faults, signOuts, crowded>>

Saved(t) ==
  /\ Is(t, "saving") /\ handler[tab[t].call].pc = "replied"
  /\ disk' = [disk EXCEPT !.meta = [there |-> TRUE, key |-> Nothing]]
  /\ tab' = [tab EXCEPT ![t] = [Rested(@) EXCEPT !.rev = handler[tab[t].call].resp.rev,
                                              !.ack = handler[tab[t].call].resp.qty]]
  /\ lock' = Unlocked(t)
  /\ handler' = [handler EXCEPT ![tab[t].call] = NoCall]
  /\ UNCHANGED <<cart, session, minted, put, faults, signOuts, crowded>>

\* cart_conflict: the latest cart replaces the tab's, and the customer is told.
SaveRefused(t) ==
  /\ Is(t, "saving") /\ handler[tab[t].call].pc = "refused"
  /\ tab' = [tab EXCEPT ![t].pc = "conflict", ![t].call = Nothing]
  /\ handler' = [handler EXCEPT ![tab[t].call] = NoCall]
  /\ UNCHANGED <<cart, disk, lock, session, minted, put, faults, signOuts, crowded>>

\* A request fails, or its answer does not come in time; the server may
\* still be at work on it.  The tab tries again later.
RequestFails(t) ==
  /\ tab[t].pc \in {"fetch", "merging", "saving", "conflict"}
  /\ faults < MaxFaults
  /\ tab' = [tab EXCEPT ![t] = Rested(@)]
  /\ lock' = Unlocked(t)
  /\ handler' = Dropped(t)
  /\ faults' = faults + 1
  /\ UNCHANGED <<cart, disk, session, minted, put, signOuts, crowded>>

-----------------------------------------------------------------------------

TabStep(t) ==
  \/ Start(t) \/ UserGone(t) \/ ClearLines(t) \/ ClearIntent(t) \/ ClearMeta(t)
  \/ Locked(t) \/ Fetch(t) \/ (\E h \in Handlers : Merge(t, h)) \/ NoMerge(t) \/ Merged(t)
  \/ Remember(t) \/ Replace(t) \/ Forget(t) \/ Edits(t)
  \/ SaveStart(t) \/ (\E h \in Handlers : Save(t, h)) \/ Saved(t) \/ SaveRefused(t)

ServerStep(h) == ReadCart(h) \/ WriteCart(h)

CartNext ==
  \/ \E t \in Tabs : TabStep(t) \/ OpenTab(t) \/ CloseTab(t) \/ Add(t) \/ RequestFails(t)
  \/ \E h \in Handlers : ServerStep(h)
  \/ SignIn \/ SignOut

CartSpec == CartInit /\ [][CartNext]_cartVars

-----------------------------------------------------------------------------
(* Properties                                                              *)

\* Nothing is added to the account's cart twice, whatever answer was lost or
\* tab closed: it never has more than the customer put in
\* (tests/cart-sync.test.ts:34 and 145, cartSync.ts:222).  Said only of a
\* browser that at every sign-out had one tab open, which knew of the session,
\* and that opened none during it.  It is false otherwise: another tab keeps
\* the account's lines, writes them to the disk that was cleared
\* (cartSync.ts:222-228), and the next sign-in merges them as a guest's.
NothingDoubled == ~crowded => cart.qty <= put

\* A save replaces the account's cart only when its tab has had the cart that
\* it replaces: no tab borrows the revision another tab or a sign-in has
\* brought about (cartSync.ts:16, writes.ts:28).
NoLostUpdate ==
  [][\A t \in Tabs : LET h == tab[t].call IN
       h # Nothing /\ handler[h].op = "save" /\ handler[h].pc = "write"
                   /\ handler'[h].pc = "replied"
         => tab[t].ack = cart.qty]_cartVars
=============================================================================
