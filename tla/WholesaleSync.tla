---------------------------- MODULE WholesaleSync ----------------------------
(***************************************************************************)
(* A wholesale order on its way to KiotViet (shopOrders/wholesaleSync.ts): *)
(* the order document is the outbox, workers lease it, check the buyer,    *)
(* and POST it.  KiotViet offers no way to make a POST idempotent, so one  *)
(* that was started is never sent again.  Edits of the order are kept off  *)
(* with a lease of their own (wholesaleSyncGuard.ts), and staff queue the  *)
(* order again or settle an unknown result (wholesaleSyncAdmin.ts).        *)
(*                                                                         *)
(* Orders do not meet: the module is about one.  An action is one update   *)
(* of the order, with the reads before it.                                 *)
(***************************************************************************)
EXTENDS Integers

CONSTANTS
  Workers,    \* processes that run startWholesaleOrderSync
  Editors,    \* requests that change or cancel the order
  Attempts,   \* failed preparations before staff have to look: 5 in the code
  MaxChanges, \* bound: how often the order's revision moves
  MaxDeaths,  \* bound: how many workers and editors die half way
  NoOwner     \* no worker, no editor

ASSUME SyncAssumption ==
  /\ Attempts \in Nat \ {0} /\ MaxChanges \in Nat /\ MaxDeaths \in Nat
  /\ Workers \cap Editors = {} /\ NoOwner \notin Workers \cup Editors

VARIABLES
  sale,   \* the order document
  buyer,  \* the buyer's account
  wire,   \* whether a POST is on its way to KiotViet
  posts,  \* orders KiotViet has made of it
  sync,   \* Workers -> locals of syncWholesaleOrder
  edit,   \* Editors -> where the guarded request is
  deaths  \* processes that died

syncVars == <<sale, buyer, wire, posts, sync, edit, deaths>>

-----------------------------------------------------------------------------
(* State *)

\* queued stands for retry_wait and awaiting_customer_link as well, which a
\* worker takes up too; stopped for cancelled, needs_review, account_review,
\* customer_review and the statuses of orders not confirmed.
Push == {"queued", "preparing", "sending", "unknown", "stopped", "synced"}

Lease == {"free", "live", "lapsed"}

Sale == [push : Push, owner : Workers \cup {NoOwner}, lease : Lease,
         editor : Editors \cup {NoOwner}, editLease : Lease,
         revision : Nat, cancelled : BOOLEAN, failed : Nat,
         started : BOOLEAN,          \* kvSyncStartedAt
         sent : Nat,                 \* the revision that was sent
         linked : BOOLEAN]           \* kvOrderId

\* Where staff and provisioning bring an account, in this order.
Buyer == {"unlinked", "linked", "changed", "closed"}

Idle == [pc |-> "idle", revision |-> 0, buyer |-> "closed"]

\* What a worker keeps of syncWholesaleOrder between its awaits.
Local == [pc : {"idle", "found", "check", "lookup", "again", "send", "post",
                "stop", "fail"},
          revision : Nat, buyer : Buyer]

SyncTypeOK ==
  /\ sale \in Sale
  /\ buyer \in Buyer
  /\ wire \in BOOLEAN
  /\ posts \in Nat
  /\ sync \in [Workers -> Local]
  /\ edit \in [Editors -> {"idle", "granted", "written"}]
  /\ deaths \in 0..MaxDeaths

SyncInit ==
  /\ sale = [push |-> "queued", owner |-> NoOwner, lease |-> "free",
             editor |-> NoOwner, editLease |-> "free", revision |-> 0,
             cancelled |-> FALSE, failed |-> 0, started |-> FALSE, sent |-> 0,
             linked |-> FALSE]
  /\ buyer \in {"unlinked", "linked"}
  /\ wire = FALSE
  /\ posts = 0
  /\ sync = [w \in Workers |-> Idle]
  /\ edit = [e \in Editors |-> "idle"]
  /\ deaths = 0

At(w, pc) == sync[w].pc = pc
To(w, pc) == sync' = [sync EXCEPT ![w].pc = pc]

-----------------------------------------------------------------------------
(* The worker's tick, and the leases                                       *)

\* Mutant: only orders that are still to be sent are looked for.
TickUnsent(w) ==
  /\ At(w, "idle")
  /\ sale.push \in {"queued", "preparing"} /\ ~sale.linked /\ sale.lease # "live"
  /\ To(w, "found")
  /\ UNCHANGED <<sale, buyer, wire, posts, edit, deaths>>

\* Orders whose result was never written are looked for as well.
Tick(w) ==
  /\ At(w, "idle")
  /\ sale.push \in {"queued", "preparing", "sending"}
  /\ ~sale.linked /\ sale.lease # "live"
  /\ To(w, "found")
  /\ UNCHANGED <<sale, buyer, wire, posts, edit, deaths>>

\* A lease that ran out after the POST leaves an unknown result.
Expire(w) ==
  /\ At(w, "found")
  /\ sale.push = "sending" /\ sale.lease = "lapsed"
  /\ sale' = [sale EXCEPT !.push = "unknown"]
  /\ UNCHANGED <<buyer, wire, posts, sync, edit, deaths>>

\* Mutant: the lease of an edit does not keep the worker off.
MayClaimAnyTime ==
  sale.push \in {"queued", "preparing"} /\ ~sale.linked /\ sale.lease # "live"

MayClaim ==
  /\ sale.push \in {"queued", "preparing"} /\ ~sale.linked
  /\ sale.lease # "live" /\ sale.editLease # "live"

\* The order is read with the claim, and refused if it was cancelled.
Claim(w) ==
  /\ At(w, "found")
  /\ ~(sale.push = "sending" /\ sale.lease = "lapsed")
  /\ IF MayClaim
       THEN /\ sale' = [sale EXCEPT !.push = "preparing", !.owner = w, !.lease = "live"]
            /\ sync' = [sync EXCEPT ![w] = [revision |-> sale.revision, buyer |-> buyer,
                   pc |-> IF sale.cancelled THEN "stop" ELSE "check"]]
       ELSE sync' = [sync EXCEPT ![w] = Idle] /\ UNCHANGED sale
  /\ UNCHANGED <<buyer, wire, posts, edit, deaths>>

\* Assumed: a worker prepares an order within its lease of ten minutes.  The
\* lease may run out while it waits for an answer, or when it is dead.
Lapse ==
  /\ sale.lease = "live"
  /\ sale.owner = NoOwner \/ sync[sale.owner].pc \in {"idle", "found", "post"}
  /\ sale' = [sale EXCEPT !.lease = "lapsed"]
  /\ UNCHANGED <<buyer, wire, posts, sync, edit, deaths>>

\* stop and the end of an attempt: nothing when the order has a new owner.
Write(w, push, failed) ==
  /\ sale' = IF sale.owner # w THEN sale
       ELSE [sale EXCEPT !.push = push, !.failed = @ + failed,
                         !.owner = NoOwner, !.lease = "free"]
  /\ sync' = [sync EXCEPT ![w] = Idle]
  /\ UNCHANGED <<buyer, wire, posts, edit, deaths>>

-----------------------------------------------------------------------------
(* syncWholesaleOrder, from its claim to the answer                        *)

\* The buyer may have no KiotViet customer yet, and gets one if all is well.
Check(w) ==
  /\ At(w, "check")
  /\ \/ /\ buyer # "closed"
        /\ buyer' = IF buyer = "unlinked" THEN "linked" ELSE buyer
        /\ sync' = [sync EXCEPT ![w].pc = "lookup", ![w].buyer = buyer']
     \/ /\ UNCHANGED buyer
        /\ \E pc \in {"stop", "fail"} : To(w, pc)
  /\ UNCHANGED <<sale, wire, posts, edit, deaths>>

\* KiotViet knows the customer, knows another, or does not answer.
Lookup(w) ==
  /\ At(w, "lookup")
  /\ \E pc \in {"again", "stop", "fail"} : To(w, pc)
  /\ UNCHANGED <<sale, buyer, wire, posts, edit, deaths>>

ReadAgain(w) ==
  /\ At(w, "again")
  /\ To(w, IF buyer = sync[w].buyer THEN "send" ELSE "stop")
  /\ UNCHANGED <<sale, buyer, wire, posts, edit, deaths>>

Stop(w) == At(w, "stop") /\ Write(w, "stopped", 0)

UnchangedSince(w) ==
  /\ sale.owner = w /\ sale.push = "preparing" /\ ~sale.linked
  /\ sale.revision = sync[w].revision

\* The last update before the POST compares the order with what was read.
Send(w) ==
  /\ At(w, "send")
  /\ IF UnchangedSince(w)
       THEN /\ sale' = [sale EXCEPT !.push = "sending", !.started = TRUE,
                                    !.sent = sync[w].revision]
            /\ wire' = TRUE
            /\ To(w, "post")
       ELSE /\ To(w, "stop")
            /\ UNCHANGED <<sale, wire>>
  /\ UNCHANGED <<buyer, posts, edit, deaths>>

\* The request reaches KiotViet, however late, or is lost.
Arrives ==
  /\ wire
  /\ wire' = FALSE
  /\ posts' \in {posts, posts + 1}
  /\ UNCHANGED <<sale, buyer, sync, edit, deaths>>

Answer(w) ==
  /\ At(w, "post")
  /\ ~wire /\ posts > 0
  /\ sale' = IF sale.owner # w THEN sale
       ELSE [sale EXCEPT !.push = "synced", !.linked = TRUE,
                         !.owner = NoOwner, !.lease = "free"]
  /\ sync' = [sync EXCEPT ![w] = Idle]
  /\ UNCHANGED <<buyer, wire, posts, edit, deaths>>

\* Mutant: a POST that timed out counts as one more failed attempt.
NoAnswerRetry(w) ==
  At(w, "post") /\ Write(w, IF sale.failed + 1 >= Attempts THEN "stopped" ELSE "queued", 1)

NoAnswer(w) == At(w, "post") /\ Write(w, "unknown", 1)

Fail(w) ==
  At(w, "fail") /\ Write(w, IF sale.failed + 1 >= Attempts THEN "stopped" ELSE "queued", 1)

-----------------------------------------------------------------------------
(* Edits, staff and faults                                                 *)

\* registerWholesaleSyncGuard refuses a request while the order is sent.
EditStart(e) ==
  /\ edit[e] = "idle" /\ sale.revision < MaxChanges
  /\ sale.push \notin {"sending", "unknown"}
  /\ sale.lease # "live" /\ sale.editLease # "live"
  /\ sale' = [sale EXCEPT !.editor = e, !.editLease = "live"]
  /\ edit' = [edit EXCEPT ![e] = "granted"]
  /\ UNCHANGED <<buyer, wire, posts, sync, deaths>>

\* The order is changed or cancelled; updatedAt tells in any case.
EditWrite(e) ==
  /\ edit[e] = "granted"
  /\ \E cancels \in BOOLEAN :
       sale' = [sale EXCEPT !.revision = @ + 1, !.cancelled = @ \/ cancels]
  /\ edit' = [edit EXCEPT ![e] = "written"]
  /\ UNCHANGED <<buyer, wire, posts, sync, deaths>>

EditEnd(e) ==
  /\ edit[e] \in {"granted", "written"}
  /\ sale' = IF sale.editor = e THEN [sale EXCEPT !.editor = NoOwner, !.editLease = "free"]
             ELSE sale
  /\ edit' = [edit EXCEPT ![e] = "idle"]
  /\ UNCHANGED <<buyer, wire, posts, sync, deaths>>

\* A running request renews its lease; that of a dead one runs out.
EditLapse ==
  /\ sale.editLease = "live"
  /\ edit[sale.editor] = "idle"
  /\ sale' = [sale EXCEPT !.editLease = "lapsed"]
  /\ UNCHANGED <<buyer, wire, posts, sync, edit, deaths>>

MayQueue == sale.push \in {"stopped", "queued"} /\ ~sale.started

StaffQueue ==
  /\ MayQueue /\ ~sale.linked /\ ~sale.cancelled
  /\ sale.revision < MaxChanges
  /\ sale' = [sale EXCEPT !.push = "queued", !.revision = @ + 1]
  /\ UNCHANGED <<buyer, wire, posts, sync, edit, deaths>>

\* Staff name the order that KiotViet has, found by its marker.
StaffReconcile ==
  /\ sale.push = "unknown" /\ ~sale.linked
  /\ posts > 0
  /\ sale' = [sale EXCEPT !.push = "synced", !.linked = TRUE]
  /\ UNCHANGED <<buyer, wire, posts, sync, edit, deaths>>

BuyerChanges ==
  /\ buyer' = CASE buyer = "unlinked" -> "linked" [] buyer = "linked" -> "changed"
                [] OTHER -> "closed"
  /\ buyer # "closed"
  /\ UNCHANGED <<sale, wire, posts, sync, edit, deaths>>

Die ==
  /\ deaths < MaxDeaths
  /\ deaths' = deaths + 1
  /\ \/ \E w \in Workers :
          /\ ~At(w, "idle")
          /\ sync' = [sync EXCEPT ![w] = Idle] /\ UNCHANGED edit
     \/ \E e \in Editors :
          /\ edit[e] # "idle"
          /\ edit' = [edit EXCEPT ![e] = "idle"] /\ UNCHANGED sync
  /\ UNCHANGED <<sale, buyer, wire, posts>>

-----------------------------------------------------------------------------

WorkerStep(w) ==
  \/ Tick(w) \/ Expire(w) \/ Claim(w) \/ Check(w) \/ Lookup(w) \/ ReadAgain(w)
  \/ Stop(w) \/ Send(w) \/ Answer(w) \/ NoAnswer(w) \/ Fail(w)

SyncNext ==
  \/ \E w \in Workers : WorkerStep(w)
  \/ \E e \in Editors : EditStart(e) \/ EditWrite(e) \/ EditEnd(e)
  \/ Lapse \/ EditLapse \/ Arrives \/ StaffQueue \/ StaffReconcile \/ BuyerChanges \/ Die

\* The timer ticks while a process lives, a request ends, a lease runs out.
SyncFairness ==
  /\ \A w \in Workers : WF_syncVars(WorkerStep(w))
  /\ WF_syncVars(Lapse)

SyncSpec == SyncInit /\ [][SyncNext]_syncVars /\ SyncFairness

-----------------------------------------------------------------------------
(* Properties                                                              *)

\* KiotViet never makes two orders of one: a POST that was started is never
\* retried, by a worker, after a crash or by staff (wholesaleSync.ts:14).
PostedOnce == posts + (IF wire THEN 1 ELSE 0) <= 1

\* An order is not edited or cancelled between the update that starts its
\* POST and the result being known: KiotViet gets it as it stands.
SentAsItStands ==
  wire \/ (sale.push \in {"sending", "unknown"} /\ ~sale.linked) =>
    sale.revision = sale.sent /\ ~sale.cancelled

\* Whoever dies, an order that was being sent is marked as synced or unknown
\* in the end, where staff see it.
SendingEnds == sale.push = "sending" ~> sale.push \in {"synced", "unknown"}
=============================================================================
