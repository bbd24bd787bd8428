------------------------- MODULE WholesaleSyncProofs -------------------------
(***************************************************************************)
(* Proofs about WholesaleSync, for any number of workers, editors, changes *)
(* and deaths:                                                             *)
(*   SyncTypeCorrect   SyncTypeOK is an invariant;                         *)
(*   NeverPostedTwice  so is PostedOnce;                                   *)
(*   NeverSentStale    so is SentAsItStands.                               *)
(*                                                                         *)
(* Neither of the last two is inductive.  What they rest on is said by     *)
(* three groups of facts: what the order tells of its POST (Outbox), what  *)
(* the owner of the lease is doing (Owned), and that an edit and a worker  *)
(* that prepares the order keep each other out (Apart).                    *)
(***************************************************************************)
EXTENDS WholesaleSync, TLAPS

Preparing == {"check", "lookup", "again", "send", "stop", "fail"}

\* A POST is on its way, or its result is not known yet.
Unsettled == wire \/ (sale.push \in {"sending", "unknown"} /\ ~sale.linked)

\* The order's status tells whether a POST was started, and there is one.
Outbox ==
  /\ sale.push \in {"queued", "preparing", "stopped"} <=> ~sale.started
  /\ ~sale.started => posts = 0 /\ ~wire
  /\ posts = 0 \/ (posts = 1 /\ ~wire)
  /\ sale.push = "synced" => sale.linked
  /\ sale.linked => posts > 0
  /\ wire => sale.push \in {"sending", "unknown"}

\* The owner prepares the order under a live lease, or has posted it.
Owned ==
  \A w \in Workers : sale.owner = w =>
    /\ sync[w].pc \in Preparing => sale.push = "preparing" /\ sale.lease = "live"
    /\ sync[w].pc = "post" => sale.started

\* An edit at work holds the edit lease; meanwhile nobody prepares the order
\* and nothing is being sent.  The order a worker prepares stays as it is.
Apart ==
  /\ \A e \in Editors : edit[e] # "idle" =>
       /\ sale.editor = e /\ sale.editLease = "live"
       /\ ~Unsettled
       /\ \A w \in Workers : sale.owner = w => sync[w].pc \notin Preparing
  /\ \A w \in Workers :
       sale.owner = w /\ sync[w].pc \in {"check", "lookup", "again", "send"}
         => ~sale.cancelled

SyncInv == SyncTypeOK /\ Outbox /\ Owned /\ Apart /\ SentAsItStands

-----------------------------------------------------------------------------
(* The type invariant                                                      *)

LEMMA TypeInit == SyncInit => SyncTypeOK
<1> SUFFICES ASSUME SyncInit PROVE SyncTypeOK
  OBVIOUS
<1>1. sale \in Sale
  BY DEF SyncInit, Sale, Push, Lease
<1>2. buyer \in Buyer
  BY DEF SyncInit, Buyer
<1>3. wire \in BOOLEAN
  BY DEF SyncInit
<1>4. posts \in Nat
  BY DEF SyncInit
<1>5. sync \in [Workers -> Local]
  BY DEF SyncInit, Local, Idle, Buyer
<1>6. edit \in [Editors -> {"idle", "granted", "written"}]
  BY DEF SyncInit
<1>7. deaths \in 0..MaxDeaths
  BY SyncAssumption DEF SyncInit
<1> QED BY <1>1, <1>2, <1>3, <1>4, <1>5, <1>6, <1>7 DEF SyncTypeOK, Local

LEMMA IdleIsLocal == Idle \in Local
  BY DEF Idle, Local, Buyer

\* The end of an attempt.
LEMMA WriteTyped ==
  ASSUME SyncTypeOK, NEW w \in Workers, NEW push \in Push, NEW n \in Nat,
         Write(w, push, n)
  PROVE  SyncTypeOK'
<1>1. sale' \in Sale
  <2>1. CASE sale.owner # w
    BY <2>1 DEF Write, SyncTypeOK
  <2>2. CASE sale.owner = w
    <3>1. sale.failed + n \in Nat
      BY DEF SyncTypeOK, Sale
    <3>2. sale' = [sale EXCEPT !.push = push, !.failed = sale.failed + n,
                               !.owner = NoOwner, !.lease = "free"]
      BY <2>2 DEF Write
    <3> QED BY <3>1, <3>2 DEF SyncTypeOK, Sale, Lease
  <2> QED BY <2>1, <2>2
<1>2. sync' \in [Workers -> Local]
  BY IdleIsLocal DEF Write, SyncTypeOK, Local
<1> QED BY <1>1, <1>2 DEF Write, SyncTypeOK, Local

LEMMA WorkerTyped ==
  ASSUME SyncTypeOK, NEW w \in Workers, WorkerStep(w)
  PROVE  SyncTypeOK'
<1>1. CASE Tick(w)
  BY <1>1 DEF Tick, To, SyncTypeOK, Local
<1>2. CASE Expire(w)
  BY <1>2 DEF Expire, SyncTypeOK, Sale, Push
<1>3. CASE Claim(w)
  <2>1. CASE MayClaim
    <3>1. sale' \in Sale
      BY <1>3, <2>1 DEF Claim, SyncTypeOK, Sale, Push, Lease
    <3>2. sale.revision \in Nat
      BY DEF SyncTypeOK, Sale
    <3>3. sync' \in [Workers -> Local]
      BY <1>3, <2>1, <3>2 DEF Claim, SyncTypeOK, Local
    <3> QED BY <1>3, <3>1, <3>3 DEF Claim, SyncTypeOK, Local
  <2>2. CASE ~MayClaim
    BY <1>3, <2>2, IdleIsLocal DEF Claim, SyncTypeOK, Local
  <2> QED BY <2>1, <2>2
<1>4. CASE Check(w)
  BY <1>4 DEF Check, To, SyncTypeOK, Buyer, Local
<1>5. CASE Lookup(w)
  BY <1>5 DEF Lookup, To, SyncTypeOK, Local
<1>6. CASE ReadAgain(w)
  BY <1>6 DEF ReadAgain, To, SyncTypeOK, Local
<1>7. CASE Stop(w)
  BY <1>7, WriteTyped DEF Stop, Push
<1>8. CASE Send(w)
  <2>1. CASE UnchangedSince(w)
    <3>1. sync[w].revision \in Nat
      BY DEF SyncTypeOK, Local
    <3>2. sale' \in Sale
      BY <1>8, <2>1, <3>1 DEF Send, SyncTypeOK, Sale, Push
    <3>3. sync' \in [Workers -> Local]
      BY <1>8, <2>1 DEF Send, To, SyncTypeOK, Local
    <3> QED BY <1>8, <2>1, <3>2, <3>3 DEF Send, SyncTypeOK, Local
  <2>2. CASE ~UnchangedSince(w)
    BY <1>8, <2>2 DEF Send, To, SyncTypeOK, Local
  <2> QED BY <2>1, <2>2
<1>9. CASE Answer(w)
  <2>1. sale' \in Sale
    <3>1. CASE sale.owner # w
      BY <1>9, <3>1 DEF Answer, SyncTypeOK
    <3>2. CASE sale.owner = w
      BY <1>9, <3>2 DEF Answer, SyncTypeOK, Sale, Push, Lease
    <3> QED BY <3>1, <3>2
  <2>2. sync' \in [Workers -> Local]
    BY <1>9, IdleIsLocal DEF Answer, SyncTypeOK, Local
  <2> QED BY <1>9, <2>1, <2>2 DEF Answer, SyncTypeOK, Local
<1>10. CASE NoAnswer(w)
  BY <1>10, WriteTyped DEF NoAnswer, Push
<1>11. CASE Fail(w)
  BY <1>11, WriteTyped DEF Fail, Push
<1> QED BY <1>1, <1>2, <1>3, <1>4, <1>5, <1>6, <1>7, <1>8, <1>9, <1>10, <1>11
        DEF WorkerStep

LEMMA EditorTyped ==
  ASSUME SyncTypeOK, NEW e \in Editors, EditStart(e) \/ EditWrite(e) \/ EditEnd(e)
  PROVE  SyncTypeOK'
<1>1. CASE EditStart(e)
  <2>1. sale' \in Sale
    BY <1>1 DEF EditStart, SyncTypeOK, Sale, Lease
  <2> QED BY <1>1, <2>1 DEF EditStart, SyncTypeOK
<1>2. CASE EditWrite(e)
  <2>1. PICK cancels \in BOOLEAN :
          sale' = [sale EXCEPT !.revision = @ + 1, !.cancelled = @ \/ cancels]
    BY <1>2 DEF EditWrite
  <2>2. sale.revision + 1 \in Nat
    BY DEF SyncTypeOK, Sale
  <2>3. (sale.cancelled \/ cancels) \in BOOLEAN
    OBVIOUS
  <2>4. sale' \in Sale
    BY <2>1, <2>2, <2>3 DEF SyncTypeOK, Sale
  <2> QED BY <1>2, <2>4 DEF EditWrite, SyncTypeOK
<1>3. CASE EditEnd(e)
  <2>1. sale' \in Sale
    <3>1. CASE sale.editor # e
      BY <1>3, <3>1 DEF EditEnd, SyncTypeOK
    <3>2. CASE sale.editor = e
      BY <1>3, <3>2 DEF EditEnd, SyncTypeOK, Sale, Lease
    <3> QED BY <3>1, <3>2
  <2> QED BY <1>3, <2>1 DEF EditEnd, SyncTypeOK
<1> QED BY <1>1, <1>2, <1>3

LEMMA TypeStep == SyncTypeOK /\ [SyncNext]_syncVars => SyncTypeOK'
<1> SUFFICES ASSUME SyncTypeOK, [SyncNext]_syncVars
             PROVE  SyncTypeOK'
  OBVIOUS
<1>1. ASSUME NEW w \in Workers, WorkerStep(w)
      PROVE  SyncTypeOK'
  BY <1>1, WorkerTyped
<1>2. ASSUME NEW e \in Editors, EditStart(e) \/ EditWrite(e) \/ EditEnd(e)
      PROVE  SyncTypeOK'
  BY <1>2, EditorTyped
<1>3. CASE Lapse
  BY <1>3 DEF Lapse, SyncTypeOK, Sale, Lease
<1>4. CASE EditLapse
  BY <1>4 DEF EditLapse, SyncTypeOK, Sale, Lease
<1>5. CASE Arrives
  <2>1. posts' \in Nat
    BY <1>5 DEF Arrives, SyncTypeOK
  <2>2. wire' \in BOOLEAN
    BY <1>5 DEF Arrives
  <2> QED BY <1>5, <2>1, <2>2 DEF Arrives, SyncTypeOK
<1>6. CASE StaffQueue
  <2>. sale.revision + 1 \in Nat
    BY DEF SyncTypeOK, Sale
  <2>1. sale' \in Sale
    BY <1>6 DEF StaffQueue, SyncTypeOK, Sale, Push
  <2> QED BY <1>6, <2>1 DEF StaffQueue, SyncTypeOK
<1>7. CASE StaffReconcile
  <2>1. sale' \in Sale
    BY <1>7 DEF StaffReconcile, SyncTypeOK, Sale, Push
  <2> QED BY <1>7, <2>1 DEF StaffReconcile, SyncTypeOK
<1>8. CASE BuyerChanges
  <2>1. buyer' \in Buyer
    BY <1>8 DEF BuyerChanges, Buyer
  <2> QED BY <1>8, <2>1 DEF BuyerChanges, SyncTypeOK
<1>9. CASE Die
  <2>1. deaths' \in 0..MaxDeaths
    BY <1>9, SyncAssumption DEF Die, SyncTypeOK
  <2>2. sync' \in [Workers -> Local]
    BY <1>9, IdleIsLocal DEF Die, SyncTypeOK, Local
  <2>3. edit' \in [Editors -> {"idle", "granted", "written"}]
    BY <1>9 DEF Die, SyncTypeOK
  <2> QED BY <1>9, <2>1, <2>2, <2>3 DEF Die, SyncTypeOK, Local
<1>10. CASE UNCHANGED syncVars
  BY <1>10 DEF syncVars, SyncTypeOK
<1> QED BY <1>1, <1>2, <1>3, <1>4, <1>5, <1>6, <1>7, <1>8, <1>9, <1>10 DEF SyncNext

\* Every variable of the outbox keeps its type.
THEOREM SyncTypeCorrect == SyncSpec => []SyncTypeOK
  BY TypeInit, TypeStep, PTL DEF SyncSpec

-----------------------------------------------------------------------------
(* The order and its POST.  A lemma per kind of step; each begins with     *)
(* what the step does to the order and to the worker or the edit.          *)

LEMMA InvInit == SyncInit => SyncInv
<1> SUFFICES ASSUME SyncInit PROVE SyncInv
  OBVIOUS
<1>1. SyncTypeOK
  BY TypeInit
<1>2. Outbox
  BY DEF SyncInit, Outbox
<1>3. Owned
  BY SyncAssumption DEF SyncInit, Owned
<1>4. Apart
  BY SyncAssumption DEF SyncInit, Apart
<1>5. SentAsItStands
  BY DEF SyncInit, SentAsItStands
<1> QED BY <1>1, <1>2, <1>3, <1>4, <1>5 DEF SyncInv

\* Steps that change neither the order nor the edits nor the wire, and move
\* a worker only to a place where as much is known of it.
LEMMA QuietStep ==
  ASSUME SyncInv, SyncTypeOK', UNCHANGED <<sale, wire, posts>>,
         \A e \in Editors : edit'[e] \in {edit[e], "idle"},
         \A w \in Workers :
           \/ sync'[w].pc \in {sync[w].pc, "idle", "found"}
           \/ sync[w].pc \in Preparing /\ sync'[w].pc \in {"stop", "fail"}
           \/ /\ sync[w].pc \in {"check", "lookup", "again"}
              /\ sync'[w].pc \in {"lookup", "again", "send"}
  PROVE  SyncInv'
<1>1. Outbox'
  BY DEF SyncInv, Outbox
<1>2. Owned'
  BY DEF SyncInv, Owned, Preparing
<1>3. Apart'
  BY DEF SyncInv, Apart, Preparing, Unsettled
<1>4. SentAsItStands'
  BY DEF SyncInv, SentAsItStands
<1> QED BY <1>1, <1>2, <1>3, <1>4 DEF SyncInv

\* A worker writes how its attempt ended.
LEMMA WriteStep ==
  ASSUME SyncInv, SyncTypeOK', NEW w \in Workers, NEW push \in Push, NEW n \in Nat,
         Write(w, push, n),
         \/ sync[w].pc \in Preparing /\ push \in {"queued", "stopped"}
         \/ sync[w].pc = "post" /\ push = "unknown"
  PROVE  SyncInv'
<1>1. /\ sync'[w].pc = "idle"
      /\ \A v \in Workers \ {w} : sync'[v] = sync[v]
      /\ UNCHANGED <<buyer, wire, posts, edit, deaths>>
  BY DEF Write, SyncInv, SyncTypeOK, Idle
<1>2. CASE sale.owner # w
  <2>1. UNCHANGED sale
    BY <1>2 DEF Write
  <2> QED BY <1>1, <2>1, QuietStep
<1>3. CASE sale.owner = w
  <2>1. /\ sale'.push = push /\ sale'.owner = NoOwner /\ sale'.lease = "free"
        /\ sale'.editor = sale.editor /\ sale'.editLease = sale.editLease
        /\ sale'.revision = sale.revision /\ sale'.sent = sale.sent
        /\ sale'.cancelled = sale.cancelled /\ sale'.started = sale.started
        /\ sale'.linked = sale.linked
    BY <1>3 DEF Write, SyncInv, SyncTypeOK, Sale
  <2>2. Outbox'
    BY <1>1, <1>3, <2>1 DEF SyncInv, Outbox, Owned
  <2>3. Owned'
    BY <2>1, SyncAssumption DEF Owned
  <2>4. Unsettled' => Unsettled
    <3>1. CASE push \in {"queued", "stopped"}
      BY <1>1, <2>1, <3>1 DEF Unsettled
    <3>2. CASE sync[w].pc = "post" /\ push = "unknown"
      <4>1. sale.push \in {"sending", "unknown", "synced"}
        BY <1>3, <3>2 DEF SyncInv, SyncTypeOK, Sale, Push, Owned, Outbox
      <4> QED BY <1>1, <2>1, <4>1 DEF Unsettled, SyncInv, Outbox
    <3> QED BY <3>1, <3>2
  <2>5. Apart'
    BY <1>1, <2>1, <2>4, SyncAssumption DEF SyncInv, Apart
  <2>6. SentAsItStands'
    BY <1>1, <2>1, <2>4 DEF SyncInv, SentAsItStands, Unsettled
  <2> QED BY <2>2, <2>3, <2>5, <2>6 DEF SyncInv
<1> QED BY <1>2, <1>3

LEMMA ExpireStep ==
  ASSUME SyncInv, SyncTypeOK', NEW w \in Workers, Expire(w)
  PROVE  SyncInv'
<1>1. /\ sale.push = "sending" /\ sale'.push = "unknown" /\ sale'.owner = sale.owner
      /\ sale'.lease = sale.lease
      /\ sale'.editor = sale.editor /\ sale'.editLease = sale.editLease
      /\ sale'.revision = sale.revision /\ sale'.sent = sale.sent
      /\ sale'.cancelled = sale.cancelled /\ sale'.started = sale.started
      /\ sale'.linked = sale.linked
      /\ UNCHANGED <<buyer, wire, posts, sync, edit, deaths>>
  BY DEF Expire, SyncInv, SyncTypeOK, Sale
<1>2. Outbox'
  BY <1>1 DEF SyncInv, Outbox
<1>3. Owned'
  BY <1>1 DEF SyncInv, Owned
<1>4. Apart'
  BY <1>1 DEF SyncInv, Apart, Unsettled
<1>5. SentAsItStands'
  BY <1>1 DEF SyncInv, SentAsItStands
<1> QED BY <1>2, <1>3, <1>4, <1>5 DEF SyncInv

LEMMA ClaimStep ==
  ASSUME SyncInv, SyncTypeOK', NEW w \in Workers, Claim(w)
  PROVE  SyncInv'
<1>1. CASE ~MayClaim
  BY <1>1, QuietStep DEF Claim, Idle, SyncInv, SyncTypeOK
<1>2. CASE MayClaim
  <2>1. /\ sale'.push = "preparing" /\ sale'.owner = w /\ sale'.lease = "live"
        /\ sale'.editor = sale.editor /\ sale'.editLease = sale.editLease
        /\ sale'.revision = sale.revision /\ sale'.sent = sale.sent
        /\ sale'.cancelled = sale.cancelled /\ sale'.started = sale.started
        /\ sale'.linked = sale.linked
        /\ UNCHANGED <<wire, posts, edit>>
    BY <1>2 DEF Claim, SyncInv, SyncTypeOK, Sale
  <2>2. /\ sync'[w].pc = IF sale.cancelled THEN "stop" ELSE "check"
        /\ \A v \in Workers \ {w} : sync'[v] = sync[v]
    BY <1>2 DEF Claim, SyncInv, SyncTypeOK
  <2>3. /\ sale.push \in {"queued", "preparing"} /\ ~sale.linked
        /\ sale.editLease # "live"
    BY <1>2 DEF MayClaim
  <2>4. Outbox'
    BY <2>1, <2>3 DEF SyncInv, Outbox
  <2>5. Owned'
    BY <2>1, <2>2 DEF Owned, Preparing
  <2>6. Apart'
    BY <2>1, <2>2, <2>3 DEF SyncInv, Apart, Unsettled
  <2>7. SentAsItStands'
    BY <2>1, <2>3 DEF SyncInv, SentAsItStands, Outbox
  <2> QED BY <2>4, <2>5, <2>6, <2>7 DEF SyncInv
<1> QED BY <1>1, <1>2

LEMMA SendStep ==
  ASSUME SyncInv, SyncTypeOK', NEW w \in Workers, Send(w)
  PROVE  SyncInv'
<1>1. CASE ~UnchangedSince(w)
  <2>1. /\ sync[w].pc = "send" /\ sync' = [sync EXCEPT ![w].pc = "stop"]
        /\ UNCHANGED <<sale, buyer, wire, posts, edit>>
    BY <1>1 DEF Send, At, To
  <2> QED BY <2>1, QuietStep DEF Preparing, SyncInv, SyncTypeOK
<1>2. CASE UnchangedSince(w)
  <2>1. /\ sale'.push = "sending" /\ sale'.started /\ sale'.sent = sale.revision
        /\ sale'.owner = w /\ sale'.lease = sale.lease
        /\ sale'.editor = sale.editor /\ sale'.editLease = sale.editLease
        /\ sale'.revision = sale.revision /\ sale'.cancelled = sale.cancelled
        /\ sale'.linked = sale.linked
        /\ wire' /\ UNCHANGED <<posts, edit>>
    BY <1>2 DEF Send, UnchangedSince, SyncInv, SyncTypeOK, Sale
  <2>2. /\ sync[w].pc = "send" /\ sync'[w].pc = "post"
        /\ \A v \in Workers \ {w} : sync'[v] = sync[v]
    <3>1. sync[w].pc = "send" /\ sync' = [sync EXCEPT ![w].pc = "post"]
      BY <1>2 DEF Send, At, To
    <3> QED BY <3>1 DEF SyncInv, SyncTypeOK, Local
  <2>3. sale.owner = w /\ sale.push = "preparing" /\ ~sale.linked
    BY <1>2 DEF UnchangedSince
  <2>4. posts = 0 /\ ~sale.cancelled /\ \A e \in Editors : edit[e] = "idle"
    BY <2>2, <2>3 DEF SyncInv, Outbox, Apart, Preparing
  <2>5. Outbox'
    BY <2>1, <2>3, <2>4 DEF Outbox
  <2>6. Owned'
    BY <2>1, <2>2 DEF Owned, Preparing
  <2>7. Apart'
    BY <2>1, <2>4 DEF Apart
  <2>8. SentAsItStands'
    BY <2>1, <2>4 DEF SentAsItStands
  <2> QED BY <2>5, <2>6, <2>7, <2>8 DEF SyncInv
<1> QED BY <1>1, <1>2

\* An answer, or what staff found, links the order.
LEMMA LinkStep ==
  ASSUME SyncInv, SyncTypeOK', posts > 0,
         sale'.push = "synced", sale'.linked, sale.started,
         sale'.owner \in {sale.owner, NoOwner},
         \A w \in Workers : sale'.owner = w => sync[w].pc \notin Preparing,
         UNCHANGED <<sale.editor, sale.editLease, sale.revision, sale.sent,
                     sale.cancelled, sale.started, wire, posts, edit>>,
         \A w \in Workers : sync'[w].pc \in {sync[w].pc, "idle"}
  PROVE  SyncInv'
<1>1. ~wire
  BY DEF SyncInv, Outbox
<1>2. Outbox'
  BY <1>1 DEF SyncInv, Outbox
<1>3. Owned'
  BY DEF SyncInv, Owned, Preparing
<1>4. ~Unsettled'
  BY <1>1 DEF Unsettled
<1>5. Apart'
  BY <1>4, SyncAssumption DEF SyncInv, Apart, Preparing
<1>6. SentAsItStands'
  BY <1>1 DEF SentAsItStands
<1> QED BY <1>2, <1>3, <1>5, <1>6 DEF SyncInv

LEMMA AnswerStep ==
  ASSUME SyncInv, SyncTypeOK', NEW w \in Workers, Answer(w)
  PROVE  SyncInv'
<1>1. /\ sync[w].pc = "post" /\ sync'[w].pc = "idle"
      /\ \A v \in Workers \ {w} : sync'[v] = sync[v]
      /\ UNCHANGED <<buyer, wire, posts, edit, deaths>>
      /\ posts > 0
  BY DEF Answer, At, SyncInv, SyncTypeOK, Idle
<1>2. CASE sale.owner # w
  <2>1. UNCHANGED sale
    BY <1>2 DEF Answer
  <2> QED BY <1>1, <2>1, QuietStep
<1>3. CASE sale.owner = w
  <2>1. /\ sale'.push = "synced" /\ sale'.linked /\ sale'.owner = NoOwner
        /\ sale'.editor = sale.editor /\ sale'.editLease = sale.editLease
        /\ sale'.revision = sale.revision /\ sale'.sent = sale.sent
        /\ sale'.cancelled = sale.cancelled /\ sale'.started = sale.started
    BY <1>3 DEF Answer, SyncInv, SyncTypeOK, Sale
  <2>2. sale.started
    BY <1>1, <1>3 DEF SyncInv, Owned
  <2> QED BY <1>1, <2>1, <2>2, LinkStep, SyncAssumption
<1> QED BY <1>2, <1>3

LEMMA StaffReconcileStep ==
  ASSUME SyncInv, SyncTypeOK', StaffReconcile
  PROVE  SyncInv'
<1>1. /\ sale.push = "unknown" /\ posts > 0
      /\ sale'.push = "synced" /\ sale'.linked /\ sale'.owner = sale.owner
      /\ sale'.editor = sale.editor /\ sale'.editLease = sale.editLease
      /\ sale'.revision = sale.revision /\ sale'.sent = sale.sent
      /\ sale'.cancelled = sale.cancelled /\ sale'.started = sale.started
      /\ UNCHANGED <<buyer, wire, posts, sync, edit, deaths>>
  BY DEF StaffReconcile, SyncInv, SyncTypeOK, Sale
<1>2. sale.started
  BY <1>1 DEF SyncInv, Outbox
<1>3. \A w \in Workers : sale.owner = w => sync[w].pc \notin Preparing
  BY <1>1 DEF SyncInv, Owned
<1> QED BY <1>1, <1>2, <1>3, LinkStep

LEMMA StaffQueueStep ==
  ASSUME SyncInv, SyncTypeOK', StaffQueue
  PROVE  SyncInv'
<1>1. /\ sale.push \in {"stopped", "queued"} /\ ~sale.started
      /\ sale'.push = "queued" /\ sale'.owner = sale.owner /\ sale'.lease = sale.lease
      /\ sale'.editor = sale.editor /\ sale'.editLease = sale.editLease
      /\ sale'.cancelled = sale.cancelled /\ sale'.started = sale.started
      /\ sale'.linked = sale.linked
      /\ UNCHANGED <<buyer, wire, posts, sync, edit, deaths>>
  BY DEF StaffQueue, MayQueue, SyncInv, SyncTypeOK, Sale
<1>2. Outbox'
  BY <1>1 DEF SyncInv, Outbox
<1>3. Owned'
  BY <1>1 DEF SyncInv, Owned
<1>4. Apart'
  BY <1>1 DEF SyncInv, Apart, Unsettled
<1>5. SentAsItStands'
  BY <1>1 DEF SyncInv, SentAsItStands, Outbox
<1> QED BY <1>2, <1>3, <1>4, <1>5 DEF SyncInv

LEMMA LapseStep ==
  ASSUME SyncInv, SyncTypeOK', Lapse
  PROVE  SyncInv'
<1>1. /\ sale'.push = sale.push /\ sale'.owner = sale.owner
      /\ sale'.editor = sale.editor /\ sale'.editLease = sale.editLease
      /\ sale'.revision = sale.revision /\ sale'.sent = sale.sent
      /\ sale'.cancelled = sale.cancelled /\ sale'.started = sale.started
      /\ sale'.linked = sale.linked
      /\ UNCHANGED <<buyer, wire, posts, sync, edit, deaths>>
  BY DEF Lapse, SyncInv, SyncTypeOK, Sale
<1>2. \A w \in Workers : sale.owner = w => sync[w].pc \notin Preparing
  BY SyncAssumption DEF Lapse, Preparing
<1>3. Outbox'
  BY <1>1 DEF SyncInv, Outbox
<1>4. Owned'
  BY <1>1, <1>2 DEF SyncInv, Owned
<1>5. Apart'
  BY <1>1 DEF SyncInv, Apart, Unsettled
<1>6. SentAsItStands'
  BY <1>1 DEF SyncInv, SentAsItStands
<1> QED BY <1>3, <1>4, <1>5, <1>6 DEF SyncInv

LEMMA ArrivesStep ==
  ASSUME SyncInv, SyncTypeOK', Arrives
  PROVE  SyncInv'
<1>1. /\ wire /\ ~wire' /\ posts = 0 /\ posts' \in {0, 1}
      /\ UNCHANGED <<sale, buyer, sync, edit, deaths>>
  BY DEF Arrives, SyncInv, Outbox
<1>2. sale.started /\ ~sale.linked /\ sale.push \in {"sending", "unknown"}
  BY <1>1 DEF SyncInv, Outbox
<1>3. Outbox'
  BY <1>1, <1>2 DEF Outbox
<1>4. Owned'
  BY <1>1 DEF SyncInv, Owned
<1>5. Apart'
  BY <1>1 DEF SyncInv, Apart, Unsettled
<1>6. SentAsItStands'
  BY <1>1 DEF SyncInv, SentAsItStands
<1> QED BY <1>3, <1>4, <1>5, <1>6 DEF SyncInv

-----------------------------------------------------------------------------
(* The edits                                                               *)

LEMMA EditStartStep ==
  ASSUME SyncInv, SyncTypeOK', NEW e \in Editors, EditStart(e)
  PROVE  SyncInv'
<1>1. /\ sale.push \notin {"sending", "unknown"}
      /\ sale.lease # "live" /\ sale.editLease # "live"
      /\ sale'.editor = e /\ sale'.editLease = "live"
      /\ sale'.push = sale.push /\ sale'.owner = sale.owner /\ sale'.lease = sale.lease
      /\ sale'.revision = sale.revision /\ sale'.sent = sale.sent
      /\ sale'.cancelled = sale.cancelled /\ sale'.started = sale.started
      /\ sale'.linked = sale.linked
      /\ \A f \in Editors \ {e} : edit'[f] = edit[f]
      /\ UNCHANGED <<buyer, wire, posts, sync, deaths>>
  BY DEF EditStart, SyncInv, SyncTypeOK, Sale
<1>2. ~Unsettled
  BY <1>1 DEF SyncInv, Outbox, Unsettled
<1>3. \A w \in Workers : sale.owner = w => sync[w].pc \notin Preparing
  BY <1>1 DEF SyncInv, Owned
<1>4. Outbox'
  BY <1>1 DEF SyncInv, Outbox
<1>5. Owned'
  BY <1>1 DEF SyncInv, Owned
<1>6. Apart'
  BY <1>1, <1>2, <1>3 DEF SyncInv, Apart, Unsettled
<1>7. SentAsItStands'
  BY <1>1 DEF SyncInv, SentAsItStands
<1> QED BY <1>4, <1>5, <1>6, <1>7 DEF SyncInv

LEMMA EditWriteStep ==
  ASSUME SyncInv, SyncTypeOK', NEW e \in Editors, EditWrite(e)
  PROVE  SyncInv'
<1>1. /\ edit[e] = "granted" /\ edit'[e] = "written"
      /\ sale'.editor = sale.editor /\ sale'.editLease = sale.editLease
      /\ sale'.push = sale.push /\ sale'.owner = sale.owner /\ sale'.lease = sale.lease
      /\ sale'.started = sale.started /\ sale'.linked = sale.linked
      /\ \A f \in Editors \ {e} : edit'[f] = edit[f]
      /\ UNCHANGED <<buyer, wire, posts, sync, deaths>>
  BY DEF EditWrite, SyncInv, SyncTypeOK, Sale
<1>2. /\ ~Unsettled
      /\ \A w \in Workers : sale.owner = w => sync[w].pc \notin Preparing
  BY <1>1 DEF SyncInv, Apart
<1>3. Outbox'
  BY <1>1 DEF SyncInv, Outbox
<1>4. Owned'
  BY <1>1 DEF SyncInv, Owned
<1>5. Apart'
  BY <1>1, <1>2 DEF SyncInv, Apart, Unsettled, Preparing
<1>6. SentAsItStands'
  BY <1>1, <1>2 DEF SentAsItStands, Unsettled
<1> QED BY <1>3, <1>4, <1>5, <1>6 DEF SyncInv

\* The edit lease of a request that ends, or of a dead one, is given up.
LEMMA EditLeaseStep ==
  ASSUME SyncInv, SyncTypeOK',
         UNCHANGED <<sale.push, sale.owner, sale.lease, sale.revision, sale.sent,
                     sale.cancelled, sale.started, sale.linked, wire, posts, sync>>,
         \A e \in Editors : edit'[e] # "idle" =>
           /\ edit[e] # "idle"
           /\ sale'.editor = sale.editor /\ sale'.editLease = sale.editLease
  PROVE  SyncInv'
<1>1. Outbox'
  BY DEF SyncInv, Outbox
<1>2. Owned'
  BY DEF SyncInv, Owned
<1>3. Apart'
  BY DEF SyncInv, Apart, Unsettled
<1>4. SentAsItStands'
  BY DEF SyncInv, SentAsItStands
<1> QED BY <1>1, <1>2, <1>3, <1>4 DEF SyncInv

LEMMA EditEndStep ==
  ASSUME SyncInv, SyncTypeOK', NEW e \in Editors, EditEnd(e)
  PROVE  SyncInv'
<1>1. /\ edit[e] # "idle" /\ edit'[e] = "idle"
      /\ \A f \in Editors \ {e} : edit'[f] = edit[f]
      /\ UNCHANGED <<buyer, wire, posts, sync, deaths>>
  BY DEF EditEnd, SyncInv, SyncTypeOK
<1>2. \A f \in Editors \ {e} : edit[f] = "idle"
  BY <1>1 DEF SyncInv, Apart
<1>3. /\ sale'.push = sale.push /\ sale'.owner = sale.owner /\ sale'.lease = sale.lease
      /\ sale'.revision = sale.revision /\ sale'.sent = sale.sent
      /\ sale'.cancelled = sale.cancelled /\ sale'.started = sale.started
      /\ sale'.linked = sale.linked
  BY DEF EditEnd, SyncInv, SyncTypeOK, Sale
<1> QED BY <1>1, <1>2, <1>3, EditLeaseStep

LEMMA EditLapseStep ==
  ASSUME SyncInv, SyncTypeOK', EditLapse
  PROVE  SyncInv'
<1>1. \A e \in Editors : edit[e] = "idle"
  BY DEF EditLapse, SyncInv, Apart
<1>2. /\ sale'.push = sale.push /\ sale'.owner = sale.owner /\ sale'.lease = sale.lease
      /\ sale'.revision = sale.revision /\ sale'.sent = sale.sent
      /\ sale'.cancelled = sale.cancelled /\ sale'.started = sale.started
      /\ sale'.linked = sale.linked
  BY DEF EditLapse, SyncInv, SyncTypeOK, Sale
<1> QED BY <1>1, <1>2, EditLeaseStep DEF EditLapse

-----------------------------------------------------------------------------
(* The theorems                                                            *)

LEMMA WorkerInv ==
  ASSUME SyncInv, SyncTypeOK', NEW w \in Workers, WorkerStep(w)
  PROVE  SyncInv'
<1>1. CASE Tick(w)
  BY <1>1, QuietStep DEF Tick, To, SyncInv, SyncTypeOK
<1>2. CASE Expire(w)
  BY <1>2, ExpireStep
<1>3. CASE Claim(w)
  BY <1>3, ClaimStep
<1>4. CASE Check(w)
  <2>1. /\ sync[w].pc = "check"
        /\ sync'[w].pc \in {"lookup", "stop", "fail"}
        /\ \A v \in Workers \ {w} : sync'[v] = sync[v]
        /\ UNCHANGED <<sale, wire, posts, edit>>
    BY <1>4 DEF Check, At, To, SyncInv, SyncTypeOK, Local
  <2> QED BY <2>1, QuietStep DEF Preparing
<1>5. CASE Lookup(w)
  BY <1>5, QuietStep DEF Lookup, At, To, Preparing, SyncInv, SyncTypeOK
<1>6. CASE ReadAgain(w)
  BY <1>6, QuietStep DEF ReadAgain, At, To, Preparing, SyncInv, SyncTypeOK
<1>7. CASE Stop(w)
  BY <1>7, WriteStep DEF Stop, At, Preparing, Push
<1>8. CASE Send(w)
  BY <1>8, SendStep
<1>9. CASE Answer(w)
  BY <1>9, AnswerStep
<1>10. CASE NoAnswer(w)
  BY <1>10, WriteStep DEF NoAnswer, At, Push
<1>11. CASE Fail(w)
  BY <1>11, WriteStep DEF Fail, At, Preparing, Push
<1> QED BY <1>1, <1>2, <1>3, <1>4, <1>5, <1>6, <1>7, <1>8, <1>9, <1>10, <1>11
        DEF WorkerStep

LEMMA InvStep == SyncInv /\ [SyncNext]_syncVars => SyncInv'
<1> SUFFICES ASSUME SyncInv, [SyncNext]_syncVars
             PROVE  SyncInv'
  OBVIOUS
<1>0. SyncTypeOK'
  BY TypeStep DEF SyncInv
<1>1. ASSUME NEW w \in Workers, WorkerStep(w)
      PROVE  SyncInv'
  BY <1>0, <1>1, WorkerInv
<1>2. ASSUME NEW e \in Editors, EditStart(e) \/ EditWrite(e) \/ EditEnd(e)
      PROVE  SyncInv'
  BY <1>0, <1>2, EditStartStep, EditWriteStep, EditEndStep
<1>3. CASE Lapse
  BY <1>0, <1>3, LapseStep
<1>4. CASE EditLapse
  BY <1>0, <1>4, EditLapseStep
<1>5. CASE Arrives
  BY <1>0, <1>5, ArrivesStep
<1>6. CASE StaffQueue
  BY <1>0, <1>6, StaffQueueStep
<1>7. CASE StaffReconcile
  BY <1>0, <1>7, StaffReconcileStep
<1>8. CASE BuyerChanges
  BY <1>0, <1>8, QuietStep DEF BuyerChanges
<1>9. CASE Die
  BY <1>0, <1>9, QuietStep DEF Die, Idle, SyncInv, SyncTypeOK
<1>10. CASE UNCHANGED syncVars
  BY <1>0, <1>10, QuietStep DEF syncVars
<1> QED BY <1>1, <1>2, <1>3, <1>4, <1>5, <1>6, <1>7, <1>8, <1>9, <1>10 DEF SyncNext

\* KiotViet gets one order of every wholesale order at most, whichever
\* workers die, answers are lost, and staff queue the order again.
THEOREM NeverPostedTwice == SyncSpec => []PostedOnce
<1>1. SyncInv => PostedOnce
  BY DEF SyncInv, SyncTypeOK, Outbox, PostedOnce
<1> QED BY InvInit, InvStep, <1>1, PTL DEF SyncSpec

\* What KiotViet gets is the order as it stands, from the update that starts
\* the POST until the result is known.
THEOREM NeverSentStale == SyncSpec => []SentAsItStands
<1>1. SyncInv => SentAsItStands
  BY DEF SyncInv
<1> QED BY InvInit, InvStep, <1>1, PTL DEF SyncSpec
=============================================================================
