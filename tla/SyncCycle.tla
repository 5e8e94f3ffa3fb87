------------------------------ MODULE SyncCycle ------------------------------
(***************************************************************************)
(* The sync cycle of CloudSyncE2eeService (cloud_sync_e2ee/service.rs) on  *)
(* several devices that share one vault, with the server's compare-and-    *)
(* swap as seen through transport.rs.                                      *)
(*                                                                         *)
(* A device keeps three copies of the common baseline, written one after   *)
(* the other: `stored` in its encrypted storage, `registry` next to the    *)
(* data it captures, `known` in memory. An operation is durable before it  *)
(* is submitted, and a request whose answer was lost may arrive at any     *)
(* later time. Locally an edit may happen between any two steps.           *)
(***************************************************************************)
EXTENDS SyncMerge, Sequences

CONSTANTS
    Devices,
    MaxRev,     \* bound on the revision of the vault
    Budgets     \* bounds on <<edits and removals of the users, faults>>, one of
                \* which a behaviour keeps to; faults are crashes, failing steps,
                \* lost answers and lost receipts

ASSUME CycleAssumption ==
    /\ MaxRev \in Nat \ {0}
    /\ Budgets \subseteq Nat \X Nat

VARIABLES
    head,       \* server: revision and documents of the vault
    requests,   \* server: operations submitted at some time
    committed,  \* server: operations that won their compare-and-swap
    expired,    \* server: committed operations whose receipt is gone
    local,      \* per device: its native data
    marks,      \* ScopeState.tombstones
    registry,   \* ScopeState.baseline and baseline_revision
    stored,     \* the "baseline" of LocalStorage
    known,      \* Runtime.baseline
    pending,    \* the "pending" record of LocalStorage, a set of at most one
    preview,    \* Runtime.preview while it can be applied, a set of at most one
    pc,         \* where its task is
    mode,       \* "sync" for run_once, "review" for preview and apply
    hand,       \* locals of the task: remote set, captured set, desired set
    current,    \* which recorded generations equal the present one
    faults,
    edits,      \* history: the edits and removals made so far, by number
    saw,        \* history, per device: the edits each of its documents stands for
    intent,     \* history: the same of the set its task last settled on
    view        \* history: the same of each version of the vault

serverVars  == <<head, requests, committed, expired>>
durableVars == <<marks, registry, stored, pending>>
taskVars    == <<pc, mode, hand>>
historyVars == <<edits, saw, intent, view>>
vars == <<serverVars, local, durableVars, known, preview, taskVars, current,
          faults, historyVars>>

Operation == [by : Devices, base : Nat, docs : Image]
Hand      == [remote : Baseline, mine : Image, want : Image]
NoHand    == [remote |-> NoBaseline, mine |-> Empty, want |-> Empty]
Preview   == [remote : Baseline, mine : Image, base : Baseline, reviewed : SUBSET Operation]
Step      == {"idle", "sent", "resent", "acceptData", "acceptDone", "fetch", "preview",
              "restore", "record", "recordData", "upload"}
Recorded  == {"hand", "pending", "synced"}
History   == [Docs -> SUBSET Nat]
NoHistory == [x \in Docs |-> {}]

TypeOK ==
    /\ head \in Baseline
    /\ requests \subseteq Operation /\ committed \subseteq Operation
    /\ expired \subseteq Operation
    /\ local \in [Devices -> Image] /\ marks \in [Devices -> Image]
    /\ registry \in [Devices -> Baseline] /\ stored \in [Devices -> Baseline]
    /\ known \in [Devices -> Baseline]
    /\ pending \in [Devices -> SUBSET Operation]
    /\ preview \in [Devices -> SUBSET Preview]
    /\ pc \in [Devices -> Step] /\ mode \in [Devices -> {"sync", "review"}]
    /\ hand \in [Devices -> Hand]
    /\ current \in [Devices -> SUBSET Recorded]
    /\ \A d \in Devices :
          /\ \A op \in pending[d] : op.by = d
          /\ pc[d] \in {"sent", "resent", "acceptData", "acceptDone"} => pending[d] # {}
    /\ faults \in Nat
    /\ edits \in Nat
    /\ saw \in [Devices -> History] /\ intent \in [Devices -> History]
    /\ view \in Seq(History)

First == [rev |-> 1, docs |-> Empty]

(* A vault that was just created; each device has joined it or not yet.     *)
Init ==
    /\ head = First
    /\ requests = {} /\ committed = {} /\ expired = {}
    /\ local = [d \in Devices |-> Empty]
    /\ marks = [d \in Devices |-> Empty]
    /\ registry \in [Devices -> {NoBaseline, First}]
    /\ stored = registry
    /\ known = registry
    /\ pending = [d \in Devices |-> {}]
    /\ preview = [d \in Devices |-> {}]
    /\ pc = [d \in Devices |-> "idle"]
    /\ mode = [d \in Devices |-> "sync"]
    /\ hand = [d \in Devices |-> NoHand]
    /\ current = [d \in Devices |-> {}]
    /\ faults = 0
    /\ edits = 0
    /\ saw = [d \in Devices |-> NoHistory] /\ intent = saw
    /\ view = <<NoHistory>>

Goto(d, step) == pc' = [pc EXCEPT ![d] = step]

(* The task returns and drops its locals.                                   *)
Return(d) ==
    /\ Goto(d, "idle")
    /\ mode' = [mode EXCEPT ![d] = "sync"]
    /\ hand' = [hand EXCEPT ![d] = NoHand]

Within(e, f) == \E b \in Budgets : e <= b[1] /\ f <= b[2]

Fault == Within(edits, faults + 1) /\ faults' = faults + 1

ImageOf(d) == Capture(local[d], marks[d], registry[d])

(* The export writes the tombstones it materialised.                        *)
Export(d) == marks' = [marks EXCEPT ![d] = Tombstones(ImageOf(d))]

----------------------------------------------------------------------------
(* The user, and whatever else writes a device's data.                      *)

(* The generation moves on: what was recorded under the old one is stale,   *)
(* and a preview of it can never be applied.                                *)
Outdate(d, renewed) ==
    /\ current' = [current EXCEPT ![d] = renewed]
    /\ preview' = [preview EXCEPT ![d] = {}]

NewEdit == edits + 1

(* What is written stands for all that the device's document stood for.     *)
Write(d, x, entry) ==
    /\ Within(NewEdit, faults)
    /\ local' = [local EXCEPT ![d][x] = entry]
    /\ edits' = NewEdit
    /\ saw' = [saw EXCEPT ![d][x] = @ \cup {NewEdit}]
    /\ Outdate(d, {})
    /\ UNCHANGED <<serverVars, durableVars, known, taskVars, faults, intent, view>>

Edit(d, x) == Write(d, x, Live(NewEdit))

(* A removal leaves nothing behind; who removed it is history.              *)
Gone(e) == [kind |-> "none", edit |-> e, base |-> 0]

Remove(d, x) == IsLive(local[d][x]) /\ Write(d, x, Gone(NewEdit))

----------------------------------------------------------------------------
(* The server: If-Match decides, and a receipt may expire. A preview of an  *)
(* older head can never be applied.                                         *)

Deliver(op) ==
    /\ op \in requests \ committed
    /\ op.base = head.rev
    /\ head' = [rev |-> head.rev + 1, docs |-> op.docs]
    /\ committed' = committed \cup {op}
    /\ preview' = [d \in Devices |-> {}]
    /\ view' = Append(view, intent[op.by])
    /\ UNCHANGED <<requests, expired, local, durableVars, known, taskVars, current,
                   faults, edits, saw, intent>>

Expire(op) ==
    /\ op \in (pending[op.by] \cap committed) \ expired
    /\ pc[op.by] \notin {"sent", "resent"}
    /\ Fault
    /\ expired' = expired \cup {op}
    /\ UNCHANGED <<head, requests, committed, local, durableVars, known, preview,
                   taskVars, current, historyVars>>

----------------------------------------------------------------------------
(* reconcile: an operation whose outcome is unknown comes first.            *)

Receipts == committed \ expired

(* Slip: what was captured last becomes the baseline, not the proposal.     *)
AcceptStoreCaptured(d) ==
    /\ pending[d] # {}
    /\ pending[d] \subseteq Receipts
    /\ \E op \in pending[d] :
          stored' = [stored EXCEPT ![d] = [rev |-> op.base + 1, docs |-> ImageOf(d)]]
    /\ Goto(d, "acceptData")
    /\ UNCHANGED <<marks, registry, pending>>

(* The proposal is written as the baseline of the encrypted storage.        *)
AcceptStore(d) ==
    /\ pending[d] # {}
    /\ pending[d] \subseteq Receipts
    /\ \E op \in pending[d] :
          stored' = [stored EXCEPT ![d] = [rev |-> op.base + 1, docs |-> op.docs]]
    /\ Goto(d, "acceptData")
    /\ UNCHANGED <<marks, registry, pending>>

(* sync_now, auto_sync or preview_restore up to the answer to the pending   *)
(* operation's query; a new connection reads the stored baseline. Without a *)
(* receipt the identical request is sent again.                             *)
Begin(d) ==
    /\ pc[d] = "idle"
    /\ \E m \in {"sync", "review"} : mode' = [mode EXCEPT ![d] = m]
    /\ \E base \in {known[d], stored[d]} : known' = [known EXCEPT ![d] = base]
    /\ \/ /\ pending[d] = {}
          /\ Goto(d, "fetch")
          /\ UNCHANGED <<requests, durableVars>>
       \/ /\ AcceptStore(d)
          /\ UNCHANGED requests
       \/ /\ ~(pending[d] \subseteq Receipts)
          /\ requests' = requests \cup pending[d]
          /\ Goto(d, "resent")
          /\ UNCHANGED durableVars
    /\ UNCHANGED <<head, committed, expired, local, preview, hand, current, faults,
                   historyVars>>

Forget(d, what) == current' = [current EXCEPT ![d] = @ \ what]

(* The answer is a receipt, first or replayed.                              *)
Answered(d) ==
    /\ pc[d] \in {"sent", "resent"}
    /\ AcceptStore(d)
    /\ UNCHANGED <<serverVars, local, known, preview, mode, hand, current, faults,
                   historyVars>>

(* discard_rejected: a first submission the server refused never commits.   *)
Discard(d) ==
    /\ pending' = [pending EXCEPT ![d] = {}]
    /\ Return(d)
    /\ Forget(d, {"hand", "pending"})
    /\ UNCHANGED <<local, marks, registry, stored, known, preview, historyVars>>

Conflicting(d) == \A op \in pending[d] : op \notin Receipts /\ op.base # head.rev

Rejected(d) ==
    /\ pc[d] = "sent"
    /\ Conflicting(d)
    /\ Discard(d)
    /\ UNCHANGED <<serverVars, faults>>

(* Any other 4xx.                                                           *)
Refused(d) ==
    /\ pc[d] = "sent"
    /\ pending[d] \cap committed = {}
    /\ Fault
    /\ requests' = requests \ pending[d]
    /\ Discard(d)
    /\ UNCHANGED <<head, committed, expired>>

(* outcome_unknown ends a sync; a review goes on to look at the head.       *)
Unknown(d) ==
    /\ IF mode[d] = "review"
       THEN Goto(d, "fetch") /\ UNCHANGED <<mode, hand, current>>
       ELSE Return(d) /\ Forget(d, {"hand"})
    /\ UNCHANGED <<serverVars, local, durableVars, known, preview, historyVars>>

RetryRejected(d) ==
    /\ pc[d] = "resent"
    /\ Conflicting(d)
    /\ Unknown(d)
    /\ UNCHANGED faults

Unanswered(d) ==
    /\ pc[d] \in {"sent", "resent"}
    /\ Fault
    /\ Unknown(d)

----------------------------------------------------------------------------
(* accept_receipt: baseline, registered baseline, then the pending record.  *)

AcceptData(d) ==
    /\ pc[d] = "acceptData"
    /\ stored[d].rev >= registry[d].rev
    /\ registry' = [registry EXCEPT ![d] = stored[d]]
    /\ known' = [known EXCEPT ![d] = stored[d]]
    /\ Goto(d, "acceptDone")
    /\ UNCHANGED <<serverVars, local, marks, stored, pending, preview, mode, hand,
                   current, faults, historyVars>>

Synced(d, when, rest) ==
    current' = [current EXCEPT ![d] =
                    (IF when THEN @ \cup {"synced"} ELSE @ \ {"synced"}) \ rest]

(* Slip: the generation after the answer counts as synced.                  *)
AcceptDoneNow(d) ==
    /\ pc[d] = "acceptDone"
    /\ pending' = [pending EXCEPT ![d] = {}]
    /\ Synced(d, TRUE, {"hand", "pending"})
    /\ IF hand[d] = NoHand
       THEN Goto(d, "fetch") /\ UNCHANGED <<mode, hand>>
       ELSE Return(d)
    /\ UNCHANGED <<serverVars, local, marks, registry, stored, known, preview,
                   faults, historyVars>>

(* After an upload the cycle is over; after a reconciliation it goes on.    *)
AcceptDone(d) ==
    /\ pc[d] = "acceptDone"
    /\ pending' = [pending EXCEPT ![d] = {}]
    /\ Synced(d, "pending" \in current[d], {"hand", "pending"})
    /\ IF hand[d] = NoHand
       THEN Goto(d, "fetch") /\ UNCHANGED <<mode, hand>>
       ELSE Return(d)
    /\ UNCHANGED <<serverVars, local, marks, registry, stored, known, preview,
                   faults, historyVars>>

----------------------------------------------------------------------------
(* run_once: fetch, capture, merge.                                         *)

(* Metadata and download are bound by the revision, and nothing local is    *)
(* read before the capture: one step each with what follows.                *)

(* An entry that takes the place of another stands for it when it is the    *)
(* same, was made in view of it, or when there is nothing to stand for.     *)
Inherited(v, vs, w, ws) ==
    IF IsNone(v) \/ Equivalent(v, w) \/ v.edit \in ws THEN vs \cup ws ELSE ws

(* Where the user decides, what is picked stands for what it overrules.     *)
Settle(d, mine, remote, want, decided) ==
    LET here == saw[d]
        there == view[head.rev]
    IN  intent' = [intent EXCEPT ![d] = [x \in Docs |->
            IF x \in decided THEN here[x] \cup there[x]
            ELSE IF want[x] = mine[x] THEN Inherited(remote[x], there[x], mine[x], here[x])
            ELSE Inherited(mine[x], here[x], remote[x], there[x])]]

Settled(image, remote) == IF image = remote.docs THEN "record" ELSE "upload"

Merge(d) ==
    LET mine == ImageOf(d)
        stuck == MissingTombstone(known[d], mine, head.docs)
        unsettled == Conflicts(known[d], mine, head.docs) # {}
        want == Resolve(known[d], mine, head.docs, [x \in {} |-> ""])
    IN  /\ pc[d] = "fetch"
        /\ mode[d] = "sync"
        /\ known[d].rev # 0
        /\ Export(d)
        /\ \/ stuck /\ Return(d) /\ UNCHANGED <<current, saw, intent>>
           \/ /\ ~stuck /\ unsettled
              /\ Goto(d, "preview")
              /\ hand' = [hand EXCEPT ![d].remote = head]
              /\ UNCHANGED <<mode, current, saw, intent>>
           \/ /\ ~stuck /\ ~unsettled
              /\ hand' = [hand EXCEPT ![d] =
                     [remote |-> head, mine |-> mine,
                      want |-> IF mine = want THEN Empty ELSE want]]
              /\ current' = [current EXCEPT ![d] = @ \cup {"hand"}]
              /\ Goto(d, IF mine = want THEN Settled(mine, head) ELSE "restore")
              /\ Settle(d, mine, head.docs, want, {})
              /\ saw' = IF mine = want THEN [saw EXCEPT ![d] = intent'[d]] ELSE saw
              /\ UNCHANGED mode
        /\ UNCHANGED <<serverVars, local, registry, stored, pending, known, preview,
                       faults, edits, view>>

(* Slip: the head the operation was based on is enough.                     *)
ReviewableEarly(d, rev) == \A op \in pending[d] : rev >= op.base

(* reviewable_pending: once a newer head is observed, If-Match protects it. *)
Reviewable(d, rev) == \A op \in pending[d] : rev > op.base

Show(d, remote) ==
    LET mine == ImageOf(d)
    IN  /\ Export(d)
        /\ IF MissingTombstone(known[d], mine, remote.docs) \/ ~Reviewable(d, remote.rev)
           THEN UNCHANGED preview
           ELSE preview' = [preview EXCEPT ![d] =
                    IF remote.rev = head.rev
                    THEN {[remote |-> remote, mine |-> mine, base |-> known[d],
                           reviewed |-> pending[d]]}
                    ELSE {}]
        /\ Return(d)
        /\ UNCHANGED <<serverVars, local, registry, stored, pending, known, current,
                       faults, historyVars>>

(* preview_restore, and a sync on a device without a baseline.              *)
MakePreview(d) ==
    /\ pc[d] = "fetch"
    /\ mode[d] = "review" \/ known[d].rev = 0
    /\ Show(d, head)

(* A sync that met a conflict captures again.                               *)
ShowConflict(d) ==
    /\ pc[d] = "preview"
    /\ Show(d, hand[d].remote)

----------------------------------------------------------------------------
(* apply_restore: the user's decision on a preview.                         *)

Decide(d, p, want, decided) ==
    /\ hand' = [hand EXCEPT ![d] = [remote |-> p.remote, mine |-> p.mine, want |-> want]]
    /\ Settle(d, p.mine, p.remote.docs, want, decided)

Apply(d) ==
    \E p \in preview[d] :
        /\ pc[d] = "idle"
        /\ head.rev = p.remote.rev
        /\ Reviewable(d, head.rev)
        /\ p.reviewed # {} => pending[d] = p.reviewed
        /\ \/ Decide(d, p, p.remote.docs, Docs)
           \/ \E want \in Resolutions(p.base, p.mine, p.remote.docs) :
                 Decide(d, p, want, Conflicts(p.base, p.mine, p.remote.docs))
        /\ pending' = [pending EXCEPT ![d] = {}]
        /\ current' = [current EXCEPT ![d] = (@ \cup {"hand"}) \ {"pending"}]
        /\ Goto(d, "restore")
        /\ mode' = [mode EXCEPT ![d] = "review"]
        /\ UNCHANGED <<serverVars, local, marks, registry, stored, known, preview, faults,
                       edits, saw, view>>

----------------------------------------------------------------------------
(* Restore, record or upload.                                               *)

(* restore_scope: only over the generation the decision was made on; the    *)
(* result is captured again under the same lease.                           *)
Native(d, want) ==
    [x \in Docs |-> IF IsLive(want[x]) THEN want[x]
                    ELSE IF IsDeleted(want[x]) THEN Gone(want[x].edit)
                    ELSE Gone(IF mode[d] = "review" THEN local[d][x].edit ELSE 0)]

Replace(d, want) ==
    LET restored == Capture(Native(d, want), Tombstones(want), registry[d])
    IN  /\ local' = [local EXCEPT ![d] = Native(d, want)]
        /\ marks' = [marks EXCEPT ![d] = Tombstones(restored)]
        /\ saw' = [saw EXCEPT ![d] = intent[d]]
        /\ hand' = [hand EXCEPT ![d].mine = restored, ![d].want = Empty]
        /\ Outdate(d, {"hand"})
        /\ Goto(d, IF mode[d] = "review" THEN "record" ELSE Settled(restored, hand[d].remote))

(* Slip: the generation is not compared again.                              *)
RestoreAnyway(d) ==
    /\ pc[d] = "restore"
    /\ Replace(d, hand[d].want)
    /\ UNCHANGED <<mode, serverVars, registry, stored, pending, known, faults,
                   edits, intent, view>>

Restore(d) ==
    /\ pc[d] = "restore"
    /\ IF "hand" \in current[d]
       THEN Replace(d, hand[d].want) /\ UNCHANGED mode
       ELSE Return(d) /\ UNCHANGED <<local, marks, current, preview, saw>>
    /\ UNCHANGED <<serverVars, registry, stored, pending, known, faults, edits, intent, view>>

Record(d) ==
    /\ pc[d] = "record"
    /\ stored' = [stored EXCEPT ![d] = hand[d].remote]
    /\ Goto(d, "recordData")
    /\ UNCHANGED <<serverVars, local, marks, registry, pending, known, preview, mode,
                   hand, current, faults, historyVars>>

(* baseline_locked refuses an older revision; a review goes on to run_once,  *)
(* which finds nothing pending.                                             *)
RecordData(d) ==
    /\ pc[d] = "recordData"
    /\ hand[d].remote.rev >= registry[d].rev
    /\ registry' = [registry EXCEPT ![d] = hand[d].remote]
    /\ known' = [known EXCEPT ![d] = hand[d].remote]
    /\ Synced(d, "hand" \in current[d] /\ hand[d].mine = hand[d].remote.docs, {"hand"})
    /\ IF mode[d] = "review"
       THEN /\ Goto(d, "fetch")
            /\ mode' = [mode EXCEPT ![d] = "sync"]
            /\ hand' = [hand EXCEPT ![d] = NoHand]
       ELSE Return(d)
    /\ UNCHANGED <<serverVars, local, marks, stored, pending, preview, faults, historyVars>>

(* upload: the operation is durable before it is sent; a crash in between   *)
(* is a request that never arrives.                                         *)
Upload(d) ==
    /\ pc[d] = "upload"
    /\ hand[d].remote.rev < MaxRev
    /\ pending' = [pending EXCEPT ![d] =
                       {[by |-> d, base |-> hand[d].remote.rev, docs |-> hand[d].mine]}]
    /\ requests' = requests \cup pending'[d]
    /\ current' = [current EXCEPT ![d] = IF "hand" \in @ THEN @ \cup {"pending"}
                                                        ELSE @ \ {"pending"}]
    /\ hand' = [hand EXCEPT ![d].mine = Empty]
    /\ Goto(d, "sent")
    /\ UNCHANGED <<head, committed, expired, local, marks, registry, stored, known,
                   preview, mode, faults, historyVars>>

----------------------------------------------------------------------------
(* Failures.                                                                *)

(* A step of the task fails, or the task is cancelled between two of them.  *)
Fail(d) ==
    /\ pc[d] \notin {"idle", "sent", "resent"}
    /\ \/ Fault
       \/ pc[d] = "upload" /\ hand[d].remote.rev = MaxRev /\ UNCHANGED faults
    /\ Return(d)
    /\ Forget(d, {"hand"})
    /\ UNCHANGED <<serverVars, local, durableVars, known, preview, historyVars>>

(* The process ends; memory starts again from what is stored.               *)
Crash(d) ==
    /\ pc[d] # "idle"
    /\ Fault
    /\ Return(d)
    /\ known' = [known EXCEPT ![d] = stored[d]]
    /\ preview' = [preview EXCEPT ![d] = {}]
    /\ Forget(d, {"hand"})
    /\ UNCHANGED <<serverVars, local, durableVars, historyVars>>

Task(d) ==
    \/ Begin(d) \/ Answered(d) \/ Rejected(d) \/ Refused(d)
    \/ RetryRejected(d) \/ Unanswered(d)
    \/ AcceptData(d) \/ AcceptDone(d)
    \/ Merge(d) \/ MakePreview(d) \/ ShowConflict(d) \/ Apply(d) \/ Restore(d)
    \/ Record(d) \/ RecordData(d) \/ Upload(d)
    \/ Fail(d) \/ Crash(d)

Next ==
    \/ \E d \in Devices : Task(d)
    \/ \E d \in Devices, x \in Docs : Edit(d, x) \/ Remove(d, x)
    \/ \E op \in requests : Deliver(op) \/ Expire(op)

Spec == Init /\ [][Next]_vars

----------------------------------------------------------------------------
(* Properties.                                                              *)

(* Nothing a user wrote or deleted disappears from the vault or from a      *)
(* device unless a later edit saw it or a user decided against it: what     *)
(* diff_sync_documents merges on its own, over whatever baseline crashes    *)
(* and lost answers left behind, is never a lost update.                    *)
EditsSurvive ==
    [][\A x \in Docs : /\ view[head.rev][x] \subseteq view'[head'.rev][x]
                       /\ \A d \in Devices : saw[d][x] \subseteq saw'[d][x]]_vars

(* The server commits an operation only while its device still holds the    *)
(* pending record: one that discard_rejected or retire_reviewed_pending     *)
(* dropped can never reach the vault behind the back of what replaced it.   *)
OnlyPendingCommits ==
    [][\A op \in committed' \ committed : pending[op.by] = {op}]_vars

(* The vault and the baselines implement a log of versions: whatever is     *)
(* lost, replayed or crashes between the writes of accept_receipt and       *)
(* run_once, every copy of a baseline is a version the vault went through,  *)
(* and none of them ever goes back.                                         *)
VersionAt(r) ==
    IF r = 1 THEN Empty
    ELSE (CHOOSE op \in committed : op.base + 1 = r).docs

Versions == [r \in 1..head.rev |-> VersionAt(r)]

Copies(d) == [stored |-> stored[d], registry |-> registry[d], known |-> known[d]]

Vault == INSTANCE VaultLog WITH
    First <- Empty, log <- Versions, agreed <- [d \in Devices |-> Copies(d)]

ImplementsVaultLog == Vault!Spec

(* A device reports Ready only while what it would upload is what it last   *)
(* agreed on with the server.                                               *)
SyncedMeansCommitted ==
    \A d \in Devices : "synced" \in current[d] => ImageOf(d) = stored[d].docs

(* A sync never meets a document of its baseline that is simply missing     *)
(* from the captured image: a deletion always has its tombstone.            *)
NoMissingTombstone ==
    \A d \in Devices :
        pc[d] = "fetch" => ~MissingTombstone(known[d], ImageOf(d), head.docs)
=============================================================================
