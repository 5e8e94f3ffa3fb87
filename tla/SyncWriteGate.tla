--------------------------- MODULE SyncWriteGate ---------------------------
(***************************************************************************)
(* SyncWriteGate of encrypted sync: the durable generation counter, the    *)
(* intents of ordinary writes, the exclusive permit of a restore, the      *)
(* optimistic read token and the change notification                       *)
(* (cloud_sync_e2ee_store/gate.rs; its clients persistence.rs, capture.rs  *)
(* and cloud_sync_e2ee_documents/restore.rs).                              *)
(*                                                                         *)
(* Every action is one critical section of the gate's mutex, one write of  *)
(* a tracked file, or one observation. A save that reports an error may or *)
(* may not have replaced the file (a failed directory flush), and the      *)
(* process may die between any two actions.                                *)
(***************************************************************************)
EXTENDS Integers, FiniteSets

CONSTANTS
    Writer,      \* identities of MutationPermits (reused only once forgotten)
    Reader,      \* optimistic captures
    MaxGen,      \* bound on the generation
    MaxEpoch,    \* bound on the epoch, checked_add in the code
    MaxWrites,   \* bound on the writes that change synchronised data
    FaultyDisk,  \* saves may fail and permits may be dropped unfinished
    Restoring,   \* encrypted restores may run
    CommitOrigin \* of the ordinary commits; the legacy restore, which only runs
                 \* where no sync service does, is one with origin Restore

ASSUME GateAssumption ==
    /\ MaxGen \in Nat
    /\ MaxEpoch \in Nat
    /\ MaxWrites \in Nat
    /\ FaultyDisk \in BOOLEAN
    /\ Restoring \in BOOLEAN

ASSUME OriginAssumption == CommitOrigin \subseteq {"User", "Restore"}

Unseen == -1

VARIABLES
    disk,       \* the persisted state file
    stored,     \* State.stored, its copy in memory
    active,     \* State.active, permits issued by this process
    lease,      \* "none", or how the exclusive permit was acquired
    fault,      \* State.io_fault
    epoch,      \* State.epoch
    change,     \* State.pending_change
    blocked,    \* runtime_blocked, the flag the runtime reads without a lock
    effect,     \* what the operation under each permit has persisted so far
    sending,    \* changes taken under the mutex and not yet offered to the channel
    channel,    \* the watch channel
    content,    \* version of the synchronised data in the tracked files
    writes,     \* versions written so far
    before,     \* version the pending restore found, held by its journal
    recorded,   \* version when the persisted generation was last advanced
    token,      \* what each reader sampled, and the versions it has read since
    named,      \* version an accepted capture found under each generation
    lastUser    \* generation of the last User commit

fileVars   == <<content, writes, before, recorded>>
readVars   == <<token, named>>
notifyVars == <<sending, channel, lastUser>>
vars == <<disk, stored, active, lease, fault, epoch, change, blocked, effect,
          fileVars, readVars, notifyVars>>

Persisted == [generation : Nat, incomplete : SUBSET Writer,
              restore : {"none", "pending", "ready"}]
Origin    == {"User", "Restore", "Recovery"}
Change    == [generation : Nat, origin : Origin]
Effect    == {"nothing", "local", "synced", "unknown", "failed"}
NoToken   == [generation |-> Unseen, epoch |-> 0, read |-> {}]

TypeOK ==
    /\ disk \in Persisted /\ stored \in Persisted
    /\ active \in SUBSET Writer
    /\ lease \in {"none", "normal", "recovery"}
    /\ fault \in BOOLEAN /\ blocked \in BOOLEAN
    /\ epoch \in Nat
    /\ change \in Origin \cup {"none"}
    /\ effect \in [Writer -> Effect]
    /\ sending \in SUBSET Change /\ channel \in Change
    /\ content \in Nat /\ writes \in Nat /\ before \in Nat /\ recorded \in Nat
    /\ token \in [Reader -> [generation : Nat \cup {Unseen}, epoch : Nat, read : SUBSET Nat]]
    /\ named \in [0..MaxGen -> Nat \cup {Unseen}]
    /\ lastUser \in Nat

----------------------------------------------------------------------------
(* The state file.                                                          *)

Orphaned(st, act) == st.incomplete # act
Unhealthy == fault \/ Orphaned(stored, active) \/ stored.restore # "none"

RuntimeFlag(st, act, flt) == flt \/ Orphaned(st, act) \/ st.restore # "none"

Save(next) ==
    /\ disk' = next
    /\ stored' = next

(* An error from persist: memory keeps the old value, the disk may have either. *)
SaveFails(next) ==
    /\ FaultyDisk
    /\ disk' \in {disk, next}
    /\ fault' = TRUE
    /\ blocked' = TRUE
    /\ UNCHANGED <<stored, active, lease, epoch, change, notifyVars, readVars>>

Advanced(st) == [st EXCEPT !.generation = @ + 1]

(* The data the new counter value stands for, when it reached the disk.     *)
RecordIfLanded(next) == recorded' = IF disk' = next THEN content ELSE recorded

Init ==
    /\ disk = [generation |-> 0, incomplete |-> {}, restore |-> "none"]
    /\ stored = disk
    /\ active = {}
    /\ lease = "none"
    /\ fault = FALSE
    /\ epoch = 0
    /\ change = "none"
    /\ blocked = FALSE
    /\ effect = [w \in Writer |-> "nothing"]
    /\ sending = {}
    /\ channel = [generation |-> 0, origin |-> "Recovery"]
    /\ content = 0 /\ writes = 0 /\ before = 0 /\ recorded = 0
    /\ token = [r \in Reader |-> NoToken]
    /\ named = [g \in 0..MaxGen |-> Unseen]
    /\ lastUser = 0

----------------------------------------------------------------------------
(* Ordinary writes: MutationPermit.                                         *)

Registered(w) == [stored EXCEPT !.incomplete = @ \cup {w}]
Cleared(w)    == [stored EXCEPT !.incomplete = @ \ {w}]

MayBegin(w) ==
    /\ ~Unhealthy
    /\ lease = "none"
    /\ w \notin active

(* begin_mutation: the intent is durable before the permit exists.          *)
BeginMutation(w) ==
    /\ MayBegin(w)
    /\ epoch < MaxEpoch
    /\ Save(Registered(w))
    /\ epoch' = epoch + 1
    /\ active' = active \cup {w}
    /\ blocked' = RuntimeFlag(stored', active', fault)
    /\ effect' = [effect EXCEPT ![w] = "nothing"]
    /\ UNCHANGED <<lease, fault, change, fileVars, readVars, notifyVars>>

BeginFails(w) ==
    /\ MayBegin(w)
    /\ SaveFails(Registered(w))
    /\ UNCHANGED <<effect, fileVars>>

(* atomic_write under the permit; synchronised data gets a new version. A   *)
(* failed directory flush reports OutcomeUnknown and ends the operation.    *)
WriteSynced(w) ==
    /\ w \in active
    /\ effect[w] \in {"nothing", "local", "synced"}
    /\ writes < MaxWrites
    /\ writes' = writes + 1
    /\ \/ /\ content' = writes'
          /\ effect' = [effect EXCEPT ![w] = "synced"]
       \/ /\ FaultyDisk
          /\ content' \in {content, writes'}
          /\ effect' = [effect EXCEPT ![w] = "unknown"]
    /\ UNCHANGED <<disk, stored, active, lease, fault, epoch, change, blocked,
                   before, recorded, readVars, notifyVars>>

(* A write that leaves every synchronised field as it was.                  *)
WriteLocal(w) ==
    /\ w \in active
    /\ effect[w] = "nothing"
    /\ effect' = [effect EXCEPT ![w] = "local"]
    /\ UNCHANGED <<disk, stored, active, lease, fault, epoch, change, blocked,
                   fileVars, readVars, notifyVars>>

(* The permit leaves `active`; whoever leaves last takes the pending change. *)
Finish(w, pendingChange) ==
    /\ active' = active \ {w}
    /\ blocked' = RuntimeFlag(stored', active', fault)
    /\ IF active' = {} /\ pendingChange # "none"
       THEN /\ change' = "none"
            /\ sending' = sending \cup {[generation |-> stored'.generation,
                                         origin |-> pendingChange]}
       ELSE /\ change' = pendingChange
            /\ UNCHANGED sending
    /\ UNCHANGED <<lease, fault, epoch, effect, channel, readVars>>

(* commit(origin) of an operation that changed synchronised data.           *)
Commit(w, origin) ==
    /\ w \in active
    /\ ~fault
    /\ effect[w] = "synced"
    /\ stored.generation < MaxGen
    /\ Save(Advanced(Cleared(w)))
    /\ Finish(w, origin)
    /\ recorded' = content
    /\ lastUser' = IF origin = "User" THEN stored'.generation ELSE lastUser
    /\ UNCHANGED <<content, writes, before>>

CommitLocalOnly(w) ==
    /\ w \in active
    /\ ~fault
    /\ effect[w] = "local"
    /\ Save(Cleared(w))
    /\ Finish(w, change)
    /\ UNCHANGED <<fileVars, lastUser>>

CommitFails(w) ==
    /\ w \in active
    /\ ~fault
    /\ \/ /\ effect[w] = "synced"
          /\ stored.generation < MaxGen
          /\ SaveFails(Advanced(Cleared(w)))
          /\ RecordIfLanded(Advanced(Cleared(w)))
       \/ /\ effect[w] = "local"
          /\ SaveFails(Cleared(w))
          /\ UNCHANGED recorded
    /\ effect' = [effect EXCEPT ![w] = "failed"]
    /\ UNCHANGED <<content, writes, before>>

(* Slip: an unknown outcome is taken for a write that never happened.       *)
AbortUnknown(w) ==
    /\ w \in active
    /\ effect[w] \in {"nothing", "unknown"}
    /\ Save(Cleared(w))
    /\ Finish(w, change)
    /\ UNCHANGED <<fileVars, lastUser>>

(* Only an operation that persisted nothing may abort.                      *)
AbortUnmodified(w) ==
    /\ w \in active
    /\ effect[w] = "nothing"
    /\ Save(Cleared(w))
    /\ Finish(w, change)
    /\ UNCHANGED <<fileVars, lastUser>>

AbortFails(w) ==
    /\ w \in active
    /\ effect[w] = "nothing"
    /\ SaveFails(Cleared(w))
    /\ effect' = [effect EXCEPT ![w] = "failed"]
    /\ UNCHANGED fileVars

(* Drop of an unfinished permit: its intent stays on disk.                  *)
DropPermit(w) ==
    /\ FaultyDisk
    /\ w \in active
    /\ active' = active \ {w}
    /\ fault' = TRUE
    /\ blocked' = TRUE
    /\ UNCHANGED <<disk, stored, lease, epoch, change, effect,
                   fileVars, readVars, notifyVars>>

(* Slip: the last change offered wins.                                      *)
SupersedesAlways(n) == TRUE

Supersedes(n) == n.generation >= channel.generation

(* Outside the mutex, so two changes may be offered in either order.        *)
Publish(n) ==
    /\ n \in sending
    /\ sending' = sending \ {n}
    /\ channel' = IF Supersedes(n) THEN n ELSE channel
    /\ UNCHANGED <<disk, stored, active, lease, fault, epoch, change, blocked,
                   effect, lastUser, fileVars, readVars>>

----------------------------------------------------------------------------
(* The exclusive permit. Its callers stop at the first error, so nothing    *)
(* but its drop follows a failed save.                                      *)

Exclusive(mode) ==
    /\ lease = "none"
    /\ active = {}
    /\ epoch < MaxEpoch
    /\ epoch' = epoch + 1
    /\ lease' = mode
    /\ UNCHANGED <<disk, active, change, effect, fileVars, readVars, notifyVars>>

(* Slip: the orphaned intents of an earlier process are not looked at.      *)
TryExclusiveOrphaned ==
    /\ ~fault /\ stored.restore = "none"
    /\ Exclusive("normal")
    /\ UNCHANGED <<stored, fault, blocked>>

TryExclusive ==
    /\ ~Unhealthy
    /\ Exclusive("normal")
    /\ UNCHANGED <<stored, fault, blocked>>

(* Slips: recovery keeps the old flag, or its own memory.                   *)
RecoverStaleFlag ==
    /\ blocked
    /\ Exclusive("recovery")
    /\ stored' = disk
    /\ fault' = FALSE
    /\ UNCHANGED blocked
RecoverFromMemory ==
    /\ blocked
    /\ Exclusive("recovery")
    /\ fault' = FALSE
    /\ blocked' = RuntimeFlag(stored, active, FALSE)
    /\ UNCHANGED stored

(* The only way out of a fault: trust what the disk says, intents included. *)
TryExclusiveRecovery ==
    /\ blocked
    /\ Exclusive("recovery")
    /\ stored' = disk
    /\ fault' = FALSE
    /\ blocked' = RuntimeFlag(disk, active, FALSE)

Holding == lease # "none" /\ ~fault

ExclusiveSave(next) ==
    /\ Holding
    /\ Save(next)
    /\ blocked' = RuntimeFlag(next, active, fault)
    /\ UNCHANGED <<active, lease, fault, epoch, change, effect, content, writes,
                   channel, lastUser, readVars>>

ExclusiveSaveFails(next) ==
    /\ Holding
    /\ SaveFails(next)
    /\ UNCHANGED <<effect, content, writes>>

Announce(origin) ==
    sending' = sending \cup {[generation |-> stored'.generation, origin |-> origin]}

(* Slip: recovery keeps the generation.                                     *)
ReconciledInPlace == [stored EXCEPT !.incomplete = {}]

(* accept_reconciled_capture, after every store was read back: the intents  *)
(* are cleared under a generation of their own, never declared successful.  *)
Reconciled == Advanced([stored EXCEPT !.incomplete = {}])
MayReconcile ==
    /\ lease = "recovery"
    /\ stored.restore = "none"
    /\ stored.incomplete # {}
    /\ stored.generation < MaxGen

AcceptReconciledCapture ==
    /\ MayReconcile
    /\ ExclusiveSave(Reconciled)
    /\ Announce("Recovery")
    /\ recorded' = content
    /\ UNCHANGED before

ReconcileFails ==
    /\ MayReconcile
    /\ ExclusiveSaveFails(Reconciled)
    /\ RecordIfLanded(Reconciled)
    /\ UNCHANGED before

(* apply_sync_restore marks the restore before its journal is written.      *)
MayMark ==
    /\ Restoring
    /\ lease = "normal"
    /\ stored.restore = "none"
MarkedPending == [stored EXCEPT !.restore = "pending"]

MarkRestorePending ==
    /\ MayMark
    /\ \/ ExclusiveSave(MarkedPending) /\ UNCHANGED sending
       \/ ExclusiveSaveFails(MarkedPending)
    /\ before' = content
    /\ UNCHANGED recorded

MarkedReady == [stored EXCEPT !.restore = "ready"]

MarkJournalReady ==
    /\ stored.restore = "pending"
    /\ \/ ExclusiveSave(MarkedReady) /\ UNCHANGED sending
       \/ ExclusiveSaveFails(MarkedReady)
    /\ UNCHANGED <<before, recorded>>

(* One file of the restored image, or the whole image put back from the     *)
(* journal; either may stop half way.                                       *)
Replace ==
    /\ Holding
    /\ stored.restore = "ready"
    /\ \/ writes < MaxWrites /\ writes' = writes + 1 /\ content' = writes'
       \/ content' = before /\ UNCHANGED writes
    /\ UNCHANGED <<disk, stored, active, lease, fault, epoch, change, blocked,
                   effect, before, recorded, readVars, notifyVars>>

(* finish_restore(committed); recover_without_journal finishes a restore    *)
(* whose journal never became ready. A rollback was verified first.         *)
Finished(committed) ==
    [(IF committed THEN Advanced(stored) ELSE stored) EXCEPT !.restore = "none"]
MayFinish(committed) ==
    IF committed THEN stored.restore = "ready" /\ stored.generation < MaxGen
    ELSE \/ stored.restore = "ready" /\ content = before
         \/ stored.restore = "pending" /\ lease = "recovery"

FinishRestore(committed) ==
    /\ MayFinish(committed)
    /\ ExclusiveSave(Finished(committed))
    /\ IF committed THEN Announce("Restore") /\ recorded' = content
                    ELSE UNCHANGED <<sending, recorded>>
    /\ UNCHANGED before

FinishFails(committed) ==
    /\ MayFinish(committed)
    /\ ExclusiveSaveFails(Finished(committed))
    /\ IF committed THEN RecordIfLanded(Finished(TRUE)) ELSE UNCHANGED recorded
    /\ UNCHANGED before

(* Drop of the last clone of the permit.                                    *)
ReleaseExclusive ==
    /\ lease # "none"
    /\ epoch < MaxEpoch
    /\ epoch' = epoch + 1
    /\ lease' = "none"
    /\ UNCHANGED <<disk, stored, active, fault, change, blocked, effect,
                   fileVars, readVars, notifyVars>>

----------------------------------------------------------------------------
(* capture_readonly: sample, read files at leisure, sample again.           *)

Coherent == ~Unhealthy /\ lease = "none" /\ active = {}

Sample(r) ==
    /\ Coherent
    /\ token[r] = NoToken
    /\ token' = [token EXCEPT ![r] = [generation |-> stored.generation,
                                      epoch |-> epoch, read |-> {}]]
    /\ UNCHANGED <<named, disk, stored, active, lease, fault, epoch, change,
                   blocked, effect, fileVars, notifyVars>>

ReadFile(r) ==
    /\ token[r] # NoToken
    /\ token' = [token EXCEPT ![r].read = @ \cup {content}]
    /\ UNCHANGED <<named, disk, stored, active, lease, fault, epoch, change,
                   blocked, effect, fileVars, notifyVars>>

(* Slip: the epoch is left out of the comparison.                           *)
SameGeneration(r) == Coherent /\ token[r].generation = stored.generation

SameToken(r) ==
    /\ Coherent
    /\ token[r].generation = stored.generation
    /\ token[r].epoch = epoch

EndCapture(r) ==
    /\ token[r] # NoToken
    /\ token' = [token EXCEPT ![r] = NoToken]
    /\ named' = IF SameToken(r) /\ token[r].read # {}
                THEN [named EXCEPT ![stored.generation] = CHOOSE c \in token[r].read : TRUE]
                ELSE named
    /\ UNCHANGED <<disk, stored, active, lease, fault, epoch, change, blocked,
                   effect, fileVars, notifyVars>>

----------------------------------------------------------------------------
(* The process dies and SyncWriteGate::open reads the state file again.     *)
Restart ==
    /\ stored' = disk
    /\ active' = {}
    /\ lease' = "none"
    /\ fault' = FALSE
    /\ epoch' = 0
    /\ change' = "none"
    /\ blocked' = (disk.incomplete # {} \/ disk.restore # "none")
    /\ effect' = [w \in Writer |-> "nothing"]
    /\ sending' = {}
    /\ channel' = [generation |-> disk.generation, origin |-> "Recovery"]
    /\ token' = [r \in Reader |-> NoToken]
    /\ UNCHANGED <<disk, named, lastUser, fileVars>>

WriterStep(w) ==
    \/ BeginMutation(w) \/ BeginFails(w)
    \/ WriteSynced(w) \/ WriteLocal(w)
    \/ \E origin \in CommitOrigin : Commit(w, origin)
    \/ CommitLocalOnly(w) \/ CommitFails(w)
    \/ AbortUnmodified(w) \/ AbortFails(w)
    \/ DropPermit(w)

ExclusiveStep ==
    \/ TryExclusive \/ TryExclusiveRecovery \/ ReleaseExclusive
    \/ AcceptReconciledCapture \/ ReconcileFails
    \/ MarkRestorePending \/ MarkJournalReady \/ Replace
    \/ \E committed \in BOOLEAN : FinishRestore(committed) \/ FinishFails(committed)

Next ==
    \/ \E w \in Writer : WriterStep(w)
    \/ ExclusiveStep
    \/ \E n \in sending : Publish(n)
    \/ \E r \in Reader : Sample(r) \/ ReadFile(r) \/ EndCapture(r)
    \/ Restart

Spec == Init /\ [][Next]_vars

----------------------------------------------------------------------------
(* Data that the durable generation does not stand for is always announced *)
(* on disk, by a write's intent or by a restore whose journal is ready, so  *)
(* that no crash and no uncertain save leaves a silently changed store.     *)
UncertainWriteHasIntent ==
    content # recorded => disk.incomplete # {} \/ disk.restore = "ready"

(* The flag the runtime reads without the mutex is what the state says, so  *)
(* recovery_required is neither stale after a save nor left set by one.     *)
RuntimeFlagExact == blocked = RuntimeFlag(stored, active, fault)

(* A quiet gate that blocks nothing has nothing left to reconcile: memory   *)
(* agrees with the disk, and the data with the generation.                  *)
UnblockedMeansReconciled ==
    ~blocked /\ active = {} /\ lease = "none" => stored = disk /\ content = recorded

(* A reader whose second sample equals its first saw a single version:      *)
(* every write, permit and restore in between has moved the epoch.          *)
TokenSound ==
    \A r \in Reader :
        token[r] # NoToken /\ SameToken(r) => token[r].read \subseteq {content}

(* A generation a capture was accepted under never comes to stand for other *)
(* data, across failed saves, crashes, recoveries and rolled back restores. *)
GenerationNamesData ==
    Coherent /\ named[stored.generation] # Unseen => content = named[stored.generation]

(* A restore and an uncertain ordinary write are never on disk together:    *)
(* recovery handles each alone.                                             *)
RestoreExcludesIntents == disk.restore # "none" => disk.incomplete = {}

(* What the disk says is enough to recover from: data it does not stand for *)
(* is announced, by a write or by a restore, never by both.                 *)
UncertainIsAnnounced == UncertainWriteHasIntent /\ RestoreExcludesIntents

(* Who goes by the flag works on reconciled data: it is what the state says,*)
(* and a state that blocks nothing has nothing left to reconcile.           *)
UnblockedIsSound == RuntimeFlagExact /\ UnblockedMeansReconciled

(* Subscribers never see the generation go back, whatever the order in      *)
(* which commits reach the channel and whatever a failed save left on disk. *)
NotificationsNeverGoBack == [][channel'.generation >= channel.generation]_channel
=============================================================================
