----------------------------- MODULE VoiceGate -----------------------------
(***************************************************************************)
(* Ownership of the microphone and of background runtime work, and their   *)
(* exclusion from an encrypted-sync restore.                               *)
(*                                                                         *)
(*   VoiceSessionGate     one lease at a time; native tasks pin the lease  *)
(*                        with resource holds (voice_session.rs)           *)
(*   RuntimeActivityGate  one counter per non-audio domain (starts, QA,    *)
(*                        selection, selection voice), read together with  *)
(*                        that domain's phase under the domain state lock  *)
(*   restore admission    CoreSyncStore raises `restoring`, then probes    *)
(*                        every gate in turn (cloud_sync_e2ee_store)       *)
(*                                                                         *)
(* Every action is one critical section of the code.                       *)
(***************************************************************************)
EXTENDS Naturals, FiniteSets

CONSTANTS
    Session,    \* voice session ids
    Kind,       \* VoiceSessionKind
    Hold,       \* identities of VoiceResourceHold guards
    Domain,     \* domains that own a RuntimeActivityGate
    Worker,     \* identities of RuntimeActivityHold guards
    NoSession, NoLease, NoDomain

Lease == [session_id : Session, kind : Kind, released : BOOLEAN, resources : Nat]

ASSUME ConstantsAssumption ==
    /\ NoSession \notin Session
    /\ NoDomain \notin Domain
    /\ "voice" \notin Domain
    /\ NoLease \notin Lease
    /\ IsFiniteSet(Hold)
    /\ IsFiniteSet(Worker)

VARIABLES
    active,      \* VoiceSessionGate.active: a lease or NoLease
    holdOf,      \* the session each live VoiceResourceHold belongs to
    workOf,      \* the domain each live RuntimeActivityHold counts in
    cleaners,    \* workers whose hold was taken with clean = false
    running,     \* RuntimeActivityState.active of each domain
    abandoned,   \* RuntimeActivityState.abandoned_cleanup of each domain
    busy,        \* domains whose snapshot phase is not a terminal one
    restore,     \* "none", "probing" or "admitted"; restoring = TRUE unless "none"
    probed,      \* gates the running probe has found idle ("voice" or a domain)
    pending,     \* the durable pending_restore of the sync write gate
    fault        \* recovery required for another reason than a restore

voiceVars   == <<active, holdOf>>
runtimeVars == <<workOf, cleaners, running, abandoned, busy>>
restoreVars == <<restore, probed, pending, fault>>
gateVars    == <<voiceVars, runtimeVars, restoreVars>>

Gates == Domain \cup {"voice"}

GateTypeOK ==
    /\ active \in Lease \cup {NoLease}
    /\ holdOf \in [Hold -> Session \cup {NoSession}]
    /\ workOf \in [Worker -> Domain \cup {NoDomain}]
    /\ cleaners \in SUBSET Worker
    /\ running \in [Domain -> Nat]
    /\ abandoned \in [Domain -> BOOLEAN]
    /\ busy \in SUBSET Domain
    /\ restore \in {"none", "probing", "admitted"}
    /\ probed \in SUBSET Gates
    /\ pending \in BOOLEAN
    /\ fault \in BOOLEAN

GateInit ==
    /\ active = NoLease
    /\ holdOf = [h \in Hold |-> NoSession]
    /\ workOf = [w \in Worker |-> NoDomain]
    /\ cleaners = {}
    /\ running = [d \in Domain |-> 0]
    /\ abandoned = [d \in Domain |-> FALSE]
    /\ busy = {}
    /\ restore = "none"
    /\ probed = {}
    /\ pending \in BOOLEAN          \* a crash may have left a restore pending
    /\ fault \in BOOLEAN

(* Slips: admission looks only at the durable markers, or not at them.      *)
IsRecoveringMarked == pending \/ fault
IsRecoveringNow    == restore # "none" \/ fault

(* CoreSyncStore::is_recovering, read through the bound restore guard.      *)
IsRecovering == restore # "none" \/ pending \/ fault

----------------------------------------------------------------------------
(* VoiceSessionGate.                                                        *)

(* The claim of a free slot. Re-acquiring one's own lease and every Busy    *)
(* outcome change nothing.                                                  *)
Acquire(s, k) ==
    /\ active = NoLease
    /\ ~IsRecovering
    /\ active' = [session_id |-> s, kind |-> k, released |-> FALSE, resources |-> 0]
    /\ UNCHANGED <<holdOf, runtimeVars, restoreVars>>

(* Slip: the slot is freed at once.                                         *)
ReleaseAtOnce(s) ==
    /\ active # NoLease
    /\ active.session_id = s
    /\ active' = NoLease
    /\ UNCHANGED <<holdOf, runtimeVars, restoreVars>>

(* The lease stays in the slot, token cancelled, while native tasks hold it. *)
Release(s) ==
    /\ active # NoLease
    /\ active.session_id = s
    /\ active' = IF active.resources = 0 THEN NoLease
                                         ELSE [active EXCEPT !.released = TRUE]
    /\ UNCHANGED <<holdOf, runtimeVars, restoreVars>>

HoldResources(h, s) ==
    /\ holdOf[h] = NoSession
    /\ active # NoLease
    /\ active.session_id = s
    /\ ~active.released
    /\ active' = [active EXCEPT !.resources = @ + 1]
    /\ holdOf' = [holdOf EXCEPT ![h] = s]
    /\ UNCHANGED <<runtimeVars, restoreVars>>

(* Slip: the last hold of a released lease leaves it in the slot.           *)
DropHoldKept(h) ==
    /\ holdOf[h] # NoSession
    /\ holdOf' = [holdOf EXCEPT ![h] = NoSession]
    /\ active' = IF active # NoLease /\ active.session_id = holdOf[h]
                 THEN [active EXCEPT !.resources = @ - 1] ELSE active
    /\ UNCHANGED <<runtimeVars, restoreVars>>

(* Drop for VoiceResourceHold: the last hold of a released lease frees it.  *)
DropHold(h) ==
    /\ holdOf[h] # NoSession
    /\ holdOf' = [holdOf EXCEPT ![h] = NoSession]
    /\ active' =
         IF active # NoLease /\ active.session_id = holdOf[h]
         THEN IF active.released /\ active.resources = 1
              THEN NoLease
              ELSE [active EXCEPT !.resources = @ - 1]
         ELSE active
    /\ UNCHANGED <<runtimeVars, restoreVars>>

----------------------------------------------------------------------------
(* RuntimeActivityGate and the domain phase it is paired with.              *)

Count(w, d) ==
    /\ workOf[w] = NoDomain
    /\ workOf' = [workOf EXCEPT ![w] = d]
    /\ running' = [running EXCEPT ![d] = @ + 1]

(* begin_runtime_work: an operation continues under existing_work when the  *)
(* phase it reads is active, and passes the restore guard otherwise.        *)
BeginWork(w, d) ==
    /\ d \in busy \/ ~IsRecovering
    /\ Count(w, d)
    /\ cleaners' = cleaners \ {w}
    /\ UNCHANGED <<abandoned, busy, voiceVars, restoreVars>>

(* cleanup_hold: cancellation is never refused, and is not clean until done. *)
BeginCleanup(w, d) ==
    /\ Count(w, d)
    /\ cleaners' = cleaners \cup {w}
    /\ UNCHANGED <<abandoned, busy, voiceVars, restoreVars>>

(* Only an operation that holds counted work makes its domain's phase active. *)
EnterBusy(w) ==
    /\ workOf[w] # NoDomain
    /\ w \notin cleaners
    /\ busy' = busy \cup {workOf[w]}
    /\ UNCHANGED <<workOf, cleaners, running, abandoned, voiceVars, restoreVars>>

(* The phase turns terminal: completion, failure, or a cancellation racing  *)
(* the operation that still holds its work.                                 *)
LeaveBusy(d) ==
    /\ d \in busy
    /\ busy' = busy \ {d}
    /\ UNCHANGED <<workOf, cleaners, running, abandoned, voiceVars, restoreVars>>

(* Drop for RuntimeActivityHold. A cleanup hold that was not completed (its *)
(* task died) leaves the gate poisoned until the process restarts.          *)
EndWork(w, complete) ==
    LET d == workOf[w] IN
    /\ d # NoDomain
    /\ workOf' = [workOf EXCEPT ![w] = NoDomain]
    /\ running' = [running EXCEPT ![d] = @ - 1]
    /\ abandoned' = [abandoned EXCEPT ![d] = @ \/ (w \in cleaners /\ ~complete)]
    /\ cleaners' = cleaners \ {w}
    /\ UNCHANGED <<busy, voiceVars, restoreVars>>

----------------------------------------------------------------------------
(* begin_runtime_restore and the operation it admits.                       *)

BeginRestore ==
    /\ restore = "none"
    /\ restore' = "probing"
    /\ probed' = {}
    /\ UNCHANGED <<pending, fault, voiceVars, runtimeVars>>

Idle(g) ==
    IF g = "voice" THEN active = NoLease
                   ELSE g \notin busy /\ running[g] = 0 /\ ~abandoned[g]

(* One conjunct of the idle probe: each takes and releases its own lock.    *)
Probe(g) ==
    /\ restore = "probing"
    /\ g \notin probed
    /\ IF Idle(g)
       THEN /\ probed' = probed \cup {g}
            /\ restore' = IF probed' = Gates THEN "admitted" ELSE "probing"
       ELSE /\ restore' = "none"          \* RuntimeBusy drops RuntimeRestore
            /\ probed' = {}
    /\ UNCHANGED <<pending, fault, voiceVars, runtimeVars>>

(* ExclusivePermit::mark_restore_pending, before the first document changes. *)
MarkPending ==
    /\ restore = "admitted"
    /\ pending' = TRUE
    /\ UNCHANGED <<restore, probed, fault, voiceVars, runtimeVars>>

(* finish_restore, or a recovery that also reconciled every store.          *)
FinishPending ==
    /\ restore = "admitted"
    /\ pending' = FALSE
    /\ fault' \in {fault, FALSE}
    /\ UNCHANGED <<restore, probed, voiceVars, runtimeVars>>

(* The owned task ends, successfully or not: Drop for RuntimeRestore.       *)
EndRestore ==
    /\ restore = "admitted"
    /\ restore' = "none"
    /\ probed' = {}
    /\ UNCHANGED <<pending, fault, voiceVars, runtimeVars>>

(* An ordinary save whose outcome is unknown blocks admission from now on,  *)
(* also while sessions are running.                                         *)
WriteFault ==
    /\ ~fault
    /\ fault' = TRUE
    /\ UNCHANGED <<restore, probed, pending, voiceVars, runtimeVars>>

(* The process dies and is started again. The durable marker survives; a    *)
(* save that was cut short leaves its own durable intent behind.            *)
Restart ==
    /\ active' = NoLease
    /\ holdOf' = [h \in Hold |-> NoSession]
    /\ workOf' = [w \in Worker |-> NoDomain]
    /\ cleaners' = {}
    /\ running' = [d \in Domain |-> 0]
    /\ abandoned' = [d \in Domain |-> FALSE]
    /\ busy' = {}
    /\ restore' = "none"
    /\ probed' = {}
    /\ fault' \in BOOLEAN
    /\ UNCHANGED pending

----------------------------------------------------------------------------
VoiceNext ==
    \/ \E s \in Session, k \in Kind : Acquire(s, k)
    \/ \E s \in Session : Release(s)
    \/ \E h \in Hold, s \in Session : HoldResources(h, s)
    \/ \E h \in Hold : DropHold(h)

RuntimeNext ==
    \/ \E w \in Worker, d \in Domain : BeginWork(w, d) \/ BeginCleanup(w, d)
    \/ \E w \in Worker : EnterBusy(w)
    \/ \E w \in Worker, complete \in BOOLEAN : EndWork(w, complete)
    \/ \E d \in Domain : LeaveBusy(d)

RestoreNext ==
    \/ BeginRestore
    \/ \E g \in Gates : Probe(g)
    \/ MarkPending
    \/ FinishPending
    \/ EndRestore
    \/ WriteFault
    \/ Restart

GateNext == VoiceNext \/ RuntimeNext \/ RestoreNext

GateSpec == GateInit /\ [][GateNext]_gateVars

(* Every hold is owned by a spawned task that ends: own_voice_effect keeps  *)
(* running when the caller waiting for its result goes away.                *)
DropFairness == \A h \in Hold : WF_gateVars(DropHold(h))

GateFairSpec == GateSpec /\ DropFairness

----------------------------------------------------------------------------
LiveHolds == {h \in Hold : holdOf[h] # NoSession}
LiveWork(d) == {w \in Worker : workOf[w] = d}

(* Native resources of two sessions never overlap: every live hold belongs  *)
(* to the session in the slot, also after that session was cancelled.       *)
ExclusiveNativeOwner ==
    \A h \in LiveHolds : active # NoLease /\ active.session_id = holdOf[h]

(* The hold counter is exact, so `resources -= 1` cannot underflow, and a   *)
(* released lease without native work is never left occupying the slot.     *)
ResourcesExact ==
    active # NoLease =>
        /\ active.resources = Cardinality(LiveHolds)
        /\ active.released => active.resources > 0

(* Every domain counter is exact: `active -= 1` cannot underflow and an     *)
(* idle counter means that no operation of the domain is running.           *)
RunningExact == \A d \in Domain : running[d] = Cardinality(LiveWork(d))

(* While a restore is admitted no voice session, no native voice task and   *)
(* no runtime operation runs; only cancellation clean-up may.               *)
NoRuntimeWork ==
    /\ active = NoLease
    /\ LiveHolds = {}
    /\ busy = {}
    /\ \A w \in Worker : workOf[w] # NoDomain => w \in cleaners

RestoreExclusive == restore = "admitted" => NoRuntimeWork

(* Documents of an interrupted restore are never used by runtime work, not  *)
(* even after its task ended or the process was restarted: the durable      *)
(* marker keeps admission closed until a recovery finished.                 *)
HalfRestoredIsQuiet == pending => NoRuntimeWork

(* A restore has its documents to itself, from its admission until what it  *)
(* began is finished or taken back, in this process or in a later one.      *)
RestoreIsAlone == RestoreExclusive /\ HalfRestoredIsQuiet

(* Cancellation returns the microphone: once a lease is released its slot   *)
(* is freed when the owned native tasks have ended.                         *)
ReleasedLeaseDrains ==
    (active # NoLease /\ active.released) ~> (active = NoLease)

=============================================================================
