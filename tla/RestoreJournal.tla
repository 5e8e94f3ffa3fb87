--------------------------- MODULE RestoreJournal --------------------------
(***************************************************************************)
(* An encrypted restore and its recovery: the sealed journal of each scope *)
(* (cloud_sync_e2ee_documents/restore.rs, cloud_sync_e2ee_store/           *)
(* journal.rs), the marker and the receipts the write gate persists        *)
(* (gate.rs), and the loop that recovers every registered scope (mod.rs).  *)
(*                                                                         *)
(* Restores and recoveries run one at a time, under the store's metadata   *)
(* lock; `pc' is the position of the one that runs. Every action is one    *)
(* durable write or one replacement of the data. Each may fail, with the   *)
(* old or the new file in place, and the process may die between any two.  *)
(* Ordinary edits go on whenever the exclusive permit is free; how they    *)
(* fail is the matter of SyncWriteGate.                                    *)
(***************************************************************************)
EXTENDS Integers, FiniteSets, Sequences

CONSTANTS
    Scope,       \* scopes of encrypted sync, each with a journal file
    MaxVersion,  \* bound on the versions of the data
    MaxFaults    \* bound on failing writes and crashes

ASSUME JournalAssumption ==
    IsFiniteSet(Scope) /\ MaxVersion \in Nat /\ MaxFaults \in Nat

VARIABLES
    disk,       \* the gate's state file
    stored,     \* its copy in memory
    fault,      \* io_fault of the gate
    journal,    \* the journal file of each scope
    content,    \* version of the synchronised data, or Torn
    latest,     \* last version or restore that came up
    preview,    \* scope and generation each restore was previewed at
    plans,      \* previews of this process not yet applied
    pc,         \* position of apply_sync_restore or recover_registered
    cur,        \* the journal in hand, with its scope
    todo,       \* scopes the running recovery still has to visit
    asked,      \* what a recovery that waits for its turn read, if one does
    ended,      \* how each restore ended, by the receipt that reached the disk
    told,       \* what apply_sync_restore returned for it
    faults      \* failing writes and crashes so far

vars == <<disk, stored, fault, journal, content, latest, preview, plans, pc,
          cur, todo, asked, ended, told, faults>>

Version == 1..MaxVersion
Torn    == -1            \* some files replaced and some not
Null    == [op |-> 0]    \* no marker, no receipt, no journal, no preview

Phase    == {"prepared", "committed", "rolledBack"}
Outcome  == {"open", "committed", "rolledBack"}
Journal  == [op : Version, before : Nat, phase : Phase]
Marker   == [op : Version, scope : Scope, ready : BOOLEAN]
Receipt  == [op : Version, committed : BOOLEAN]
Planned  == [op : Version, scope : Scope, generation : Nat]
InHand   == [op : Version, scope : Scope, before : Nat, phase : Phase]

Persisted == [generation : Nat, pending : Marker \cup {Null},
              receipts : [Scope -> Receipt \cup {Null}]]

Idle      == {"idle", "scope"}    \* positions that do not hold the permit
Positions == Idle \cup {"mark", "prepare", "ready", "replace", "undo", "replay",
                        "refuse", "decide", "finish", "clear", "forget",
                        "open", "orphan", "forgetScope"}

TypeOK ==
    /\ disk \in Persisted /\ stored \in Persisted
    /\ fault \in BOOLEAN
    /\ journal \in [Scope -> Journal \cup {Null}]
    /\ content \in Nat \cup {Torn}
    /\ latest \in 0..MaxVersion
    /\ preview \in [Version -> Planned \cup {Null}]
    /\ plans \in SUBSET Version
    /\ pc \in Positions
    /\ cur \in InHand \cup {Null}
    /\ todo \in Seq(Scope) /\ asked \in SUBSET Seq(Scope)
    /\ ended \in [Version -> Outcome] /\ told \in [Version -> Outcome]
    /\ faults \in 0..MaxFaults

Init ==
    /\ disk = [generation |-> 0, pending |-> Null, receipts |-> [s \in Scope |-> Null]]
    /\ stored = disk
    /\ fault = FALSE
    /\ journal = [s \in Scope |-> Null]
    /\ content = 0 /\ latest = 0
    /\ preview = [o \in Version |-> Null]
    /\ plans = {}
    /\ pc = "idle" /\ cur = Null /\ todo = <<>> /\ asked = {}
    /\ ended = [o \in Version |-> "open"]
    /\ told = [o \in Version |-> "open"]
    /\ faults = 0

----------------------------------------------------------------------------
(* Building blocks.                                                         *)

gateVars == <<disk, stored, fault>>
planVars == <<latest, preview, plans, asked>>
Recovering == todo # <<>>

Fails == faults < MaxFaults /\ faults' = faults + 1
Works == UNCHANGED faults

GoTo(position) == pc' = position /\ UNCHANGED <<cur, todo>>

(* An error leaves the operation and drops its permit.                      *)
GiveUp == pc' = "idle" /\ cur' = Null /\ todo' = <<>>

(* SyncWriteGate::save.                                                     *)
Save(next) == disk' = next /\ stored' = next /\ Works /\ UNCHANGED fault
SaveFails(next) ==
    /\ Fails
    /\ disk' \in {disk, next}
    /\ fault' = TRUE
    /\ UNCHANGED stored
    /\ GiveUp

(* save_journal of the journal in hand, in the given phase.                 *)
Entry(phase) == [op |-> cur.op, before |-> cur.before, phase |-> phase]
SaveJournal(phase, next) ==
    \/ /\ Works
       /\ journal' = [journal EXCEPT ![cur.scope] = Entry(phase)]
       /\ pc' = next
       /\ cur' = [cur EXCEPT !.phase = phase]
       /\ UNCHANGED todo
    \/ /\ Fails
       /\ journal' \in {journal, [journal EXCEPT ![cur.scope] = Entry(phase)]}
       /\ GiveUp

RecoveryRequired == fault \/ stored.pending # Null

----------------------------------------------------------------------------
(* Ordinary work while no restore holds the permit.                         *)

Free == pc \in Idle /\ ~RecoveryRequired

(* An edit under a MutationPermit, from begin_mutation to its commit.       *)
Edit ==
    /\ Free
    /\ latest < MaxVersion
    /\ latest' = latest + 1
    /\ content' = latest'
    /\ Save([stored EXCEPT !.generation = @ + 1])
    /\ UNCHANGED <<journal, preview, plans, asked, pc, cur, todo, ended, told>>

(* A preview: an operation id and the generation its capture was made at.   *)
Preview(s) ==
    /\ pc = "idle" /\ Free
    /\ latest < MaxVersion
    /\ latest' = latest + 1
    /\ preview' = [preview EXCEPT ![latest'] =
                     [op |-> latest', scope |-> s, generation |-> stored.generation]]
    /\ plans' = plans \cup {latest'}
    /\ UNCHANGED <<gateVars, journal, content, asked, pc, cur, todo, ended, told, faults>>

----------------------------------------------------------------------------
(* apply_sync_restore.                                                      *)

Begin(o) ==
    /\ pc' = "mark"
    /\ cur' = [op |-> o, scope |-> preview[o].scope, before |-> content,
               phase |-> "prepared"]
    /\ plans' = plans \ {o}
    /\ UNCHANGED <<gateVars, journal, content, latest, preview, asked, todo, ended, told,
                   faults>>

(* No journal of the scope, the exclusive permit, a preview still current;  *)
(* what is captured under the permit is what a roll back returns to.        *)
Apply(o) ==
    /\ pc = "idle" /\ Free
    /\ o \in plans
    /\ journal[preview[o].scope] = Null
    /\ stored.generation = preview[o].generation
    /\ Begin(o)

Marked(ready) ==
    [stored EXCEPT !.pending = [op |-> cur.op, scope |-> cur.scope, ready |-> ready]]

(* mark_recovery_pending. A recovery usually finds its own marker; one of   *)
(* another operation would be an error.                                     *)
MarkPending ==
    /\ pc = "mark"
    /\ \/ /\ stored.pending = Null
          /\ \/ Save(Marked(FALSE)) /\ GoTo("prepare")
             \/ SaveFails(Marked(FALSE))
       \/ /\ stored.pending.op = cur.op
          /\ GoTo("ready")
          /\ UNCHANGED <<gateVars, faults>>
    /\ UNCHANGED <<journal, content, planVars, ended, told>>

SavePrepared ==
    /\ pc = "prepare"
    /\ SaveJournal("prepared", "ready")
    /\ UNCHANGED <<gateVars, content, planVars, ended, told>>

MarkReady ==
    /\ pc = "ready"
    /\ \/ Save(Marked(TRUE)) /\ GoTo(IF Recovering THEN "replay" ELSE "replace")
       \/ SaveFails(Marked(TRUE))
    /\ UNCHANGED <<journal, content, planVars, ended, told>>

(* replace_and_verify: store after store, then the runtime, then read back. *)
ReplaceBy(image, next) ==
    /\ Works
    /\ content' = image
    /\ GoTo(next)
ReplaceFails(image) ==
    /\ Fails
    /\ content' \in {content, image, Torn}

Replace ==
    /\ pc = "replace"
    /\ \/ ReplaceBy(cur.op, "decide")
       \/ ReplaceFails(cur.op) /\ GoTo("undo")
    /\ UNCHANGED <<gateVars, journal, planVars, ended, told>>

(* The old image and the local state kept beside it, put back at once.      *)
Undo ==
    /\ pc = "undo"
    /\ \/ ReplaceBy(cur.before, "refuse")
       \/ ReplaceFails(cur.before) /\ GiveUp
    /\ UNCHANGED <<gateVars, journal, planVars, ended, told>>

SaveRolledBack ==
    /\ pc = "refuse"
    /\ SaveJournal("rolledBack", "finish")
    /\ UNCHANGED <<gateVars, content, planVars, ended, told>>

SaveCommitted ==
    /\ pc = "decide"
    /\ SaveJournal("committed", "finish")
    /\ UNCHANGED <<gateVars, content, planVars, ended, told>>

(* finish_restore: marker against receipt, and a new generation for new data. *)
Finished(o, s, committed) ==
    [generation |-> IF committed THEN stored.generation + 1 ELSE stored.generation,
     pending    |-> Null,
     receipts   |-> [stored.receipts EXCEPT ![s] = [op |-> o, committed |-> committed]]]
Verdict(committed) == IF committed THEN "committed" ELSE "rolledBack"
Ending(o, committed) ==
    ended' = IF disk'.pending = Null THEN [ended EXCEPT ![o] = Verdict(committed)] ELSE ended

Finish ==
    /\ pc = "finish"
    /\ LET committed == cur.phase = "committed"
           next      == Finished(cur.op, cur.scope, committed)
       IN  /\ \/ Save(next) /\ GoTo("clear")
              \/ SaveFails(next)
           /\ Ending(cur.op, committed)
    /\ UNCHANGED <<journal, content, planVars, told>>

(* The end of one restore: its caller learns the outcome, or the recovery   *)
(* goes on to the next scope. Whatever clearing left behind comes later.    *)
Complete ==
    /\ cur' = Null
    /\ IF Recovering
       THEN pc' = "scope" /\ todo' = Tail(todo) /\ UNCHANGED told
       ELSE /\ pc' = "idle" /\ UNCHANGED todo
            /\ told' = [told EXCEPT ![cur.op] = Verdict(cur.phase = "committed")]

(* Slip: the receipt goes although the journal may still be there.          *)
ClearUnchecked ==
    /\ pc = "clear"
    /\ \/ Works /\ journal' = [journal EXCEPT ![cur.scope] = Null]
       \/ Fails /\ UNCHANGED journal
    /\ GoTo("forget")
    /\ UNCHANGED <<gateVars, content, planVars, ended, told>>

(* JournalStore::clear: remove the file, then forget the receipt that kept  *)
(* the journal from being replayed.                                         *)
Clear ==
    /\ pc = "clear"
    /\ \/ /\ Works
          /\ journal' = [journal EXCEPT ![cur.scope] = Null]
          /\ GoTo("forget")
          /\ UNCHANGED told
       \/ /\ Fails
          /\ journal' \in {journal, [journal EXCEPT ![cur.scope] = Null]}
          /\ Complete
    /\ UNCHANGED <<gateVars, content, planVars, ended>>

Forgotten(s) == [stored EXCEPT !.receipts[s] = Null]

Forget ==
    /\ pc = "forget"
    /\ Complete
    /\ \/ Save(Forgotten(cur.scope))
       \/ /\ Fails
          /\ disk' \in {disk, Forgotten(cur.scope)}
          /\ fault' = TRUE
          /\ UNCHANGED stored
    /\ UNCHANGED <<journal, content, planVars, ended>>

----------------------------------------------------------------------------
(* recover_registered.                                                      *)

(* Slip: a scope is registered only while its restore is pending.           *)
RegisteredPending == {s \in Scope : stored.pending # Null /\ stored.pending.scope = s}

Registered == {s \in Scope : \/ stored.pending # Null /\ stored.pending.scope = s
                             \/ stored.receipts[s] # Null}

(* registered_recovery_scopes: the pending one first, then the receipts'.   *)
RecoveryOrder ==
    {q \in [1..Cardinality(Registered) -> Registered] :
        /\ \A i, j \in DOMAIN q : q[i] = q[j] => i = j
        /\ stored.pending # Null => q[1] = stored.pending.scope}

(* recover_registered reads the scopes first and waits for the metadata     *)
(* lock afterwards: when its turn comes, the list may be out of date.       *)
Ask ==
    /\ asked = {}
    /\ Registered # {} \/ RecoveryRequired
    /\ \E list \in RecoveryOrder : asked' = {list}
    /\ UNCHANGED <<gateVars, journal, content, latest, preview, plans, pc, cur, todo,
                   ended, told, faults>>

Recover ==
    /\ pc = "idle"
    /\ todo' \in asked
    /\ asked' = {}
    /\ pc' = "scope"
    /\ UNCHANGED <<gateVars, journal, content, latest, preview, plans, cur, ended, told,
                   faults>>

(* Slip: recovery goes by what memory holds.                                *)
ReopenMemory ==
    /\ pc = "scope"
    /\ fault' = FALSE
    /\ UNCHANGED <<disk, stored>>

(* try_exclusive_recovery: what the disk says, not what memory was left with. *)
Reopen ==
    /\ pc = "scope"
    /\ stored' = disk
    /\ fault' = FALSE
    /\ UNCHANGED disk

VisitScope ==
    /\ Recovering
    /\ Reopen
    /\ GoTo(IF journal[Head(todo)] = Null THEN "orphan" ELSE "open")
    /\ UNCHANGED <<journal, content, planVars, ended, told, faults>>

(* recover_without_journal: nothing was replaced yet, unless the marker     *)
(* says that a journal had been written.                                    *)
FinishOrphan ==
    /\ pc = "orphan"
    /\ LET s == Head(todo)  mark == stored.pending IN
       \/ /\ mark = Null
          /\ GoTo("forgetScope")
          /\ UNCHANGED <<gateVars, ended, faults>>
       \/ /\ mark # Null
          /\ IF mark.scope = s /\ ~mark.ready
             THEN /\ \/ Save(Finished(mark.op, s, FALSE)) /\ GoTo("forgetScope")
                     \/ SaveFails(Finished(mark.op, s, FALSE))
                  /\ Ending(mark.op, FALSE)
             ELSE GiveUp /\ UNCHANGED <<gateVars, ended, faults>>
    /\ UNCHANGED <<journal, content, planVars, told>>

(* forget_completed_scope_without_journal.                                  *)
ForgetScope ==
    /\ pc = "forgetScope"
    /\ LET s == Head(todo) IN
       \/ /\ stored.receipts[s] # Null => Save(Forgotten(s))
          /\ stored.receipts[s] = Null => UNCHANGED <<gateVars, faults>>
          /\ pc' = "scope" /\ todo' = Tail(todo) /\ UNCHANGED cur
       \/ stored.receipts[s] # Null /\ SaveFails(Forgotten(s))
    /\ UNCHANGED <<journal, content, planVars, ended, told>>

InHandOf(s) ==
    [op |-> journal[s].op, scope |-> s, before |-> journal[s].before,
     phase |-> journal[s].phase]

(* Slip: the receipt is not looked at.                                      *)
OpenReplaying ==
    /\ pc = "open"
    /\ cur' = InHandOf(Head(todo))
    /\ pc' = "mark" /\ UNCHANGED <<todo, faults>>
    /\ UNCHANGED <<gateVars, journal, content, planVars, ended, told>>

(* recover_sync_restore: a receipt means that the data may be newer than    *)
(* the journal. Its key may be locked.                                      *)
OpenJournal ==
    /\ pc = "open"
    /\ LET s == Head(todo) IN
       \/ /\ cur' = InHandOf(s)
          /\ pc' = IF stored.receipts[s].op = journal[s].op THEN "clear" ELSE "mark"
          /\ UNCHANGED <<todo, faults>>
       \/ Fails /\ GiveUp
    /\ UNCHANGED <<gateVars, journal, content, planVars, ended, told>>

(* Slip: a journal that was only prepared is carried out.                   *)
ReplayForward ==
    /\ pc = "replay"
    /\ \/ /\ cur.phase # "rolledBack"
          /\ Works /\ content' = cur.op
          /\ pc' = "finish" /\ cur' = [cur EXCEPT !.phase = "committed"]
          /\ UNCHANGED todo
       \/ cur.phase = "rolledBack" /\ ReplaceBy(cur.before, "refuse")
    /\ UNCHANGED <<gateVars, journal, planVars, ended, told>>

(* Only a committed journal is carried out; any other is undone.            *)
Replay ==
    /\ pc = "replay"
    /\ \/ cur.phase = "committed" /\ ReplaceBy(cur.op, "finish")
       \/ cur.phase = "committed" /\ ReplaceFails(cur.op) /\ GiveUp
       \/ cur.phase # "committed" /\ ReplaceBy(cur.before, "refuse")
       \/ cur.phase # "committed" /\ ReplaceFails(cur.before) /\ GiveUp
    /\ UNCHANGED <<gateVars, journal, planVars, ended, told>>

(* The end of the loop: a reconciliation when the gate still asks for one,  *)
(* which refuses while a marker is on disk (accept_reconciled_capture).     *)
EndRecovery ==
    /\ ~Recovering
    /\ pc = "scope"
    /\ pc' = "idle"
    /\ \/ RecoveryRequired /\ Reopen
       \/ ~RecoveryRequired /\ UNCHANGED gateVars
    /\ UNCHANGED <<journal, content, planVars, cur, todo, ended, told, faults>>

----------------------------------------------------------------------------
(* The process dies; SyncWriteGate::open reads the file again.              *)
Crash ==
    /\ Fails
    /\ stored' = disk
    /\ fault' = FALSE
    /\ plans' = {} /\ asked' = {}
    /\ GiveUp
    /\ UNCHANGED <<disk, journal, content, latest, preview, ended, told>>

RestoreStep ==
    \/ MarkPending \/ SavePrepared \/ MarkReady
    \/ Replace \/ Undo \/ SaveRolledBack \/ SaveCommitted
    \/ Finish \/ Clear \/ Forget
RecoveryStep ==
    \/ VisitScope \/ FinishOrphan \/ ForgetScope \/ OpenJournal \/ Replay
    \/ EndRecovery

Next ==
    \/ Edit
    \/ \E s \in Scope : Preview(s)
    \/ \E o \in Version : Apply(o)
    \/ RestoreStep
    \/ Ask \/ Recover
    \/ RecoveryStep
    \/ Crash

Spec == Init /\ [][Next]_vars

(* A running restore or recovery goes on, and recovery is asked for again   *)
(* (at each start, and by the sync loop's retries).                         *)
FairSpec == Spec /\ WF_vars(RestoreStep) /\ WF_vars(RecoveryStep)
                 /\ WF_vars(Ask) /\ WF_vars(Recover)

----------------------------------------------------------------------------
(* The commit point is the journal: from the moment Committed is on disk    *)
(* the restore has happened, before that it has not, whatever the files     *)
(* hold and whoever completes them.                                         *)
Underway == disk.pending # Null /\ journal[disk.pending.scope].op = disk.pending.op
Decided  == Underway /\ journal[disk.pending.scope].phase = "committed"

Data ==
    IF Decided THEN disk.pending.op
    ELSE IF Underway THEN journal[disk.pending.scope].before
    ELSE content

Counted   == IF Decided THEN disk.generation + 1 ELSE disk.generation
BaseOf(o) == IF preview[o] = Null THEN -1 ELSE preview[o].generation
FateOf(o) ==
    IF ended[o] = "open" /\ Decided /\ disk.pending.op = o THEN "committed" ELSE ended[o]

Abstract ==
    INSTANCE AtomicRestore WITH
        data       <- Data,
        generation <- Counted,
        base       <- [o \in Version |-> BaseOf(o)],
        fate       <- [o \in Version |-> FateOf(o)]

(* Restores are atomic for edits, previews and callers, whatever fails and  *)
(* whenever the process dies: entirely or not at all, exactly once, never   *)
(* over an edit the preview did not show, and told as they ended.           *)
ImplementsAtomicRestore == Abstract!Spec

(* Recovery visits registered scopes only, so every journal left behind is  *)
(* registered on disk by a marker or a receipt of its own operation.        *)
EveryJournalRegistered ==
    \A s \in Scope : journal[s] # Null =>
        \/ disk.pending.op = journal[s].op /\ disk.pending.scope = s
        \/ disk.receipts[s].op = journal[s].op

(* Ordinary work never meets data between two images, nor a gate that       *)
(* remembers something other than what is on disk.                          *)
FreeMeansWhole == Free => content # Torn /\ stored = disk

(* A receipt, which keeps its journal from being replayed, agrees with the  *)
(* decision in it.                                                          *)
ReceiptAgreesWithJournal ==
    \A s \in Scope :
        journal[s] # Null /\ disk.receipts[s].op = journal[s].op
            => (disk.receipts[s].committed <=> journal[s].phase = "committed")

(* Every journal left behind will be found, and judged as it was decided.   *)
JournalsAccountedFor == EveryJournalRegistered /\ ReceiptAgreesWithJournal

(* Once writes stop failing, recovery comes to an end: no restore stays     *)
(* half done, and no journal or receipt stays behind.                       *)
Settled == disk.pending = Null /\ \A s \in Scope : journal[s] = Null /\ disk.receipts[s] = Null
RecoveryEnds == ~Free \/ ~Settled ~> Free /\ Settled
=============================================================================
