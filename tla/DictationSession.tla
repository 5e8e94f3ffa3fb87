-------------------------- MODULE DictationSession -------------------------
(***************************************************************************)
(* The life of the dictation sessions of a backend (api.rs): starting,     *)
(* stopping, cancelling and a fault of the recorder are handlers of        *)
(* different callers that meet in the state lock, the voice lease and the  *)
(* engine of DictationEngine. One step of a handler runs from one await or *)
(* lock to the next.                                                       *)
(*                                                                         *)
(* A session either types into the foreground application ("app", with a   *)
(* text insertion) or writes a quick note ("note", with a draft in the     *)
(* history). The insertion is the resource TextInsertion models in detail. *)
(***************************************************************************)
EXTENDS DictationEngine

CONSTANTS
    Faulty,       \* bound: sessions whose recorder may fail while it records
    Stoppable,    \* bound: sessions that the user may stop
    Cancellable   \* bound: sessions that the user may cancel

ASSUME BoundsAssumption == Faulty \cup Stoppable \cup Cancellable \subseteq Session

VARIABLES
    phase,       \* DictationStateSnapshot.phase
    current,     \* DictationStateSnapshot.session_id, 0 for none
    faultOf,     \* MutableState.recording_fault_cleanup
    lease,       \* the last session that acquired the voice gate, 0 before
    kind,        \* what each session is for
    insertion,   \* the text insertion of each session
    history,     \* the history row of each session
    feedback,    \* whether the host shows the dictation feedback
    start,       \* the program counter of each start_reserved_dictation
    stop,        \* of the stop_dictation of each session
    early,       \* of the early stop it runs while the session is starting
    cancel,      \* of the cancel_dictation of each session
    fault,       \* of the report_recording_fault of each session
    tear,        \* of the tasks of cancel_session_adapters, by who asked
    pinned       \* the tasks of cancel_session_adapters that hold the lease

sessionVars == <<phase, current, faultOf>>
handlerVars == <<start, stop, early, cancel, fault>>
tearVars    == <<tear, pinned>>
vars == <<revoked, engineVars, sessionVars, lease, kind, insertion, history, feedback, handlerVars,
          tearVars>>

Asker == {"start", "stop", "cancel", "fault"}

Phase == {"Idle", "Starting", "Recording", "Transcribing", "Inserting", "Completed", "Failed"}

Insertions == {"none", "preparing", "ready", "committing", "gone"}

StartTask == {"none", "capture", "show", "register", "preparing", "abort", "draft", "engine",
              "opened", "late", "cleanup", "hide", "reset", "done"}
StopTask == {"none", "look", "early", "hold", "finish", "failed", "cleanup", "deliver", "insert",
             "commit", "uninsert", "complete", "failHide", "failReset", "hide", "reset", "persist",
             "done"}
EarlyTask == {"none", "try", "closing", "sleep", "done"}
CancelTask == {"none", "settle", "adapters", "cleanup", "hide", "done"}
FaultTask == {"none", "publish", "claim", "adapters", "cleanup", "hide", "reset", "refused", "done"}
TearTask == {"none", "queued", "recording", "provider", "insertion"}

TypeOK ==
    /\ EngineTypeOK
    /\ phase \in Phase
    /\ {current, faultOf, lease} \subseteq 0..MaxSession
    /\ kind \in [Session -> {"app", "note"}]
    /\ insertion \in [Session -> Insertions]
    /\ history \in [Session -> {"none", "recording", "kept"}]
    /\ feedback \in BOOLEAN
    /\ start \in [Session -> StartTask]
    /\ stop \in [Session -> StopTask]
    /\ early \in [Session -> EarlyTask]
    /\ cancel \in [Session -> CancelTask]
    /\ fault \in [Session -> FaultTask]
    /\ tear \in [Session -> [Asker -> TearTask]]
    /\ pinned \in SUBSET (Session \X Asker)

Init ==
    /\ EngineInit
    /\ phase = "Idle"
    /\ current = 0 /\ faultOf = 0 /\ lease = 0
    /\ kind = [s \in Session |-> "app"]
    /\ insertion = [s \in Session |-> "none"]
    /\ history = [s \in Session |-> "none"]
    /\ feedback = FALSE
    /\ start = [s \in Session |-> "none"]
    /\ stop = [s \in Session |-> "none"]
    /\ early = [s \in Session |-> "none"]
    /\ cancel = [s \in Session |-> "none"]
    /\ fault = [s \in Session |-> "none"]
    /\ tear = [s \in Session |-> [a \in Asker |-> "none"]]
    /\ pinned = {}

Running(pc) == pc \notin {"none", "refused", "done"}

(* Slip: the finish of the engine takes no hold.                            *)
HeldWithoutFinish(s) ==
    \/ Running(start[s])
    \/ insertion[s] \in {"preparing", "ready", "committing"}
    \/ opening[s] \notin Outcome \cup {"none"}
    \/ Running(early[s])
    \/ \E a \in Asker : <<s, a>> \in pinned

(* The resource holds of a session: of its start and of what it spawned     *)
(* (starting_resources), of its early stop, its finish and its teardowns.   *)
Held(s) ==
    \/ Running(start[s])
    \/ insertion[s] \in {"preparing", "ready", "committing"}
    \/ opening[s] \notin Outcome \cup {"none"}
    \/ Running(early[s])
    \/ finishing[s] \notin Outcome \cup {"none"}
    \/ \E a \in Asker : <<s, a>> \in pinned

LeaseFree == lease = 0 \/ (lease \in revoked /\ ~Held(lease))
CanHold(s) == lease = s /\ s \notin revoked

(* ensure_active_session                                                    *)
Active(s) == current = s /\ phase \notin {"Idle", "Completed", "Failed"}

Release(s) == revoked' = revoked \cup {s}

(* mark_dictation_failed                                                    *)
Fail(s) == phase' = IF current = s THEN "Failed" ELSE phase

(* Slip: the feedback of whatever session is shown is hidden.               *)
HideAnyway(s) == feedback' = FALSE

(* hide_dictation_feedback: a successor keeps its feedback.                 *)
Hide(s) == feedback' = (feedback /\ current \notin {0, s})

(* reset_dictation_session                                                  *)
Reset(s) ==
    IF current = s
    THEN phase' = "Idle" /\ current' = 0 /\ faultOf' = 0 /\ Release(s)
    ELSE UNCHANGED <<sessionVars, revoked>>

StartAt(s, pc) == start' = [start EXCEPT ![s] = pc]
StopAt(s, pc) == stop' = [stop EXCEPT ![s] = pc]
EarlyAt(s, pc) == early' = [early EXCEPT ![s] = pc]
CancelAt(s, pc) == cancel' = [cancel EXCEPT ![s] = pc]
FaultAt(s, pc) == fault' = [fault EXCEPT ![s] = pc]
TearAt(s, a, pc) == tear' = [tear EXCEPT ![s][a] = pc]
Insertion(s, state) == insertion' = [insertion EXCEPT ![s] = state]
History(s, row) == history' = [history EXCEPT ![s] = row]

----------------------------------------------------------------------------
(* cancel_session_adapters                                                  *)

(* The call: a hold if the lease can still be held, then the revocation.    *)
Teardown(s, a) ==
    /\ TearAt(s, a, "queued")
    /\ pinned' = IF CanHold(s) THEN pinned \cup {<<s, a>>} ELSE pinned
    /\ Release(s)

TearCancels(s, a) ==
    /\ tear[s][a] = "queued"
    /\ \/ /\ CancelFinds(s)
          /\ CancelTakes(s)
          /\ TearAt(s, a, IF s \in stored THEN "recording" ELSE "provider")
       \/ /\ ~CancelFinds(s)
          /\ TearAt(s, a, "insertion")
          /\ UNCHANGED engineVars
    /\ UNCHANGED <<revoked, opening, finishing, sessionVars, lease, kind, insertion, history, feedback,
                   handlerVars, pinned>>

TearStopped(s, a) ==
    /\ \/ tear[s][a] = "recording" /\ microphone[s] = "closed"
       \/ tear[s][a] = "provider"
    /\ CancelEnds(s)
    /\ TearAt(s, a, "insertion")
    /\ UNCHANGED <<revoked, opening, finishing, sessionVars, lease, kind, insertion, history, feedback,
                   handlerVars, pinned>>

(* cancel_text_insertion waits for a preparation and for a commit in flight. *)
TearInsertion(s, a) ==
    /\ tear[s][a] = "insertion"
    /\ insertion[s] \notin {"preparing", "committing"}
    /\ Insertion(s, IF insertion[s] = "ready" THEN "gone" ELSE insertion[s])
    /\ TearAt(s, a, "none")
    /\ pinned' = pinned \ {<<s, a>>}
    /\ UNCHANGED <<revoked, engineVars, sessionVars, lease, kind, history, feedback, handlerVars>>

TearStep(s) ==
    \E a \in Asker : TearCancels(s, a) \/ TearStopped(s, a) \/ TearInsertion(s, a)

Torn(s, a) == tear[s][a] = "none"

----------------------------------------------------------------------------
(* start_dictation: reserve_dictation_session, start_reserved_dictation     *)

Start(s) ==
    /\ start[s] = "none" /\ \A r \in Session : r < s => start[r] # "none"
    /\ current = 0 /\ LeaseFree
    /\ lease' = s
    /\ phase' = "Starting" /\ current' = s
    /\ kind' \in {[kind EXCEPT ![s] = "app"], [kind EXCEPT ![s] = "note"]}
    /\ StartAt(s, "capture")
    /\ UNCHANGED <<revoked, engineVars, faultOf, insertion, history, feedback, stop, early,
                   cancel, fault, tearVars>>

(* The context of the session is captured; then its phase is looked at      *)
(* under the lock again.                                                    *)
Captured(s) ==
    /\ start[s] = "capture"
    /\ \/ /\ StartAt(s, "reset") /\ Fail(s)
          /\ UNCHANGED revoked
       \/ /\ current = s /\ phase = "Starting"
          /\ StartAt(s, "show")
          /\ UNCHANGED <<revoked, phase>>
       \/ /\ ~(current = s /\ phase = "Starting")
          /\ StartAt(s, "done") /\ Release(s)
          /\ UNCHANGED phase
    /\ UNCHANGED <<engineVars, current, faultOf, lease, kind, insertion, history, feedback, stop, early,
                   cancel, fault, tearVars>>

Show(s) ==
    /\ start[s] = "show"
    /\ \/ /\ feedback' = TRUE
          /\ StartAt(s, IF kind[s] = "app" THEN "register" ELSE "draft")
          /\ UNCHANGED phase
       \/ /\ Fail(s) /\ StartAt(s, "reset")
          /\ UNCHANGED feedback
    /\ UNCHANGED <<revoked, engineVars, current, faultOf, lease, kind, insertion, history, stop, early,
                   cancel, fault, tearVars>>

(* The preparation is registered where a cancellation finds it.             *)
RegisterInsertion(s) ==
    /\ start[s] = "register"
    /\ IF Active(s) THEN StartAt(s, "preparing") /\ Insertion(s, "preparing")
       ELSE StartAt(s, "done") /\ UNCHANGED insertion
    /\ UNCHANGED <<revoked, engineVars, sessionVars, lease, kind, history, feedback, stop, early, cancel,
                   fault, tearVars>>

HostPrepares(s) ==
    /\ insertion[s] = "preparing"
    /\ insertion' \in {[insertion EXCEPT ![s] = "ready"], [insertion EXCEPT ![s] = "gone"]}
    /\ UNCHANGED <<revoked, engineVars, sessionVars, lease, kind, history, feedback, handlerVars,
                   tearVars>>

Prepared(s) ==
    /\ start[s] = "preparing" /\ insertion[s] # "preparing"
    /\ \/ /\ current # s
          /\ StartAt(s, "abort")
          /\ UNCHANGED <<phase, history>>
       \/ /\ current = s /\ insertion[s] = "ready"
          /\ StartAt(s, "engine")
          /\ UNCHANGED <<phase, history>>
       \/ /\ current = s /\ insertion[s] = "gone"
          /\ StartAt(s, "hide")
          /\ Fail(s) /\ History(s, "kept")
    /\ opening' = IF start'[s] = "engine" THEN [opening EXCEPT ![s] = "queued"] ELSE opening
    /\ UNCHANGED <<revoked, registered, flags, stored, microphone, provider, finishing, current, faultOf,
                   lease, kind, insertion, feedback, stop, early, cancel, fault, tearVars>>

(* A start that finds itself cancelled cancels its insertion.               *)
Aborted(s) ==
    /\ start[s] = "abort"
    /\ Insertion(s, "gone")
    /\ StartAt(s, "done")
    /\ UNCHANGED <<revoked, engineVars, sessionVars, lease, kind, history, feedback, stop, early, cancel,
                   fault, tearVars>>

(* persist_recording_started_if_starting writes the draft under the lock.   *)
WriteDraft(s) ==
    /\ start[s] = "draft"
    /\ IF current = s /\ phase = "Starting"
       THEN StartAt(s, "engine") /\ History(s, "recording") /\ OpeningAt(s, "queued")
       ELSE StartAt(s, "done") /\ UNCHANGED <<history, opening>>
    /\ UNCHANGED <<revoked, registered, flags, stored, microphone, provider, finishing, sessionVars,
                   lease, kind, insertion, feedback, stop, early, cancel, fault, tearVars>>

(* reconcile_aborted_recording_draft                                        *)
Reconcile(s) == History(s, IF history[s] = "recording" THEN "kept" ELSE history[s])

(* The owned engine start has answered: recording, an error, cancelled.     *)
Opened(s) ==
    /\ start[s] = "engine" /\ opening[s] \in Outcome
    /\ \/ /\ opening[s] = "ok" /\ current = s /\ phase = "Starting"
          /\ phase' = "Recording"
          /\ StartAt(s, "done")
          /\ UNCHANGED <<revoked, history, tearVars>>
       \/ /\ opening[s] = "ok" /\ ~(current = s /\ phase = "Starting")
          /\ StartAt(s, "late")
          /\ Teardown(s, "start")
          /\ UNCHANGED <<phase, history>>
       \/ /\ opening[s] = "error"
          /\ Fail(s) /\ History(s, "kept")
          /\ StartAt(s, "opened")
          /\ UNCHANGED <<revoked, tearVars>>
       \/ /\ opening[s] = "cancelled"
          /\ Reconcile(s)
          /\ StartAt(s, "opened")
          /\ UNCHANGED <<revoked, phase, tearVars>>
    /\ OpeningAt(s, "none")
    /\ UNCHANGED <<registered, flags, stored, microphone, provider, finishing, current, faultOf, lease,
                   kind, insertion, feedback, stop, early, cancel, fault>>

StartTearsDown(s) ==
    /\ start[s] = "opened"
    /\ Teardown(s, "start")
    /\ StartAt(s, "cleanup")
    /\ UNCHANGED <<engineVars, sessionVars, lease, kind, insertion, history, feedback, stop, early,
                   cancel, fault>>

StartTorn(s) ==
    /\ start[s] \in {"late", "cleanup"} /\ Torn(s, "start")
    /\ IF start[s] = "late" THEN StartAt(s, "done") /\ Reconcile(s)
       ELSE StartAt(s, "hide") /\ UNCHANGED history
    /\ UNCHANGED <<revoked, engineVars, sessionVars, lease, kind, insertion, feedback, stop, early,
                   cancel, fault, tearVars>>

StartHides(s) ==
    /\ start[s] = "hide"
    /\ Hide(s)
    /\ StartAt(s, "reset")
    /\ UNCHANGED <<revoked, engineVars, sessionVars, lease, kind, insertion, history, stop, early,
                   cancel, fault, tearVars>>

StartResets(s) ==
    /\ start[s] = "reset"
    /\ Reset(s)
    /\ StartAt(s, "done")
    /\ UNCHANGED <<engineVars, lease, kind, insertion, history, feedback, stop, early, cancel, fault,
                   tearVars>>

StartStep(s) ==
    \/ Captured(s) \/ Show(s) \/ RegisterInsertion(s) \/ HostPrepares(s) \/ Prepared(s)
    \/ Aborted(s) \/ WriteDraft(s) \/ Opened(s) \/ StartTearsDown(s) \/ StartTorn(s)
    \/ StartHides(s) \/ StartResets(s)

----------------------------------------------------------------------------
(* stop_dictation                                                           *)

(* It is bound to the session it finds first.                               *)
Stop(s) ==
    /\ s \in Stoppable /\ stop[s] = "none" /\ current = s
    /\ StopAt(s, "look")
    /\ UNCHANGED <<revoked, engineVars, sessionVars, lease, kind, insertion, history, feedback, start,
                   early, cancel, fault, tearVars>>

(* Slip: after the wait the stop takes whatever session is recording.       *)
StopLooksUnbound(s) ==
    /\ stop[s] = "look"
    /\ IF current # 0 /\ phase = "Recording"
       THEN phase' = "Transcribing" /\ StopAt(s, "hold") /\ UNCHANGED early
       ELSE IF current # 0 /\ phase = "Starting" /\ CanHold(s)
       THEN StopAt(s, "early") /\ EarlyAt(s, "try") /\ UNCHANGED phase
       ELSE StopAt(s, "done") /\ UNCHANGED <<phase, early>>
    /\ UNCHANGED <<revoked, engineVars, current, faultOf, lease, kind, insertion, history, feedback,
                   start, cancel, fault, tearVars>>

(* While the session is starting its recording is stopped early, and the    *)
(* stop waits for the next phase.                                           *)
StopLooks(s) ==
    /\ stop[s] = "look"
    /\ IF current = s /\ phase = "Recording"
       THEN phase' = "Transcribing" /\ StopAt(s, "hold") /\ UNCHANGED early
       ELSE IF current = s /\ phase = "Starting" /\ CanHold(s)
       THEN StopAt(s, "early") /\ EarlyAt(s, "try") /\ UNCHANGED phase
       ELSE StopAt(s, "done") /\ UNCHANGED <<phase, early>>
    /\ UNCHANGED <<revoked, engineVars, current, faultOf, lease, kind, insertion, history, feedback,
                   start, cancel, fault, tearVars>>

(* The owned early stop: until the engine knows the session it sleeps.      *)
EarlyTries(s) ==
    /\ early[s] = "try"
    /\ \/ /\ s \in registered
          /\ EarlyStop(s)
          /\ EarlyAt(s, IF s \in stored THEN "closing" ELSE "done")
       \/ /\ s \notin registered
          /\ EarlyAt(s, IF current = s /\ phase = "Starting" THEN "sleep" ELSE "done")
          /\ UNCHANGED engineVars
    /\ UNCHANGED <<revoked, sessionVars, lease, kind, insertion, history, feedback, start, stop, cancel,
                   fault, tearVars>>

EarlyClosed(s) ==
    /\ early[s] = "closing" /\ microphone[s] = "closed"
    /\ EarlyAt(s, "done")
    /\ UNCHANGED <<revoked, engineVars, sessionVars, lease, kind, insertion, history, feedback, start,
                   stop, cancel, fault, tearVars>>

(* CaptureReady has been accepted.                                          *)
CaptureIsReady(s) ==
    s \in registered /\ opening[s] \notin {"register", "open", "store", "ready", "stopping"}

(* Slip: only CaptureReady wakes it.                                        *)
EarlyWakesWhenReady(s) ==
    /\ early[s] = "sleep"
    /\ CaptureIsReady(s)
    /\ EarlyAt(s, "try")
    /\ UNCHANGED <<revoked, engineVars, sessionVars, lease, kind, insertion, history, feedback, start,
                   stop, cancel, fault, tearVars>>

(* It was enabled before it tried, so no notification is lost: CaptureReady, *)
(* or a phase that is no longer Starting; or the lease is revoked. A wake-up *)
(* that finds the engine as before only sleeps again, and is left out.      *)
EarlyWakes(s) ==
    /\ early[s] = "sleep"
    /\ \/ CaptureIsReady(s)
       \/ ~(current = s /\ phase = "Starting")
       \/ s \in revoked
    /\ EarlyAt(s, IF s \in revoked THEN "done" ELSE "try")
    /\ UNCHANGED <<revoked, engineVars, sessionVars, lease, kind, insertion, history, feedback, start,
                   stop, cancel, fault, tearVars>>

StopWakes(s) ==
    /\ stop[s] = "early" /\ early[s] = "done"
    /\ ~(current = s /\ phase = "Starting")
    /\ StopAt(s, "look") /\ EarlyAt(s, "none")
    /\ UNCHANGED <<revoked, engineVars, sessionVars, lease, kind, insertion, history, feedback, start,
                   cancel, fault, tearVars>>

(* The engine finishes in a task that holds the lease.                      *)
StopFinishes(s) ==
    /\ stop[s] = "hold"
    /\ IF CanHold(s) THEN StopAt(s, "finish") /\ FinishAt(s, "queued")
       ELSE StopAt(s, "done") /\ UNCHANGED finishing
    /\ UNCHANGED <<revoked, registered, flags, stored, microphone, provider, opening, sessionVars, lease,
                   kind, insertion, history, feedback, start, early, cancel, fault, tearVars>>

(* A finish that was cancelled, or refused as cancelled, marks and settles   *)
(* nothing: that is left to whoever cancelled it.                           *)
StopFinished(s) ==
    /\ stop[s] = "finish" /\ finishing[s] \in Outcome
    /\ StopAt(s, IF finishing[s] = "ok" THEN "deliver" ELSE "failed")
    /\ IF finishing[s] = "error" THEN Fail(s) /\ History(s, "kept") ELSE UNCHANGED <<phase, history>>
    /\ FinishAt(s, "none")
    /\ UNCHANGED <<revoked, registered, flags, stored, microphone, provider, opening, current, faultOf, lease, kind, insertion, feedback, start, early,
                   cancel, fault, tearVars>>

(* Slip: a failed finish leaves the engine and the insertion alone.         *)
StopOnlyHides(s) ==
    /\ stop[s] = "failed"
    /\ StopAt(s, "failHide")
    /\ UNCHANGED <<revoked, engineVars, sessionVars, lease, kind, insertion, history, feedback, start,
                   early, cancel, fault, tearVars>>

StopTearsDown(s) ==
    /\ stop[s] = "failed"
    /\ Teardown(s, "stop")
    /\ StopAt(s, "cleanup")
    /\ UNCHANGED <<engineVars, sessionVars, lease, kind, insertion, history, feedback, start, early,
                   cancel, fault>>

StopTorn(s) ==
    /\ stop[s] = "cleanup" /\ Torn(s, "stop")
    /\ StopAt(s, "failHide")
    /\ UNCHANGED <<revoked, engineVars, sessionVars, lease, kind, insertion, history, feedback, start,
                   early, cancel, fault, tearVars>>

(* A result of a session that was cancelled or replaced is not delivered.   *)
StopDelivers(s) ==
    /\ stop[s] = "deliver"
    /\ IF current = s /\ phase = "Transcribing"
       THEN IF kind[s] = "app" THEN phase' = "Inserting" /\ StopAt(s, "insert")
            ELSE phase' = "Completed" /\ StopAt(s, "complete")
       ELSE StopAt(s, "done") /\ UNCHANGED phase
    /\ UNCHANGED <<revoked, engineVars, current, faultOf, lease, kind, insertion, history, feedback,
                   start, early, cancel, fault, tearVars>>

InsertFails(s) == Fail(s) /\ History(s, "kept") /\ StopAt(s, "uninsert")

StopInserts(s) ==
    /\ stop[s] = "insert"
    /\ IF insertion[s] = "ready"
       THEN StopAt(s, "commit") /\ Insertion(s, "committing") /\ UNCHANGED <<phase, history>>
       ELSE InsertFails(s) /\ UNCHANGED insertion
    /\ UNCHANGED <<revoked, engineVars, current, faultOf, lease, kind, feedback, start, early, cancel,
                   fault, tearVars>>

HostCommits(s) ==
    /\ stop[s] = "commit"
    /\ \/ StopAt(s, "complete") /\ Insertion(s, "gone") /\ UNCHANGED <<phase, history>>
       \/ InsertFails(s) /\ Insertion(s, "ready")
    /\ UNCHANGED <<revoked, engineVars, current, faultOf, lease, kind, feedback, start, early, cancel,
                   fault, tearVars>>

StopUninserts(s) ==
    /\ stop[s] = "uninsert"
    /\ Insertion(s, "gone")
    /\ StopAt(s, "failHide")
    /\ UNCHANGED <<revoked, engineVars, sessionVars, lease, kind, history, feedback, start, early,
                   cancel, fault, tearVars>>

StopCompletes(s) ==
    /\ stop[s] = "complete"
    /\ IF current = s /\ phase \in {"Inserting", "Completed"}
       THEN phase' = "Completed" /\ StopAt(s, "hide")
       ELSE StopAt(s, "done") /\ UNCHANGED phase
    /\ UNCHANGED <<revoked, engineVars, current, faultOf, lease, kind, insertion, history, feedback,
                   start, early, cancel, fault, tearVars>>

StopHides(s) ==
    /\ stop[s] \in {"hide", "failHide"}
    /\ Hide(s)
    /\ StopAt(s, IF stop[s] = "hide" THEN "reset" ELSE "failReset")
    /\ UNCHANGED <<revoked, engineVars, sessionVars, lease, kind, insertion, history, start, early,
                   cancel, fault, tearVars>>

StopResets(s) ==
    /\ stop[s] \in {"reset", "failReset"}
    /\ Reset(s)
    /\ StopAt(s, IF stop[s] = "reset" THEN "persist" ELSE "done")
    /\ UNCHANGED <<engineVars, lease, kind, insertion, history, feedback, start, early, cancel, fault,
                   tearVars>>

StopPersists(s) ==
    /\ stop[s] = "persist"
    /\ History(s, "kept")
    /\ StopAt(s, "done")
    /\ UNCHANGED <<revoked, engineVars, sessionVars, lease, kind, insertion, feedback, start, early,
                   cancel, fault, tearVars>>

StopStep(s) ==
    \/ StopLooks(s) \/ EarlyTries(s) \/ EarlyClosed(s) \/ EarlyWakes(s) \/ StopWakes(s)
    \/ StopFinishes(s) \/ StopFinished(s) \/ StopTearsDown(s) \/ StopTorn(s) \/ StopDelivers(s)
    \/ StopInserts(s) \/ HostCommits(s) \/ StopUninserts(s) \/ StopCompletes(s) \/ StopHides(s)
    \/ StopResets(s) \/ StopPersists(s)

----------------------------------------------------------------------------
(* cancel_dictation: the state is reset at once, the resources afterwards.  *)

Cancel(s) ==
    /\ s \in Cancellable /\ cancel[s] = "none" /\ current = s
    /\ phase' = "Idle" /\ current' = 0
    /\ CancelAt(s, "settle")
    /\ UNCHANGED <<revoked, engineVars, faultOf, lease, kind, insertion, history, feedback, start, stop,
                   early, fault, tearVars>>

(* Slip: a note keeps its row as it is.                                     *)
CancelSettlesNothing(s) ==
    /\ cancel[s] = "settle"
    /\ History(s, IF kind[s] = "note" THEN history[s] ELSE "none")
    /\ CancelAt(s, "adapters")
    /\ UNCHANGED <<revoked, engineVars, sessionVars, lease, kind, insertion, feedback, start, stop,
                   early, fault, tearVars>>

(* A note keeps its row as cancelled, anything else loses it.               *)
CancelSettles(s) ==
    /\ cancel[s] = "settle"
    /\ History(s, IF kind[s] = "note" /\ history[s] # "none" THEN "kept" ELSE "none")
    /\ CancelAt(s, "adapters")
    /\ UNCHANGED <<revoked, engineVars, sessionVars, lease, kind, insertion, feedback, start, stop,
                   early, fault, tearVars>>

CancelTearsDown(s) ==
    /\ cancel[s] = "adapters"
    /\ Teardown(s, "cancel")
    /\ CancelAt(s, "cleanup")
    /\ UNCHANGED <<engineVars, sessionVars, lease, kind, insertion, history, feedback, start, stop,
                   early, fault>>

CancelReleases(s) ==
    /\ cancel[s] = "cleanup" /\ Torn(s, "cancel")
    /\ Release(s)
    /\ CancelAt(s, "hide")
    /\ UNCHANGED <<engineVars, sessionVars, lease, kind, insertion, history, feedback, start, stop,
                   early, fault, tearVars>>

CancelHides(s) ==
    /\ cancel[s] = "hide"
    /\ Hide(s)
    /\ CancelAt(s, "done")
    /\ UNCHANGED <<revoked, engineVars, sessionVars, lease, kind, insertion, history, start, stop,
                   early, fault, tearVars>>

CancelStep(s) == CancelSettles(s) \/ CancelTearsDown(s) \/ CancelReleases(s) \/ CancelHides(s)

----------------------------------------------------------------------------
(* A fault of the recorder, while it records or is stopped: a task receives  *)
(* it, publishes it as progress, then calls report_recording_fault.         *)

Fault(s) ==
    /\ s \in Faulty /\ fault[s] = "none"
    /\ microphone[s] # "closed"
    /\ FaultAt(s, "publish")
    /\ UNCHANGED <<revoked, engineVars, sessionVars, lease, kind, insertion, history, feedback,
                   start, stop, early, cancel, tearVars>>

FaultPublishes(s) ==
    /\ fault[s] = "publish"
    /\ phase' = IF Active(s) THEN "Failed" ELSE phase
    /\ FaultAt(s, "claim")
    /\ UNCHANGED <<revoked, engineVars, current, faultOf, lease, kind, insertion, history, feedback,
                   start, stop, early, cancel, tearVars>>

(* A fault of a session that is no longer shown is refused, and with it the  *)
(* settling of its draft.                                                   *)
FaultClaims(s) ==
    /\ fault[s] = "claim"
    /\ IF current = s /\ faultOf # s
       THEN faultOf' = s /\ Fail(s) /\ FaultAt(s, "adapters")
       ELSE /\ FaultAt(s, IF current # s THEN "refused" ELSE "done")
            /\ UNCHANGED <<phase, faultOf>>
    /\ UNCHANGED <<revoked, engineVars, current, lease, kind, insertion, history, feedback, start, stop,
                   early, cancel, tearVars>>

FaultTearsDown(s) ==
    /\ fault[s] = "adapters"
    /\ Teardown(s, "fault")
    /\ FaultAt(s, "cleanup")
    /\ UNCHANGED <<engineVars, sessionVars, lease, kind, insertion, history, feedback, start, stop,
                   early, cancel>>

FaultPersists(s) ==
    /\ fault[s] = "cleanup" /\ Torn(s, "fault")
    /\ History(s, "kept")
    /\ FaultAt(s, "hide")
    /\ UNCHANGED <<revoked, engineVars, sessionVars, lease, kind, insertion, feedback, start, stop,
                   early, cancel, tearVars>>

FaultHides(s) ==
    /\ fault[s] = "hide"
    /\ Hide(s)
    /\ FaultAt(s, "reset")
    /\ UNCHANGED <<revoked, engineVars, sessionVars, lease, kind, insertion, history, start, stop, early,
                   cancel, tearVars>>

FaultResets(s) ==
    /\ fault[s] = "reset"
    /\ Reset(s)
    /\ FaultAt(s, "done")
    /\ UNCHANGED <<engineVars, lease, kind, insertion, history, feedback, start, stop, early, cancel,
                   tearVars>>

FaultStep(s) ==
    \/ FaultPublishes(s) \/ FaultClaims(s) \/ FaultTearsDown(s) \/ FaultPersists(s) \/ FaultHides(s)
    \/ FaultResets(s)

----------------------------------------------------------------------------

EngineStep(s) ==
    /\ RecorderStops(s) \/ OpeningStep(s, Active(s)) \/ FinishTaskStep(s, Active(s))
    /\ UNCHANGED <<sessionVars, lease, kind, insertion, history, feedback, handlerVars, tearVars>>

(* What the executor and the native side go on with by themselves.          *)
Proceeds(s) ==
    EngineStep(s) \/ TearStep(s) \/ StartStep(s) \/ StopStep(s) \/ CancelStep(s) \/ FaultStep(s)

Arrives(s) == Start(s) \/ Stop(s) \/ Cancel(s) \/ Fault(s)

Next == \E s \in Session : Arrives(s) \/ Proceeds(s)

Spec == Init /\ [][Next]_vars

(* The executor runs its tasks and the native calls return. Nothing here    *)
(* goes round, so it is enough that one of them goes on.                    *)
Fairness == WF_vars(\E s \in Session : Proceeds(s))

FairSpec == Spec /\ Fairness

----------------------------------------------------------------------------

Quiet(s) ==
    /\ ~Running(start[s]) /\ ~Running(stop[s]) /\ ~Running(early[s])
    /\ ~Running(cancel[s]) /\ ~Running(fault[s])
    /\ \A a \in Asker : Torn(s, a)

(* While the microphone of a session is open, or still closing, the voice   *)
(* lease is that session's: another capture is refused, as cancel_dictation *)
(* says of the cleanup it awaits.                                           *)
MicrophoneOwned ==
    \A s \in Session : microphone[s] # "closed" => lease = s /\ ~LeaseFree

(* The same, but for what a second teardown closes: it takes no hold of the *)
(* lease, and the first one does not wait for it.                           *)
SecondTeardownCloses(s) ==
    \E a \in Asker : tear[s][a] = "recording" /\ <<s, a>> \notin pinned

MicrophoneOwnedByFirst ==
    \A s \in Session :
        microphone[s] # "closed" => (lease = s /\ ~LeaseFree) \/ SecondTeardownCloses(s)

(* A session that records is visible to the user: no late end of an earlier *)
(* session hides it (hide_dictation_feedback).                              *)
RecordingIsVisible == phase = "Recording" => feedback

(* A fault during the stop of a note makes the engine refuse the finish as  *)
(* cancelled, so that the stop settles nothing (stop_dictation), and is     *)
(* itself refused when the stop resets the session first                    *)
(* (report_recording_fault): nobody settles the draft.                      *)
DraftIsOrphaned(s) ==
    kind[s] = "note" /\ fault[s] = "refused" /\ stop[s] = "done" /\ cancel[s] = "none"

(* When all that was started for an ended session has returned, nothing of  *)
(* it is left: no open recorder, live provider, insertion or engine entry,  *)
(* its lease is released, and its history has no recording draft but for    *)
(* the one that a stop and a late fault leave to each other.                *)
RestIsClean ==
    \A s \in Session :
        start[s] = "done" /\ Quiet(s) /\ current # s =>
            /\ microphone[s] = "closed"
            /\ provider[s] = "none"
            /\ insertion[s] \in {"none", "gone"}
            /\ history[s] = "recording" => DraftIsOrphaned(s)
            /\ s \notin registered
            /\ s \in revoked

(* A session leaves the recording phase by its own stop only: a stop that   *)
(* waited for an earlier session is not retargeted.                         *)
OwnStopOnly ==
    current # 0 /\ phase \in {"Transcribing", "Inserting", "Completed"} =>
        stop[current] \notin {"none", "look", "early", "done"}

(* Every call returns, whatever it waits for: there is no time from which on *)
(* one of them has not.                                                     *)
HandlersReturn == []<>(\A s \in Session : Quiet(s))
=============================================================================
