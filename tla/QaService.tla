----------------------------- MODULE QaService ------------------------------
(***************************************************************************)
(* The question panel: turns spoken or typed, their conversation, the      *)
(* edits it makes of the selected text, and the ways it is closed.         *)
(*                                                                         *)
(*   QaService        one snapshot under the state lock; opening and       *)
(*                    closing the panel also hold the presentation mutex   *)
(*   desktop adapter  the registry of runtime sessions (qa_adapter.rs):    *)
(*                    a capture or a context that arrives late is          *)
(*                    installed only while its turn is registered          *)
(*   SelectionVoice   previews owned by a conversation; commands routed to *)
(*                    a question or to an edit conversation                *)
(*                                                                         *)
(* Every turn has a fresh id. Tool approvals, the live answer, and whether *)
(* the panel offers to apply or to revert an edit are left out.            *)
(***************************************************************************)
EXTENDS SelectionVoice

CONSTANTS
    MaxClose,     \* calls of cancel and dismiss
    Budgets       \* what the user does, one of these per behaviour: speak and
                  \* type questions, edit the selected text, give selection
                  \* voice commands; how many turns, sessions and calls; the
                  \* turns whose recorder may fail, and those the user may
                  \* finish recording

Use == {"speak", "type", "edit", "command"}

ASSUME QaAssumption ==
    /\ MaxClose \in Nat
    /\ Budgets \subseteq [uses : SUBSET Use, turns : 0..MaxTurn, sessions : 0..MaxSession,
                          closes : 0..MaxClose, faults : SUBSET Turn, asks : SUBSET Turn]

(* A confirmed edit dismisses the panel of its turn: these are the calls    *)
(* 1..MaxTurn, the others are the user's and the recorder's.                *)
Close     == 1..(MaxTurn + MaxClose)
UserClose == (MaxTurn + 1)..(MaxTurn + MaxClose)

VARIABLES
    budget,     \* the member of Budgets this behaviour keeps to
    qa,         \* QaState.snapshot
    previous,   \* the snapshot a turn restores when the panel does not open;
                \* the default one while no panel is being opened
    presenter,  \* who holds the presentation mutex
    window,     \* is the panel shown
    lastTurn,   \* the number of turns begun
    turn,       \* the calls of each turn
    runtime,    \* the desktop registry: the runtime session of each turn
    installed,  \* turns whose runtime session has its voice capture
    fault,      \* recording_fault of each turn
    close       \* the cancel and dismiss calls

panelVars   == <<qa, previous, presenter, window, lastTurn>>
registry    == <<runtime, installed>>
qaVars      == <<panelVars, registry, turn, fault, close>>
commandVars == <<voice, teardown, hostVars, taskVars, inserted>>
allVars     == <<voiceVars, qaVars, budget>>

QaPhase == {"Idle", "Recording", "Thinking", "Completed", "Cancelled", "Failed"}

Snapshot ==
    [phase : QaPhase, session : Turn \cup {0}, conversation : Turn \cup {0},
     editing : BOOLEAN, messages : Seq({"user", "assistant"} \X Turn)]

DefaultSnapshot ==
    [phase |-> "Idle", session |-> 0, conversation |-> 0, editing |-> FALSE, messages |-> <<>>]

(* A turn has up to two calls: begin opens the microphone, ask answers the  *)
(* question. owner and session are the conversation and the selection voice *)
(* session of its edit (created: begun by it), command the selection voice  *)
(* command it was routed from, and prebound whether that was an edit.       *)
NoTurn ==
    [begin |-> "idle", ask |-> "idle", ok |-> FALSE, owner |-> 0, editing |-> FALSE,
     session |-> 0, created |-> FALSE, command |-> 0, prebound |-> FALSE]

BeginPc ==
    {"idle", "show", "register", "captured", "open", "install", "arm", "discard", "fail", "sweep",
     "done"}

AskPc ==
    {"idle", "show", "prepare", "context", "finish", "await", "check", "push", "answer", "edit",
     "revise", "generate", "bind", "complete", "settle", "fail", "sweep", "closing", "clear",
     "release", "done"}

TurnType ==
    [begin : BeginPc, ask : AskPc, ok : BOOLEAN, owner : Turn \cup {0}, editing : BOOLEAN,
     session : Session \cup {0}, created : BOOLEAN, command : Session \cup {0},
     prebound : BOOLEAN]

NoClose == [pc |-> "idle", clear |-> FALSE, release |-> 0, runtime |-> 0, owner |-> 0]

CloseType ==
    [pc : {"idle", "claim", "present", "cancel", "closing", "clear", "done"}, clear : BOOLEAN,
     release : Turn \cup {0}, runtime : Turn \cup {0}, owner : Turn \cup {0}]

QaTypeOK ==
    /\ VoiceTypeOK
    /\ budget \in Budgets
    /\ qa \in Snapshot /\ previous \in Snapshot
    /\ presenter \in {"none", "turn", "close"}
    /\ window \in BOOLEAN
    /\ lastTurn \in 0..MaxTurn
    /\ turn \in [Turn -> TurnType]
    /\ runtime \in [Turn -> {"none", "live", "gone", "cancelled"}]
    /\ installed \subseteq Turn
    /\ fault \in [Turn -> {"no", "fail", "sweep"}]
    /\ close \in [Close -> CloseType]

QaInit ==
    /\ VoiceInit
    /\ budget \in Budgets
    /\ qa = DefaultSnapshot /\ previous = DefaultSnapshot
    /\ presenter = "none" /\ window = FALSE /\ lastTurn = 0
    /\ turn = [t \in Turn |-> NoTurn]
    /\ runtime = [t \in Turn |-> "none"]
    /\ installed = {}
    /\ fault = [t \in Turn |-> "no"]
    /\ close = [c \in Close |-> NoClose]

QaActive     == qa.phase \in {"Recording", "Thinking"}
RecordingQuestion(t) == qa.session = t /\ qa.phase = "Recording"
Asking(t)    == qa.session = t /\ qa.phase = "Thinking"

(* A turn was spoken when it has a begin call.                              *)
Spoken(t) == turn[t].begin # "idle"

BeginAt(t, pc) == turn' = [turn EXCEPT ![t].begin = pc]
AskAt(t, pc)   == turn' = [turn EXCEPT ![t].ask = pc]

----------------------------------------------------------------------------
(* What several calls do to the snapshot and to the registry.               *)

LastIsUser == qa.messages # <<>> /\ qa.messages[Len(qa.messages)][1] = "user"

(* fail_if_current: the unanswered question leaves the conversation.        *)
FailIfCurrent(t) ==
    IF qa.session = t /\ QaActive
    THEN qa' = [qa EXCEPT !.phase = "Failed", !.conversation = 0,
                          !.messages = IF LastIsUser THEN SubSeq(@, 1, Len(@) - 1) ELSE @]
    ELSE UNCHANGED qa

(* A runtime session leaves the registry, cancelled or not.                 *)
Unregistered(t, how) == IF runtime[t] = "live" THEN [runtime EXCEPT ![t] = how] ELSE runtime

(* TauriQaRuntimeAdapter::cancel removes the session and cancels its        *)
(* capture; only the caller that did so waits for the cleanup.              *)
Cancels(t) == runtime[t] = "live" /\ t \in installed

RuntimeCancel(t) ==
    /\ runtime' = Unregistered(t, "cancelled")
    /\ installed' = installed \ {t}
    /\ mic' = IF Cancels(t) THEN CancelMic(t) ELSE mic

AfterCancel(t) == IF Cancels(t) THEN "closing" ELSE "clear"
Cleaned(t, pc) == pc = "clear" \/ (pc = "closing" /\ mic[t] # "closing")

(* clear_edit_preview_best_effort: only the preview of that conversation.   *)
ClearPreview(owner) ==
    IF owner # 0 /\ owner \in voice.preview
    THEN CancelVoice(voice.session)
    ELSE UNCHANGED <<voice, teardown>>

NewTurn(t, phase, from) ==
    [from EXCEPT !.phase = phase, !.session = t, !.conversation = IF @ = 0 THEN t ELSE @]

(* A turn is begun under the presentation mutex, which it keeps until the   *)
(* panel is shown; ensure_qa_idle refuses a second one.                     *)
ClaimTurn(t, phase, from) ==
    /\ t = lastTurn + 1 /\ t <= budget.turns
    /\ presenter = "none" /\ ~QaActive
    /\ lastTurn' = t
    /\ presenter' = "turn"
    /\ previous' = qa
    /\ qa' = NewTurn(t, phase, from)
    /\ UNCHANGED window

(* The panel did not open: the turn is taken back as if it had not begun.   *)
TakeBack(t, phase) ==
    qa' = IF qa.session = t /\ qa.phase = phase THEN previous ELSE qa

----------------------------------------------------------------------------
(* begin_recording and TauriQaRuntimeAdapter::start_recording. fresh is the *)
(* question asked by hotkey; the button of the panel continues.             *)

BeginRecording(t) ==
    /\ "speak" \in budget.uses
    /\ Acquire(t)
    /\ \E fresh \in BOOLEAN :
          ClaimTurn(t, "Recording", IF fresh THEN DefaultSnapshot ELSE qa)
    /\ BeginAt(t, "show")
    /\ UNCHANGED <<revoked, mic, commandVars, registry, fault, close>>

(* Slip: a panel that does not open is not noticed.                         *)
ShowRecordingRegardless(t) ==
    /\ turn[t].begin = "show"
    /\ presenter' = "none" /\ previous' = DefaultSnapshot
    /\ window' \in {window, TRUE} /\ BeginAt(t, "register")
    /\ UNCHANGED <<qa, revoked, lease, mic, commandVars, lastTurn, registry, fault, close>>

ShowRecording(t) ==
    /\ turn[t].begin = "show"
    /\ presenter' = "none" /\ previous' = DefaultSnapshot
    /\ \/ window' = TRUE /\ BeginAt(t, "register") /\ UNCHANGED <<qa, revoked>>
       \/ /\ TakeBack(t, "Recording")
          /\ revoked' = Revoke(t)
          /\ BeginAt(t, "done") /\ UNCHANGED window
    /\ UNCHANGED <<lease, mic, commandVars, lastTurn, registry, fault, close>>

Register(t) ==
    /\ turn[t].begin = "register"
    /\ runtime' = [runtime EXCEPT ![t] = "live"]
    /\ BeginAt(t, "captured")
    /\ UNCHANGED <<voiceVars, panelVars, installed, fault, close>>

(* QaProgress::SelectionCaptured is refused unless the turn still records,  *)
(* the hold unless its lease is still in the gate.                          *)
SelectionCaptured(t) ==
    /\ turn[t].begin = "captured"
    /\ IF RecordingQuestion(t) /\ CanHold(t)
       THEN mic' = [mic EXCEPT ![t] = "held"] /\ BeginAt(t, "open") /\ UNCHANGED runtime
       ELSE BeginAt(t, "fail") /\ runtime' = Unregistered(t, "gone") /\ UNCHANGED mic
    /\ UNCHANGED <<lease, revoked, commandVars, panelVars, installed, fault, close>>

QaOpens(t) ==
    /\ turn[t].begin = "open"
    /\ \/ StartSucceeds(t) /\ BeginAt(t, "install") /\ UNCHANGED runtime
       \/ StartFails(t) /\ BeginAt(t, "fail") /\ runtime' = Unregistered(t, "gone")
    /\ UNCHANGED <<lease, revoked, commandVars, panelVars, installed, fault, close>>

(* Slip: a capture that arrives late is installed all the same.             *)
QaInstallsLate(t) ==
    /\ turn[t].begin = "install"
    /\ installed' = installed \cup {t} /\ BeginAt(t, "arm")
    /\ UNCHANGED <<voiceVars, panelVars, runtime, fault, close>>

(* The registry lock decides between the late capture and the cancellation. *)
QaInstalls(t) ==
    /\ turn[t].begin = "install"
    /\ IF runtime[t] = "live"
       THEN installed' = installed \cup {t} /\ BeginAt(t, "arm") /\ UNCHANGED mic
       ELSE mic' = CancelMic(t) /\ BeginAt(t, "discard") /\ UNCHANGED installed
    /\ UNCHANGED <<lease, revoked, commandVars, panelVars, runtime, fault, close>>

(* Silence, the limit and device faults are dispatched from here on; a      *)
(* cancellation that came after the installation has the capture already.   *)
Arm(t) ==
    /\ turn[t].begin = "arm"
    /\ BeginAt(t, IF runtime[t] = "cancelled" THEN "discard" ELSE "done")
    /\ UNCHANGED <<voiceVars, panelVars, registry, fault, close>>

QaDiscarded(t) ==
    /\ turn[t].begin = "discard" /\ mic[t] # "closing"
    /\ BeginAt(t, "fail")
    /\ UNCHANGED <<voiceVars, panelVars, registry, fault, close>>

BeginFails(t) ==
    /\ turn[t].begin = "fail"
    /\ FailIfCurrent(t)
    /\ BeginAt(t, "sweep")
    /\ UNCHANGED <<voiceVars, previous, presenter, window, lastTurn, registry, fault, close>>

(* Its runtime session has left the registry by then.                       *)
BeginSweeps(t) ==
    /\ turn[t].begin = "sweep"
    /\ RuntimeCancel(t)
    /\ revoked' = Revoke(t)
    /\ BeginAt(t, "done")
    /\ UNCHANGED <<lease, commandVars, panelVars, fault, close>>

(* recording_fault looks at the phase, then fails the turn in a second      *)
(* critical section, whatever the turn does by then. One that came while    *)
(* the device opened is dispatched when the progress is armed.              *)
FaultStarts(t) ==
    /\ turn[t].begin \in {"arm", "done"} /\ RecordingQuestion(t)
    /\ t \in budget.faults
    /\ fault' = [fault EXCEPT ![t] = "fail"]
    /\ UNCHANGED <<voiceVars, panelVars, registry, turn, close>>

FaultFails(t) ==
    /\ fault[t] = "fail"
    /\ FailIfCurrent(t)
    /\ revoked' = Revoke(t)
    /\ fault' = [fault EXCEPT ![t] = "sweep"]
    /\ UNCHANGED <<lease, mic, commandVars, previous, presenter, window, lastTurn, registry, turn,
                   close>>

FaultSweeps(t) ==
    /\ fault[t] = "sweep"
    /\ RuntimeCancel(t)
    /\ fault' = [fault EXCEPT ![t] = "no"]
    /\ UNCHANGED <<lease, revoked, commandVars, panelVars, turn, close>>

----------------------------------------------------------------------------
(* finish_recording: the second press, silence or the limit.                *)

FinishRecording(t) ==
    /\ t \in budget.asks
    /\ RecordingQuestion(t)
    /\ qa' = [qa EXCEPT !.phase = "Thinking"]
    /\ AskAt(t, "finish")
    /\ UNCHANGED <<voiceVars, previous, presenter, window, lastTurn, registry, fault, close>>

StopMicrophone(t) ==
    /\ turn[t].ask = "finish"
    /\ IF runtime[t] = "live" /\ t \in installed /\ mic[t] = "ready"
       THEN BeginFinish(t) /\ AskAt(t, "await")
       ELSE AskAt(t, "fail") /\ UNCHANGED mic
    /\ UNCHANGED <<lease, revoked, commandVars, panelVars, registry, fault, close>>

(* The transcript counts only for a turn that is still registered.          *)
QuestionHeard(t) ==
    /\ turn[t].ask = "await"
    /\ \/ Settle(t) /\ runtime[t] = "live" /\ AskAt(t, "check")
       \/ Settle(t) /\ AskAt(t, "fail")
       \/ Settled(t) /\ AskAt(t, "fail") /\ UNCHANGED mic
    /\ UNCHANGED <<lease, revoked, commandVars, panelVars, registry, fault, close>>

----------------------------------------------------------------------------
(* submit_inner: a typed question, an instruction to edit, or the question  *)
(* of a selection voice command.                                            *)

SubmitText(t, command, prebound) ==
    /\ ClaimTurn(t, "Thinking", qa)
    /\ turn' = [turn EXCEPT ![t].ask = "show", ![t].command = command, ![t].prebound = prebound]

TypeQuestion(t) ==
    /\ "type" \in budget.uses
    /\ SubmitText(t, 0, FALSE)
    /\ UNCHANGED <<voiceVars, registry, fault, close>>

ShowQuestion(t) ==
    /\ turn[t].ask = "show"
    /\ presenter' = "none" /\ previous' = DefaultSnapshot
    /\ \/ window' = TRUE /\ AskAt(t, "prepare") /\ UNCHANGED qa
       \/ TakeBack(t, "Thinking") /\ AskAt(t, "done") /\ UNCHANGED window
    /\ UNCHANGED <<voiceVars, lastTurn, registry, fault, close>>

Prepare(t) ==
    /\ turn[t].ask = "prepare"
    /\ runtime' = [runtime EXCEPT ![t] = "live"]
    /\ AskAt(t, "context")
    /\ UNCHANGED <<voiceVars, panelVars, installed, fault, close>>

(* prepare_context: the late context is installed under the registry lock;  *)
(* a failed one cancels the runtime session first.                          *)
ContextCaptured(t) ==
    /\ turn[t].ask = "context"
    /\ \/ runtime[t] = "live" /\ AskAt(t, "check") /\ UNCHANGED <<registry, mic>>
       \/ RuntimeCancel(t) /\ AskAt(t, "fail")
    /\ UNCHANGED <<lease, revoked, commandVars, panelVars, fault, close>>

----------------------------------------------------------------------------
(* answer_input.                                                            *)

(* A turn that ended meanwhile sweeps what arrived after its cancellation.  *)
CheckCurrent(t) ==
    /\ turn[t].ask = "check"
    /\ AskAt(t, IF Asking(t) THEN "push" ELSE "sweep")
    /\ UNCHANGED <<voiceVars, panelVars, registry, fault, close>>

PushQuestion(t) ==
    /\ turn[t].ask = "push"
    /\ IF Asking(t)
       THEN /\ qa' = [qa EXCEPT !.messages = Append(@, <<"user", t>>)]
            /\ turn' = [turn EXCEPT ![t].ask = IF qa.editing THEN "edit" ELSE "answer",
                                    ![t].owner = qa.conversation, ![t].editing = qa.editing]
       ELSE AskAt(t, "release") /\ UNCHANGED qa
    /\ UNCHANGED <<voiceVars, previous, presenter, window, lastTurn, registry, fault, close>>

Answered(t) ==
    /\ turn[t].ask = "answer"
    /\ \/ runtime[t] = "live" /\ AskAt(t, "complete")
       \/ AskAt(t, "fail")
    /\ UNCHANGED <<voiceVars, panelVars, registry, fault, close>>

EditsWith(t, pc, s, created) ==
    turn' = [turn EXCEPT ![t].ask = pc, ![t].session = s, ![t].created = created]

SessionLeft == NextSession <= MaxTurn + budget.sessions

(* edit_preview revises the preview of the conversation, continues the      *)
(* command that opened it, or begins a session of its own, without a lease. *)
(* It fails when nothing is selected or the service is busy.                *)
EditPreview(t) ==
    LET mine  == turn[t].owner \in voice.preview
        reuse == voice.phase = "Processing" /\ voice.intent = "Edit"
    IN  /\ turn[t].ask = "edit"
        /\ \/ mine /\ EditsWith(t, "revise", voice.session, FALSE) /\ UNCHANGED voice
           \/ ~mine /\ reuse /\ EditsWith(t, "generate", voice.session, FALSE) /\ UNCHANGED voice
           \/ /\ ~mine /\ ~reuse /\ voice.phase \in Resting
              /\ SessionLeft
              /\ voice' = NewVoice(NextSession, "Processing", FALSE)
              /\ EditsWith(t, "generate", NextSession, TRUE)
           \/ AskAt(t, "fail") /\ UNCHANGED voice
        /\ UNCHANGED <<captureVars, teardown, hostVars, taskVars, inserted, panelVars, registry,
                       fault, close>>

(* The model revised the shown text; replace_preview takes it while the     *)
(* preview is still shown to the same conversation.                         *)
Revised(t) ==
    /\ turn[t].ask = "revise"
    /\ \/ /\ voice.phase = "Preview" /\ turn[t].owner \in voice.preview
          /\ EditsWith(t, "bind", voice.session, FALSE)
       \/ AskAt(t, "fail")
    /\ UNCHANGED <<voiceVars, panelVars, registry, fault, close>>

(* The model's error cancels a session begun for this turn; a refused       *)
(* preview (an empty text, a session cancelled meanwhile) does not.         *)
EditGenerated(t) ==
    /\ turn[t].ask = "generate"
    /\ \/ SetPreview(turn[t].session, turn[t].owner) /\ AskAt(t, "bind") /\ UNCHANGED teardown
       \/ /\ IF turn[t].created THEN CancelVoice(turn[t].session)
                                ELSE UNCHANGED <<voice, teardown>>
          /\ AskAt(t, "fail") /\ UNCHANGED revoked
       \/ AskAt(t, "fail") /\ UNCHANGED <<voice, revoked, teardown>>
    /\ UNCHANGED <<lease, mic, hostVars, taskVars, inserted, panelVars, registry, fault, close>>

(* bind_selection_voice_target: the target captured with the question, or   *)
(* the one the command already has; a captured question has no target.      *)
BindTarget(t) ==
    /\ turn[t].ask = "bind"
    /\ \/ /\ runtime[t] = "live" /\ ~turn[t].prebound
          /\ target' = turn[t].session
          /\ AskAt(t, "complete")
       \/ /\ runtime[t] = "live" /\ turn[t].prebound /\ turn[t].command = turn[t].session
          /\ AskAt(t, "complete") /\ UNCHANGED target
       \/ /\ ~(runtime[t] = "live" /\ turn[t].prebound /\ turn[t].command = turn[t].session)
          /\ AskAt(t, "fail") /\ UNCHANGED target
    /\ UNCHANGED <<captureVars, voice, teardown, slot, taskVars, inserted, panelVars, registry,
                   fault, close>>

(* complete takes the runtime session out of the registry; when it is gone  *)
(* already the answer still counts, if the turn does.                       *)
CompleteRuntime(t) ==
    /\ turn[t].ask = "complete"
    /\ runtime' = Unregistered(t, "gone")
    /\ installed' = installed \ {t}
    /\ AskAt(t, "settle")
    /\ UNCHANGED <<voiceVars, panelVars, fault, close>>

(* Slip: a late answer joins the conversation of whoever asks now.          *)
SettleLate(t) ==
    /\ turn[t].ask = "settle"
    /\ qa' = [qa EXCEPT !.messages = Append(@, <<"assistant", t>>), !.phase = "Completed"]
    /\ turn' = [turn EXCEPT ![t].ask = "release", ![t].ok = TRUE]
    /\ UNCHANGED <<voiceVars, previous, presenter, window, lastTurn, registry, fault, close>>

SettleAnswer(t) ==
    /\ turn[t].ask = "settle"
    /\ IF Asking(t)
       THEN /\ qa' = [qa EXCEPT !.messages = Append(@, <<"assistant", t>>), !.phase = "Completed"]
            /\ turn' = [turn EXCEPT ![t].ask = "release", ![t].ok = TRUE]
       ELSE AskAt(t, "release") /\ UNCHANGED qa
    /\ UNCHANGED <<voiceVars, previous, presenter, window, lastTurn, registry, fault, close>>

AskFails(t) ==
    /\ turn[t].ask = "fail"
    /\ FailIfCurrent(t)
    /\ AskAt(t, "sweep")
    /\ UNCHANGED <<voiceVars, previous, presenter, window, lastTurn, registry, fault, close>>

AskSweeps(t) ==
    /\ turn[t].ask = "sweep"
    /\ RuntimeCancel(t)
    /\ AskAt(t, AfterCancel(t))
    /\ UNCHANGED <<lease, revoked, commandVars, panelVars, fault, close>>

AskClears(t) ==
    /\ Cleaned(t, turn[t].ask)
    /\ IF turn[t].editing THEN ClearPreview(turn[t].owner) ELSE UNCHANGED <<voice, teardown>>
    /\ AskAt(t, "release")
    /\ UNCHANGED <<captureVars, hostVars, taskVars, inserted, panelVars, registry, fault, close>>

(* Only a spoken turn has a lease.                                          *)
AskReleases(t) ==
    /\ turn[t].ask = "release"
    /\ revoked' = IF Spoken(t) THEN Revoke(t) ELSE revoked
    /\ turn' = [turn EXCEPT ![t] = [NoTurn EXCEPT !.begin = turn[t].begin, !.ask = "done",
                                       !.ok = turn[t].ok /\ turn[t].command # 0,
                                       !.command = turn[t].command]]
    /\ UNCHANGED <<lease, mic, commandVars, panelVars, registry, fault, close>>

----------------------------------------------------------------------------
(* cancel and dismiss. requested is the turn the caller named, 0 for none.  *)

(* Slip: the panel is closed without the presentation mutex.                *)
ClaimCloseUnguarded(c, clear, requested) ==
    /\ qa' = [qa EXCEPT !.conversation = 0,
                        !.phase = IF @ = "Idle" THEN @ ELSE "Cancelled"]
    /\ close' = [close EXCEPT ![c] =
          [pc |-> "present", clear |-> clear, owner |-> qa.conversation,
           runtime |-> IF QaActive THEN qa.session ELSE 0,
           release |-> IF requested # 0 THEN requested ELSE IF QaActive THEN qa.session ELSE 0]]
    /\ UNCHANGED presenter

(* prepare_cancel: the turn ends and loses its conversation.                *)
ClaimClose(c, clear, requested) ==
    /\ presenter = "none"
    /\ presenter' = "close"
    /\ qa' = [qa EXCEPT !.conversation = 0,
                        !.phase = IF @ = "Idle" THEN @ ELSE "Cancelled"]
    /\ close' = [close EXCEPT ![c] =
          [pc |-> "present", clear |-> clear, owner |-> qa.conversation,
           runtime |-> IF QaActive THEN qa.session ELSE 0,
           release |-> IF requested # 0 THEN requested ELSE IF QaActive THEN qa.session ELSE 0]]

(* Escape, ten seconds without speech (which names its turn), or dismissal. *)
UserCloses(c) ==
    /\ close[c].pc = "idle" /\ c <= MaxTurn + budget.closes
    /\ \/ ClaimClose(c, TRUE, 0)
       \/ qa.session # 0 /\ \E requested \in {0, qa.session} : ClaimClose(c, FALSE, requested)
    /\ UNCHANGED <<voiceVars, previous, window, lastTurn, registry, turn, fault>>

(* dismiss_session of an applied edit; a later turn is left alone.          *)
AppliedEditCloses(t) ==
    /\ close[t].pc = "claim"
    /\ \/ qa.session = t /\ ClaimClose(t, TRUE, t)
       \/ /\ presenter = "none" /\ qa.session # t
          /\ close' = [close EXCEPT ![t].pc = "done"]
          /\ UNCHANGED <<qa, presenter>>
    /\ UNCHANGED <<voiceVars, previous, window, lastTurn, registry, turn, fault>>

(* The lease is released; a dismissal resets the snapshot and hides the     *)
(* panel before the mutex is given back.                                    *)
CloseHides(c) ==
    /\ close[c].pc = "present"
    /\ presenter' = "none"
    /\ revoked' = IF close[c].release = 0 THEN revoked ELSE Revoke(close[c].release)
    /\ IF close[c].clear THEN qa' = DefaultSnapshot /\ window' = FALSE
                         ELSE UNCHANGED <<qa, window>>
    /\ close' = [close EXCEPT ![c].pc = "cancel"]
    /\ UNCHANGED <<lease, mic, commandVars, previous, lastTurn, registry, turn, fault>>

(* finish_cancel: the runtime session of the turn, then the preview of the  *)
(* conversation it captured.                                                *)
CloseCancelsRuntime(c) ==
    LET t == close[c].runtime
    IN  /\ close[c].pc = "cancel"
        /\ IF t = 0 THEN UNCHANGED <<registry, mic>> ELSE RuntimeCancel(t)
        /\ close' = [close EXCEPT ![c].pc = IF t = 0 THEN "clear" ELSE AfterCancel(t)]
        /\ UNCHANGED <<lease, revoked, commandVars, panelVars, turn, fault>>

CloseClearsPreview(c) ==
    /\ close[c].pc = "clear" \/ Cleaned(close[c].runtime, close[c].pc)
    /\ IF close[c].clear THEN ClearPreview(close[c].owner) ELSE UNCHANGED <<voice, teardown>>
    /\ close' = [close EXCEPT ![c] = [NoClose EXCEPT !.pc = "done"]]
    /\ UNCHANGED <<captureVars, hostVars, taskVars, inserted, panelVars, registry, turn, fault>>

----------------------------------------------------------------------------
(* The panel by itself, and the confirmation of an edit.                    *)

Show ==
    /\ presenter = "none" /\ ~window
    /\ window' = TRUE
    /\ UNCHANGED <<voiceVars, qa, previous, presenter, lastTurn, registry, turn, fault, close>>

SetEditInstructionMode(enabled) ==
    /\ presenter = "none" /\ ~QaActive
    /\ qa' = [qa EXCEPT !.editing = enabled]

ToggleEditMode ==
    /\ "edit" \in budget.uses /\ window
    /\ SetEditInstructionMode(~qa.editing)
    /\ UNCHANGED <<voiceVars, previous, presenter, window, lastTurn, registry, turn, fault, close>>

(* begin_edit_preview_apply, for the turn the panel shows as answered.      *)
ConfirmEdit(t) ==
    /\ qa.session = t /\ qa.phase = "Completed" /\ qa.conversation # 0
    /\ apply[t].pc = "no"
    /\ BeginApply(t, qa.conversation)
    /\ UNCHANGED <<captureVars, teardown, hostVars, start, end, inserted, qaVars>>

(* Slip: a failed insertion forgets the target as well.                     *)
EditAppliedForgets(t) ==
    /\ apply[t].pc \in {"ok", "error"}
    /\ target' = IF target = apply[t].session THEN 0 ELSE target
    /\ close' = IF apply[t].pc = "ok" THEN [close EXCEPT ![t].pc = "claim"] ELSE close
    /\ ApplyAt(t, "no")
    /\ UNCHANGED <<captureVars, voice, teardown, slot, start, end, inserted, panelVars, registry,
                   turn, fault>>

EditApplied(t) ==
    /\ apply[t].pc \in {"ok", "error"}
    /\ IF apply[t].pc = "ok"
       THEN /\ target' = IF target = apply[t].session THEN 0 ELSE target
            /\ close' = [close EXCEPT ![t].pc = "claim"]
       ELSE UNCHANGED <<target, close>>
    /\ ApplyAt(t, "no")
    /\ UNCHANGED <<captureVars, voice, teardown, slot, start, end, inserted, panelVars, registry,
                   turn, fault>>

----------------------------------------------------------------------------
(* A selection voice command routed to the panel: show, the mode, and the   *)
(* question or the edit of the text selected before the panel opened. Each  *)
(* is a call of its own; the command ends with what it returns.             *)

RouteShows(s) ==
    /\ end[s] \in {"question", "converse"} /\ presenter = "none"
    /\ \/ window' = TRUE
          /\ EndAt(s, IF end[s] = "question" THEN "questionMode" ELSE "converseMode")
       \/ EndAt(s, "fail") /\ UNCHANGED window
    /\ UNCHANGED <<captureVars, voice, teardown, hostVars, start, apply, inserted, qa, previous,
                   presenter, lastTurn, registry, turn, fault, close>>

RouteSetsMode(s) ==
    /\ end[s] \in {"questionMode", "converseMode"} /\ presenter = "none"
    /\ \/ /\ SetEditInstructionMode(end[s] = "converseMode")
          /\ EndAt(s, IF end[s] = "questionMode" THEN "questionAsk" ELSE "converseAsk")
       \/ QaActive /\ EndAt(s, "fail") /\ UNCHANGED qa
    /\ UNCHANGED <<captureVars, voice, teardown, hostVars, start, apply, inserted, previous,
                   presenter, window, lastTurn, registry, turn, fault, close>>

RouteAsks(s) ==
    /\ end[s] \in {"questionAsk", "converseAsk"} /\ presenter = "none"
    /\ \/ /\ \E t \in Turn : SubmitText(t, s, end[s] = "converseAsk")
          /\ EndAt(s, IF end[s] = "questionAsk" THEN "questioning" ELSE "conversing")
       \/ QaActive /\ EndAt(s, "fail") /\ UNCHANGED <<panelVars, turn>>
    /\ UNCHANGED <<captureVars, voice, teardown, hostVars, start, apply, inserted, registry, fault,
                   close>>

RouteReturns(s) ==
    /\ \E t \in Turn :
          /\ turn[t].command = s /\ turn[t].ask = "done"
          /\ \/ /\ end[s] = "conversing" /\ turn[t].ok
                /\ EndAt(s, "done") /\ UNCHANGED <<voice, revoked>>
             \/ /\ end[s] = "questioning" /\ turn[t].ok
                /\ CompleteVoice(s) /\ EndAt(s, "clear")
             \/ /\ end[s] \in {"questioning", "conversing"}
                /\ turn[t].ok => end[s] = "questioning"
                /\ EndAt(s, "fail") /\ UNCHANGED <<voice, revoked>>
    /\ UNCHANGED <<lease, mic, teardown, hostVars, start, apply, inserted, qaVars>>

----------------------------------------------------------------------------
BeginStep(t) ==
    \/ ShowRecording(t) \/ Register(t) \/ SelectionCaptured(t) \/ QaOpens(t)
    \/ QaInstalls(t) \/ Arm(t) \/ QaDiscarded(t)
    \/ BeginFails(t) \/ BeginSweeps(t)

FaultStep(t) == FaultStarts(t) \/ FaultFails(t) \/ FaultSweeps(t)

AskStep(t) ==
    \/ StopMicrophone(t) \/ QuestionHeard(t)
    \/ ShowQuestion(t) \/ Prepare(t) \/ ContextCaptured(t)
    \/ CheckCurrent(t) \/ PushQuestion(t) \/ Answered(t)
    \/ EditPreview(t) \/ Revised(t) \/ EditGenerated(t) \/ BindTarget(t)
    \/ CompleteRuntime(t) \/ SettleAnswer(t)
    \/ AskFails(t) \/ AskSweeps(t) \/ AskClears(t) \/ AskReleases(t)

CloseStep(c) == CloseHides(c) \/ CloseCancelsRuntime(c) \/ CloseClearsPreview(c)

RouteStep(s) == RouteShows(s) \/ RouteSetsMode(s) \/ RouteAsks(s) \/ RouteReturns(s)

PanelStep ==
    \/ \E t \in Turn :
          \/ BeginRecording(t) \/ BeginStep(t) \/ FaultStep(t) \/ FinishRecording(t)
          \/ TypeQuestion(t) \/ AskStep(t) \/ ConfirmEdit(t) \/ EditApplied(t)
          \/ AppliedEditCloses(t)
    \/ \E c \in UserClose : UserCloses(c)
    \/ \E c \in Close : CloseStep(c)
    \/ Show \/ ToggleEditMode
    \/ \E s \in Session : RouteStep(s)

(* The steps of the commands, and of the edits the panel makes with them.   *)
CommandStep ==
    \/ \E s \in Session :
          \/ "command" \in budget.uses /\ SessionLeft /\ Begin(s)
          \/ StartStep(s) \/ MarkProcessing(s) \/ EndStep(s) \/ Confirm(s)
          \/ RecordingFault(s) \/ TearDown(s)
    \/ \E i \in Id : CaptureCloses(i) \/ FindTarget(i) \/ Insert(i) \/ Report(i)
    \/ UserCancels

QaNext == (PanelStep \/ (CommandStep /\ UNCHANGED qaVars)) /\ UNCHANGED budget

QaSpec == QaInit /\ [][QaNext]_allVars

----------------------------------------------------------------------------
(* No call is under way.                                                    *)
QaQuiet ==
    /\ VoiceQuiet /\ presenter = "none"
    /\ \A t \in Turn :
          /\ turn[t].begin \in {"idle", "done"} /\ turn[t].ask \in {"idle", "done"}
          /\ fault[t] = "no" /\ mic[t] # "closing"
    /\ \A c \in Close : close[c].pc \in {"idle", "done"}

(* Once every call has returned, only the turn that records has a runtime   *)
(* session, a lease and a microphone, and it has all three: whichever of    *)
(* the cancellation, the fault, the second press, the late capture and the  *)
(* late context won.                                                        *)
QaNoneLeft ==
    QaQuiet =>
        \A t \in Turn :
            IF RecordingQuestion(t)
            THEN /\ runtime[t] = "live" /\ t \in installed /\ mic[t] = "ready"
                 /\ CanHold(t)
            ELSE /\ runtime[t] # "live" /\ t \notin installed /\ mic[t] \in {"none", "ended"}
                 /\ lease = t => t \in revoked

(* Nothing of a question or of a command is left behind.                    *)
NothingLeftBehind == NoCommandLeft /\ QaNoneLeft

(* An answer directly follows the question it answers, however late it      *)
(* comes and whatever was cancelled, failed or asked meanwhile.             *)
AnswerFollowsItsQuestion ==
    \A i \in DOMAIN qa.messages :
        qa.messages[i][1] = "assistant" =>
            i > 1 /\ qa.messages[i - 1] = <<"user", qa.messages[i][2]>>

(* The user sees every turn that reached the microphone or a provider: one  *)
(* whose panel did not open goes no further, and no dismissal that began    *)
(* earlier hides the panel of a turn.                                       *)
ActiveTurnIsShown ==
    presenter = "none" /\ QaActive /\ runtime[qa.session] # "none" => window

(* Turn t has yet to bind the preview of its conversation, or takes it back. *)
Unsettled(t) ==
    /\ turn[t].editing /\ turn[t].owner \in voice.preview \ {0}
    /\ turn[t].ask \in {"bind", "fail", "sweep", "closing", "clear"}

(* The session in hand has had its target captured: by the start of its     *)
(* command, or with the question of the edit on offer.                      *)
Targeted ==
    /\ voice.phase \notin Resting
    /\ \/ start[voice.session] \notin {"idle", "target", "fail"}
       \/ /\ start[voice.session] = "idle" /\ voice.phase \in {"Preview", "Applying"}
          /\ \A t \in Turn : ~Unsettled(t)

TargetLost == Targeted /\ target # voice.session

(* A start or a turn of another session, overtaken, captures its own target. *)
Overtaken(s) ==
    /\ s # voice.session /\ target' = s
    /\ start[s] = "target" \/ \E t \in Turn : turn[t].ask = "bind" /\ turn[t].session = s

(* A text on offer can be inserted: the target captured for its session is  *)
(* kept until the session ends, also after an insertion that failed, after  *)
(* a revision and for a command answered by the panel. Nothing forgets it;  *)
(* only a late task of another session puts its own in its place.           *)
TargetIsKept ==
    [][TargetLost' => TargetLost \/ \E s \in Session : Overtaken(s)]_allVars
=============================================================================
