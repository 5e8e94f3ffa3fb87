--------------------------- MODULE SelectionVoice ---------------------------
(***************************************************************************)
(* Selection voice commands: the user speaks an instruction about the      *)
(* selected text; it becomes a question, an edit or a new text.            *)
(*                                                                         *)
(*   SelectionVoiceService  one state under one RwLock; every model call   *)
(*                          runs without the lock and looks at the session *)
(*                          again when it has its result                   *)
(*   desktop workflow       selection_voice_session.rs: two tasks of a     *)
(*                          session (start, end), the insertion target,    *)
(*                          the slot of the capture, the native insertion  *)
(*                                                                         *)
(* Texts are left out: a preview knows the session whose selection it was  *)
(* generated from. The questions and edit conversations a command may be   *)
(* routed to are QaService's, which also says how the steps interleave.    *)
(***************************************************************************)
EXTENDS VoiceCapture

VARIABLES
    voice,      \* SelectionVoiceState
    teardown,   \* sessions whose cancel or fault still has to release and
                \* to stop the host: "no", "plain" or "control"
    target,     \* host.target_session_id, 0 when the host has no target
    slot,       \* the session of selection_voice_capture, 0 when empty
    start,      \* the task of begin_selection_voice_session
    end,        \* the task of end_selection_voice_session, and of a confirmed intent
    apply,      \* the confirmation a command or a question turn runs
    inserted    \* history: native insertions of a session's preview

hostVars  == <<target, slot>>
taskVars  == <<start, end, apply>>
voiceVars == <<captureVars, voice, teardown, hostVars, taskVars, inserted>>

Resting == {"Idle", "Completed", "Cancelled", "Failed"}
VoicePhase ==
    Resting \cup {"Recording", "Processing", "AwaitingIntent", "Preview", "Applying"}
Intent == {"Question", "Edit", "Compose"}

VoiceState ==
    [phase : VoicePhase, session : Session \cup {0}, empty : BOOLEAN,
     intent : Intent \cup {"none"}, preview : SUBSET (Turn \cup {0}),
     source : Session \cup {0}, ticket : Id \cup {0}, control : BOOLEAN]

StartPc ==
    {"idle", "target", "hold", "bind", "open", "install", "discard", "fail", "clear", "done"}

EndPc ==
    {"idle", "take", "await", "process", "asked", "route", "question", "questionMode",
     "questionAsk", "questioning", "converse", "converseMode", "converseAsk", "conversing",
     "generate", "apply", "applying", "fail", "clear", "done"}

Confirmation ==
    [pc : {"no", "insert", "aimed", "applied", "failed", "ok", "error"},
     session : Session \cup {0}]

VoiceTypeOK ==
    /\ CaptureTypeOK
    /\ voice \in VoiceState
    /\ teardown \in [Session -> {"no", "plain", "control"}]
    /\ target \in Session \cup {0}
    /\ slot \in Session \cup {0}
    /\ start \in [Session -> StartPc]
    /\ end \in [Session -> EndPc]
    /\ apply \in [Id -> Confirmation]
    /\ inserted \in [Session -> 0..2]

(* A new session; nothing of its predecessor survives.                      *)
NewVoice(s, phase, empty) ==
    [phase |-> phase, session |-> s, empty |-> empty, intent |-> "none", preview |-> {},
     source |-> 0, ticket |-> 0, control |-> FALSE]

VoiceInit ==
    /\ CaptureInit
    /\ voice = NewVoice(0, "Idle", FALSE)
    /\ teardown = [s \in Session |-> "no"]
    /\ target = 0 /\ slot = 0
    /\ start = [s \in Session |-> "idle"]
    /\ end = [s \in Session |-> "idle"]
    /\ apply = [i \in Id |-> [pc |-> "no", session |-> 0]]
    /\ inserted = [s \in Session |-> 0]

NextSession == IF voice.session = 0 THEN MaxTurn + 1 ELSE voice.session + 1

Current(s, phase) == voice.session = s /\ voice.phase = phase

StartAt(s, pc) == start' = [start EXCEPT ![s] = pc]
EndAt(s, pc)   == end' = [end EXCEPT ![s] = pc]

----------------------------------------------------------------------------
(* Ending a session: the state under the lock, then, without it, the lease  *)
(* and the host whose control was registered.                               *)

Ending(s) ==
    [teardown EXCEPT ![s] = IF voice.control \/ @ = "control" THEN "control" ELSE "plain"]

(* SelectionVoiceService::cancel of a named session; stale or already       *)
(* cancelled sessions are left alone.                                       *)
CancelVoice(s) ==
    IF voice.session = s /\ voice.phase # "Cancelled"
    THEN /\ voice' = [voice EXCEPT !.phase = "Cancelled", !.preview = {}, !.ticket = 0,
                                   !.control = FALSE]
         /\ teardown' = Ending(s)
    ELSE UNCHANGED <<voice, teardown>>

(* Slip: the host keeps the target of a cancelled session.                  *)
HostForgetsCaptureOnly(s) ==
    /\ slot' = IF slot = s THEN 0 ELSE slot
    /\ mic' = IF slot = s THEN CancelMic(s) ELSE mic
    /\ UNCHANGED target

(* finish_cancelled_selection_voice_host: the target first, so that a start *)
(* still in flight installs nothing, then the capture already installed.    *)
HostForgets(s) ==
    /\ target' = IF target = s THEN 0 ELSE target
    /\ slot' = IF slot = s THEN 0 ELSE slot
    /\ mic' = IF slot = s THEN CancelMic(s) ELSE mic

TearDown(s) ==
    /\ teardown[s] # "no"
    /\ teardown' = [teardown EXCEPT ![s] = "no"]
    /\ revoked' = Revoke(s)
    /\ IF teardown[s] = "control" THEN HostForgets(s) ELSE UNCHANGED <<target, slot, mic>>
    /\ UNCHANGED <<lease, voice, taskVars, inserted>>

(* Escape, or the picker's cancel button: whatever the service shows.       *)
UserCancels ==
    /\ voice.phase \notin {"Idle", "Cancelled"}
    /\ CancelVoice(voice.session)
    /\ UNCHANGED <<captureVars, hostVars, taskVars, inserted>>

(* recording_fault, from the moment the device is being opened.             *)
RecordingFault(s) ==
    /\ Current(s, "Recording")
    /\ mic[s] # "none"
    /\ voice' = [voice EXCEPT !.phase = "Failed", !.control = FALSE]
    /\ teardown' = Ending(s)
    /\ UNCHANGED <<captureVars, hostVars, taskVars, inserted>>

CaptureCloses(s) ==
    /\ Closed(s)
    /\ UNCHANGED <<lease, revoked, voice, teardown, hostVars, taskVars, inserted>>

----------------------------------------------------------------------------
(* begin_selection_voice_session.                                           *)

(* begin_session takes the lease and the state in one critical section.     *)
Begin(s) ==
    /\ s = NextSession /\ s \in Session
    /\ voice.phase \in Resting
    /\ Acquire(s)
    /\ \E empty \in BOOLEAN : voice' = NewVoice(s, "Recording", empty)
    /\ StartAt(s, "target")
    /\ UNCHANGED <<revoked, mic, teardown, hostVars, end, apply, inserted>>

SetTarget(s) ==
    /\ start[s] = "target"
    /\ target' = s
    /\ StartAt(s, "hold")
    /\ UNCHANGED <<captureVars, voice, teardown, slot, end, apply, inserted>>

HoldResources(s) ==
    /\ start[s] = "hold"
    /\ IF CanHold(s) THEN mic' = [mic EXCEPT ![s] = "held"] /\ StartAt(s, "bind")
                     ELSE UNCHANGED mic /\ StartAt(s, "fail")
    /\ UNCHANGED <<lease, revoked, voice, teardown, hostVars, end, apply, inserted>>

(* bind_recording_control; a session that has ended revokes its late host.  *)
Bind(s) ==
    /\ start[s] = "bind"
    /\ \/ /\ Current(s, "Recording")
          /\ voice' = [voice EXCEPT !.control = TRUE]
          /\ StartAt(s, "open")
          /\ UNCHANGED <<mic, hostVars>>
       \/ /\ ~Current(s, "Recording")
          /\ target' = IF target = s THEN 0 ELSE target
          /\ mic' = [mic EXCEPT ![s] = "ended"]
          /\ StartAt(s, "fail")
          /\ UNCHANGED <<voice, slot>>
    /\ UNCHANGED <<lease, revoked, teardown, end, apply, inserted>>

Opens(s) ==
    /\ start[s] = "open"
    /\ StartSucceeds(s)
    /\ StartAt(s, "install")
    /\ UNCHANGED <<lease, revoked, voice, teardown, hostVars, end, apply, inserted>>

OpenFails(s) ==
    /\ start[s] = "open"
    /\ StartFails(s)
    /\ StartAt(s, "fail")
    /\ UNCHANGED <<lease, revoked, voice, teardown, hostVars, end, apply, inserted>>

(* Slip: the capture is installed whoever owns the target.                  *)
InstallAlways(s) ==
    /\ start[s] = "install"
    /\ slot' = s /\ StartAt(s, "done") /\ UNCHANGED mic
    /\ UNCHANGED <<lease, revoked, voice, teardown, target, end, apply, inserted>>

(* The owner check and the installation share the host lock.                *)
Install(s) ==
    /\ start[s] = "install"
    /\ IF target = s THEN slot' = s /\ StartAt(s, "done") /\ UNCHANGED mic
                     ELSE mic' = CancelMic(s) /\ StartAt(s, "discard") /\ UNCHANGED slot
    /\ UNCHANGED <<lease, revoked, voice, teardown, target, end, apply, inserted>>

Discarded(s) ==
    /\ start[s] = "discard" /\ mic[s] = "ended"
    /\ StartAt(s, "done")
    /\ UNCHANGED <<captureVars, voice, teardown, hostVars, end, apply, inserted>>

(* A start that failed cancels its own session, then forgets its target.    *)
StartFailed(s) ==
    /\ start[s] = "fail"
    /\ CancelVoice(s)
    /\ StartAt(s, "clear")
    /\ UNCHANGED <<captureVars, hostVars, end, apply, inserted>>

StartClears(s) ==
    /\ start[s] = "clear" /\ teardown[s] = "no"
    /\ target' = IF target = s THEN 0 ELSE target
    /\ StartAt(s, "done")
    /\ UNCHANGED <<captureVars, voice, teardown, slot, end, apply, inserted>>

----------------------------------------------------------------------------
(* end_selection_voice_session: the second press, the release, silence or   *)
(* the recording limit; an automatic stop waits for the installed capture.  *)

MarkProcessing(s) ==
    /\ Current(s, "Recording")
    /\ voice' = [voice EXCEPT !.phase = "Processing"]
    /\ EndAt(s, "take")
    /\ UNCHANGED <<captureVars, teardown, hostVars, start, apply, inserted>>

TakeCapture(s) ==
    /\ end[s] = "take"
    /\ IF slot = s /\ mic[s] = "ready" THEN BeginFinish(s) /\ EndAt(s, "await")
                                       ELSE UNCHANGED mic /\ EndAt(s, "fail")
    /\ UNCHANGED <<lease, revoked, voice, teardown, hostVars, start, apply, inserted>>

(* finish: its own result, or the error of a cancellation that took it over. *)
Transcribed(s) ==
    /\ end[s] = "await"
    /\ \/ Settle(s) /\ (EndAt(s, "process") \/ EndAt(s, "fail"))
       \/ Settled(s) /\ EndAt(s, "fail") /\ UNCHANGED mic
    /\ slot' = IF slot = s THEN 0 ELSE slot
    /\ UNCHANGED <<lease, revoked, voice, teardown, target, start, apply, inserted>>

Coerced(intent) == IF intent = "Edit" /\ voice.empty THEN "Compose" ELSE intent

(* process_transcript and resolve_instruction: the instruction is polished  *)
(* and classified without the lock, then set on the session it belongs to.  *)
Resolve(s) ==
    /\ end[s] = "process"
    /\ \/ /\ Current(s, "Processing")
          /\ \/ /\ voice' = [voice EXCEPT !.phase = "AwaitingIntent"]
                /\ EndAt(s, "asked")
             \/ \E intent \in Intent :
                   /\ voice' = [voice EXCEPT !.intent = Coerced(intent)]
                   /\ EndAt(s, "route")
       \/ UNCHANGED voice /\ EndAt(s, "fail")
    /\ UNCHANGED <<captureVars, teardown, hostVars, start, apply, inserted>>

(* confirm_intent, from the picker.                                         *)
Confirm(s) ==
    /\ end[s] = "asked"
    /\ Current(s, "AwaitingIntent")
    /\ \E intent \in Intent :
          voice' = [voice EXCEPT !.phase = "Processing", !.intent = Coerced(intent)]
    /\ EndAt(s, "route")
    /\ UNCHANGED <<captureVars, teardown, hostVars, start, apply, inserted>>

(* route_disposition: an edit is generated here (direct replace) or opens   *)
(* a conversation (prepare_edit); the disposition was taken under the lock. *)
Route(s) ==
    /\ end[s] = "route"
    /\ \/ ~Current(s, "Processing") /\ EndAt(s, "fail")
       \/ Current(s, "Processing") /\ voice.intent = "Question" /\ EndAt(s, "question")
       \/ Current(s, "Processing") /\ voice.intent = "Edit" /\ EndAt(s, "converse")
       \/ Current(s, "Processing") /\ voice.intent # "Question" /\ EndAt(s, "generate")
    /\ UNCHANGED <<captureVars, voice, teardown, hostVars, start, apply, inserted>>

(* set_preview: only the processing session, whose lease it gives back.     *)
SetPreview(s, owner) ==
    /\ Current(s, "Processing")
    /\ voice' = [voice EXCEPT !.phase = "Preview", !.preview = {owner}, !.source = s]
    /\ revoked' = Revoke(s)

Generated(s) ==
    /\ end[s] = "generate"
    /\ \/ SetPreview(s, 0) /\ EndAt(s, "apply")
       \/ UNCHANGED <<voice, revoked>> /\ EndAt(s, "fail")
    /\ UNCHANGED <<lease, mic, teardown, hostVars, start, apply, inserted>>

(* SelectionVoiceService::complete, after the question was answered.        *)
CompleteVoice(s) ==
    /\ voice.session = s /\ voice.phase \notin Resting \cup {"Applying"}
    /\ voice' = [voice EXCEPT !.phase = "Completed", !.preview = {}, !.ticket = 0]
    /\ revoked' = Revoke(s)

EndFailed(s) ==
    /\ end[s] = "fail"
    /\ CancelVoice(s)
    /\ EndAt(s, "clear")
    /\ UNCHANGED <<captureVars, hostVars, start, apply, inserted>>

EndClears(s) ==
    /\ end[s] = "clear" /\ teardown[s] = "no"
    /\ target' = IF target = s THEN 0 ELSE target
    /\ EndAt(s, "done")
    /\ UNCHANGED <<captureVars, voice, teardown, slot, start, apply, inserted>>

----------------------------------------------------------------------------
(* Applying a preview. The ticket is named by the caller that confirmed:    *)
(* the command itself, or a turn of the question panel.                     *)

(* Slip: the preview of a finished application may be confirmed again.      *)
BeginApplyAgain(i, owner) ==
    /\ voice.phase \in {"Preview", "Completed"}
    /\ voice' = [voice EXCEPT !.phase = "Applying", !.ticket = i]
    /\ apply' = [apply EXCEPT ![i] = [pc |-> "insert", session |-> voice.session]]

Applyable(owner) == voice.phase = "Preview" /\ voice.ticket = 0 /\ voice.preview = {owner}

BeginApply(i, owner) ==
    /\ Applyable(owner)
    /\ voice' = [voice EXCEPT !.phase = "Applying", !.ticket = i]
    /\ apply' = [apply EXCEPT ![i] = [pc |-> "insert", session |-> voice.session]]

ApplyAt(i, pc) == apply' = [apply EXCEPT ![i].pc = pc]

(* apply_selection_voice_preview_ticket: copies the target of the session   *)
(* under the host lock,                                                     *)
FindTarget(i) ==
    /\ apply[i].pc = "insert"
    /\ ApplyAt(i, IF target = apply[i].session THEN "aimed" ELSE "failed")
    /\ UNCHANGED <<captureVars, voice, teardown, hostVars, start, end, inserted>>

(* then focuses it, compares its selection and inserts the text, without    *)
(* the lock and without a second look.                                      *)
Insert(i) ==
    /\ apply[i].pc = "aimed"
    /\ \/ /\ inserted' = [inserted EXCEPT ![apply[i].session] = @ + 1]
          /\ ApplyAt(i, "applied")
       \/ UNCHANGED inserted /\ ApplyAt(i, "failed")
    /\ UNCHANGED <<captureVars, voice, teardown, hostVars, start, end>>

(* finish_preview_apply: a stale ticket changes nothing.                    *)
Report(i) ==
    LET stale == voice.ticket # i \/ voice.session # apply[i].session
    IN  /\ apply[i].pc \in {"applied", "failed"}
        /\ IF stale THEN UNCHANGED <<voice, revoked>>
           ELSE IF apply[i].pc = "applied"
           THEN /\ voice' = [voice EXCEPT !.ticket = 0, !.phase = "Completed", !.preview = {}]
                /\ revoked' = Revoke(voice.session)
           ELSE /\ voice' = [voice EXCEPT !.ticket = 0, !.phase = "Preview"]
                /\ UNCHANGED revoked
        /\ ApplyAt(i, IF ~stale /\ apply[i].pc = "applied" THEN "ok" ELSE "error")
        /\ UNCHANGED <<lease, mic, teardown, hostVars, start, end, inserted>>

(* The command confirms the text it generated. The service knows the        *)
(* confirmation only by its owner, and no command's preview has one.        *)
ConfirmDirect(s) ==
    /\ end[s] = "apply"
    /\ \/ BeginApply(s, 0) /\ EndAt(s, "applying")
       \/ ~Applyable(0) /\ EndAt(s, "fail") /\ UNCHANGED <<voice, apply>>
    /\ UNCHANGED <<captureVars, teardown, hostVars, start, inserted>>

(* An applied text ends the host session of its ticket.                     *)
DirectApplied(s) ==
    /\ end[s] = "applying"
    /\ \/ /\ apply[s].pc = "ok"
          /\ target' = IF target = apply[s].session THEN 0 ELSE target
          /\ EndAt(s, "done")
       \/ apply[s].pc = "error" /\ EndAt(s, "fail") /\ UNCHANGED target
    /\ ApplyAt(s, "no")
    /\ UNCHANGED <<captureVars, voice, teardown, slot, start, inserted>>

----------------------------------------------------------------------------
StartStep(s) ==
    \/ SetTarget(s) \/ HoldResources(s) \/ Bind(s) \/ Opens(s) \/ OpenFails(s)
    \/ Install(s) \/ Discarded(s) \/ StartFailed(s) \/ StartClears(s)

EndStep(s) ==
    \/ TakeCapture(s) \/ Transcribed(s) \/ Resolve(s) \/ Route(s) \/ Generated(s)
    \/ EndFailed(s) \/ EndClears(s) \/ ConfirmDirect(s) \/ DirectApplied(s)

----------------------------------------------------------------------------
(* No task of a command is under way.                                       *)
VoiceQuiet ==
    /\ \A s \in Session :
          /\ start[s] \in {"idle", "done"} /\ end[s] \in {"idle", "asked", "done"}
          /\ teardown[s] = "no" /\ mic[s] # "closing"
    /\ \A i \in Id : apply[i].pc = "no"

(* Once every task has returned, a session that has ended left no           *)
(* microphone open and no lease behind, and an open microphone is the       *)
(* recording session's and reachable from the host's slot: whichever of the *)
(* cancel, the fault, the early stop and the late device won.               *)
NoCommandLeft ==
    VoiceQuiet =>
        \A s \in Session :
            IF Current(s, "Recording")
            THEN lease = s /\ s \notin revoked /\ (mic[s] = "ready" => slot = s)
            ELSE /\ mic[s] \in {"none", "ended"} /\ slot # s
                 /\ lease = s => s \in revoked \/ Current(s, "AwaitingIntent")
                                 \/ Current(s, "Processing")

(* The text of a session is inserted at most once, however its confirmation *)
(* races with a cancellation or is repeated after a failure.                *)
InsertedOnce == \A s \in Session : inserted[s] <= 1

(* After the cancellation of a command has taken effect no confirmation     *)
(* finds a target for its text, not even one that was already under way.    *)
(* One that had found it before is not stopped, and inserts the text.       *)
CancelledFindsNoTarget ==
    [][\A i \in Id :
          LET s == apply[i].session
          IN  apply[i].pc = "insert" /\ apply'[i].pc = "aimed" /\ start[s] # "idle" =>
                  ~(Current(s, "Cancelled") /\ teardown[s] = "no")]_voiceVars
=============================================================================
