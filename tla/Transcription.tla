---------------------------- MODULE Transcription ----------------------------
(***************************************************************************)
(* The recognition of one dictation session in PipelineDictationEngine     *)
(* (dictation_engine.rs): engine.start opens the recorder and attaches the *)
(* cloud recognizer behind its buffer, engine.finish stops the recorder,   *)
(* races the recognizer with the local standby and retries it on the       *)
(* recording, engine.cancel ends whatever there is, at any time.           *)
(*                                                                         *)
(* start, finish and cancel are tasks with a program counter. Everything   *)
(* finish polls itself (the call of the recognizer, the standby) advances  *)
(* only where finish polls it. A release is cancel_transcription_once: its *)
(* target Cloud is the buffer in front of that provider.                   *)
(***************************************************************************)
EXTENDS BufferedTranscription

VARIABLES
    setup,          \* mode of the attachment, asr_fallback, an archive that can be read
    flags,          \* PipelineSession: cancelled, transcription_cancelled (once),
                    \*   transcription_finished (finished)
    registered,     \* the session is in PipelineDictationEngine.sessions
    recording,      \* the native recording, and who holds it
    transcription,  \* resources.transcription, as a target of a release
    buffered,       \* resources.buffered is set
    pc,             \* of the tasks
    then,           \* where a task continues after its release
    target,         \* what it releases
    call,           \* transcription.finish(): where it is, or its result
    verdict,        \* what finish remembers of a failed call
    attempt,        \* of the retry
    standby         \* LocalStandby.run

outer == <<bufferVars, waiterVars, audio, providerVars, setup>>
allButState == <<bufferVars, waiterVars, audio, fed, asked, late, setup>>
sessionVars == <<flags, registered, recording, transcription, buffered>>
taskVars == <<pc, then, target>>
raceVars == <<call, verdict, attempt, standby>>
vars == <<outer, sessionVars, taskVars, raceVars>>

None == Local + 1     \* no transcription

Result == {"text", "empty", "lost", "refused"}   \* lost: a retryable error

Task == {"start", "finish", "cancel"}
Returned == {"idle", "ok", "error", "returned"}
Pc == Returned \cup
      {"build", "open", "store", "prepare", "attach", "attached", "check", "undo", "stop",
       "take", "stopped", "race", "local", "spare", "backoff", "restart", "register", "feed",
       "answer", "again", "transcribed", "end", "called", "remove",
       "drop", "letgo", "close", "join", "asleep"}

TypeOK ==
    /\ BufferTypeOK
    /\ setup \in [mode : {"stable", "awaited", "spawned"}, fallback : BOOLEAN,
                   archive : BOOLEAN]
    /\ flags \in SUBSET {"cancelled", "once", "finished"}
    /\ registered \in BOOLEAN /\ buffered \in BOOLEAN
    /\ recording \in {"none", "opening", "opened", "stored", "taken", "closed"}
    /\ transcription \in Provider \cup {None}
    /\ pc \in [Task -> Pc] /\ then \in [Task -> Pc]
    /\ target \in [Task -> Provider \cup {None}]
    /\ call \in Result \cup {"none", "wait", "asleep", "attach", "ask", "answer", "dropped"}
    /\ verdict \in [cancelled : BOOLEAN, retry : BOOLEAN]
    /\ attempt \in 0..Attempts
    /\ standby \in {"off", "prepare", "answer"}

Init ==
    /\ BufferInit
    /\ setup \in [mode : {"stable", "awaited", "spawned"}, fallback : BOOLEAN,
                   archive : BOOLEAN]
    /\ flags = {} /\ registered = FALSE /\ recording = "none"
    /\ transcription = None /\ buffered = FALSE
    /\ pc = [t \in Task |-> "idle"]
    /\ then = [t \in Task |-> "idle"]
    /\ target = [t \in Task |-> None]
    /\ call = "none" /\ verdict = [cancelled |-> FALSE, retry |-> FALSE]
    /\ attempt = 0 /\ standby = "off"

At(t, p) == pc' = [pc EXCEPT ![t] = p]
PcOnly == UNCHANGED <<outer, sessionVars, then, target, raceVars>>
Flagged(flag) == flag \in flags
Raise(flag) == flags' = flags \cup {flag}

(* The backend cancels only a session it has left: progress.publish refuses  *)
(* its events from then on.                                                 *)
Inactive == pc["cancel"] # "idle"

(* The recorder has returned from its stop: no callback of it is running.   *)
Stops == audio.feeding = 0 /\ recording' = "closed"

Forget(t, p) == registered' = FALSE /\ At(t, p)

----------------------------------------------------------------------------
(* cancel_transcription_once                                                *)

Release(t, provider, next) ==
    /\ At(t, "letgo")
    /\ then' = [then EXCEPT ![t] = next]
    /\ target' = [target EXCEPT ![t] = provider]

LetGo(t) ==
    /\ pc[t] = "letgo"
    /\ IF Flagged("finished") \/ Flagged("once") THEN At(t, then[t]) /\ UNCHANGED flags
       ELSE At(t, "close") /\ Raise("once")
    /\ UNCHANGED <<outer, registered, recording, transcription, buffered, then, target,
                   raceVars>>

(* take_cancel_state of a buffer that is attaching is followed by a wait.    *)
Close(t) ==
    /\ pc[t] = "close"
    /\ IF target[t] = Cloud
       THEN /\ TakeCancelState
            /\ At(t, IF buffer.state = "attaching" THEN "join" ELSE then[t])
       ELSE Ends(target[t], "cancelled") /\ At(t, then[t]) /\ UNCHANGED buffer
    /\ UNCHANGED <<attach, waiterVars, audio, fed, asked, late, setup, sessionVars, then,
                   target, raceVars>>

Join(t) ==
    /\ pc[t] = "join"
    /\ Notified(t)
    /\ At(t, "asleep")
    /\ UNCHANGED <<bufferVars, audio, providerVars, setup, sessionVars, then, target,
                   raceVars>>

Woken(t) ==
    /\ pc[t] = "asleep" /\ t \notin asleep
    /\ At(t, then[t])
    /\ PcOnly

ReleaseStep(t) == LetGo(t) \/ Close(t) \/ Join(t) \/ Woken(t)
----------------------------------------------------------------------------
(* start                                                                    *)

StartBegin ==
    /\ pc["start"] = "idle"
    /\ At("start", "build")
    /\ registered' = TRUE
    /\ UNCHANGED <<outer, flags, recording, transcription, buffered, then, target,
                   raceVars>>

(* The buffer becomes a resource of the session, unless it was cancelled.   *)
StartBuild ==
    /\ pc["start"] = "build"
    /\ IF Flagged("cancelled")
       THEN /\ Forget("start", "error")
            /\ TakeCancelState
            /\ UNCHANGED <<recording, transcription, buffered>>
       ELSE /\ At("start", "open")
            /\ recording' = "opening"
            /\ transcription' = Cloud /\ buffered' = TRUE
            /\ UNCHANGED <<buffer, state, registered>>
    /\ UNCHANGED <<attach, waiterVars, audio, fed, asked, late, setup, flags, then, target,
                   raceVars>>

(* recorder.start; its callbacks may come before it returns.                *)
StartOpen ==
    /\ pc["start"] = "open"
    /\ \/ At("start", "store") /\ recording' = "opened" /\ UNCHANGED <<then, target>>
       \/ Stops /\ Release("start", Cloud, "end")
    /\ UNCHANGED <<outer, flags, registered, transcription, buffered, raceVars>>

StartStore ==
    /\ pc["start"] = "store"
    /\ IF Flagged("cancelled") THEN At("start", "stop") /\ UNCHANGED recording
       ELSE At("start", "prepare") /\ recording' = "stored"
    /\ UNCHANGED <<outer, flags, registered, transcription, buffered, then, target,
                   raceVars>>

(* CaptureReady and the preparation of the provider, either of which may     *)
(* fail.                                                                    *)
StartPrepare ==
    /\ pc["start"] = "prepare"
    /\ \/ /\ ~Flagged("cancelled")
          /\ At("start", IF setup.mode = "stable" THEN "check" ELSE "attach")
       \/ At("start", "undo")
    /\ PcOnly

(* A local model is attached by a task of its own, a cloud one by start.    *)
StartAttach ==
    /\ pc["start"] = "attach"
    /\ IF Cancelled
       THEN /\ At("start", IF setup.mode = "spawned" THEN "check" ELSE "undo")
            /\ UNCHANGED bufferVars
       ELSE /\ BeginAttach(IF setup.mode = "spawned" THEN "spawned" ELSE "start")
            /\ At("start", IF setup.mode = "spawned" THEN "check" ELSE "attached")
    /\ UNCHANGED <<waiterVars, audio, providerVars, setup, sessionVars, then, target,
                   raceVars>>

(* The capture goes on for the local replay if there is a fallback.         *)
StartAttached ==
    /\ pc["start"] = "attached" /\ Attached
    /\ At("start", IF attach.pc = "ok" \/ (setup.fallback /\ ~Flagged("cancelled"))
                   THEN "check" ELSE "undo")
    /\ PcOnly

StartCheck ==
    /\ pc["start"] = "check"
    /\ At("start", IF Flagged("cancelled") THEN "undo" ELSE "ok")
    /\ PcOnly

(* The recording, unless somebody else has taken it, is stopped first.      *)
StartUndo ==
    /\ pc["start"] = "undo"
    /\ IF recording = "stored"
       THEN At("start", "stop") /\ recording' = "taken" /\ UNCHANGED <<then, target>>
       ELSE Release("start", Cloud, "end") /\ UNCHANGED recording
    /\ UNCHANGED <<outer, flags, registered, transcription, buffered, raceVars>>

StartStop ==
    /\ pc["start"] = "stop"
    /\ Stops
    /\ Release("start", Cloud, "end")
    /\ UNCHANGED <<outer, flags, registered, transcription, buffered, raceVars>>

StartStep ==
    \/ StartBuild \/ StartStore \/ StartAttach \/ StartAttached \/ StartCheck \/ StartUndo
    \/ StartStop \/ ReleaseStep("start")

(* The exit of a failed start or finish.                                    *)
EndsInError(t) ==
    /\ pc[t] = "end"
    /\ Forget(t, "error")
    /\ UNCHANGED <<outer, flags, recording, transcription, buffered, then, target,
                   raceVars>>

----------------------------------------------------------------------------
(* finish: the recorder, then the call of the recognizer                    *)

FinishBegin ==
    /\ pc["finish"] = "idle" /\ pc["start"] = "ok"
    /\ \/ registered /\ ~Flagged("cancelled") /\ At("finish", "take") /\ UNCHANGED registered
       \/ registered /\ Flagged("cancelled") /\ Forget("finish", "error")
       \/ ~registered /\ At("finish", "error") /\ UNCHANGED registered
    /\ UNCHANGED <<outer, flags, recording, transcription, buffered, then, target,
                   raceVars>>

FinishTake ==
    /\ pc["finish"] = "take"
    /\ IF recording = "stored" THEN At("finish", "stop") /\ recording' = "taken"
       ELSE At("finish", "error") /\ UNCHANGED recording
    /\ UNCHANGED <<outer, flags, registered, transcription, buffered, then, target,
                   raceVars>>

FinishStop ==
    /\ pc["finish"] = "stop"
    /\ Stops
    /\ At("finish", "stopped")
    /\ UNCHANGED <<outer, flags, registered, transcription, buffered, then, target,
                   raceVars>>

(* BufferedTranscriptionSession::finish: silence is refused, the recognizer  *)
(* is attached or its attachment waited for.                                *)
Transcribe ==
    \/ /\ buffer.state \in {"failed", "cancelled"}
       /\ \E error \in {"lost", "refused"} : call' = error
       /\ UNCHANGED bufferVars
    \/ /\ buffer.state \notin {"failed", "cancelled"} /\ ~audio.heard
       /\ call' = "refused"
       /\ UNCHANGED bufferVars
    \/ /\ buffer.state = "buffering" /\ audio.heard
       /\ BeginAttach("finish")
       /\ call' = "attach"
    \/ /\ buffer.state \in {"attaching", "direct"} /\ audio.heard
       /\ call' = IF buffer.state = "direct" THEN "ask" ELSE "wait"
       /\ UNCHANGED bufferVars

(* A refused Transcribing stage leaves the session to the cancellation.     *)
FinishStopped ==
    /\ pc["finish"] = "stopped"
    /\ \/ /\ Flagged("cancelled")
          /\ Release("finish", Cloud, "end")
          /\ UNCHANGED <<bufferVars, call, standby>>
       \/ /\ Inactive
          /\ At("finish", "error")
          /\ UNCHANGED <<bufferVars, then, target, call, standby>>
       \/ /\ ~Inactive
          /\ At("finish", "race")
          /\ Transcribe
          /\ standby' = IF setup.fallback /\ setup.archive THEN "prepare" ELSE "off"
          /\ UNCHANGED <<then, target>>
    /\ UNCHANGED <<waiterVars, audio, providerVars, setup, sessionVars, verdict, attempt>>

CallWait ==
    /\ pc["finish"] = "race" /\ call = "wait"
    /\ Notified("finish")
    /\ call' = "asleep"
    /\ UNCHANGED <<bufferVars, audio, providerVars, setup, sessionVars, taskVars, verdict,
                   attempt, standby>>

(* The attachment is over, for the one that slept on it or polled it.       *)
CallAttached ==
    /\ pc["finish"] = "race"
    /\ \/ call = "asleep" /\ "finish" \notin asleep
       \/ call = "attach" /\ Attached
    /\ IF (IF call = "attach" THEN attach.pc = "ok" ELSE buffer.state = "direct")
       THEN call' = "ask"
       ELSE \E error \in {"lost", "refused"} : call' = error
    /\ UNCHANGED <<outer, sessionVars, taskVars, verdict, attempt, standby>>

CallAsk ==
    /\ pc["finish"] = "race" /\ call = "ask"
    /\ call' = "answer"
    /\ asked' = asked \cup {Cloud}
    /\ UNCHANGED <<bufferVars, waiterVars, audio, state, fed, late, setup, sessionVars,
                   taskVars, verdict, attempt, standby>>

CallAnswered ==
    /\ pc["finish"] = "race" /\ call = "answer"
    /\ call' \in Result
    /\ Ends(Cloud, "finished")
    /\ UNCHANGED <<allButState, sessionVars, taskVars, verdict, attempt, standby>>

----------------------------------------------------------------------------
(* The standby and the outcome of the race                                  *)

(* LocalStandby::abandon: the run is dropped, a started session cancelled.  *)
Abandon == standby' = "off" /\ Ends(Local, "cancelled")

AfterLocal ==
    IF verdict.retry THEN At("finish", "backoff") /\ attempt' = 1
    ELSE At("finish", "end") /\ UNCHANGED attempt

(* The recognizer answered first, or alone.                                 *)
CallSettled ==
    /\ pc["finish"] = "race"
    /\ \/ /\ call = "text"
          /\ Raise("finished")
          /\ Abandon
          /\ At("finish", "transcribed")
          /\ UNCHANGED <<then, target, verdict>>
       \/ /\ call = "empty"
          /\ Raise("finished")
          /\ At("finish", IF standby = "off" THEN "transcribed" ELSE "spare")
          /\ UNCHANGED <<state, then, target, verdict, standby>>
       \/ /\ call \in {"lost", "refused"}
          /\ \E read \in BOOLEAN :
                 verdict' = [cancelled |-> Flagged("cancelled"),
                             retry |-> /\ read /\ ~Flagged("cancelled") /\ call = "lost"
                                       /\ setup.archive /\ audio.spoken > 0]
          /\ Release("finish", Cloud, "local")
          /\ UNCHANGED <<flags, state, standby>>
    /\ UNCHANGED <<allButState, registered, recording, transcription, buffered, call,
                   attempt>>

(* After a failed call: without a standby, or with one nobody needs.        *)
LocalSkipped ==
    /\ pc["finish"] = "local" /\ (standby = "off" \/ verdict.cancelled)
    /\ Abandon
    /\ AfterLocal
    /\ UNCHANGED <<allButState, sessionVars, then, target, call, verdict>>

(* finish polls the standby: in the race after the call, which is then at a  *)
(* point where it awaits something, and alone after a failed or empty call. *)
Polled ==
    \/ /\ pc["finish"] = "race"
       /\ call \in {"asleep", "answer"} \/ (call = "attach" /\ attach.pc = "start")
    \/ pc["finish"] = "spare"
    \/ pc["finish"] = "local" /\ ~verdict.cancelled

(* It looks at no cancellation: until the poll that waits for one ends it   *)
(* (StandbyFailed), it goes on.                                             *)
StandbyStarted ==
    /\ Polled /\ standby = "prepare"
    /\ standby' = "answer"
    /\ Started(Local, Flagged("cancelled"))
    /\ Feed(Local, Recording)
    /\ asked' = asked \cup {Local}
    /\ UNCHANGED <<bufferVars, waiterVars, audio, setup, sessionVars, taskVars, call,
                   verdict, attempt>>

(* No local result: not started, no text, or cancelled with the session.    *)
StandbyFailed ==
    /\ Polled /\ standby # "off"
    /\ \/ Ends(Local, "finished")
       \/ Flagged("cancelled") /\ Ends(Local, "cancelled")
    /\ standby' = "off"
    /\ \/ pc["finish"] = "race" /\ UNCHANGED <<pc, attempt>>
       \/ pc["finish"] = "spare" /\ At("finish", "transcribed") /\ UNCHANGED attempt
       \/ pc["finish"] = "local" /\ AfterLocal
    /\ UNCHANGED <<allButState, sessionVars, then, target, call, verdict>>

(* A local text. In the race it drops the call, wherever that is.           *)
StandbyAnswered ==
    /\ Polled /\ standby = "answer"
    /\ Ends(Local, "finished")
    /\ standby' = "off"
    /\ IF pc["finish"] = "race"
       THEN /\ call' = "dropped"
            /\ Release("finish", Cloud, "transcribed")
            /\ IF call = "attach" THEN DropAttach
               ELSE asleep' = asleep \ {"finish"} /\ UNCHANGED <<attach, permit>>
       ELSE At("finish", "transcribed") /\ UNCHANGED <<attach, waiterVars, then, target,
                                                       call>>
    /\ UNCHANGED <<buffer, audio, fed, asked, late, setup, sessionVars, verdict, attempt>>

(* The registry forgets the session; a refused Polishing stage leaves that   *)
(* to the cancellation.                                                     *)
FinishTranscribed ==
    /\ pc["finish"] = "transcribed"
    /\ \/ Forget("finish", IF Flagged("cancelled") THEN "error" ELSE "ok")
       \/ Inactive /\ At("finish", "error") /\ UNCHANGED registered
    /\ UNCHANGED <<outer, flags, recording, transcription, buffered, then, target,
                   raceVars>>

----------------------------------------------------------------------------
(* retry_transcription                                                      *)

Backoff ==
    /\ pc["finish"] = "backoff"
    /\ At("finish", IF Flagged("cancelled") THEN "end" ELSE "restart")
    /\ PcOnly

NextAttempt == At("finish", "backoff") /\ attempt' = attempt + 1

Restarted ==
    /\ pc["finish"] = "restart"
    /\ \/ /\ Started(attempt, Flagged("cancelled"))
          /\ At("finish", "register")
          /\ UNCHANGED attempt
       \/ /\ At("finish", "end") /\ UNCHANGED <<state, late, attempt>>
       \/ /\ ~Flagged("cancelled") /\ attempt < Attempts
          /\ NextAttempt
          /\ UNCHANGED <<state, late>>
    /\ UNCHANGED <<bufferVars, waiterVars, audio, fed, asked, setup, sessionVars, then,
                   target, call, verdict, standby>>

(* Slip: registered without a look at the cancellation.                      *)
RegisterAlways ==
    /\ pc["finish"] = "register"
    /\ flags' = flags \ {"once", "finished"}
    /\ transcription' = attempt /\ buffered' = FALSE
    /\ At("finish", "feed")
    /\ UNCHANGED <<outer, registered, recording, then, target, raceVars>>

(* Slip: the once-only flags of the last attempt stay.                       *)
RegisterShielded ==
    /\ pc["finish"] = "register"
    /\ IF Flagged("cancelled")
       THEN /\ Ends(attempt, "cancelled")
            /\ At("finish", "end")
            /\ UNCHANGED <<flags, transcription, buffered>>
       ELSE /\ UNCHANGED flags
            /\ transcription' = attempt /\ buffered' = FALSE
            /\ At("finish", "feed")
            /\ UNCHANGED state
    /\ UNCHANGED <<allButState, registered, recording, then, target, raceVars>>

(* Under the resource lock: a late retry is cancelled, never registered.    *)
Register ==
    /\ pc["finish"] = "register"
    /\ IF Flagged("cancelled")
       THEN /\ Ends(attempt, "cancelled")
            /\ At("finish", "end")
            /\ UNCHANGED <<flags, transcription, buffered>>
       ELSE /\ flags' = flags \ {"once", "finished"}
            /\ transcription' = attempt /\ buffered' = FALSE
            /\ At("finish", "feed")
            /\ UNCHANGED state
    /\ UNCHANGED <<allButState, registered, recording, then, target, raceVars>>

Replay ==
    /\ pc["finish"] = "feed"
    /\ IF Flagged("cancelled")
       THEN Release("finish", attempt, "end") /\ UNCHANGED <<fed, asked>>
       ELSE /\ Feed(attempt, Recording)
            /\ asked' = asked \cup {attempt}
            /\ At("finish", "answer")
            /\ UNCHANGED <<then, target>>
    /\ UNCHANGED <<bufferVars, waiterVars, audio, state, late, setup, sessionVars,
                   raceVars>>

RetryAnswered ==
    /\ pc["finish"] = "answer"
    /\ Ends(attempt, "finished")
    /\ \/ /\ Raise("finished")
          /\ At("finish", "transcribed")
          /\ UNCHANGED <<then, target>>
       \/ /\ \E next \in {"end"} \cup (IF attempt < Attempts THEN {"again"} ELSE {}) :
                 Release("finish", attempt, next)
          /\ UNCHANGED flags
    /\ UNCHANGED <<allButState, registered, recording, transcription, buffered, raceVars>>

Again ==
    /\ pc["finish"] = "again"
    /\ NextAttempt
    /\ UNCHANGED <<outer, sessionVars, then, target, call, verdict, standby>>

FinishStep ==
    \/ FinishTake \/ FinishStop \/ FinishStopped \/ CallWait \/ CallAttached \/ CallAsk
    \/ CallSettled \/ LocalSkipped \/ FinishTranscribed \/ Backoff \/ Register \/ Replay
    \/ Again \/ ReleaseStep("finish")
----------------------------------------------------------------------------
(* cancel                                                                   *)

(* The backend has left the session and calls engine.cancel.                *)
CancelCalled ==
    /\ pc["cancel"] = "idle" /\ pc["start"] # "idle"
    /\ At("cancel", "called")
    /\ PcOnly

CancelBegin ==
    /\ pc["cancel"] = "called"
    /\ IF registered THEN At("cancel", "take") /\ Raise("cancelled")
       ELSE At("cancel", "returned") /\ UNCHANGED flags
    /\ UNCHANGED <<outer, registered, recording, transcription, buffered, then, target,
                   raceVars>>

(* Slip: the cancellation waits for the attachment like every other release. *)
ReleaseOfAny(provider) == IF provider = None THEN "remove" ELSE "letgo"

(* A buffer is cancelled without waiting for the start of its recognizer.   *)
ReleaseOf(provider) ==
    IF provider = None THEN "remove" ELSE IF provider = Cloud THEN "drop" ELSE "letgo"

(* Under the resource lock. The recording it takes is stopped first.        *)
CancelTake ==
    /\ pc["cancel"] = "take"
    /\ buffered' = FALSE
    /\ recording' = IF recording = "stored" THEN "taken" ELSE recording
    /\ target' = [target EXCEPT !["cancel"] = transcription]
    /\ then' = [then EXCEPT !["cancel"] = "remove"]
    /\ At("cancel", IF recording = "stored" THEN "stop" ELSE ReleaseOf(transcription))
    /\ UNCHANGED <<outer, flags, registered, transcription, raceVars>>

CancelStop ==
    /\ pc["cancel"] = "stop"
    /\ Stops
    /\ At("cancel", ReleaseOf(target["cancel"]))
    /\ UNCHANGED <<outer, flags, registered, transcription, buffered, then, target,
                   raceVars>>

CancelDrop ==
    /\ pc["cancel"] = "drop"
    /\ TakeCancelState
    /\ At("cancel", "remove")
    /\ UNCHANGED <<attach, waiterVars, audio, fed, asked, late, setup, sessionVars, then,
                   target, raceVars>>

CancelRemove ==
    /\ pc["cancel"] = "remove"
    /\ Forget("cancel", "returned")
    /\ UNCHANGED <<outer, flags, recording, transcription, buffered, then, target,
                   raceVars>>

CancelStep ==
    \/ CancelBegin \/ CancelTake \/ CancelStop \/ CancelDrop \/ CancelRemove
    \/ ReleaseStep("cancel")
----------------------------------------------------------------------------
Outside == UNCHANGED <<setup, sessionVars, taskVars, raceVars>>

(* What the tasks and the callbacks of the recorder do on their own.        *)
TaskStep ==
    \/ StartStep \/ FinishStep \/ CancelStep
    \/ \E t \in {"start", "finish"} : EndsInError(t)
    \/ (AttachStep \/ FeedDirect) /\ Outside

(* What waits for a recorder, a recognizer or the preparation of one.       *)
ProviderStep ==
    \/ StartOpen \/ StartPrepare \/ CallAnswered \/ Restarted \/ RetryAnswered
    \/ StandbyStarted \/ StandbyAnswered \/ StandbyFailed
    \/ AttachStarted /\ Outside

Speaking == recording \in {"opening", "opened", "stored", "taken"} /\ Speak /\ Outside

Next == StartBegin \/ FinishBegin \/ CancelCalled \/ Speaking \/ TaskStep \/ ProviderStep

(* The executor runs every task that can run; nothing makes a recognizer     *)
(* answer, the user speak, or the backend finish or cancel.                 *)
Spec == Init /\ [][Next]_vars /\ WF_vars(TaskStep)

----------------------------------------------------------------------------
(* No provider loses, repeats or reorders audio, and one that is asked for   *)
(* its text has been given the whole recording, whatever arrived while it    *)
(* was starting (attach_buffered_transcription, consume_pcm_chunk).         *)
FedInOrder ==
    \A p \in Provider :
        /\ fed[p] = SubSeq(Recording, 1, Len(fed[p]))
        /\ p \in asked => fed[p] = Recording

(* When every call has returned and no attachment runs, the session is       *)
(* forgotten and every provider that was started has finished or was         *)
(* cancelled: none keeps its connection or its model.                       *)
AllReturned ==
    /\ pc["start"] \in {"ok", "error"}
    /\ pc["cancel"] \in Returned /\ pc["finish"] \in Returned
    /\ pc["start"] = "ok" => pc["finish"] # "idle" \/ pc["cancel"] = "returned"
    /\ attach.pc \in {"none", "ok", "error"}

NoneLeft ==
    AllReturned => ~registered /\ \A p \in Provider : state[p] # "live"

(* The cloud recognizer or a retry whose start returns after its             *)
(* cancellation is never fed and never asked (the late session of           *)
(* attach_buffered_transcription, and of retry_transcription). A standby    *)
(* that starts so late is fed and asked until it is polled                  *)
(* (LocalStandby::new), but no text comes out of its session.               *)
LateIsNotUsed ==
    /\ \A p \in late \ {Local} : fed[p] = <<>> /\ p \notin asked
    /\ Local \in late => pc["finish"] # "ok"

(* When cancel has returned, finish does not wait for the text of a provider *)
(* nobody has cancelled: the flags of the first attempt do not shield a      *)
(* retry.                                                                   *)
CancelReachesProvider ==
    pc["cancel"] = "returned" =>
        /\ pc["finish"] = "race" /\ call = "answer" => state[Cloud] # "live"
        /\ pc["finish"] = "answer" => state[attempt] # "live"

(* A cancellation has the last word over the cloud recognizer and its        *)
(* retries, whether one was in use, was just put in place of another, or    *)
(* starts only afterwards, and over the text of a standby that does.        *)
CancellationIsFinal == CancelReachesProvider /\ LateIsNotUsed

(* Every call returns. cancel does so although no recognizer ever answers:   *)
(* it waits for the recorder only (cancel_without_waiting_for_start). start  *)
(* and finish do as long as the recognizers answer, whichever task ends the  *)
(* attachment they wait for, and also when that is dropped.                 *)
CallsReturn ==
    /\ pc["cancel"] = "called" ~> pc["cancel"] = "returned"
    /\ WF_vars(ProviderStep) =>
           /\ pc["start"] # "idle" ~> pc["start"] \in {"ok", "error"}
           /\ pc["finish"] # "idle" ~> pc["finish"] \in {"ok", "error"}
=============================================================================
