-------------------------- MODULE DictationEngine --------------------------
(***************************************************************************)
(* The dictation pipeline of one or more sessions (PipelineDictationEngine *)
(* in dictation_engine.rs): the registry of its sessions, the recording    *)
(* and the provider session of each, and the four operations the backend   *)
(* runs on it from different tasks: start, early stop, finish, cancel.     *)
(*                                                                         *)
(* start and finish are tasks of the executor (own_voice_effect) with a    *)
(* program counter here; stop and cancel are operators for the tasks of    *)
(* DictationSession. Early stop, finish and cancel join one native close   *)
(* (PipelineRecording.stopped): `closing` until the recorder has returned. *)
(***************************************************************************)
EXTENDS Naturals, FiniteSets

CONSTANT MaxSession     \* bound on the sessions of a behaviour

ASSUME MaxSessionAssumption == MaxSession \in Nat

Session == 1..MaxSession

VARIABLES
    revoked,     \* sessions whose voice lease was released: the cancel token of their holds
    registered,  \* sessions in PipelineDictationEngine.sessions
    flags,       \* PipelineSession: cancelled, stop_recording_requested
    stored,      \* sessions whose resources hold the recording
    microphone,  \* the native recorder of each session
    provider,    \* the transcription session of each
    opening,     \* the task of each engine.start
    finishing    \* the task of each engine.finish

engineVars == <<registered, flags, stored, microphone, provider, opening, finishing>>

Outcome == {"ok", "error", "cancelled"}
OpeningTask == {"none", "queued", "insert", "register", "open", "store", "discard", "ready",
                "stopping", "join", "prepare", "inactive", "undo", "settle", "late"} \cup Outcome
FinishTask == {"none", "queued", "take", "stop", "transcribe"} \cup Outcome

EngineTypeOK ==
    /\ revoked \in SUBSET Session
    /\ registered \in SUBSET Session
    /\ flags \in [Session -> SUBSET {"cancelled", "stop"}]
    /\ stored \in SUBSET Session
    /\ microphone \in [Session -> {"closed", "open", "closing"}]
    /\ provider \in [Session -> {"none", "live"}]
    /\ opening \in [Session -> OpeningTask]
    /\ finishing \in [Session -> FinishTask]

EngineInit ==
    /\ revoked = {}
    /\ registered = {}
    /\ flags = [s \in Session |-> {}]
    /\ stored = {}
    /\ microphone = [s \in Session |-> "closed"]
    /\ provider = [s \in Session |-> "none"]
    /\ opening = [s \in Session |-> "none"]
    /\ finishing = [s \in Session |-> "none"]

Flagged(s, flag) == flag \in flags[s]
Raise(s, flag) == flags' = [flags EXCEPT ![s] = @ \cup {flag}]
Microphone(s, state) == microphone' = [microphone EXCEPT ![s] = state]
Provider(s, state) == provider' = [provider EXCEPT ![s] = state]
OpeningAt(s, pc) == opening' = [opening EXCEPT ![s] = pc]
FinishAt(s, pc) == finishing' = [finishing EXCEPT ![s] = pc]

(* cancel_transcription_once, or a transcription that has finished.         *)
EndProvider(s) == Provider(s, "none")

(* The recorder has returned from its stop, whoever waits for it.           *)
RecorderStops(s) ==
    /\ microphone[s] = "closing"
    /\ Microphone(s, "closed")
    /\ UNCHANGED <<revoked, registered, flags, stored, provider, opening, finishing>>

----------------------------------------------------------------------------
(* cancel: the first one takes the recording and ends the provider, every   *)
(* other returns at once.                                                   *)
CancelFinds(s) == s \in registered /\ ~Flagged(s, "cancelled")

CancelTakes(s) ==
    /\ Raise(s, "cancelled")
    /\ stored' = stored \ {s}
    /\ IF s \in stored /\ microphone[s] = "open" THEN Microphone(s, "closing")
       ELSE UNCHANGED microphone
    /\ UNCHANGED <<registered, provider>>

CancelEnds(s) ==
    /\ EndProvider(s)
    /\ registered' = registered \ {s}
    /\ UNCHANGED <<flags, stored, microphone>>
----------------------------------------------------------------------------
(* start                                                                    *)

(* A result that arrives under a revoked lease is a cancellation.           *)
Reported(s, outcome) == IF s \in revoked THEN "cancelled" ELSE outcome

(* The owned start gives up when its lease is already revoked. A revocation *)
(* between this look and the entry finds no session to cancel.              *)
OpenQueued(s) ==
    /\ opening[s] = "queued"
    /\ OpeningAt(s, IF s \in revoked THEN "cancelled" ELSE "insert")
    /\ UNCHANGED <<revoked, registered, flags, stored, microphone, provider, finishing>>

OpenInsert(s) ==
    /\ opening[s] = "insert"
    /\ OpeningAt(s, "register")
    /\ registered' = registered \cup {s}
    /\ UNCHANGED <<revoked, flags, stored, microphone, provider, finishing>>

(* What every failing exit does after its recording has stopped.            *)
OpenFails(s, outcome) ==
    /\ OpeningAt(s, Reported(s, outcome))
    /\ EndProvider(s)
    /\ registered' = registered \ {s}

(* The buffered transcription is registered before the recorder is opened.  *)
OpenRegister(s) ==
    /\ opening[s] = "register"
    /\ IF Flagged(s, "cancelled") THEN OpenFails(s, "cancelled")
       ELSE OpeningAt(s, "open") /\ Provider(s, "live") /\ UNCHANGED registered
    /\ UNCHANGED <<revoked, flags, stored, microphone, finishing>>

OpenRecorder(s) ==
    /\ opening[s] = "open"
    /\ \/ /\ OpeningAt(s, "store")
          /\ Microphone(s, "open")
          /\ UNCHANGED <<registered, provider>>
       \/ /\ OpenFails(s, "error")
          /\ UNCHANGED microphone
    /\ UNCHANGED <<revoked, flags, stored, finishing>>

(* Under the resource lock: a cancelled session stops its new recording, an  *)
(* early stop closes it at once and is waited for.                          *)
OpenStore(s) ==
    /\ opening[s] = "store"
    /\ IF Flagged(s, "cancelled")
       THEN OpeningAt(s, "discard") /\ Microphone(s, "closing") /\ UNCHANGED stored
       ELSE /\ stored' = stored \cup {s}
            /\ OpeningAt(s, IF Flagged(s, "stop") THEN "stopping" ELSE "ready")
            /\ IF Flagged(s, "stop") THEN Microphone(s, "closing") ELSE UNCHANGED microphone
    /\ UNCHANGED <<revoked, registered, flags, provider, finishing>>

(* The recording it has taken itself has stopped.                           *)
OpenDiscarded(s) ==
    /\ opening[s] \in {"discard", "inactive", "undo"} /\ microphone[s] = "closed"
    /\ OpenFails(s, IF opening[s] = "undo" /\ ~Flagged(s, "cancelled") THEN "error" ELSE "cancelled")
    /\ UNCHANGED <<revoked, flags, stored, microphone, finishing>>

(* A start that fails stops the recording, unless somebody else took it.    *)
OpenUndoes(s, pc, outcome) ==
    \/ /\ s \in stored
       /\ OpeningAt(s, pc)
       /\ stored' = stored \ {s}
       /\ IF microphone[s] = "open" THEN Microphone(s, "closing") ELSE UNCHANGED microphone
       /\ UNCHANGED <<registered, provider>>
    \/ /\ s \notin stored
       /\ OpenFails(s, outcome)
       /\ UNCHANGED <<stored, microphone>>

(* CaptureReady is refused as cancelled for a session that is not active.   *)
OpenReady(s, active) ==
    /\ opening[s] \in {"ready", "stopping"}
    /\ IF active
       THEN /\ OpeningAt(s, IF opening[s] = "ready" THEN "prepare" ELSE "join")
            /\ UNCHANGED <<registered, stored, microphone, provider>>
       ELSE OpenUndoes(s, "inactive", "cancelled")
    /\ UNCHANGED <<revoked, flags, finishing>>

OpenJoined(s) ==
    /\ opening[s] = "join" /\ microphone[s] = "closed"
    /\ OpeningAt(s, "prepare")
    /\ UNCHANGED <<revoked, registered, flags, stored, microphone, provider, finishing>>

(* The preparation of the provider and its attachment.                      *)
OpenPrepare(s) ==
    /\ opening[s] = "prepare"
    /\ \/ /\ ~Flagged(s, "cancelled")
          /\ OpeningAt(s, "settle")
          /\ UNCHANGED <<registered, stored, microphone, provider>>
       \/ OpenUndoes(s, "undo", IF Flagged(s, "cancelled") THEN "cancelled" ELSE "error")
    /\ UNCHANGED <<revoked, flags, finishing>>

(* The start itself has succeeded; the owned task cancels it again when the  *)
(* lease was revoked meanwhile.                                             *)
OpenSettle(s) ==
    /\ opening[s] = "settle"
    /\ \/ /\ s \notin revoked
          /\ OpeningAt(s, "ok")
          /\ UNCHANGED <<registered, flags, stored, microphone, provider>>
       \/ /\ s \in revoked /\ CancelFinds(s)
          /\ OpeningAt(s, "late")
          /\ CancelTakes(s)
       \/ /\ s \in revoked /\ ~CancelFinds(s)
          /\ OpeningAt(s, "cancelled")
          /\ UNCHANGED <<registered, flags, stored, microphone, provider>>
    /\ UNCHANGED <<revoked, finishing>>

OpenLate(s) ==
    /\ opening[s] = "late" /\ microphone[s] = "closed"
    /\ CancelEnds(s)
    /\ OpeningAt(s, "cancelled")
    /\ UNCHANGED <<revoked, finishing>>

OpeningStep(s, active) ==
    \/ OpenQueued(s) \/ OpenInsert(s) \/ OpenRegister(s) \/ OpenRecorder(s) \/ OpenStore(s)
    \/ OpenDiscarded(s) \/ OpenReady(s, active) \/ OpenJoined(s) \/ OpenPrepare(s)
    \/ OpenSettle(s) \/ OpenLate(s)

----------------------------------------------------------------------------
(* stop_recording: asks for an early stop, and joins the close.             *)
EarlyStop(s) ==
    /\ Raise(s, "stop")
    /\ IF s \in stored /\ microphone[s] = "open" THEN Microphone(s, "closing")
       ELSE UNCHANGED microphone
    /\ UNCHANGED <<registered, stored, provider, opening, finishing>>

----------------------------------------------------------------------------
(* finish                                                                   *)

FinishQueued(s) ==
    /\ finishing[s] = "queued"
    /\ FinishAt(s, IF s \in revoked THEN "cancelled" ELSE "take")
    /\ UNCHANGED <<revoked, registered, flags, stored, microphone, provider, opening>>

(* The recording leaves the registry: a later cancel no longer joins it.    *)
FinishTake(s) ==
    /\ finishing[s] = "take"
    /\ \/ /\ s \notin registered
          /\ FinishAt(s, Reported(s, "error"))
          /\ UNCHANGED <<registered, stored, microphone>>
       \/ /\ s \in registered /\ Flagged(s, "cancelled")
          /\ FinishAt(s, "cancelled")
          /\ registered' = registered \ {s}
          /\ UNCHANGED <<stored, microphone>>
       \/ /\ CancelFinds(s)
          /\ FinishAt(s, "stop")
          /\ stored' = stored \ {s}
          /\ IF microphone[s] = "open" THEN Microphone(s, "closing") ELSE UNCHANGED microphone
          /\ UNCHANGED registered
    /\ UNCHANGED <<revoked, flags, provider, opening>>

(* The Transcribing stage is refused as cancelled for a session that is not  *)
(* active any more; the session and its provider are left to the caller.    *)
FinishStopped(s, active) ==
    /\ finishing[s] = "stop" /\ microphone[s] = "closed"
    /\ IF Flagged(s, "cancelled")
       THEN FinishAt(s, "cancelled") /\ EndProvider(s) /\ registered' = registered \ {s}
       ELSE /\ FinishAt(s, IF active THEN "transcribe" ELSE "cancelled")
            /\ UNCHANGED <<provider, registered>>
    /\ UNCHANGED <<revoked, flags, stored, microphone, opening>>

(* The transcript and the polished text, or an error of a provider; their   *)
(* progress is refused as cancelled for an inactive session, which stays    *)
(* registered.                                                              *)
FinishTranscribe(s, active) ==
    /\ finishing[s] = "transcribe"
    /\ \/ /\ \E outcome \in {"ok", "error"} : FinishAt(s, Reported(s, outcome))
          /\ registered' = registered \ {s}
       \/ /\ ~active
          /\ FinishAt(s, "cancelled")
          /\ UNCHANGED registered
    /\ EndProvider(s)
    /\ UNCHANGED <<revoked, flags, stored, microphone, opening>>

FinishTaskStep(s, active) ==
    FinishQueued(s) \/ FinishTake(s) \/ FinishStopped(s, active) \/ FinishTranscribe(s, active)
=============================================================================
