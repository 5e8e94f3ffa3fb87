----------------------- MODULE DictationSessionProofs -----------------------
(***************************************************************************)
(* The safety properties of the dictation sessions hold for every number   *)
(* of sessions and whichever of them may be stopped, cancelled or broken.  *)
(*                                                                         *)
(* Every part of the inductive invariant says who is still responsible     *)
(* for something a session has: for its lease, for an open or closing      *)
(* recorder, for what the engine has registered, for its text insertion    *)
(* and for the draft in the history. A handler that goes on either does    *)
(* its part or leaves it to another one that is still running, and when    *)
(* none runs any more nothing is left. Each part speaks of one session:    *)
(* a step is examined at its own session, and the frame lemmas show that   *)
(* the others do not see it.                                               *)
(***************************************************************************)
EXTENDS DictationSession, TLAPS

(***************************************************************************)
(* The inductive invariant. Each part speaks of one session, so that a     *)
(* step of another session touches it only through `current`, the phase    *)
(* and the lease.                                                          *)
(***************************************************************************)

(* The start has not reached the engine yet.                                *)
BeforeEngine == {"capture", "show", "register", "preparing", "abort", "draft"}

(* The engine knows nothing of the session.                                 *)
Unused(s) ==
    /\ flags[s] = {} /\ s \notin registered /\ s \notin stored
    /\ microphone[s] = "closed" /\ provider[s] = "none"
    /\ opening[s] = "none" /\ finishing[s] = "none"

(* No handler of the session has run.                                       *)
Untouched(s) ==
    /\ Unused(s) /\ current # s /\ s \notin revoked
    /\ stop[s] = "none" /\ early[s] = "none" /\ cancel[s] = "none" /\ fault[s] = "none"
    /\ insertion[s] = "none" /\ history[s] = "none"
    /\ \A a \in Asker : tear[s][a] = "none" /\ <<s, a>> \notin pinned

(* A session that has started holds the lease, or it was released and is    *)
(* held by nobody; the session shown holds it.                              *)
LeaseInv(s) ==
    /\ start[s] # "none" /\ lease # s => s \in revoked /\ ~Held(s)
    /\ lease = 0 => start[s] = "none"
    /\ current = s => lease = s

(* Which handlers may run beside which.                                     *)
OrderInv(s) ==
    /\ start[s] = "none" => Untouched(s)
    /\ start[s] \in BeforeEngine => Unused(s) /\ fault[s] = "none"
    /\ faultOf = s => fault[s] \notin {"none", "publish", "claim"}
    /\ opening[s] # "none" => start[s] = "engine"
    /\ Running(start[s]) => stop[s] \in {"none", "look", "early", "done"}
    /\ finishing[s] # "none" => stop[s] = "finish"
    /\ cancel[s] # "none" => current # s
    /\ cancel[s] \in {"cleanup", "hide", "done"} => s \in revoked
    /\ fault[s] \in {"cleanup", "hide", "reset"} => s \in revoked
    /\ stop[s] = "cleanup" => s \in revoked
    /\ start[s] \in {"late", "cleanup"} => s \in revoked
    /\ start[s] = "abort" => current # s
    /\ early[s] # "none" => stop[s] = "early"
    /\ tear[s]["start"] # "none" => start[s] \in {"late", "cleanup"}
    /\ tear[s]["stop"] # "none" => stop[s] = "cleanup"
    /\ tear[s]["cancel"] # "none" => cancel[s] = "cleanup"
    /\ tear[s]["fault"] # "none" => fault[s] = "cleanup"

(* What the engine keeps of a session.                                      *)
EngineInv(s) ==
    /\ Flagged(s, "cancelled") => s \in revoked
    /\ s \in stored => s \in registered /\ ~Flagged(s, "cancelled")
    /\ opening[s] \in {"queued", "insert", "register", "open", "store", "discard", "inactive", "undo"}
         => s \notin stored
    /\ finishing[s] \in {"stop", "transcribe"} => s \notin stored
    /\ opening[s] \in {"register", "open", "store"} => s \in registered \/ Flagged(s, "cancelled")
    /\ opening[s] \in {"queued", "insert"} => s \notin registered /\ ~Flagged(s, "cancelled")
    /\ opening[s] \in {"discard", "late"} \/ (\E a \in Asker : tear[s][a] \in {"recording", "provider"})
         => Flagged(s, "cancelled")
    /\ microphone[s] = "open" => opening[s] = "store" \/ s \in stored
    /\ microphone[s] = "closing" =>
         \/ opening[s] \in {"discard", "join", "inactive", "undo", "late"}
         \/ opening[s] = "stopping" /\ s \in stored
         \/ early[s] = "closing"
         \/ finishing[s] = "stop"
         \/ \E a \in Asker : tear[s][a] = "recording"

(* Whoever has to end what the engine still has of a session.               *)
ReleaseInv(s) ==
    /\ s \in revoked /\ CancelFinds(s) =>
         \/ opening[s] \notin Outcome \cup {"none"}
         \/ \E a \in Asker : tear[s][a] = "queued" /\ <<s, a>> \in pinned
    /\ provider[s] = "live" => s \in registered \/ Flagged(s, "cancelled")
    /\ (provider[s] = "live" \/ s \in registered) /\ Flagged(s, "cancelled") =>
         opening[s] = "late" \/ \E a \in Asker : tear[s][a] \in {"recording", "provider"}
    /\ start[s] \in {"hide", "reset"} => s \in revoked \/ Unused(s)
    /\ finishing[s] = "ok" => s \notin registered
    /\ stop[s] \in {"deliver", "insert", "commit", "uninsert", "complete", "hide", "reset", "persist"}
         => s \notin registered
    /\ stop[s] \in {"failHide", "failReset"} => s \in revoked \/ s \notin registered
    /\ start[s] # "none" /\ current # s => s \in revoked \/ cancel[s] \in {"settle", "adapters"}

(* Whoever has to end the text insertion of a session.                      *)
InsertionInv(s) ==
    /\ insertion[s] = "preparing" => start[s] = "preparing"
    /\ start[s] \in {"capture", "show", "register", "draft"} => insertion[s] = "none"
    /\ kind[s] = "note" => insertion[s] \in {"none", "gone"}
    /\ start[s] = "register" => kind[s] = "app"
    /\ start[s] = "draft" => kind[s] = "note"
    /\ (insertion[s] = "committing") = (stop[s] = "commit")
    /\ start[s] \in {"hide", "reset"} => s \in revoked \/ insertion[s] \in {"none", "gone"}
    /\ stop[s] \in {"complete", "hide", "reset", "persist"} => insertion[s] \in {"none", "gone"}
    /\ stop[s] \in {"failHide", "failReset"} => s \in revoked \/ insertion[s] \in {"none", "gone"}
    /\ insertion[s] = "ready" /\ s \in revoked =>
         \/ start[s] \in {"preparing", "abort"}
         \/ stop[s] = "uninsert"
         \/ \E a \in Asker : tear[s][a] # "none"

(* Whoever has to settle the recording draft of a session: not the stop     *)
(* whose finish was refused, and not the fault that comes after its reset.  *)
DraftInv(s) ==
    /\ start[s] \in BeforeEngine \cup {"opened", "cleanup", "hide", "reset"} => history[s] # "recording"
    /\ fault[s] \in {"hide", "reset"} => history[s] # "recording"
    /\ history[s] = "recording" => kind[s] = "note"
    /\ history[s] = "recording" =>
         \/ start[s] \in {"engine", "late"}
         \/ current = s
         \/ cancel[s] = "settle"
         \/ fault[s] \in {"adapters", "cleanup"}
         \/ stop[s] = "persist"
         \/ fault[s] \in {"claim", "refused"} /\ stop[s] = "done" /\ cancel[s] = "none"
    /\ /\ history[s] = "recording" /\ current = s
       /\ stop[s] \in {"failed", "cleanup", "failHide", "failReset", "uninsert"}
       => fault[s] \in {"claim", "adapters", "cleanup"}

(* The phase follows the handlers of the session that is shown.             *)
PhaseInv(s) ==
    current = s =>
    /\ Running(start[s]) => phase \in {"Starting", "Failed"}
    /\ start[s] \in BeforeEngine => phase = "Starting" /\ s \notin revoked
    /\ start[s] \in {"opened", "late", "cleanup", "hide", "reset"} => phase = "Failed"
    /\ fault[s] \in {"adapters", "cleanup", "hide", "reset"} => phase = "Failed"
    /\ phase = "Starting" => Running(start[s])
    /\ stop[s] \in {"none", "look", "early"} => phase \in {"Starting", "Recording", "Failed"}
    /\ stop[s] \notin {"none", "look", "early"} => phase \notin {"Starting", "Recording"}
    /\ stop[s] \in {"hold", "finish", "deliver"} => phase \in {"Transcribing", "Failed"}
    /\ stop[s] \in {"insert", "commit"} => phase \in {"Inserting", "Failed"}
    /\ stop[s] = "complete" => phase \in {"Inserting", "Completed", "Failed"}
    /\ stop[s] = "done" => phase = "Failed"
    /\ stop[s] # "persist"
    /\ s \in revoked => phase = "Failed" \/ stop[s] \in {"cleanup", "failHide", "failReset"}
    /\ opening[s] = "inactive" \/ "cancelled" \in {opening[s], finishing[s]} => phase = "Failed"
    /\ stop[s] \in {"hold", "finish"} /\ phase = "Failed" =>
         fault[s] \in {"claim", "adapters", "cleanup", "hide", "reset"}
    /\ s \in revoked /\ stop[s] \in {"hold", "finish", "failed"} =>
         fault[s] \in {"cleanup", "hide", "reset"}
    /\ phase \in {"Starting", "Recording"} /\ start[s] \notin {"capture", "show"} => feedback

IdleInv == current = 0 => phase = "Idle"

SessionInv(s) ==
    /\ LeaseInv(s) /\ OrderInv(s) /\ EngineInv(s) /\ ReleaseInv(s)
    /\ InsertionInv(s) /\ DraftInv(s) /\ PhaseInv(s)

DictationInv == TypeOK /\ IdleInv /\ \A s \in Session : SessionInv(s)

(***************************************************************************)
(* Frames: a step of a session leaves every other one alone.               *)
(***************************************************************************)

(* Every component changes at the entry of the session only, and to a value *)
(* it may have.                                                             *)
Moves(s) ==
    /\ revoked' = revoked \/ Release(s)
    /\ registered' \in {registered, registered \cup {s}, registered \ {s}}
    /\ stored' \in {stored, stored \cup {s}, stored \ {s}}
    /\ flags' = flags \/ Raise(s, "cancelled") \/ Raise(s, "stop")
    /\ microphone' = microphone \/ \E m \in {"closed", "open", "closing"} : Microphone(s, m)
    /\ provider' = provider \/ Provider(s, "live") \/ Provider(s, "none")
    /\ opening' = opening \/ \E t \in OpeningTask : OpeningAt(s, t)
    /\ finishing' = finishing \/ \E t \in FinishTask : FinishAt(s, t)
    /\ phase' \in Phase
    /\ current' \in {current, 0, s} /\ faultOf' \in {faultOf, 0, s} /\ lease' \in {lease, s}
    /\ kind' = kind \/ \E k \in {"app", "note"} : kind' = [kind EXCEPT ![s] = k]
    /\ insertion' = insertion \/ \E i \in Insertions : Insertion(s, i)
    /\ history' = history \/ \E h \in {"none", "recording", "kept"} : History(s, h)
    /\ feedback' \in BOOLEAN
    /\ start' = start \/ \E t \in StartTask : StartAt(s, t)
    /\ stop' = stop \/ \E t \in StopTask : StopAt(s, t)
    /\ early' = early \/ \E t \in EarlyTask : EarlyAt(s, t)
    /\ cancel' = cancel \/ \E t \in CancelTask : CancelAt(s, t)
    /\ fault' = fault \/ \E t \in FaultTask : FaultAt(s, t)
    /\ tear' = tear \/ \E a \in Asker, t \in TearTask : TearAt(s, a, t)
    /\ pinned' = pinned \/ \E a \in Asker : pinned' \in {pinned \cup {<<s, a>>}, pinned \ {<<s, a>>}}

(* What another session sees of a step: it is neither shown nor taken away, *)
(* and while it is shown it keeps its phase and its feedback.               *)
Unseen(r) ==
    /\ lease' = lease
    /\ (current' = r) = (current = r)
    /\ current = r => phase' = phase /\ (feedback => feedback')
    /\ faultOf' = r => faultOf = r

(* Nothing of the session changes.                                          *)
Same(s) ==
    /\ flags'[s] = flags[s] /\ microphone'[s] = microphone[s] /\ provider'[s] = provider[s]
    /\ opening'[s] = opening[s] /\ finishing'[s] = finishing[s]
    /\ (s \in registered') = (s \in registered) /\ (s \in stored') = (s \in stored)
    /\ (s \in revoked') = (s \in revoked)
    /\ kind'[s] = kind[s] /\ insertion'[s] = insertion[s] /\ history'[s] = history[s]
    /\ start'[s] = start[s] /\ stop'[s] = stop[s] /\ early'[s] = early[s]
    /\ cancel'[s] = cancel[s] /\ fault'[s] = fault[s] /\ tear'[s] = tear[s]
    /\ \A a \in Asker : (<<s, a>> \in pinned') = (<<s, a>> \in pinned)

(* A step that shows no other session, and that leaves Idle when it shows   *)
(* none.                                                                    *)
Quietly(s) ==
    /\ \A r \in Session \ {s} : Unseen(r)
    /\ current' = 0 => phase' = "Idle"

(* A step that moves one session changes nothing of another one.            *)
LEMMA MovedElsewhere ==
    ASSUME NEW s \in Session, NEW r \in Session, r # s, TypeOK, Moves(s)
    PROVE  Same(r)
<1> USE DEF TypeOK, EngineTypeOK
<1>1. /\ flags'[r] = flags[r] /\ microphone'[r] = microphone[r] /\ provider'[r] = provider[r]
      /\ opening'[r] = opening[r] /\ finishing'[r] = finishing[r]
  BY DEF Moves, Raise, Microphone, Provider, OpeningAt, FinishAt
<1>2. /\ (r \in registered') = (r \in registered) /\ (r \in stored') = (r \in stored)
      /\ (r \in revoked') = (r \in revoked)
      /\ \A a \in Asker : (<<r, a>> \in pinned') = (<<r, a>> \in pinned)
  BY DEF Moves, Release
<1>3. kind'[r] = kind[r] /\ insertion'[r] = insertion[r] /\ history'[r] = history[r]
  BY DEF Moves, Insertion, History
<1>4. start'[r] = start[r] /\ stop'[r] = stop[r] /\ early'[r] = early[r]
  BY DEF Moves, StartAt, StopAt, EarlyAt
<1>5. cancel'[r] = cancel[r] /\ fault'[r] = fault[r] /\ tear'[r] = tear[r]
  BY DEF Moves, CancelAt, FaultAt, TearAt
<1> QED BY <1>1, <1>2, <1>3, <1>4, <1>5 DEF Same

(* A step that moves one session keeps the types.                           *)
LEMMA MovedTypes ==
    ASSUME NEW s \in Session, TypeOK, Moves(s)
    PROVE  TypeOK'
<1>1. flags' \in [Session -> SUBSET {"cancelled", "stop"}]
  <2>1. flags \in [Session -> SUBSET {"cancelled", "stop"}]
    BY DEF TypeOK, EngineTypeOK
  <2>2. \/ flags' = flags
        \/ \E f \in {"cancelled", "stop"} : flags' = [flags EXCEPT ![s] = @ \cup {f}]
    BY DEF Moves, Raise
  <2> QED BY <2>1, <2>2
<1>2. microphone' \in [Session -> {"closed", "open", "closing"}]
  <2>1. microphone \in [Session -> {"closed", "open", "closing"}]
    BY DEF TypeOK, EngineTypeOK
  <2>2. \/ microphone' = microphone
        \/ \E x \in {"closed", "open", "closing"} : microphone' = [microphone EXCEPT ![s] = x]
    BY DEF Moves, Microphone
  <2> QED BY <2>1, <2>2
<1>3. provider' \in [Session -> {"none", "live"}]
  <2>1. provider \in [Session -> {"none", "live"}]
    BY DEF TypeOK, EngineTypeOK
  <2>2. \/ provider' = provider
        \/ \E x \in {"none", "live"} : provider' = [provider EXCEPT ![s] = x]
    BY DEF Moves, Provider
  <2> QED BY <2>1, <2>2
<1>4. opening' \in [Session -> OpeningTask]
  <2>1. opening \in [Session -> OpeningTask]
    BY DEF TypeOK, EngineTypeOK
  <2>2. \/ opening' = opening
        \/ \E x \in OpeningTask : opening' = [opening EXCEPT ![s] = x]
    BY DEF Moves, OpeningAt
  <2> QED BY <2>1, <2>2
<1>5. finishing' \in [Session -> FinishTask]
  <2>1. finishing \in [Session -> FinishTask]
    BY DEF TypeOK, EngineTypeOK
  <2>2. \/ finishing' = finishing
        \/ \E x \in FinishTask : finishing' = [finishing EXCEPT ![s] = x]
    BY DEF Moves, FinishAt
  <2> QED BY <2>1, <2>2
<1>6. kind' \in [Session -> {"app", "note"}]
  <2>1. kind \in [Session -> {"app", "note"}]
    BY DEF TypeOK
  <2>2. \/ kind' = kind
        \/ \E x \in {"app", "note"} : kind' = [kind EXCEPT ![s] = x]
    BY DEF Moves
  <2> QED BY <2>1, <2>2
<1>7. insertion' \in [Session -> Insertions]
  <2>1. insertion \in [Session -> Insertions]
    BY DEF TypeOK
  <2>2. \/ insertion' = insertion
        \/ \E x \in Insertions : insertion' = [insertion EXCEPT ![s] = x]
    BY DEF Moves, Insertion
  <2> QED BY <2>1, <2>2
<1>8. history' \in [Session -> {"none", "recording", "kept"}]
  <2>1. history \in [Session -> {"none", "recording", "kept"}]
    BY DEF TypeOK
  <2>2. \/ history' = history
        \/ \E x \in {"none", "recording", "kept"} : history' = [history EXCEPT ![s] = x]
    BY DEF Moves, History
  <2> QED BY <2>1, <2>2
<1>9. start' \in [Session -> StartTask]
  <2>1. start \in [Session -> StartTask]
    BY DEF TypeOK
  <2>2. \/ start' = start
        \/ \E x \in StartTask : start' = [start EXCEPT ![s] = x]
    BY DEF Moves, StartAt
  <2> QED BY <2>1, <2>2
<1>10. stop' \in [Session -> StopTask]
  <2>1. stop \in [Session -> StopTask]
    BY DEF TypeOK
  <2>2. \/ stop' = stop
        \/ \E x \in StopTask : stop' = [stop EXCEPT ![s] = x]
    BY DEF Moves, StopAt
  <2> QED BY <2>1, <2>2
<1>11. early' \in [Session -> EarlyTask]
  <2>1. early \in [Session -> EarlyTask]
    BY DEF TypeOK
  <2>2. \/ early' = early
        \/ \E x \in EarlyTask : early' = [early EXCEPT ![s] = x]
    BY DEF Moves, EarlyAt
  <2> QED BY <2>1, <2>2
<1>12. cancel' \in [Session -> CancelTask]
  <2>1. cancel \in [Session -> CancelTask]
    BY DEF TypeOK
  <2>2. \/ cancel' = cancel
        \/ \E x \in CancelTask : cancel' = [cancel EXCEPT ![s] = x]
    BY DEF Moves, CancelAt
  <2> QED BY <2>1, <2>2
<1>13. fault' \in [Session -> FaultTask]
  <2>1. fault \in [Session -> FaultTask]
    BY DEF TypeOK
  <2>2. \/ fault' = fault
        \/ \E x \in FaultTask : fault' = [fault EXCEPT ![s] = x]
    BY DEF Moves, FaultAt
  <2> QED BY <2>1, <2>2
<1>14. tear' \in [Session -> [Asker -> TearTask]]
  <2>1. tear \in [Session -> [Asker -> TearTask]]
    BY DEF TypeOK
  <2>2. \/ tear' = tear
        \/ \E a \in Asker, t \in TearTask : tear' = [tear EXCEPT ![s][a] = t]
    BY DEF Moves, TearAt
  <2> QED BY <2>1, <2>2
<1>15. /\ revoked' \in SUBSET Session /\ registered' \in SUBSET Session /\ stored' \in SUBSET Session
       /\ pinned' \in SUBSET (Session \X Asker)
  BY DEF TypeOK, EngineTypeOK, Moves, Release
<1>16. phase' \in Phase /\ {current', faultOf', lease'} \subseteq 0..MaxSession /\ feedback' \in BOOLEAN
  BY MaxSessionAssumption DEF TypeOK, Moves, Session
<1> QED
  BY <1>1, <1>2, <1>3, <1>4, <1>5, <1>6, <1>7, <1>8, <1>9, <1>10, <1>11, <1>12, <1>13, <1>14, <1>15,
     <1>16 DEF TypeOK, EngineTypeOK

(* The invariant of a session survives a step that it does not see.         *)
LEMMA Elsewhere ==
    ASSUME NEW r \in Session, SessionInv(r), Same(r), Unseen(r)
    PROVE  SessionInv(r)'
<1>1. LeaseInv(r)' /\ OrderInv(r)' /\ EngineInv(r)'
  BY DEF SessionInv, Same, Unseen, LeaseInv, OrderInv, EngineInv, Held, Running, Unused,
     Untouched, Flagged, Asker
<1>2. ReleaseInv(r)' /\ InsertionInv(r)' /\ DraftInv(r)'
  BY DEF SessionInv, Same, Unseen, ReleaseInv, InsertionInv, DraftInv, Unused, Flagged, CancelFinds
<1>3. PhaseInv(r)'
  BY DEF SessionInv, Same, Unseen, PhaseInv, Running
<1> QED BY <1>1, <1>2, <1>3 DEF SessionInv
(* The values the components may have, without their enumerations.          *)
LEMMA Tasks ==
    /\ {"none", "queued", "insert", "register", "open", "store", "discard", "ready", "stopping",
        "join", "prepare", "inactive", "undo", "settle", "late", "ok", "error", "cancelled"}
          \subseteq OpeningTask
    /\ {"none", "queued", "take", "stop", "transcribe", "ok", "error", "cancelled"}
          \subseteq FinishTask
    /\ {"none", "capture", "show", "register", "preparing", "abort", "draft", "engine",
        "opened", "late", "cleanup", "hide", "reset", "done"} \subseteq StartTask
    /\ {"none", "look", "early", "hold", "finish", "failed", "cleanup", "deliver", "insert",
        "commit", "uninsert", "complete", "failHide", "failReset", "hide", "reset", "persist",
        "done"} \subseteq StopTask
    /\ {"none", "preparing", "ready", "committing", "gone"} \subseteq Insertions
    /\ {"none", "try", "closing", "sleep", "done"} \subseteq EarlyTask
    /\ {"none", "settle", "adapters", "cleanup", "hide", "done"} \subseteq CancelTask
    /\ {"none", "publish", "claim", "adapters", "cleanup", "hide", "reset", "refused", "done"}
          \subseteq FaultTask
    /\ {"none", "queued", "recording", "provider", "insertion"} \subseteq TearTask
    /\ {"Idle", "Starting", "Recording", "Transcribing", "Inserting", "Completed", "Failed"}
          \subseteq Phase
    /\ {"start", "stop", "cancel", "fault"} \subseteq Asker
BY DEF OpeningTask, FinishTask, Outcome, StartTask, StopTask, Insertions, EarlyTask, CancelTask,
   FaultTask, TearTask, Phase, Asker

(* The tasks of the engine move their own session only                      *)
(* (dictation_engine.rs).                                                   *)
LEMMA EngineMoves ==
    ASSUME NEW s \in Session, TypeOK, IdleInv, EngineStep(s)
    PROVE  Moves(s) /\ Quietly(s)
<1> USE Tasks DEF TypeOK, EngineTypeOK, IdleInv, Moves, Quietly, Unseen, sessionVars, handlerVars,
   tearVars, engineVars
<1>0. UNCHANGED <<sessionVars, lease, kind, insertion, history, feedback, handlerVars, tearVars>>
  BY DEF EngineStep
<1>1. CASE RecorderStops(s)
  BY <1>0, <1>1 DEF RecorderStops, Session
<1>2. CASE OpenQueued(s)
  BY <1>0, <1>2 DEF OpenQueued, Session
<1>15. CASE OpenInsert(s)
  BY <1>0, <1>15 DEF OpenInsert, Session
<1>16. CASE OpenReady(s, Active(s))
  BY <1>0, <1>16 DEF OpenReady, OpenUndoes, OpenFails, EndProvider, Reported, Session
<1>3. CASE OpenRegister(s)
  BY <1>0, <1>3 DEF OpenRegister, OpenFails, EndProvider, Reported, Session
<1>4. CASE OpenRecorder(s)
  BY <1>0, <1>4 DEF OpenRecorder, OpenFails, EndProvider, Reported, Session
<1>5. CASE OpenStore(s)
  BY <1>0, <1>5 DEF OpenStore, Session
<1>6. CASE OpenDiscarded(s)
  BY <1>0, <1>6 DEF OpenDiscarded, OpenFails, EndProvider, Reported, Session
<1>7. CASE OpenJoined(s)
  BY <1>0, <1>7 DEF OpenJoined, Session
<1>8. CASE OpenPrepare(s)
  BY <1>0, <1>8 DEF OpenPrepare, OpenUndoes, OpenFails, EndProvider, Reported, Session
<1>9. CASE OpenSettle(s)
  BY <1>0, <1>9 DEF OpenSettle, CancelTakes, Session
<1>10. CASE OpenLate(s)
  BY <1>0, <1>10 DEF OpenLate, CancelEnds, EndProvider, Session
<1>11. CASE FinishQueued(s)
  BY <1>0, <1>11 DEF FinishQueued, Session
<1>12. CASE FinishTake(s)
  BY <1>0, <1>12 DEF FinishTake, Reported, Session
<1>13. CASE FinishStopped(s, Active(s))
  BY <1>0, <1>13 DEF FinishStopped, EndProvider, Reported, Session
<1>14. CASE FinishTranscribe(s, Active(s))
  BY <1>0, <1>14 DEF FinishTranscribe, EndProvider, Reported, Session
<1> QED BY <1>1, <1>2, <1>3, <1>4, <1>5, <1>6, <1>7, <1>8, <1>9, <1>10, <1>11, <1>12, <1>13, <1>14,
           <1>15, <1>16
   DEF EngineStep, OpeningStep, FinishTaskStep

(* The tasks of the engine keep the invariant of their session: a failing   *)
(* start and a finish end what they have taken, or leave it to who has      *)
(* cancelled them.                                                          *)
LEMMA EngineKeeps ==
    ASSUME NEW s \in Session, TypeOK, SessionInv(s), EngineStep(s)
    PROVE  SessionInv(s)'
<1> USE DEF TypeOK, EngineTypeOK, OpeningTask, FinishTask, Outcome, Asker, SessionInv, LeaseInv,
            OrderInv, EngineInv, ReleaseInv, InsertionInv, DraftInv, PhaseInv, Unused, Untouched,
            BeforeEngine, Held, Running, Flagged, CancelFinds, CanHold
<1>0. UNCHANGED <<sessionVars, lease, kind, insertion, history, feedback, handlerVars, tearVars>>
  BY DEF EngineStep
<1>1. CASE RecorderStops(s)
  <2>1. LeaseInv(s)' /\ OrderInv(s)' /\ EngineInv(s)' /\ ReleaseInv(s)'
    BY <1>0, <1>1 DEF RecorderStops, Microphone, sessionVars, handlerVars, tearVars
  <2>2. InsertionInv(s)' /\ DraftInv(s)' /\ PhaseInv(s)'
    BY <1>0, <1>1 DEF RecorderStops, Microphone, sessionVars, handlerVars, tearVars
  <2> QED BY <2>1, <2>2
<1>2. CASE OpenQueued(s)
  <2>1. LeaseInv(s)' /\ OrderInv(s)' /\ EngineInv(s)' /\ ReleaseInv(s)'
    BY <1>0, <1>2 DEF OpenQueued, OpeningAt, sessionVars, handlerVars, tearVars
  <2>2. InsertionInv(s)' /\ DraftInv(s)' /\ PhaseInv(s)'
    BY <1>0, <1>2 DEF OpenQueued, OpeningAt, sessionVars, handlerVars, tearVars
  <2> QED BY <2>1, <2>2
<1>15. CASE OpenInsert(s)
  <2>1. LeaseInv(s)' /\ OrderInv(s)' /\ EngineInv(s)' /\ ReleaseInv(s)'
    BY <1>0, <1>15 DEF OpenInsert, OpeningAt, sessionVars, handlerVars, tearVars
  <2>2. InsertionInv(s)' /\ DraftInv(s)' /\ PhaseInv(s)'
    BY <1>0, <1>15 DEF OpenInsert, OpeningAt, sessionVars, handlerVars, tearVars
  <2> QED BY <2>1, <2>2
<1>16. CASE OpenReady(s, Active(s))
  <2>1. LeaseInv(s)' /\ OrderInv(s)' /\ EngineInv(s)' /\ ReleaseInv(s)'
    BY <1>0, <1>16 DEF OpenReady, OpenUndoes, Microphone, OpeningAt, OpenFails, EndProvider,
       Provider, Reported, Active, sessionVars, handlerVars, tearVars
  <2>2. InsertionInv(s)' /\ DraftInv(s)' /\ PhaseInv(s)'
    BY <1>0, <1>16 DEF OpenReady, OpenUndoes, Microphone, OpeningAt, OpenFails, EndProvider,
       Provider, Reported, Active, sessionVars, handlerVars, tearVars
  <2> QED BY <2>1, <2>2
<1>3. CASE OpenRegister(s)
  <2>1. LeaseInv(s)' /\ OrderInv(s)' /\ EngineInv(s)' /\ ReleaseInv(s)'
    BY <1>0, <1>3 DEF OpenRegister, Provider, OpeningAt, OpenFails, EndProvider, Reported,
       sessionVars, handlerVars, tearVars
  <2>2. InsertionInv(s)' /\ DraftInv(s)' /\ PhaseInv(s)'
    BY <1>0, <1>3 DEF OpenRegister, Provider, OpeningAt, OpenFails, EndProvider, Reported,
       sessionVars, handlerVars, tearVars
  <2> QED BY <2>1, <2>2
<1>4. CASE OpenRecorder(s)
  <2>1. LeaseInv(s)' /\ OrderInv(s)' /\ EngineInv(s)' /\ ReleaseInv(s)'
    BY <1>0, <1>4 DEF OpenRecorder, Microphone, OpeningAt, OpenFails, EndProvider, Provider,
       Reported, sessionVars, handlerVars, tearVars
  <2>2. InsertionInv(s)' /\ DraftInv(s)' /\ PhaseInv(s)'
    BY <1>0, <1>4 DEF OpenRecorder, Microphone, OpeningAt, OpenFails, EndProvider, Provider,
       Reported, sessionVars, handlerVars, tearVars
  <2> QED BY <2>1, <2>2
<1>5. CASE OpenStore(s)
  <2>1. LeaseInv(s)' /\ OrderInv(s)' /\ EngineInv(s)' /\ ReleaseInv(s)'
    BY <1>0, <1>5 DEF OpenStore, Microphone, OpeningAt, sessionVars, handlerVars, tearVars
  <2>2. InsertionInv(s)' /\ DraftInv(s)' /\ PhaseInv(s)'
    BY <1>0, <1>5 DEF OpenStore, Microphone, OpeningAt, sessionVars, handlerVars, tearVars
  <2> QED BY <2>1, <2>2
<1>6. CASE OpenDiscarded(s)
  <2>1. LeaseInv(s)' /\ OrderInv(s)' /\ EngineInv(s)' /\ ReleaseInv(s)'
    BY <1>0, <1>6 DEF OpenDiscarded, OpenFails, OpeningAt, EndProvider, Provider, Reported,
       sessionVars, handlerVars, tearVars
  <2>2. InsertionInv(s)' /\ DraftInv(s)' /\ PhaseInv(s)'
    BY <1>0, <1>6 DEF OpenDiscarded, OpenFails, OpeningAt, EndProvider, Provider, Reported,
       sessionVars, handlerVars, tearVars
  <2> QED BY <2>1, <2>2
<1>7. CASE OpenJoined(s)
  <2>1. LeaseInv(s)' /\ OrderInv(s)' /\ EngineInv(s)' /\ ReleaseInv(s)'
    BY <1>0, <1>7 DEF OpenJoined, OpeningAt, sessionVars, handlerVars, tearVars
  <2>2. InsertionInv(s)' /\ DraftInv(s)' /\ PhaseInv(s)'
    BY <1>0, <1>7 DEF OpenJoined, OpeningAt, sessionVars, handlerVars, tearVars
  <2> QED BY <2>1, <2>2
<1>8. CASE OpenPrepare(s)
  <2>1. LeaseInv(s)' /\ OrderInv(s)' /\ EngineInv(s)' /\ ReleaseInv(s)'
    BY <1>0, <1>8 DEF OpenPrepare, OpenUndoes, Microphone, OpeningAt, OpenFails, EndProvider,
       Provider, Reported, sessionVars, handlerVars, tearVars
  <2>2. InsertionInv(s)' /\ DraftInv(s)' /\ PhaseInv(s)'
    BY <1>0, <1>8 DEF OpenPrepare, OpenUndoes, Microphone, OpeningAt, OpenFails, EndProvider,
       Provider, Reported, sessionVars, handlerVars, tearVars
  <2> QED BY <2>1, <2>2
<1>9. CASE OpenSettle(s)
  <2>1. LeaseInv(s)' /\ OrderInv(s)' /\ EngineInv(s)' /\ ReleaseInv(s)'
    BY <1>0, <1>9 DEF OpenSettle, CancelTakes, Raise, Microphone, OpeningAt, sessionVars,
       handlerVars, tearVars
  <2>2. InsertionInv(s)' /\ DraftInv(s)' /\ PhaseInv(s)'
    BY <1>0, <1>9 DEF OpenSettle, CancelTakes, Raise, Microphone, OpeningAt, sessionVars,
       handlerVars, tearVars
  <2> QED BY <2>1, <2>2
<1>10. CASE OpenLate(s)
  <2>1. LeaseInv(s)' /\ OrderInv(s)' /\ EngineInv(s)' /\ ReleaseInv(s)'
    BY <1>0, <1>10 DEF OpenLate, CancelEnds, EndProvider, Provider, OpeningAt, sessionVars,
       handlerVars, tearVars
  <2>2. InsertionInv(s)' /\ DraftInv(s)' /\ PhaseInv(s)'
    BY <1>0, <1>10 DEF OpenLate, CancelEnds, EndProvider, Provider, OpeningAt, sessionVars,
       handlerVars, tearVars
  <2> QED BY <2>1, <2>2
<1>11. CASE FinishQueued(s)
  <2>1. LeaseInv(s)' /\ OrderInv(s)' /\ EngineInv(s)' /\ ReleaseInv(s)'
    BY <1>0, <1>11 DEF FinishQueued, FinishAt, sessionVars, handlerVars, tearVars
  <2>2. InsertionInv(s)' /\ DraftInv(s)' /\ PhaseInv(s)'
    BY <1>0, <1>11 DEF FinishQueued, FinishAt, sessionVars, handlerVars, tearVars
  <2> QED BY <2>1, <2>2
<1>12. CASE FinishTake(s)
  <2>1. LeaseInv(s)' /\ OrderInv(s)' /\ EngineInv(s)' /\ ReleaseInv(s)'
    BY <1>0, <1>12 DEF FinishTake, Microphone, FinishAt, Reported, sessionVars, handlerVars,
       tearVars
  <2>2. InsertionInv(s)' /\ DraftInv(s)' /\ PhaseInv(s)'
    BY <1>0, <1>12 DEF FinishTake, Microphone, FinishAt, Reported, sessionVars, handlerVars,
       tearVars
  <2> QED BY <2>1, <2>2
<1>13. CASE FinishStopped(s, Active(s))
  <2>1. LeaseInv(s)' /\ OrderInv(s)' /\ EngineInv(s)' /\ ReleaseInv(s)'
    BY <1>0, <1>13 DEF FinishStopped, FinishAt, EndProvider, Provider, Reported, Active,
       sessionVars, handlerVars, tearVars
  <2>2. InsertionInv(s)' /\ DraftInv(s)' /\ PhaseInv(s)'
    BY <1>0, <1>13 DEF FinishStopped, FinishAt, EndProvider, Provider, Reported, Active,
       sessionVars, handlerVars, tearVars
  <2> QED BY <2>1, <2>2
<1>14. CASE FinishTranscribe(s, Active(s))
  <2>1. LeaseInv(s)' /\ OrderInv(s)' /\ EngineInv(s)' /\ ReleaseInv(s)'
    BY <1>0, <1>14 DEF FinishTranscribe, FinishAt, EndProvider, Provider, Reported, Active,
       sessionVars, handlerVars, tearVars
  <2>2. InsertionInv(s)' /\ DraftInv(s)' /\ PhaseInv(s)'
    BY <1>0, <1>14 DEF FinishTranscribe, FinishAt, EndProvider, Provider, Reported, Active,
       sessionVars, handlerVars, tearVars
  <2> QED BY <2>1, <2>2
<1> QED BY <1>1, <1>2, <1>3, <1>4, <1>5, <1>6, <1>7, <1>8, <1>9, <1>10, <1>11, <1>12, <1>13, <1>14,
           <1>15, <1>16
   DEF EngineStep, OpeningStep, FinishTaskStep

(* A teardown moves its own session only (cancel_session_adapters).         *)
LEMMA TearMoves ==
    ASSUME NEW s \in Session, TypeOK, IdleInv, TearStep(s)
    PROVE  Moves(s) /\ Quietly(s)
<1> USE Tasks DEF TypeOK, EngineTypeOK, IdleInv, Moves, Quietly, Unseen, sessionVars, handlerVars,
   tearVars, engineVars
<1>1. ASSUME NEW a \in Asker, TearCancels(s, a) PROVE Moves(s) /\ Quietly(s)
  BY <1>1 DEF TearCancels, CancelTakes, Session
<1>2. ASSUME NEW a \in Asker, TearStopped(s, a) PROVE Moves(s) /\ Quietly(s)
  BY <1>2 DEF TearStopped, CancelEnds, EndProvider, Session
<1>3. ASSUME NEW a \in Asker, TearInsertion(s, a) PROVE Moves(s) /\ Quietly(s)
  BY <1>3 DEF TearInsertion, Session
<1> QED BY <1>1, <1>2, <1>3 DEF TearStep

(* A teardown keeps the invariant of its session: it goes only when the     *)
(* engine entry and the insertion are gone or in the hands of another one.  *)
LEMMA TearKeeps ==
    ASSUME NEW s \in Session, TypeOK, SessionInv(s), TearStep(s)
    PROVE  SessionInv(s)'
<1> USE DEF TypeOK, EngineTypeOK, OpeningTask, FinishTask, Outcome, Asker, SessionInv, LeaseInv,
            OrderInv, EngineInv, ReleaseInv, InsertionInv, DraftInv, PhaseInv, Unused, Untouched,
            BeforeEngine, Held, Running, Flagged, CancelFinds, CanHold
<1>1. ASSUME NEW a \in Asker, TearCancels(s, a) PROVE SessionInv(s)'
  <2>1. LeaseInv(s)' /\ OrderInv(s)' /\ EngineInv(s)' /\ ReleaseInv(s)'
    BY <1>1 DEF TearCancels, TearAt, CancelTakes, Raise, Microphone, sessionVars, handlerVars,
       tearVars, engineVars
  <2>2. InsertionInv(s)' /\ DraftInv(s)' /\ PhaseInv(s)'
    BY <1>1 DEF TearCancels, TearAt, CancelTakes, Raise, Microphone, sessionVars, handlerVars,
       tearVars, engineVars
  <2> QED BY <2>1, <2>2
<1>2. ASSUME NEW a \in Asker, TearStopped(s, a) PROVE SessionInv(s)'
  <2>1. LeaseInv(s)' /\ OrderInv(s)' /\ EngineInv(s)' /\ ReleaseInv(s)'
    BY <1>2 DEF TearStopped, TearAt, CancelEnds, EndProvider, Provider, sessionVars, handlerVars,
       tearVars
  <2>2. InsertionInv(s)' /\ DraftInv(s)' /\ PhaseInv(s)'
    BY <1>2 DEF TearStopped, TearAt, CancelEnds, EndProvider, Provider, sessionVars, handlerVars,
       tearVars
  <2> QED BY <2>1, <2>2
<1>3. ASSUME NEW a \in Asker, TearInsertion(s, a) PROVE SessionInv(s)'
  <2>1. LeaseInv(s)' /\ OrderInv(s)' /\ EngineInv(s)' /\ ReleaseInv(s)'
    BY <1>3 DEF TearInsertion, TearAt, Insertion, sessionVars, handlerVars, tearVars, engineVars
  <2>2. InsertionInv(s)' /\ DraftInv(s)' /\ PhaseInv(s)'
    BY <1>3 DEF TearInsertion, TearAt, Insertion, sessionVars, handlerVars, tearVars, engineVars
  <2> QED BY <2>1, <2>2
<1>4. PICK a \in Asker : TearCancels(s, a) \/ TearStopped(s, a) \/ TearInsertion(s, a)
  BY ONLY TearStep(s) DEF TearStep
<1> HIDE DEF TypeOK, EngineTypeOK, SessionInv
<1> QED BY <1>1, <1>2, <1>3, <1>4

(* A start moves its own session only (start_reserved_dictation).           *)
LEMMA StartMoves ==
    ASSUME NEW s \in Session, TypeOK, IdleInv, StartStep(s)
    PROVE  Moves(s) /\ Quietly(s)
<1> USE Tasks DEF TypeOK, EngineTypeOK, IdleInv, Moves, Quietly, Unseen, sessionVars, handlerVars,
   tearVars, engineVars
<1>1. CASE Captured(s)
  BY <1>1 DEF Captured, Fail, Session
<1>2. CASE Show(s)
  <2>1. Moves(s)
    BY <1>2 DEF Show, Fail, Session
  <2>2. Quietly(s)
    BY <1>2 DEF Show, Fail, Session
  <2> QED BY <2>1, <2>2
<1>3. CASE RegisterInsertion(s)
  BY <1>3 DEF RegisterInsertion, Active, Session
<1>4. CASE HostPrepares(s)
  BY <1>4 DEF HostPrepares, Insertion, Session
<1>5. CASE Prepared(s)
  <2>1. Moves(s)
    BY <1>5 DEF Prepared, Fail, OpeningAt, Session
  <2>2. Quietly(s)
    BY <1>5 DEF Prepared, Fail, OpeningAt, Session
  <2> QED BY <2>1, <2>2
<1>6. CASE Aborted(s)
  BY <1>6 DEF Aborted, Session
<1>7. CASE WriteDraft(s)
  BY <1>7 DEF WriteDraft, Session
<1>8. CASE Opened(s)
  BY <1>8 DEF Opened, Fail, Reconcile, Teardown, Session
<1>9. CASE StartTearsDown(s)
  BY <1>9 DEF StartTearsDown, Teardown, Session
<1>10. CASE StartTorn(s)
  BY <1>10 DEF StartTorn, Reconcile, Session
<1>11. CASE StartHides(s)
  BY <1>11 DEF StartHides, Hide, Session
<1>12. CASE StartResets(s)
  BY <1>12 DEF StartResets, Reset, Session
<1> QED BY <1>1, <1>2, <1>3, <1>4, <1>5, <1>6, <1>7, <1>8, <1>9, <1>10, <1>11, <1>12 DEF StartStep

(* A start keeps the invariant of its session, also when it has been        *)
(* overtaken by a cancellation or a fault.                                  *)
LEMMA StartKeeps ==
    ASSUME NEW s \in Session, TypeOK, SessionInv(s), StartStep(s)
    PROVE  SessionInv(s)'
<1> USE DEF TypeOK, EngineTypeOK, OpeningTask, FinishTask, Outcome, Asker, SessionInv, LeaseInv,
            OrderInv, EngineInv, ReleaseInv, InsertionInv, DraftInv, PhaseInv, Unused, Untouched,
            BeforeEngine, Held, Running, Flagged, CancelFinds, CanHold
<1>1. CASE Captured(s)
  <2>1. LeaseInv(s)' /\ OrderInv(s)' /\ EngineInv(s)' /\ ReleaseInv(s)'
    BY <1>1 DEF Captured, StartAt, Release, Fail, tearVars, engineVars
  <2>2. InsertionInv(s)' /\ DraftInv(s)' /\ PhaseInv(s)'
    BY <1>1 DEF Captured, StartAt, Release, Fail, tearVars, engineVars
  <2> QED BY <2>1, <2>2
<1>2. CASE Show(s)
  <2>1. LeaseInv(s)' /\ OrderInv(s)' /\ EngineInv(s)' /\ ReleaseInv(s)'
    BY <1>2 DEF Show, StartAt, Fail, tearVars, engineVars
  <2>2. InsertionInv(s)' /\ DraftInv(s)' /\ PhaseInv(s)'
    BY <1>2 DEF Show, StartAt, Fail, tearVars, engineVars
  <2> QED BY <2>1, <2>2
<1>3. CASE RegisterInsertion(s)
  <2>1. LeaseInv(s)' /\ OrderInv(s)' /\ EngineInv(s)' /\ ReleaseInv(s)'
    BY <1>3 DEF RegisterInsertion, StartAt, Insertion, Active, sessionVars, tearVars, engineVars
  <2>2. InsertionInv(s)' /\ DraftInv(s)' /\ PhaseInv(s)'
    BY <1>3 DEF RegisterInsertion, StartAt, Insertion, Active, sessionVars, tearVars, engineVars
  <2> QED BY <2>1, <2>2
<1>4. CASE HostPrepares(s)
  <2>1. LeaseInv(s)' /\ OrderInv(s)' /\ EngineInv(s)' /\ ReleaseInv(s)'
    BY <1>4 DEF HostPrepares, sessionVars, handlerVars, tearVars, engineVars
  <2>2. InsertionInv(s)' /\ DraftInv(s)' /\ PhaseInv(s)'
    BY <1>4 DEF HostPrepares, sessionVars, handlerVars, tearVars, engineVars
  <2> QED BY <2>1, <2>2
<1>5. CASE Prepared(s)
  <2>1. LeaseInv(s)' /\ OrderInv(s)' /\ EngineInv(s)' /\ ReleaseInv(s)'
    BY <1>5 DEF Prepared, StartAt, History, Fail, tearVars
  <2>2. InsertionInv(s)' /\ DraftInv(s)' /\ PhaseInv(s)'
    BY <1>5 DEF Prepared, StartAt, History, Fail, tearVars
  <2> QED BY <2>1, <2>2
<1>6. CASE Aborted(s)
  <2>1. LeaseInv(s)' /\ OrderInv(s)' /\ EngineInv(s)' /\ ReleaseInv(s)'
    BY <1>6 DEF Aborted, StartAt, Insertion, sessionVars, tearVars, engineVars
  <2>2. InsertionInv(s)' /\ DraftInv(s)' /\ PhaseInv(s)'
    BY <1>6 DEF Aborted, StartAt, Insertion, sessionVars, tearVars, engineVars
  <2> QED BY <2>1, <2>2
<1>7. CASE WriteDraft(s)
  <2>1. LeaseInv(s)' /\ OrderInv(s)' /\ EngineInv(s)' /\ ReleaseInv(s)'
    BY <1>7 DEF WriteDraft, StartAt, History, OpeningAt, sessionVars, tearVars
  <2>2. InsertionInv(s)' /\ DraftInv(s)' /\ PhaseInv(s)'
    BY <1>7 DEF WriteDraft, StartAt, History, OpeningAt, sessionVars, tearVars
  <2> QED BY <2>1, <2>2
<1>8. CASE Opened(s)
  <2>1. LeaseInv(s)' /\ OrderInv(s)' /\ EngineInv(s)' /\ ReleaseInv(s)'
    BY <1>8 DEF Opened, StartAt, History, Fail, Reconcile, Teardown, TearAt, Release, OpeningAt,
       tearVars
  <2>2. InsertionInv(s)' /\ DraftInv(s)' /\ PhaseInv(s)'
    BY <1>8 DEF Opened, StartAt, History, Fail, Reconcile, Teardown, TearAt, Release, OpeningAt,
       tearVars
  <2> QED BY <2>1, <2>2
<1>9. CASE StartTearsDown(s)
  <2>1. LeaseInv(s)' /\ OrderInv(s)' /\ EngineInv(s)' /\ ReleaseInv(s)'
    BY <1>9 DEF StartTearsDown, StartAt, Teardown, TearAt, Release, sessionVars, engineVars
  <2>2. InsertionInv(s)' /\ DraftInv(s)' /\ PhaseInv(s)'
    BY <1>9 DEF StartTearsDown, StartAt, Teardown, TearAt, Release, sessionVars, engineVars
  <2> QED BY <2>1, <2>2
<1>10. CASE StartTorn(s)
  <2>1. LeaseInv(s)' /\ OrderInv(s)' /\ EngineInv(s)' /\ ReleaseInv(s)'
    BY <1>10 DEF StartTorn, StartAt, Reconcile, History, Torn, sessionVars, tearVars, engineVars
  <2>2. InsertionInv(s)' /\ DraftInv(s)' /\ PhaseInv(s)'
    BY <1>10 DEF StartTorn, StartAt, Reconcile, History, Torn, sessionVars, tearVars, engineVars
  <2> QED BY <2>1, <2>2
<1>11. CASE StartHides(s)
  <2>1. LeaseInv(s)' /\ OrderInv(s)' /\ EngineInv(s)' /\ ReleaseInv(s)'
    BY <1>11 DEF StartHides, StartAt, Hide, sessionVars, tearVars, engineVars
  <2>2. InsertionInv(s)' /\ DraftInv(s)' /\ PhaseInv(s)'
    BY <1>11 DEF StartHides, StartAt, Hide, sessionVars, tearVars, engineVars
  <2> QED BY <2>1, <2>2
<1>12. CASE StartResets(s)
  <2>1. LeaseInv(s)' /\ OrderInv(s)' /\ EngineInv(s)' /\ ReleaseInv(s)'
    BY <1>12 DEF StartResets, StartAt, Reset, Release, sessionVars, tearVars, engineVars
  <2>2. InsertionInv(s)' /\ DraftInv(s)' /\ PhaseInv(s)'
    BY <1>12 DEF StartResets, StartAt, Reset, Release, sessionVars, tearVars, engineVars
  <2> QED BY <2>1, <2>2
<1> QED BY <1>1, <1>2, <1>3, <1>4, <1>5, <1>6, <1>7, <1>8, <1>9, <1>10, <1>11, <1>12 DEF StartStep

(* A stop and its early stop move their own session only (stop_dictation).  *)
LEMMA StopMoves ==
    ASSUME NEW s \in Session, TypeOK, IdleInv, StopStep(s)
    PROVE  Moves(s) /\ Quietly(s)
<1> USE Tasks DEF TypeOK, EngineTypeOK, IdleInv, Moves, Quietly, Unseen, sessionVars, handlerVars,
   tearVars, engineVars
<1>1. CASE StopLooks(s)
  BY <1>1 DEF StopLooks, Session
<1>2. CASE EarlyTries(s)
  BY <1>2 DEF EarlyTries, EarlyStop, Session
<1>3. CASE EarlyClosed(s)
  BY <1>3 DEF EarlyClosed, Session
<1>4. CASE EarlyWakes(s)
  BY <1>4 DEF EarlyWakes, Session
<1>5. CASE StopWakes(s)
  BY <1>5 DEF StopWakes, Session
<1>6. CASE StopFinishes(s)
  BY <1>6 DEF StopFinishes, Session
<1>7. CASE StopFinished(s)
  BY <1>7 DEF StopFinished, Fail, Session
<1>8. CASE StopTearsDown(s)
  BY <1>8 DEF StopTearsDown, Teardown, Session
<1>9. CASE StopTorn(s)
  BY <1>9 DEF StopTorn, Session
<1>10. CASE StopDelivers(s)
  BY <1>10 DEF StopDelivers, Session
<1>11. CASE StopInserts(s)
  BY <1>11 DEF StopInserts, InsertFails, Fail, Session
<1>12. CASE HostCommits(s)
  BY <1>12 DEF HostCommits, InsertFails, Fail, Session
<1>13. CASE StopUninserts(s)
  BY <1>13 DEF StopUninserts, Session
<1>14. CASE StopCompletes(s)
  BY <1>14 DEF StopCompletes, Session
<1>15. CASE StopHides(s)
  BY <1>15 DEF StopHides, Hide, Session
<1>16. CASE StopResets(s)
  BY <1>16 DEF StopResets, Reset, Session
<1>17. CASE StopPersists(s)
  BY <1>17 DEF StopPersists, Session
<1> QED BY <1>1, <1>2, <1>3, <1>4, <1>5, <1>6, <1>7, <1>8, <1>9, <1>10, <1>11, <1>12, <1>13,
   <1>14, <1>15, <1>16, <1>17 DEF
   StopStep

(* A stop keeps the invariant of its session: it is past the recording      *)
(* phase, or the session is not.                                            *)
LEMMA StopKeeps ==
    ASSUME NEW s \in Session, TypeOK, SessionInv(s), StopStep(s)
    PROVE  SessionInv(s)'
<1> USE DEF TypeOK, EngineTypeOK, OpeningTask, FinishTask, Outcome, Asker, SessionInv, LeaseInv,
            OrderInv, EngineInv, ReleaseInv, InsertionInv, DraftInv, PhaseInv, Unused, Untouched,
            BeforeEngine, Held, Running, Flagged, CancelFinds, CanHold
<1>1. CASE StopLooks(s)
  <2>1. LeaseInv(s)' /\ OrderInv(s)' /\ EngineInv(s)' /\ ReleaseInv(s)'
    BY <1>1 DEF StopLooks, StopAt, EarlyAt, tearVars, engineVars
  <2>2. InsertionInv(s)' /\ DraftInv(s)' /\ PhaseInv(s)'
    BY <1>1 DEF StopLooks, StopAt, EarlyAt, tearVars, engineVars
  <2> QED BY <2>1, <2>2
<1>2. CASE EarlyTries(s)
  <2>1. LeaseInv(s)' /\ OrderInv(s)' /\ EngineInv(s)' /\ ReleaseInv(s)'
    BY <1>2 DEF EarlyTries, EarlyAt, EarlyStop, Raise, Microphone, sessionVars, tearVars,
       engineVars
  <2>2. InsertionInv(s)' /\ DraftInv(s)' /\ PhaseInv(s)'
    BY <1>2 DEF EarlyTries, EarlyAt, EarlyStop, Raise, Microphone, sessionVars, tearVars,
       engineVars
  <2> QED BY <2>1, <2>2
<1>3. CASE EarlyClosed(s)
  <2>1. LeaseInv(s)' /\ OrderInv(s)' /\ EngineInv(s)' /\ ReleaseInv(s)'
    BY <1>3 DEF EarlyClosed, EarlyAt, sessionVars, tearVars, engineVars
  <2>2. InsertionInv(s)' /\ DraftInv(s)' /\ PhaseInv(s)'
    BY <1>3 DEF EarlyClosed, EarlyAt, sessionVars, tearVars, engineVars
  <2> QED BY <2>1, <2>2
<1>4. CASE EarlyWakes(s)
  <2>1. LeaseInv(s)' /\ OrderInv(s)' /\ EngineInv(s)' /\ ReleaseInv(s)'
    BY <1>4 DEF EarlyWakes, EarlyAt, sessionVars, tearVars, engineVars
  <2>2. InsertionInv(s)' /\ DraftInv(s)' /\ PhaseInv(s)'
    BY <1>4 DEF EarlyWakes, EarlyAt, sessionVars, tearVars, engineVars
  <2> QED BY <2>1, <2>2
<1>5. CASE StopWakes(s)
  <2>1. LeaseInv(s)' /\ OrderInv(s)' /\ EngineInv(s)' /\ ReleaseInv(s)'
    BY <1>5 DEF StopWakes, StopAt, EarlyAt, sessionVars, tearVars, engineVars
  <2>2. InsertionInv(s)' /\ DraftInv(s)' /\ PhaseInv(s)'
    BY <1>5 DEF StopWakes, StopAt, EarlyAt, sessionVars, tearVars, engineVars
  <2> QED BY <2>1, <2>2
<1>6. CASE StopFinishes(s)
  <2>1. LeaseInv(s)' /\ OrderInv(s)' /\ EngineInv(s)' /\ ReleaseInv(s)'
    BY <1>6 DEF StopFinishes, StopAt, FinishAt, sessionVars, tearVars
  <2>2. InsertionInv(s)' /\ DraftInv(s)' /\ PhaseInv(s)'
    BY <1>6 DEF StopFinishes, StopAt, FinishAt, sessionVars, tearVars
  <2> QED BY <2>1, <2>2
<1>7. CASE StopFinished(s)
  <2>1. LeaseInv(s)' /\ OrderInv(s)' /\ EngineInv(s)' /\ ReleaseInv(s)'
    BY <1>7 DEF StopFinished, StopAt, History, Fail, FinishAt, tearVars
  <2>2. InsertionInv(s)' /\ DraftInv(s)' /\ PhaseInv(s)'
    BY <1>7 DEF StopFinished, StopAt, History, Fail, FinishAt, tearVars
  <2> QED BY <2>1, <2>2
<1>8. CASE StopTearsDown(s)
  <2>1. LeaseInv(s)' /\ OrderInv(s)' /\ EngineInv(s)' /\ ReleaseInv(s)'
    BY <1>8 DEF StopTearsDown, StopAt, Teardown, TearAt, Release, sessionVars, engineVars
  <2>2. InsertionInv(s)' /\ DraftInv(s)' /\ PhaseInv(s)'
    BY <1>8 DEF StopTearsDown, StopAt, Teardown, TearAt, Release, sessionVars, engineVars
  <2> QED BY <2>1, <2>2
<1>9. CASE StopTorn(s)
  <2>1. LeaseInv(s)' /\ OrderInv(s)' /\ EngineInv(s)' /\ ReleaseInv(s)'
    BY <1>9 DEF StopTorn, StopAt, Torn, sessionVars, tearVars, engineVars
  <2>2. InsertionInv(s)' /\ DraftInv(s)' /\ PhaseInv(s)'
    BY <1>9 DEF StopTorn, StopAt, Torn, sessionVars, tearVars, engineVars
  <2> QED BY <2>1, <2>2
<1>10. CASE StopDelivers(s)
  <2>1. LeaseInv(s)' /\ OrderInv(s)' /\ EngineInv(s)' /\ ReleaseInv(s)'
    BY <1>10 DEF StopDelivers, StopAt, tearVars, engineVars
  <2>2. InsertionInv(s)' /\ DraftInv(s)' /\ PhaseInv(s)'
    BY <1>10 DEF StopDelivers, StopAt, tearVars, engineVars
  <2> QED BY <2>1, <2>2
<1>11. CASE StopInserts(s)
  <2>1. LeaseInv(s)' /\ OrderInv(s)' /\ EngineInv(s)' /\ ReleaseInv(s)'
    BY <1>11 DEF StopInserts, StopAt, Insertion, InsertFails, History, Fail, tearVars, engineVars
  <2>2. InsertionInv(s)' /\ DraftInv(s)' /\ PhaseInv(s)'
    BY <1>11 DEF StopInserts, StopAt, Insertion, InsertFails, History, Fail, tearVars, engineVars
  <2> QED BY <2>1, <2>2
<1>12. CASE HostCommits(s)
  <2>1. LeaseInv(s)' /\ OrderInv(s)' /\ EngineInv(s)' /\ ReleaseInv(s)'
    BY <1>12 DEF HostCommits, StopAt, Insertion, InsertFails, History, Fail, tearVars, engineVars
  <2>2. InsertionInv(s)' /\ DraftInv(s)' /\ PhaseInv(s)'
    BY <1>12 DEF HostCommits, StopAt, Insertion, InsertFails, History, Fail, tearVars, engineVars
  <2> QED BY <2>1, <2>2
<1>13. CASE StopUninserts(s)
  <2>1. LeaseInv(s)' /\ OrderInv(s)' /\ EngineInv(s)' /\ ReleaseInv(s)'
    BY <1>13 DEF StopUninserts, StopAt, Insertion, sessionVars, tearVars, engineVars
  <2>2. InsertionInv(s)' /\ DraftInv(s)' /\ PhaseInv(s)'
    BY <1>13 DEF StopUninserts, StopAt, Insertion, sessionVars, tearVars, engineVars
  <2> QED BY <2>1, <2>2
<1>14. CASE StopCompletes(s)
  <2>1. LeaseInv(s)' /\ OrderInv(s)' /\ EngineInv(s)' /\ ReleaseInv(s)'
    BY <1>14 DEF StopCompletes, StopAt, tearVars, engineVars
  <2>2. InsertionInv(s)' /\ DraftInv(s)' /\ PhaseInv(s)'
    BY <1>14 DEF StopCompletes, StopAt, tearVars, engineVars
  <2> QED BY <2>1, <2>2
<1>15. CASE StopHides(s)
  <2>1. LeaseInv(s)' /\ OrderInv(s)' /\ EngineInv(s)' /\ ReleaseInv(s)'
    BY <1>15 DEF StopHides, StopAt, Hide, sessionVars, tearVars, engineVars
  <2>2. InsertionInv(s)' /\ DraftInv(s)' /\ PhaseInv(s)'
    BY <1>15 DEF StopHides, StopAt, Hide, sessionVars, tearVars, engineVars
  <2> QED BY <2>1, <2>2
<1>16. CASE StopResets(s)
  <2>1. LeaseInv(s)' /\ OrderInv(s)' /\ EngineInv(s)' /\ ReleaseInv(s)'
    BY <1>16 DEF StopResets, StopAt, Reset, Release, sessionVars, tearVars, engineVars
  <2>2. InsertionInv(s)' /\ DraftInv(s)' /\ PhaseInv(s)'
    BY <1>16 DEF StopResets, StopAt, Reset, Release, sessionVars, tearVars, engineVars
  <2> QED BY <2>1, <2>2
<1>17. CASE StopPersists(s)
  <2>1. LeaseInv(s)' /\ OrderInv(s)' /\ EngineInv(s)' /\ ReleaseInv(s)'
    BY <1>17 DEF StopPersists, StopAt, History, sessionVars, tearVars, engineVars
  <2>2. InsertionInv(s)' /\ DraftInv(s)' /\ PhaseInv(s)'
    BY <1>17 DEF StopPersists, StopAt, History, sessionVars, tearVars, engineVars
  <2> QED BY <2>1, <2>2
<1> QED BY <1>1, <1>2, <1>3, <1>4, <1>5, <1>6, <1>7, <1>8, <1>9, <1>10, <1>11, <1>12, <1>13,
   <1>14, <1>15, <1>16, <1>17 DEF
   StopStep

(* A cancellation moves its own session only (cancel_dictation).            *)
LEMMA CancelMoves ==
    ASSUME NEW s \in Session, TypeOK, IdleInv, CancelStep(s)
    PROVE  Moves(s) /\ Quietly(s)
<1> USE Tasks DEF TypeOK, EngineTypeOK, IdleInv, Moves, Quietly, Unseen, sessionVars, handlerVars,
   tearVars, engineVars
<1>1. CASE CancelSettles(s)
  BY <1>1 DEF CancelSettles, Session
<1>2. CASE CancelTearsDown(s)
  BY <1>2 DEF CancelTearsDown, Teardown, Session
<1>3. CASE CancelReleases(s)
  BY <1>3 DEF CancelReleases, Session
<1>4. CASE CancelHides(s)
  BY <1>4 DEF CancelHides, Hide, Session
<1> QED BY <1>1, <1>2, <1>3, <1>4 DEF CancelStep

(* A cancellation keeps the invariant of its session, which it no longer    *)
(* shows.                                                                   *)
LEMMA CancelKeeps ==
    ASSUME NEW s \in Session, TypeOK, SessionInv(s), CancelStep(s)
    PROVE  SessionInv(s)'
<1> USE DEF TypeOK, EngineTypeOK, OpeningTask, FinishTask, Outcome, Asker, SessionInv, LeaseInv,
            OrderInv, EngineInv, ReleaseInv, InsertionInv, DraftInv, PhaseInv, Unused, Untouched,
            BeforeEngine, Held, Running, Flagged, CancelFinds, CanHold
<1>1. CASE CancelSettles(s)
  <2>1. LeaseInv(s)' /\ OrderInv(s)' /\ EngineInv(s)' /\ ReleaseInv(s)'
    BY <1>1 DEF CancelSettles, CancelAt, History, sessionVars, tearVars, engineVars
  <2>2. InsertionInv(s)' /\ DraftInv(s)' /\ PhaseInv(s)'
    BY <1>1 DEF CancelSettles, CancelAt, History, sessionVars, tearVars, engineVars
  <2> QED BY <2>1, <2>2
<1>2. CASE CancelTearsDown(s)
  <2>1. LeaseInv(s)' /\ OrderInv(s)' /\ EngineInv(s)' /\ ReleaseInv(s)'
    BY <1>2 DEF CancelTearsDown, CancelAt, Teardown, TearAt, Release, sessionVars, engineVars
  <2>2. InsertionInv(s)' /\ DraftInv(s)' /\ PhaseInv(s)'
    BY <1>2 DEF CancelTearsDown, CancelAt, Teardown, TearAt, Release, sessionVars, engineVars
  <2> QED BY <2>1, <2>2
<1>3. CASE CancelReleases(s)
  <2>1. LeaseInv(s)' /\ OrderInv(s)' /\ EngineInv(s)' /\ ReleaseInv(s)'
    BY <1>3 DEF CancelReleases, CancelAt, Release, Torn, sessionVars, tearVars, engineVars
  <2>2. InsertionInv(s)' /\ DraftInv(s)' /\ PhaseInv(s)'
    BY <1>3 DEF CancelReleases, CancelAt, Release, Torn, sessionVars, tearVars, engineVars
  <2> QED BY <2>1, <2>2
<1>4. CASE CancelHides(s)
  <2>1. LeaseInv(s)' /\ OrderInv(s)' /\ EngineInv(s)' /\ ReleaseInv(s)'
    BY <1>4 DEF CancelHides, CancelAt, Hide, sessionVars, tearVars, engineVars
  <2>2. InsertionInv(s)' /\ DraftInv(s)' /\ PhaseInv(s)'
    BY <1>4 DEF CancelHides, CancelAt, Hide, sessionVars, tearVars, engineVars
  <2> QED BY <2>1, <2>2
<1> QED BY <1>1, <1>2, <1>3, <1>4 DEF CancelStep

(* The report of a fault moves its own session only                         *)
(* (report_recording_fault).                                                *)
LEMMA FaultMoves ==
    ASSUME NEW s \in Session, TypeOK, IdleInv, FaultStep(s)
    PROVE  Moves(s) /\ Quietly(s)
<1> USE Tasks DEF TypeOK, EngineTypeOK, IdleInv, Moves, Quietly, Unseen, sessionVars, handlerVars,
   tearVars, engineVars
<1>6. CASE FaultPublishes(s)
  BY <1>6 DEF FaultPublishes, Active, Session
<1>1. CASE FaultClaims(s)
  BY <1>1 DEF FaultClaims, Fail, Session
<1>2. CASE FaultTearsDown(s)
  BY <1>2 DEF FaultTearsDown, Teardown, Session
<1>3. CASE FaultPersists(s)
  BY <1>3 DEF FaultPersists, Session
<1>4. CASE FaultHides(s)
  BY <1>4 DEF FaultHides, Hide, Session
<1>5. CASE FaultResets(s)
  BY <1>5 DEF FaultResets, Reset, Session
<1> QED BY <1>1, <1>2, <1>3, <1>4, <1>5, <1>6 DEF FaultStep

(* The report of a fault keeps the invariant of its session.                *)
LEMMA FaultKeeps ==
    ASSUME NEW s \in Session, TypeOK, SessionInv(s), FaultStep(s)
    PROVE  SessionInv(s)'
<1> USE DEF TypeOK, EngineTypeOK, OpeningTask, FinishTask, Outcome, Asker, SessionInv, LeaseInv,
            OrderInv, EngineInv, ReleaseInv, InsertionInv, DraftInv, PhaseInv, Unused, Untouched,
            BeforeEngine, Held, Running, Flagged, CancelFinds, CanHold
<1>6. CASE FaultPublishes(s)
  <2>1. LeaseInv(s)' /\ OrderInv(s)' /\ EngineInv(s)' /\ ReleaseInv(s)'
    BY <1>6 DEF FaultPublishes, FaultAt, Active, tearVars, engineVars
  <2>2. InsertionInv(s)' /\ DraftInv(s)' /\ PhaseInv(s)'
    BY <1>6 DEF FaultPublishes, FaultAt, Active, tearVars, engineVars
  <2> QED BY <2>1, <2>2
<1>1. CASE FaultClaims(s)
  <2>1. LeaseInv(s)' /\ OrderInv(s)' /\ EngineInv(s)' /\ ReleaseInv(s)'
    BY <1>1 DEF FaultClaims, FaultAt, Fail, tearVars, engineVars
  <2>2. InsertionInv(s)' /\ DraftInv(s)' /\ PhaseInv(s)'
    BY <1>1 DEF FaultClaims, FaultAt, Fail, tearVars, engineVars
  <2> QED BY <2>1, <2>2
<1>2. CASE FaultTearsDown(s)
  <2>1. LeaseInv(s)' /\ OrderInv(s)' /\ EngineInv(s)' /\ ReleaseInv(s)'
    BY <1>2 DEF FaultTearsDown, FaultAt, Teardown, TearAt, Release, sessionVars, engineVars
  <2>2. InsertionInv(s)' /\ DraftInv(s)' /\ PhaseInv(s)'
    BY <1>2 DEF FaultTearsDown, FaultAt, Teardown, TearAt, Release, sessionVars, engineVars
  <2> QED BY <2>1, <2>2
<1>3. CASE FaultPersists(s)
  <2>1. LeaseInv(s)' /\ OrderInv(s)' /\ EngineInv(s)' /\ ReleaseInv(s)'
    BY <1>3 DEF FaultPersists, FaultAt, History, Torn, sessionVars, tearVars, engineVars
  <2>2. InsertionInv(s)' /\ DraftInv(s)' /\ PhaseInv(s)'
    BY <1>3 DEF FaultPersists, FaultAt, History, Torn, sessionVars, tearVars, engineVars
  <2> QED BY <2>1, <2>2
<1>4. CASE FaultHides(s)
  <2>1. LeaseInv(s)' /\ OrderInv(s)' /\ EngineInv(s)' /\ ReleaseInv(s)'
    BY <1>4 DEF FaultHides, FaultAt, Hide, sessionVars, tearVars, engineVars
  <2>2. InsertionInv(s)' /\ DraftInv(s)' /\ PhaseInv(s)'
    BY <1>4 DEF FaultHides, FaultAt, Hide, sessionVars, tearVars, engineVars
  <2> QED BY <2>1, <2>2
<1>5. CASE FaultResets(s)
  <2>1. LeaseInv(s)' /\ OrderInv(s)' /\ EngineInv(s)' /\ ReleaseInv(s)'
    BY <1>5 DEF FaultResets, FaultAt, Reset, Release, sessionVars, tearVars, engineVars
  <2>2. InsertionInv(s)' /\ DraftInv(s)' /\ PhaseInv(s)'
    BY <1>5 DEF FaultResets, FaultAt, Reset, Release, sessionVars, tearVars, engineVars
  <2> QED BY <2>1, <2>2
<1> QED BY <1>1, <1>2, <1>3, <1>4, <1>5, <1>6 DEF FaultStep

(* A call moves the session it is about only, and only a start shows        *)
(* another one.                                                             *)
LEMMA ArriveMoves ==
    ASSUME NEW s \in Session, TypeOK, IdleInv, Arrives(s)
    PROVE  Moves(s) /\ (~Start(s) => Quietly(s))
<1> USE Tasks DEF TypeOK, EngineTypeOK, IdleInv, Moves, Quietly, Unseen, sessionVars, handlerVars,
   tearVars, engineVars
<1>1. CASE Start(s)
  BY <1>1 DEF Start, Session
<1>2. CASE Stop(s)
  BY <1>2 DEF Stop, Session
<1>3. CASE Cancel(s)
  BY <1>3 DEF Cancel, Session
<1>4. CASE Fault(s)
  BY <1>4 DEF Fault, Session
<1> QED BY <1>1, <1>2, <1>3, <1>4 DEF Arrives

(* A call keeps the invariant of the session it is about.                   *)
LEMMA ArriveKeeps ==
    ASSUME NEW s \in Session, TypeOK, SessionInv(s), Arrives(s)
    PROVE  SessionInv(s)'
<1> USE DEF TypeOK, EngineTypeOK, OpeningTask, FinishTask, Outcome, Asker, SessionInv, LeaseInv,
            OrderInv, EngineInv, ReleaseInv, InsertionInv, DraftInv, PhaseInv, Unused, Untouched,
            BeforeEngine, Held, Running, Flagged, CancelFinds, CanHold
<1>1. CASE Start(s)
  <2>1. LeaseInv(s)' /\ OrderInv(s)' /\ EngineInv(s)' /\ ReleaseInv(s)'
    BY <1>1 DEF Start, StartAt, tearVars, engineVars, LeaseFree, Session
  <2>2. InsertionInv(s)' /\ DraftInv(s)' /\ PhaseInv(s)'
    BY <1>1 DEF Start, StartAt, tearVars, engineVars, LeaseFree, Session
  <2> QED BY <2>1, <2>2
<1>2. CASE Stop(s)
  <2>1. LeaseInv(s)' /\ OrderInv(s)' /\ EngineInv(s)' /\ ReleaseInv(s)'
    BY <1>2 DEF Stop, StopAt, sessionVars, tearVars, engineVars
  <2>2. InsertionInv(s)' /\ DraftInv(s)' /\ PhaseInv(s)'
    BY <1>2 DEF Stop, StopAt, sessionVars, tearVars, engineVars
  <2> QED BY <2>1, <2>2
<1>3. CASE Cancel(s)
  <2>1. LeaseInv(s)' /\ OrderInv(s)' /\ EngineInv(s)' /\ ReleaseInv(s)'
    BY <1>3 DEF Cancel, CancelAt, tearVars, engineVars
  <2>2. InsertionInv(s)' /\ DraftInv(s)' /\ PhaseInv(s)'
    BY <1>3 DEF Cancel, CancelAt, tearVars, engineVars
  <2> QED BY <2>1, <2>2
<1>4. CASE Fault(s)
  <2>1. LeaseInv(s)' /\ OrderInv(s)' /\ EngineInv(s)' /\ ReleaseInv(s)'
    BY <1>4 DEF Fault, FaultAt, sessionVars, tearVars, engineVars
  <2>2. InsertionInv(s)' /\ DraftInv(s)' /\ PhaseInv(s)'
    BY <1>4 DEF Fault, FaultAt, sessionVars, tearVars, engineVars
  <2> QED BY <2>1, <2>2
<1> QED BY <1>1, <1>2, <1>3, <1>4 DEF Arrives

(* A new session takes the lease over from one that nobody holds it for.    *)
LEMMA StartElsewhere ==
    ASSUME NEW s \in Session, NEW r \in Session, r # s, TypeOK, SessionInv(r), Start(s), Same(r)
    PROVE  SessionInv(r)'
<1>1. /\ current = 0 /\ current' = s /\ lease' = s /\ LeaseFree /\ s # 0 /\ r # 0
      /\ faultOf' = faultOf
  BY DEF Start, Session
<1>2. LeaseInv(r)'
  <2>1. start[r] # "none" => r \in revoked /\ ~Held(r) BY <1>1 DEF SessionInv, LeaseInv, LeaseFree
  <2>2. Held(r)' = Held(r) BY DEF Same, Held
  <2> QED BY <1>1, <2>1, <2>2 DEF LeaseInv, Same
<1>3. OrderInv(r)' /\ EngineInv(r)'
  BY <1>1 DEF SessionInv, Same, OrderInv, EngineInv, Running, Unused, Untouched, Flagged, Asker
<1>4. ReleaseInv(r)' /\ InsertionInv(r)'
  BY <1>1 DEF SessionInv, Same, ReleaseInv, InsertionInv, Unused, Flagged, CancelFinds
<1>5. DraftInv(r)' /\ PhaseInv(r)'
  BY <1>1 DEF SessionInv, Same, DraftInv, PhaseInv
<1> QED BY <1>2, <1>3, <1>4, <1>5 DEF SessionInv

(* The invariant holds at the start.                                        *)
LEMMA DictationStarts == Init => DictationInv
<1> SUFFICES ASSUME Init PROVE DictationInv OBVIOUS
<1> USE DEF Init, EngineInit
<1>1. TypeOK
  <2>1. EngineTypeOK BY DEF EngineTypeOK, OpeningTask, FinishTask, Outcome
  <2>2. {current, faultOf, lease} \subseteq 0..MaxSession BY MaxSessionAssumption
  <2>3. tear \in [Session -> [Asker -> TearTask]] BY DEF TearTask
  <2> QED
    BY <2>1, <2>2, <2>3
    DEF TypeOK, Phase, Insertions, StartTask, StopTask, EarlyTask, CancelTask, FaultTask
<1>2. ASSUME NEW s \in Session PROVE SessionInv(s)
  <2>1. Untouched(s) BY DEF Untouched, Unused, Session
  <2>2. LeaseInv(s) /\ OrderInv(s) /\ EngineInv(s)
    BY <2>1 DEF LeaseInv, OrderInv, EngineInv, Untouched, Unused, BeforeEngine, Running, Flagged,
       Asker, Session
  <2>3. ReleaseInv(s) /\ InsertionInv(s) /\ DraftInv(s) /\ PhaseInv(s)
    BY <2>1 DEF ReleaseInv, InsertionInv, DraftInv, PhaseInv, Untouched, Unused, BeforeEngine,
       CancelFinds, Flagged
  <2> QED BY <2>2, <2>3 DEF SessionInv
<1> QED BY <1>1, <1>2 DEF DictationInv, IdleInv

(* Every step keeps the invariant.                                          *)
LEMMA DictationSteps == DictationInv /\ [Next]_vars => DictationInv'
<1> SUFFICES ASSUME DictationInv, [Next]_vars PROVE DictationInv' OBVIOUS
<1>0. TypeOK /\ IdleInv /\ \A r \in Session : SessionInv(r) BY DEF DictationInv
<1>1. CASE UNCHANGED vars
  <2> USE <1>1 DEF vars, engineVars, sessionVars, handlerVars, tearVars
  <2>1. TypeOK' BY <1>0 DEF TypeOK, EngineTypeOK
  <2>2. IdleInv' BY <1>0 DEF IdleInv
  <2>3. \A r \in Session : Same(r) /\ Unseen(r) BY DEF Same, Unseen
  <2> QED BY <1>0, <2>1, <2>2, <2>3, Elsewhere DEF DictationInv
<1>2. ASSUME NEW s \in Session, Arrives(s) \/ Proceeds(s) PROVE DictationInv'
  <2>1. Moves(s) /\ (Start(s) \/ Quietly(s))
    BY <1>0, <1>2, EngineMoves, TearMoves, StartMoves, StopMoves, CancelMoves, FaultMoves,
       ArriveMoves
    DEF Proceeds
  <2>2. SessionInv(s)'
    BY <1>0, <1>2, EngineKeeps, TearKeeps, StartKeeps, StopKeeps, CancelKeeps, FaultKeeps,
       ArriveKeeps
    DEF Proceeds
  <2>3. TypeOK' BY <1>0, <2>1, MovedTypes
  <2>4. IdleInv' BY <2>1 DEF IdleInv, Quietly, Start, Session
  <2>5. ASSUME NEW r \in Session, r # s PROVE SessionInv(r)'
    <3>1. Same(r) BY <1>0, <2>1, <2>5, MovedElsewhere
    <3>2. CASE Start(s) BY <1>0, <2>5, <3>1, <3>2, StartElsewhere
    <3>3. CASE Quietly(s)
      <4>1. Unseen(r) BY <2>5, <3>3 DEF Quietly
      <4> QED BY <1>0, <3>1, <4>1, Elsewhere
    <3> QED BY <2>1, <3>2, <3>3
  <2> QED BY <2>2, <2>3, <2>4, <2>5 DEF DictationInv
<1> QED BY <1>1, <1>2 DEF Next

(* The invariant always holds.                                              *)
LEMMA DictationHolds == Spec => []DictationInv
<1> QED BY DictationStarts, DictationSteps, PTL DEF Spec

(* Types: every variable of the sessions stays within its type.             *)
THEOREM DictationTypes == Spec => []TypeOK
<1>1. DictationInv => TypeOK BY DEF DictationInv
<1> QED BY DictationHolds, <1>1, PTL

(* A session with a hold, or whose lease was never revoked, still has the   *)
(* lease, and it is not free.                                               *)
LEMMA HeldLease ==
    ASSUME NEW s \in Session, LeaseInv(s), start[s] # "none", Held(s) \/ s \notin revoked
    PROVE  lease = s /\ ~LeaseFree
BY DEF LeaseInv, LeaseFree, Session

(* Whoever closes a recorder holds the lease, or is a second teardown; an   *)
(* open one is recorded into, or the teardown that will take it holds the   *)
(* lease.                                                                   *)
LEMMA OwnedMicrophones == DictationInv => MicrophoneOwnedByFirst
<1> SUFFICES ASSUME DictationInv, NEW s \in Session, microphone[s] # "closed"
             PROVE  (lease = s /\ ~LeaseFree) \/ SecondTeardownCloses(s)
  BY DEF MicrophoneOwnedByFirst
<1>0. TypeOK /\ SessionInv(s) BY DEF DictationInv
<1>1. start[s] # "none" BY <1>0 DEF SessionInv, OrderInv, Untouched, Unused
<1>2. microphone[s] \in {"open", "closing"} BY <1>0 DEF TypeOK, EngineTypeOK
<1>3. Held(s) => lease = s /\ ~LeaseFree BY <1>0, <1>1, HeldLease DEF SessionInv
<1>4. s \notin revoked => lease = s /\ ~LeaseFree BY <1>0, <1>1, HeldLease DEF SessionInv
<1>5. CASE microphone[s] = "open" /\ opening[s] = "store"
  BY <1>3, <1>5 DEF Held, Outcome
<1>6. CASE microphone[s] = "open" /\ s \in stored
  <2>1. CancelFinds(s) BY <1>0, <1>6 DEF SessionInv, EngineInv, CancelFinds
  <2>2. s \in revoked => Held(s) BY <1>0, <2>1 DEF SessionInv, ReleaseInv, Held
  <2> QED BY <1>3, <1>4, <2>2
<1>7. CASE microphone[s] = "closing"
  <2>1. \/ opening[s] \in {"discard", "stopping", "join", "inactive", "undo", "late"}
        \/ early[s] = "closing"
        \/ finishing[s] = "stop"
        \/ \E a \in Asker : tear[s][a] = "recording"
    BY <1>0, <1>7 DEF SessionInv, EngineInv
  <2>2. Held(s) \/ SecondTeardownCloses(s) BY <2>1 DEF Held, SecondTeardownCloses, Running, Outcome
  <2> QED BY <1>3, <2>2
<1> QED BY <1>0, <1>2, <1>5, <1>6, <1>7 DEF SessionInv, EngineInv

(* A recording session has passed its Show step, and no handler of its own  *)
(* has hidden it.                                                           *)
LEMMA VisibleRecordings == DictationInv => RecordingIsVisible
<1> SUFFICES ASSUME DictationInv, phase = "Recording" PROVE feedback BY DEF RecordingIsVisible
<1>1. current \in Session BY DEF DictationInv, IdleInv, TypeOK, Session
<1>2. SessionInv(current) BY <1>1 DEF DictationInv
<1>3. ~Running(start[current]) /\ feedback \in BOOLEAN
  BY <1>1, <1>2 DEF SessionInv, PhaseInv, DictationInv, TypeOK
<1> QED BY <1>1, <1>2, <1>3 DEF SessionInv, PhaseInv, Running

(* When no handler runs, nobody is responsible for anything: nothing is     *)
(* left.                                                                    *)
LEMMA CleanRest == DictationInv => RestIsClean
<1> SUFFICES ASSUME DictationInv, NEW s \in Session, start[s] = "done", Quiet(s), current # s
             PROVE  /\ microphone[s] = "closed"
                    /\ provider[s] = "none"
                    /\ insertion[s] \in {"none", "gone"}
                    /\ history[s] = "recording" => DraftIsOrphaned(s)
                    /\ s \notin registered
                    /\ s \in revoked
  BY DEF RestIsClean
<1>0. TypeOK /\ SessionInv(s) BY DEF DictationInv
<1>1. /\ opening[s] = "none" /\ finishing[s] = "none" /\ early[s] # "closing"
      /\ stop[s] \notin {"persist", "commit", "uninsert"} /\ cancel[s] \notin {"settle", "adapters"}
      /\ start[s] \notin {"preparing", "abort"}
      /\ fault[s] \notin {"claim", "adapters", "cleanup"}
      /\ \A a \in Asker : tear[s][a] = "none"
  BY <1>0 DEF SessionInv, OrderInv, Quiet, Running, Torn
<1>2. s \in revoked BY <1>0, <1>1 DEF SessionInv, ReleaseInv
<1>3. s \notin registered /\ provider[s] = "none"
  <2>1. provider[s] \in {"none", "live"} BY <1>0 DEF TypeOK, EngineTypeOK
  <2> QED BY <1>0, <1>1, <1>2, <2>1 DEF SessionInv, ReleaseInv, CancelFinds
<1>4. microphone[s] = "closed"
  <2>1. microphone[s] \in {"closed", "open", "closing"} BY <1>0 DEF TypeOK, EngineTypeOK
  <2> QED BY <1>0, <1>1, <1>3, <2>1 DEF SessionInv, EngineInv
<1>5. insertion[s] \in {"none", "gone"}
  <2>1. insertion[s] \in {"none", "preparing", "ready", "committing", "gone"}
    BY <1>0 DEF TypeOK, Insertions
  <2> QED BY <1>0, <1>1, <1>2, <2>1 DEF SessionInv, InsertionInv
<1>6. history[s] = "recording" => DraftIsOrphaned(s)
  BY <1>0, <1>1 DEF SessionInv, DraftInv, DraftIsOrphaned
<1> QED BY <1>2, <1>3, <1>4, <1>5, <1>6

(* The session shown past the recording phase is in the hands of its own    *)
(* stop.                                                                    *)
LEMMA OwnStops == DictationInv => OwnStopOnly
<1> SUFFICES ASSUME DictationInv, current # 0, phase \in {"Transcribing", "Inserting", "Completed"}
             PROVE  stop[current] \notin {"none", "look", "early", "done"}
  BY DEF OwnStopOnly
<1>1. current \in Session BY DEF DictationInv, TypeOK, Session
<1>2. PhaseInv(current) BY <1>1 DEF DictationInv, SessionInv
<1> QED BY <1>2 DEF PhaseInv

(* While a microphone is open or closing the voice lease is its session's,  *)
(* so that no other capture is admitted, but for a second teardown          *)
(* (cancel_dictation, voice_session.rs).                                    *)
THEOREM MicrophonesAreOwned == Spec => []MicrophoneOwnedByFirst
<1> QED BY DictationHolds, OwnedMicrophones, PTL

(* A session that records shows its feedback: no late end of an earlier     *)
(* session hides it (hide_dictation_feedback).                              *)
THEOREM RecordingsAreVisible == Spec => []RecordingIsVisible
<1> QED BY DictationHolds, VisibleRecordings, PTL

(* When the calls of an ended session have returned, no recorder, provider, *)
(* insertion or engine entry of it is left and its lease is released; a     *)
(* recording draft is left by a note only whose stop was refused as         *)
(* cancelled and had reset the session before its fault was reported        *)
(* (report_recording_fault).                                                *)
THEOREM EndedSessionsAreClean == Spec => []RestIsClean
<1> QED BY DictationHolds, CleanRest, PTL

(* A session leaves the recording phase by its own stop only                *)
(* (stop_dictation).                                                        *)
THEOREM SessionsStopThemselves == Spec => []OwnStopOnly
<1> QED BY DictationHolds, OwnStops, PTL
=============================================================================
