--------------------------- MODULE QaServiceProofs --------------------------
(***************************************************************************)
(* Proofs about the question panel and the selection voice commands that   *)
(* share the microphone and the edit previews with it, for any number of   *)
(* turns, sessions and dismissals.                                         *)
(*                                                                         *)
(* The argument. TypeInv is inductive: besides the types it says which     *)
(* sessions the calls name (a call never names a session that has not      *)
(* begun), and for a session with an open confirmation that nobody else is *)
(* inserting its text and that it was not inserted yet. The microphone is  *)
(* its lease's because a lease is refused while a hold is out. An answer   *)
(* follows its question because a question is pushed only by the turn that *)
(* asks, and while it asks nobody else changes the messages. A turn that   *)
(* reached the microphone or a provider is shown because what opens it     *)
(* still has the mutex, and a dismissal that hides the panel had it before. *)
(*                                                                         *)
(* Nothing is left behind because of PanelInv and CommandInv. For every    *)
(* turn and every command they say how far its calls are, what it may have *)
(* at that point (its shape), and which call or dismissal still gives it   *)
(* back. For a turn this needs that nobody dismisses the turn that records *)
(* or asks without cancelling it: the dismissal of an applied edit names a *)
(* turn that is over (OfferInv, which rests on whose conversation a preview *)
(* is made for, OwnerInv). For a command it needs that a session edited by *)
(* the panel has its microphone behind it (Prepared, Edited). Each step is *)
(* one of a single turn or command; Around and Kept, Leased, Voiced are    *)
(* what it may do to the others, and a frame lemma says that this is enough. *)
(***************************************************************************)
EXTENDS QaService, SequenceTheorems, TLAPS

(* The ids of turns and of sessions are disjoint positive numbers.          *)
LEMMA Numbers ==
    /\ Turn \subseteq Id /\ Session \subseteq Id /\ Turn \cap Session = {}
    /\ Id \subseteq Turn \cup Session /\ Id \subseteq Nat /\ 0 \notin Id
BY BoundsAssumption DEF Turn, Session, Id

(* The id of the next session is one, while some are left.                  *)
LEMMA NextIsSession ==
    ASSUME voice.session \in Session \cup {0}, NextSession <= MaxTurn + MaxSession
    PROVE  NextSession \in Session /\ NextSession > voice.session /\ NextSession > 0
BY BoundsAssumption DEF NextSession, Session

(* The new values of the state of the commands.                             *)
LEMMA VoiceForms ==
    ASSUME NEW v \in VoiceState
    PROVE  /\ v.session \in Session \cup {0}
           /\ [v EXCEPT !.control = TRUE] \in VoiceState
           /\ [v EXCEPT !.phase = "Cancelled", !.preview = {}, !.ticket = 0, !.control = FALSE]
                  \in VoiceState
           /\ [v EXCEPT !.phase = "Failed", !.control = FALSE] \in VoiceState
           /\ \A p \in VoicePhase : [v EXCEPT !.phase = p] \in VoiceState
           /\ \A i \in Intent : [v EXCEPT !.intent = i] \in VoiceState
           /\ \A p \in VoicePhase, i \in Intent :
                  [v EXCEPT !.phase = p, !.intent = i] \in VoiceState
           /\ \A o \in Turn \cup {0}, s \in Session :
                  [v EXCEPT !.phase = "Preview", !.preview = {o}, !.source = s] \in VoiceState
           /\ [v EXCEPT !.phase = "Completed", !.preview = {}, !.ticket = 0] \in VoiceState
           /\ \A i \in Id : [v EXCEPT !.phase = "Applying", !.ticket = i] \in VoiceState
           /\ [v EXCEPT !.ticket = 0, !.phase = "Completed", !.preview = {}] \in VoiceState
           /\ [v EXCEPT !.ticket = 0, !.phase = "Preview"] \in VoiceState
<1>1. v.session \in Session \cup {0} BY DEF VoiceState
<1>2. [v EXCEPT !.control = TRUE] \in VoiceState BY DEF VoiceState, VoicePhase, Resting, Intent
<1>3. [v EXCEPT !.phase = "Cancelled", !.preview = {}, !.ticket = 0, !.control = FALSE]
          \in VoiceState
  BY DEF VoiceState, VoicePhase, Resting, Intent
<1>4. [v EXCEPT !.phase = "Failed", !.control = FALSE] \in VoiceState
  BY DEF VoiceState, VoicePhase, Resting, Intent
<1>5. \A p \in VoicePhase : [v EXCEPT !.phase = p] \in VoiceState BY DEF VoiceState
<1>6. \A i \in Intent : [v EXCEPT !.intent = i] \in VoiceState BY DEF VoiceState
<1>7. \A p \in VoicePhase, i \in Intent : [v EXCEPT !.phase = p, !.intent = i] \in VoiceState
  BY DEF VoiceState
<1>8. \A o \in Turn \cup {0}, s \in Session :
         [v EXCEPT !.phase = "Preview", !.preview = {o}, !.source = s] \in VoiceState
  BY DEF VoiceState, VoicePhase, Resting, Intent
<1>9. [v EXCEPT !.phase = "Completed", !.preview = {}, !.ticket = 0] \in VoiceState
  BY DEF VoiceState, VoicePhase, Resting, Intent
<1>10. \A i \in Id : [v EXCEPT !.phase = "Applying", !.ticket = i] \in VoiceState
  BY DEF VoiceState, VoicePhase, Resting, Intent
<1>11. [v EXCEPT !.ticket = 0, !.phase = "Completed", !.preview = {}] \in VoiceState
  BY DEF VoiceState, VoicePhase, Resting, Intent
<1>12. [v EXCEPT !.ticket = 0, !.phase = "Preview"] \in VoiceState
  BY DEF VoiceState, VoicePhase, Resting, Intent
<1> QED BY <1>1, <1>2, <1>3, <1>4, <1>5, <1>6, <1>7, <1>8, <1>9, <1>10, <1>11, <1>12

(* The state of a new session is one.                                       *)
LEMMA NewVoiceTyped ==
    \A s \in Session, p \in VoicePhase, e \in BOOLEAN : NewVoice(s, p, e) \in VoiceState
BY DEF NewVoice, VoiceState

(* A cancellation keeps the types of what it changes.                       *)
LEMMA CancelTypes ==
    ASSUME VoiceTypeOK, NEW s \in Session, CancelVoice(s)
    PROVE  voice' \in VoiceState /\ teardown' \in [Session -> {"no", "plain", "control"}]
BY VoiceForms DEF CancelVoice, VoiceTypeOK, Ending

(* What the operators on leases and captures return.                        *)
LEMMA CaptureForms ==
    ASSUME CaptureTypeOK, NEW i \in Id
    PROVE  /\ Revoke(i) \subseteq Id
           /\ \A m \in MicState : [mic EXCEPT ![i] = m] \in [Id -> MicState]
           /\ CancelMic(i) \in [Id -> MicState]
BY DEF CaptureTypeOK, Revoke, CancelMic, MicState

LEMMA CaptureFrame == CaptureTypeOK /\ UNCHANGED captureVars => CaptureTypeOK'
BY DEF CaptureTypeOK, captureVars

(* One operation of the microphone, of the gate, or of both.                *)
LEMMA CaptureTyped ==
    ASSUME CaptureTypeOK, NEW i \in Id,
           lease' = lease \/ lease' = i,
           revoked' = revoked \/ revoked' = Revoke(i),
           \/ mic' = mic \/ mic' = CancelMic(i)
           \/ \E m \in MicState : mic' = [mic EXCEPT ![i] = m]
    PROVE  CaptureTypeOK'
BY CaptureForms DEF CaptureTypeOK

----------------------------------------------------------------------------
(* The parts of VoiceTypeOK: the host,                                      *)
HostTypes ==
    /\ voice \in VoiceState /\ target \in Session \cup {0} /\ slot \in Session \cup {0}

(* and the tasks.                                                           *)
TaskTypes ==
    /\ teardown \in [Session -> {"no", "plain", "control"}]
    /\ start \in [Session -> StartPc] /\ end \in [Session -> EndPc]
    /\ apply \in [Id -> Confirmation]

(* A session that has a phase or a preview has a number, a confirmation a    *)
(* session.                                                                 *)
Named ==
    /\ voice.phase # "Idle" => voice.session # 0
    /\ voice.preview # {} => voice.session # 0
    /\ \A i \in Id : apply[i].pc # "no" => apply[i].session \in Session

(* A turn that began a session of its own knows it.                         *)
Numbered == Named /\ \A t \in Turn : turn[t].created => turn[t].session # 0

(* The steps of the commands keep the types of the microphone,              *)
LEMMA CommandCapture ==
    ASSUME VoiceTypeOK, Numbered, CommandStep
    PROVE  CaptureTypeOK'
<1> USE Numbers DEF VoiceTypeOK
<1>1. ASSUME NEW s \in Session, Begin(s) PROVE CaptureTypeOK'
  BY <1>1, CaptureTyped DEF Begin, Acquire
<1>2. ASSUME NEW s \in Session, HoldResources(s) \/ Bind(s) \/ Opens(s) \/ OpenFails(s) \/ Install(s)
      PROVE  CaptureTypeOK'
  BY <1>2, CaptureTyped DEF HoldResources, Bind, Opens, OpenFails, Install, StartSucceeds,
     StartFails, MicState
<1>3. ASSUME NEW s \in Session, SetTarget(s) \/ Discarded(s) \/ StartFailed(s) \/ StartClears(s)
      PROVE  CaptureTypeOK'
  BY <1>3, CaptureFrame DEF SetTarget, Discarded, StartFailed, StartClears
<1>4. ASSUME NEW s \in Session, TakeCapture(s) \/ Transcribed(s)
      PROVE  CaptureTypeOK'
  BY <1>4, CaptureTyped DEF TakeCapture, Transcribed, BeginFinish, Settle, MicState
<1>5. ASSUME NEW s \in Session, Generated(s) PROVE CaptureTypeOK'
  BY <1>5, CaptureTyped DEF Generated, SetPreview
<1>6. ASSUME NEW s \in Session,
             \/ MarkProcessing(s) \/ Confirm(s) \/ RecordingFault(s)
             \/ Resolve(s) \/ Route(s) \/ EndFailed(s) \/ EndClears(s)
             \/ ConfirmDirect(s) \/ DirectApplied(s)
      PROVE  CaptureTypeOK'
  BY <1>6, CaptureFrame DEF MarkProcessing, Confirm, RecordingFault, Resolve, Route, EndFailed,
     EndClears, ConfirmDirect, DirectApplied
<1>7. ASSUME NEW s \in Session, TearDown(s) PROVE CaptureTypeOK'
  BY <1>7, CaptureTyped DEF TearDown, HostForgets
<1>8. ASSUME NEW i \in Id, CaptureCloses(i) PROVE CaptureTypeOK'
  BY <1>8, CaptureTyped DEF CaptureCloses, Closed, MicState
<1>9. ASSUME NEW i \in Id, FindTarget(i) \/ Insert(i) PROVE CaptureTypeOK'
  BY <1>9, CaptureFrame DEF FindTarget, Insert
<1>10. ASSUME NEW i \in Id, Report(i) PROVE CaptureTypeOK'
  <2>1. CASE UNCHANGED revoked
    BY <1>10, <2>1, CaptureFrame DEF Report, captureVars
  <2>2. CASE ~UNCHANGED revoked
    <3>1. voice.session = apply[i].session /\ revoked' = Revoke(voice.session)
      BY <1>10, <2>2 DEF Report
    <3>2. voice.session \in Session BY <1>10, <3>1 DEF Report, Numbered, Named
    <3> QED BY <1>10, <3>1, <3>2, CaptureTyped DEF Report
  <2> QED BY <2>1, <2>2
<1>11. UserCancels => CaptureTypeOK' BY CaptureFrame DEF UserCancels
<1> QED
  BY <1>1, <1>2, <1>3, <1>4, <1>5, <1>6, <1>7, <1>8, <1>9, <1>10, <1>11
  DEF CommandStep, StartStep, EndStep

(* of the service and the host,                                             *)
LEMMA CommandHost ==
    ASSUME VoiceTypeOK, Numbered, CommandStep
    PROVE  HostTypes'
<1> USE Numbers DEF HostTypes
<1>0. /\ HostTypes
      /\ voice \in VoiceState /\ voice.session \in Session \cup {0}
  BY VoiceForms DEF VoiceTypeOK
<1>1. ASSUME NEW s \in Session, Begin(s) PROVE HostTypes'
  BY <1>0, <1>1, NewVoiceTyped DEF Begin, hostVars, VoicePhase
<1>2. ASSUME NEW s \in Session, SetTarget(s) \/ StartClears(s) \/ EndClears(s) PROVE HostTypes'
  BY <1>0, <1>2 DEF SetTarget, StartClears, EndClears
<1>3. ASSUME NEW s \in Session, Bind(s) PROVE HostTypes'
  <2>1. voice' = voice \/ voice' = [voice EXCEPT !.control = TRUE] BY <1>3 DEF Bind
  <2>2. voice' \in VoiceState BY <1>0, <2>1, VoiceForms
  <2> QED BY <1>0, <1>3, <2>2 DEF Bind, hostVars
<1>4. ASSUME NEW s \in Session, Install(s) \/ Transcribed(s) PROVE HostTypes'
  BY <1>0, <1>4 DEF Install, Transcribed
<1>5. ASSUME NEW s \in Session, StartFailed(s) \/ EndFailed(s) PROVE HostTypes'
  BY <1>0, <1>5, CancelTypes DEF StartFailed, EndFailed, hostVars
<1>6. ASSUME NEW s \in Session, MarkProcessing(s) PROVE HostTypes'
  <2>1. [voice EXCEPT !.phase = "Processing"] \in VoiceState BY <1>0, VoiceForms DEF VoicePhase
  <2> QED BY <1>0, <1>6, <2>1 DEF MarkProcessing, hostVars
<1>7. ASSUME NEW s \in Session, Resolve(s) PROVE HostTypes'
  <2>1. \A i \in Intent : Coerced(i) \in Intent BY DEF Coerced, Intent
  <2>2. [voice EXCEPT !.phase = "AwaitingIntent"] \in VoiceState
    BY <1>0, VoiceForms DEF VoicePhase
  <2>3. CASE UNCHANGED voice \/ voice' = [voice EXCEPT !.phase = "AwaitingIntent"]
    BY <1>0, <1>7, <2>2, <2>3 DEF Resolve, hostVars
  <2>4. ASSUME NEW i \in Intent, voice' = [voice EXCEPT !.intent = Coerced(i)] PROVE HostTypes'
    <3>1. voice' \in VoiceState BY <1>0, <2>1, <2>4, VoiceForms
    <3> QED BY <1>0, <1>7, <3>1 DEF Resolve, hostVars
  <2> QED BY <1>7, <2>3, <2>4 DEF Resolve
<1>8. ASSUME NEW s \in Session, Confirm(s) PROVE HostTypes'
  <2>1. \A i \in Intent : Coerced(i) \in Intent BY DEF Coerced, Intent
  <2>2. voice' \in VoiceState
    <3>1. PICK i \in Intent : voice' = [voice EXCEPT !.phase = "Processing", !.intent = Coerced(i)]
      BY <1>8 DEF Confirm
    <3>2. "Processing" \in VoicePhase BY DEF VoicePhase
    <3> QED BY <1>0, <2>1, <3>1, <3>2, VoiceForms
  <2> QED BY <1>0, <1>8, <2>2 DEF Confirm, hostVars
<1>9. ASSUME NEW s \in Session, Generated(s) PROVE HostTypes'
  <2>1. [voice EXCEPT !.phase = "Preview", !.preview = {0}, !.source = s] \in VoiceState
    BY <1>0, VoiceForms
  <2> QED BY <1>0, <1>9, <2>1 DEF Generated, SetPreview, hostVars
<1>10. ASSUME NEW s \in Session, ConfirmDirect(s) PROVE HostTypes'
  <2>1. [voice EXCEPT !.phase = "Applying", !.ticket = s] \in VoiceState BY <1>0, VoiceForms
  <2> QED BY <1>0, <1>10, <2>1 DEF ConfirmDirect, BeginApply, hostVars
<1>11. ASSUME NEW s \in Session, DirectApplied(s) PROVE HostTypes'
  BY <1>0, <1>11 DEF DirectApplied
<1>12. ASSUME NEW s \in Session, RecordingFault(s) PROVE HostTypes'
  <2>1. [voice EXCEPT !.phase = "Failed", !.control = FALSE] \in VoiceState BY <1>0, VoiceForms
  <2> QED BY <1>0, <1>12, <2>1 DEF RecordingFault, hostVars
<1>13. ASSUME NEW s \in Session, TearDown(s) PROVE HostTypes'
  BY <1>0, <1>13 DEF TearDown, HostForgets
<1>14. ASSUME NEW i \in Id, Report(i) PROVE HostTypes'
  <2>1. [voice EXCEPT !.ticket = 0, !.phase = "Completed", !.preview = {}] \in VoiceState
    BY <1>0, VoiceForms
  <2>2. [voice EXCEPT !.ticket = 0, !.phase = "Preview"] \in VoiceState BY <1>0, VoiceForms
  <2>3. voice' \in VoiceState BY <1>0, <1>14, <2>1, <2>2 DEF Report
  <2> QED BY <1>0, <1>14, <2>3 DEF Report, hostVars
<1>15. ASSUME UserCancels PROVE HostTypes'
  BY <1>0, <1>15, CancelTypes DEF UserCancels, Numbered, Named, hostVars
<1>16. ASSUME NEW s \in Session,
              \/ HoldResources(s) \/ Opens(s) \/ OpenFails(s) \/ Discarded(s)
              \/ TakeCapture(s) \/ Route(s)
       PROVE  HostTypes'
  BY <1>0, <1>16 DEF HoldResources, Opens, OpenFails, Discarded, TakeCapture, Route, hostVars
<1>17. ASSUME NEW i \in Id, CaptureCloses(i) \/ FindTarget(i) \/ Insert(i) PROVE HostTypes'
  BY <1>0, <1>17 DEF CaptureCloses, FindTarget, Insert, hostVars
<1> QED
  BY <1>1, <1>2, <1>3, <1>4, <1>5, <1>6, <1>7, <1>8, <1>9, <1>10, <1>11, <1>12, <1>13, <1>14,
     <1>15, <1>16, <1>17
  DEF CommandStep, StartStep, EndStep

(* and of the tasks.                                                        *)
LEMMA CommandTasks ==
    ASSUME VoiceTypeOK, Numbered, CommandStep
    PROVE  TaskTypes'
<1> USE DEF TaskTypes, taskVars
<1>0. /\ TaskTypes
      /\ voice \in VoiceState /\ voice.session \in Session \cup {0}
  BY VoiceForms DEF VoiceTypeOK
<1>1. \A s \in Session : \A p \in StartPc : StartAt(s, p) => start' \in [Session -> StartPc]
  BY <1>0 DEF StartAt
<1>2. \A s \in Session : \A p \in EndPc : EndAt(s, p) => end' \in [Session -> EndPc]
  BY <1>0 DEF EndAt
<1>3. ASSUME NEW s \in Session, Begin(s) \/ StartStep(s) PROVE TaskTypes'
  <2>1. CASE StartFailed(s)
    BY <1>0, <1>1, <2>1, CancelTypes DEF StartFailed, StartPc
  <2>2. CASE Begin(s) \/ (StartStep(s) /\ ~StartFailed(s))
    <3>1. UNCHANGED <<teardown, end, apply>>
      BY <2>2 DEF Begin, StartStep, SetTarget, HoldResources, Bind, Opens, OpenFails, Install,
         Discarded, StartClears
    <3>2. \E p \in StartPc : StartAt(s, p)
      BY <2>2 DEF Begin, StartStep, SetTarget, HoldResources, Bind, Opens, OpenFails, Install,
         Discarded, StartClears, StartPc
    <3> QED BY <1>0, <1>1, <3>1, <3>2
  <2> QED BY <1>3, <2>1, <2>2
<1>4. ASSUME NEW s \in Session, MarkProcessing(s) \/ Confirm(s) \/ EndStep(s) PROVE TaskTypes'
  <2>1. UNCHANGED start
    BY <1>4 DEF MarkProcessing, Confirm, EndStep, TakeCapture, Transcribed, Resolve, Route,
       Generated, EndFailed, EndClears, ConfirmDirect, DirectApplied
  <2>2. \E p \in EndPc : EndAt(s, p)
    BY <1>4 DEF MarkProcessing, Confirm, EndStep, TakeCapture, Transcribed, Resolve, Route,
       Generated, EndFailed, EndClears, ConfirmDirect, DirectApplied, EndPc
  <2>3. end' \in [Session -> EndPc] BY <1>2, <2>2
  <2>4. teardown' \in [Session -> {"no", "plain", "control"}]
    <3>1. CASE EndFailed(s) BY <3>1, CancelTypes DEF EndFailed
    <3>2. CASE UNCHANGED teardown BY <1>0, <3>2
    <3> QED
      BY <1>4, <3>1, <3>2
      DEF MarkProcessing, Confirm, EndStep, TakeCapture, Transcribed, Resolve, Route, Generated,
          EndClears, ConfirmDirect, DirectApplied
  <2>5. apply' \in [Id -> Confirmation]
    <3>1. CASE ConfirmDirect(s)
      BY <1>0, <3>1, Numbers DEF ConfirmDirect, BeginApply, Confirmation
    <3>2. CASE DirectApplied(s) BY <1>0, <3>2, Numbers DEF DirectApplied, ApplyAt, Confirmation
    <3>3. CASE UNCHANGED apply BY <1>0, <3>3
    <3> QED
      BY <1>4, <3>1, <3>2, <3>3
      DEF MarkProcessing, Confirm, EndStep, TakeCapture, Transcribed, Resolve, Route, Generated,
          EndFailed, EndClears
  <2> QED BY <2>1, <2>3, <2>4, <2>5, <1>0
<1>5. ASSUME NEW s \in Session, RecordingFault(s) \/ TearDown(s) PROVE TaskTypes'
  BY <1>0, <1>5 DEF RecordingFault, TearDown, Ending
<1>6. ASSUME UserCancels PROVE TaskTypes'
  BY <1>0, <1>6, CancelTypes, Numbers DEF UserCancels, Numbered, Named
<1>7. ASSUME NEW i \in Id, CaptureCloses(i) PROVE TaskTypes'
  BY <1>0, <1>7 DEF CaptureCloses
<1>8. ASSUME NEW i \in Id, FindTarget(i) \/ Insert(i) \/ Report(i) PROVE TaskTypes'
  BY <1>0, <1>8 DEF FindTarget, Insert, Report, ApplyAt, Confirmation
<1> QED
  BY <1>3, <1>4, <1>5, <1>6, <1>7, <1>8 DEF CommandStep

----------------------------------------------------------------------------
(* The parts of QaTypeOK: the panel,                                        *)
PanelTypes ==
    /\ budget \in Budgets
    /\ qa \in Snapshot /\ previous \in Snapshot
    /\ presenter \in {"none", "turn", "close"}
    /\ window \in BOOLEAN
    /\ lastTurn \in 0..MaxTurn

(* and the calls of the turns, the registry and the dismissals.             *)
TurnTypes ==
    /\ turn \in [Turn -> TurnType]
    /\ runtime \in [Turn -> {"none", "live", "gone", "cancelled"}]
    /\ installed \subseteq Turn
    /\ fault \in [Turn -> {"no", "fail", "sweep"}]
    /\ close \in [Close -> CloseType]

(* A turn may be dismissed by its own edit.                                 *)
LEMMA CloseNumbers == Turn \subseteq Close /\ UserClose \subseteq Close
BY BoundsAssumption, QaAssumption DEF Turn, Close, UserClose

(* QaTypeOK by its parts.                                                   *)
LEMMA QaParts ==
    QaTypeOK <=> VoiceTypeOK /\ PanelTypes /\ TurnTypes
BY DEF QaTypeOK, PanelTypes, TurnTypes

(* The new values of the snapshot.                                          *)
LEMMA SnapshotForms ==
    ASSUME NEW q \in Snapshot
    PROVE  /\ \A p \in QaPhase : [q EXCEPT !.phase = p] \in Snapshot
           /\ \A b \in BOOLEAN : [q EXCEPT !.editing = b] \in Snapshot
           /\ \A t \in Turn : [q EXCEPT !.messages = Append(@, <<"user", t>>)] \in Snapshot
           /\ \A t \in Turn : [q EXCEPT !.messages = Append(@, <<"assistant", t>>),
                                        !.phase = "Completed"] \in Snapshot
           /\ \A t \in Turn, p \in QaPhase : NewTurn(t, p, q) \in Snapshot
           /\ [q EXCEPT !.conversation = 0,
                        !.phase = IF @ = "Idle" THEN @ ELSE "Cancelled"] \in Snapshot
           /\ \A b \in BOOLEAN : [q EXCEPT !.phase = "Failed", !.conversation = 0,
                          !.messages = IF b THEN SubSeq(@, 1, Len(@) - 1) ELSE @] \in Snapshot
<1>0. /\ q = [phase |-> q.phase, session |-> q.session, conversation |-> q.conversation,
              editing |-> q.editing, messages |-> q.messages]
      /\ q.phase \in QaPhase /\ q.session \in Turn \cup {0} /\ q.conversation \in Turn \cup {0}
      /\ q.editing \in BOOLEAN /\ q.messages \in Seq({"user", "assistant"} \X Turn)
  BY DEF Snapshot
<1>1. \A p \in QaPhase : [q EXCEPT !.phase = p] \in Snapshot BY DEF Snapshot
<1>2. \A b \in BOOLEAN : [q EXCEPT !.editing = b] \in Snapshot BY DEF Snapshot
<1>3. \A t \in Turn : [q EXCEPT !.messages = Append(@, <<"user", t>>)] \in Snapshot
  <2>1. \A t \in Turn : Append(q.messages, <<"user", t>>) \in Seq({"user", "assistant"} \X Turn)
    BY <1>0
  <2> QED BY <2>1 DEF Snapshot
<1>4. \A t \in Turn : [q EXCEPT !.messages = Append(@, <<"assistant", t>>),
                                !.phase = "Completed"] \in Snapshot
  <2>1. \A t \in Turn :
           Append(q.messages, <<"assistant", t>>) \in Seq({"user", "assistant"} \X Turn)
    BY <1>0
  <2> QED BY <2>1 DEF Snapshot, QaPhase
<1>5. \A t \in Turn, p \in QaPhase : NewTurn(t, p, q) \in Snapshot BY DEF Snapshot, NewTurn
<1>6. [q EXCEPT !.conversation = 0, !.phase = IF @ = "Idle" THEN @ ELSE "Cancelled"] \in Snapshot
  BY DEF Snapshot, QaPhase
<1>7. ASSUME NEW b \in BOOLEAN
      PROVE  [q EXCEPT !.phase = "Failed", !.conversation = 0,
                       !.messages = IF b THEN SubSeq(@, 1, Len(@) - 1) ELSE @] \in Snapshot
  <2>1. SubSeq(q.messages, 1, Len(q.messages) - 1) \in Seq({"user", "assistant"} \X Turn)
    BY <1>0, LenProperties, SubSeqProperties
  <2> QED BY <2>1 DEF Snapshot, QaPhase
<1> QED BY <1>1, <1>2, <1>3, <1>4, <1>5, <1>6, <1>7

LEMMA DefaultTyped == DefaultSnapshot \in Snapshot
BY EmptySeq DEF DefaultSnapshot, Snapshot, QaPhase

(* What fail_if_current, a new turn and a dismissal leave in the panel.     *)
LEMMA FailTyped ==
    ASSUME qa \in Snapshot, NEW t \in Turn, FailIfCurrent(t)
    PROVE  qa' \in Snapshot
BY SnapshotForms DEF FailIfCurrent, LastIsUser

LEMMA ClaimTyped ==
    ASSUME PanelTypes, NEW t \in Turn, NEW p \in QaPhase, NEW from \in Snapshot,
           ClaimTurn(t, p, from), UNCHANGED budget
    PROVE  PanelTypes'
<1>1. NewTurn(t, p, from) \in Snapshot BY SnapshotForms
<1> QED BY <1>1, BoundsAssumption DEF ClaimTurn, PanelTypes, Turn

LEMMA CloseTyped ==
    ASSUME PanelTypes, TurnTypes, NEW c \in Close, NEW b \in BOOLEAN, NEW r \in Turn \cup {0},
           ClaimClose(c, b, r), UNCHANGED <<previous, window, lastTurn, budget>>
    PROVE  PanelTypes' /\ close' \in [Close -> CloseType]
<1>1. qa' \in Snapshot BY SnapshotForms DEF ClaimClose, PanelTypes
<1>2. qa.session \in Turn \cup {0} /\ qa.conversation \in Turn \cup {0}
  BY DEF PanelTypes, Snapshot
<1>3. close' \in [Close -> CloseType]
  BY <1>2 DEF ClaimClose, TurnTypes, CloseType
<1> QED BY <1>1, <1>3 DEF ClaimClose, PanelTypes

(* The steps of the panel keep the types of the panel,                      *)
LEMMA PanelTyped ==
    ASSUME PanelTypes, TurnTypes, PanelStep, UNCHANGED budget
    PROVE  PanelTypes'
<1> USE CloseNumbers
<1>1. ASSUME NEW t \in Turn, BeginRecording(t) PROVE PanelTypes'
  <2>1. PICK from \in Snapshot : ClaimTurn(t, "Recording", from)
    BY <1>1, DefaultTyped DEF BeginRecording, PanelTypes
  <2>2. "Recording" \in QaPhase BY DEF QaPhase
  <2> QED BY <2>1, <2>2, ClaimTyped
<1>2. ASSUME NEW t \in Turn, NEW s \in Session \cup {0}, NEW b \in BOOLEAN, SubmitText(t, s, b)
      PROVE  PanelTypes'
  BY <1>2, ClaimTyped DEF SubmitText, PanelTypes, QaPhase
<1>3. ASSUME NEW t \in Turn, ShowRecording(t) \/ ShowQuestion(t) PROVE PanelTypes'
  BY <1>3, DefaultTyped DEF ShowRecording, ShowQuestion, TakeBack, PanelTypes
<1>4. ASSUME NEW t \in Turn, BeginFails(t) \/ AskFails(t) \/ FaultFails(t) PROVE PanelTypes'
  BY <1>4, FailTyped DEF BeginFails, AskFails, FaultFails, PanelTypes
<1>5. ASSUME NEW t \in Turn, FinishRecording(t) PROVE PanelTypes'
  <2>1. "Thinking" \in QaPhase BY DEF QaPhase
  <2>2. qa' \in Snapshot BY <1>5, <2>1, SnapshotForms DEF FinishRecording, PanelTypes
  <2> QED BY <1>5, <2>2 DEF FinishRecording, PanelTypes
<1>6. ASSUME NEW t \in Turn, PushQuestion(t) \/ SettleAnswer(t) PROVE PanelTypes'
  <2>1. CASE UNCHANGED qa BY <1>6, <2>1 DEF PushQuestion, SettleAnswer, PanelTypes
  <2>2. CASE qa' = [qa EXCEPT !.messages = Append(@, <<"user", t>>)]
    <3>1. qa' \in Snapshot BY <2>2, SnapshotForms DEF PanelTypes
    <3> QED BY <1>6, <3>1 DEF PushQuestion, SettleAnswer, PanelTypes
  <2>3. CASE qa' = [qa EXCEPT !.messages = Append(@, <<"assistant", t>>), !.phase = "Completed"]
    <3>1. qa' \in Snapshot BY <2>3, SnapshotForms DEF PanelTypes
    <3> QED BY <1>6, <3>1 DEF PushQuestion, SettleAnswer, PanelTypes
  <2> QED BY <1>6, <2>1, <2>2, <2>3 DEF PushQuestion, SettleAnswer
<1>7. ASSUME NEW t \in Turn, AppliedEditCloses(t) PROVE PanelTypes'
  BY <1>7, CloseTyped DEF AppliedEditCloses, PanelTypes
<1>8. ASSUME NEW c \in UserClose, UserCloses(c) PROVE PanelTypes'
  <2>1. qa.session \in Turn \cup {0} BY DEF PanelTypes, Snapshot
  <2> QED BY <1>8, <2>1, CloseTyped DEF UserCloses
<1>9. ASSUME NEW c \in Close, CloseStep(c) PROVE PanelTypes'
  BY <1>9, DefaultTyped
  DEF CloseStep, CloseHides, CloseCancelsRuntime, CloseClearsPreview, PanelTypes, panelVars
<1>10. ASSUME Show PROVE PanelTypes' BY <1>10 DEF Show, PanelTypes
<1>11. ASSUME NEW b \in BOOLEAN, SetEditInstructionMode(b) PROVE qa' \in Snapshot
  BY <1>11, SnapshotForms DEF SetEditInstructionMode, PanelTypes
<1>12. ASSUME ToggleEditMode PROVE PanelTypes'
  <2>1. (~qa.editing) \in BOOLEAN OBVIOUS
  <2>2. qa' \in Snapshot BY <1>11, <1>12, <2>1 DEF ToggleEditMode
  <2> QED BY <1>12, <2>2 DEF ToggleEditMode, SetEditInstructionMode, PanelTypes
<1>13. ASSUME NEW s \in Session, RouteSetsMode(s) PROVE PanelTypes'
  BY <1>11, <1>13 DEF RouteSetsMode, PanelTypes
<1>14. ASSUME NEW s \in Session, RouteAsks(s) PROVE PanelTypes'
  BY <1>2, <1>14 DEF RouteAsks, PanelTypes, panelVars
<1>15. ASSUME NEW s \in Session, RouteShows(s) \/ RouteReturns(s) PROVE PanelTypes'
  BY <1>15 DEF RouteShows, RouteReturns, PanelTypes, panelVars, qaVars
<1>16. ASSUME NEW t \in Turn,
              \/ Register(t) \/ SelectionCaptured(t) \/ QaOpens(t) \/ QaInstalls(t)
              \/ Arm(t) \/ QaDiscarded(t) \/ BeginSweeps(t)
              \/ FaultStarts(t) \/ FaultSweeps(t)
       PROVE PanelTypes'
  BY <1>16 DEF Register, SelectionCaptured, QaOpens, QaInstalls, Arm, QaDiscarded, BeginSweeps,
     FaultStarts, FaultSweeps, PanelTypes, panelVars
<1>17. ASSUME NEW t \in Turn,
              \/ StopMicrophone(t) \/ QuestionHeard(t) \/ Prepare(t) \/ ContextCaptured(t)
              \/ CheckCurrent(t) \/ Answered(t) \/ EditPreview(t) \/ Revised(t)
              \/ EditGenerated(t) \/ BindTarget(t) \/ CompleteRuntime(t) \/ AskSweeps(t)
              \/ AskClears(t) \/ AskReleases(t) \/ ConfirmEdit(t) \/ EditApplied(t)
       PROVE PanelTypes'
  BY <1>17 DEF StopMicrophone, QuestionHeard, Prepare, ContextCaptured, CheckCurrent, Answered,
     EditPreview, Revised, EditGenerated, BindTarget, CompleteRuntime, AskSweeps, AskClears,
     AskReleases, ConfirmEdit, EditApplied, PanelTypes, panelVars, qaVars
<1> QED
  BY <1>1, <1>2, <1>3, <1>4, <1>5, <1>6, <1>7, <1>8, <1>9, <1>10, <1>12, <1>13, <1>14, <1>15,
     <1>16, <1>17
  DEF PanelStep, BeginStep, FaultStep, AskStep, RouteStep, TypeQuestion

----------------------------------------------------------------------------
(* The new values of a turn.                                                *)
LEMMA RecordForms ==
    ASSUME NEW r \in TurnType
    PROVE  /\ \A p \in AskPc, s \in Session \cup {0}, b \in BOOLEAN :
                  [r EXCEPT !.ask = p, !.session = s, !.created = b] \in TurnType
           /\ \A p \in AskPc, o \in Turn \cup {0}, b \in BOOLEAN :
                  [r EXCEPT !.ask = p, !.owner = o, !.editing = b] \in TurnType
           /\ \A p \in AskPc : [r EXCEPT !.ask = p, !.ok = TRUE] \in TurnType
           /\ \A p \in AskPc, s \in Session \cup {0}, b \in BOOLEAN :
                  [r EXCEPT !.ask = p, !.command = s, !.prebound = b] \in TurnType
           /\ [NoTurn EXCEPT !.begin = r.begin, !.ask = "done",
                 !.ok = r.ok /\ r.command # 0, !.command = r.command] \in TurnType
<1>1. \A p \in AskPc, s \in Session \cup {0}, b \in BOOLEAN :
        [r EXCEPT !.ask = p, !.session = s, !.created = b] \in TurnType
  BY DEF TurnType
<1>2. \A p \in AskPc, o \in Turn \cup {0}, b \in BOOLEAN :
        [r EXCEPT !.ask = p, !.owner = o, !.editing = b] \in TurnType
  BY DEF TurnType
<1>3. \A p \in AskPc : [r EXCEPT !.ask = p, !.ok = TRUE] \in TurnType BY DEF TurnType
<1>4. \A p \in AskPc, s \in Session \cup {0}, b \in BOOLEAN :
        [r EXCEPT !.ask = p, !.command = s, !.prebound = b] \in TurnType
  BY DEF TurnType
<1>5. [NoTurn EXCEPT !.begin = r.begin, !.ask = "done",
         !.ok = r.ok /\ r.command # 0, !.command = r.command] \in TurnType
  <2>1. r.begin \in BeginPc /\ r.command \in Session \cup {0} BY DEF TurnType
  <2>2. "done" \in AskPc BY DEF AskPc
  <2> QED BY <2>1, <2>2 DEF TurnType, NoTurn
<1> QED BY <1>1, <1>2, <1>3, <1>4, <1>5

LEMMA TurnForms ==
    ASSUME TurnTypes, NEW t \in Turn
    PROVE  /\ turn[t] \in TurnType
           /\ \A p \in BeginPc : BeginAt(t, p) => turn' \in [Turn -> TurnType]
           /\ \A p \in AskPc : AskAt(t, p) => turn' \in [Turn -> TurnType]
           /\ \A r \in TurnType : turn' = [turn EXCEPT ![t] = r] => turn' \in [Turn -> TurnType]
<1>1. turn \in [Turn -> TurnType] BY DEF TurnTypes
<1>2. ASSUME NEW p \in BeginPc, BeginAt(t, p) PROVE turn' \in [Turn -> TurnType]
  BY <1>1, <1>2 DEF TurnType, BeginAt
<1>3. ASSUME NEW p \in AskPc, AskAt(t, p) PROVE turn' \in [Turn -> TurnType]
  BY <1>1, <1>3 DEF TurnType, AskAt
<1> QED BY <1>1, <1>2, <1>3

LEMMA EditsTyped ==
    ASSUME TurnTypes, NEW t \in Turn, NEW p \in AskPc, NEW s \in Session \cup {0},
           NEW b \in BOOLEAN, EditsWith(t, p, s, b)
    PROVE  turn' \in [Turn -> TurnType]
<1>1. turn' = [turn EXCEPT ![t] = [turn[t] EXCEPT !.ask = p, !.session = s, !.created = b]]
  BY DEF EditsWith
<1> QED BY <1>1, TurnForms, RecordForms

(* Where a call of a turn goes next.                                        *)
LEMMA BeginMoves ==
    ASSUME NEW t \in Turn, BeginStep(t)
    PROVE  \E p \in BeginPc \ {"idle"} : BeginAt(t, p)
BY DEF BeginStep, ShowRecording, Register, SelectionCaptured, QaOpens, QaInstalls, Arm, QaDiscarded, BeginFails, BeginSweeps, BeginPc

Plain(t) ==
    \/ StopMicrophone(t) \/ QuestionHeard(t) \/ ShowQuestion(t) \/ Prepare(t)
    \/ ContextCaptured(t) \/ CheckCurrent(t) \/ Answered(t) \/ EditGenerated(t)
    \/ BindTarget(t) \/ CompleteRuntime(t) \/ AskFails(t) \/ AskSweeps(t) \/ AskClears(t)
LEMMA AskMoves ==
    ASSUME NEW t \in Turn, Plain(t)
    PROVE  \E p \in AskPc \ {"idle"} : AskAt(t, p)
BY DEF Plain, StopMicrophone, QuestionHeard, ShowQuestion, Prepare, ContextCaptured, CheckCurrent,
   Answered, EditGenerated, BindTarget, CompleteRuntime, AskFails, AskSweeps, AskClears, AskPc,
   AfterCancel

(* of the calls,                                                            *)
LEMMA TurnTyped ==
    ASSUME PanelTypes, TurnTypes, VoiceTypeOK, PanelStep
    PROVE  turn' \in [Turn -> TurnType]
<1> USE DEF TurnTypes
<1>1. ASSUME NEW t \in Turn, BeginRecording(t) \/ BeginStep(t) PROVE turn' \in [Turn -> TurnType]
  <2>1. \E p \in BeginPc : BeginAt(t, p) BY <1>1, BeginMoves DEF BeginRecording, BeginPc
  <2> QED BY <2>1, TurnForms
<1>2. ASSUME NEW t \in Turn, FinishRecording(t) \/ Plain(t) PROVE turn' \in [Turn -> TurnType]
  <2>1. \E p \in AskPc : AskAt(t, p) BY <1>2, AskMoves DEF FinishRecording, AskPc
  <2> QED BY <2>1, TurnForms
<1>3. ASSUME NEW t \in Turn, NEW s \in Session \cup {0}, NEW b \in BOOLEAN, SubmitText(t, s, b)
      PROVE  turn' \in [Turn -> TurnType]
  <2>1. turn' = [turn EXCEPT ![t] = [turn[t] EXCEPT !.ask = "show", !.command = s, !.prebound = b]]
    BY <1>3 DEF SubmitText
  <2>2. "show" \in AskPc BY DEF AskPc
  <2> QED BY <2>1, <2>2, TurnForms, RecordForms
<1>4. ASSUME NEW t \in Turn, PushQuestion(t) PROVE turn' \in [Turn -> TurnType]
  <2>1. CASE AskAt(t, "release") BY <2>1, TurnForms DEF AskPc
  <2>2. CASE ~AskAt(t, "release")
    <3>1. qa.conversation \in Turn \cup {0} /\ qa.editing \in BOOLEAN BY DEF PanelTypes, Snapshot
    <3>2. (IF qa.editing THEN "edit" ELSE "answer") \in AskPc BY DEF AskPc
    <3>3. turn' = [turn EXCEPT ![t] =
                     [turn[t] EXCEPT !.ask = IF qa.editing THEN "edit" ELSE "answer",
                                     !.owner = qa.conversation, !.editing = qa.editing]]
      BY <1>4, <2>2 DEF PushQuestion
    <3> QED BY <3>1, <3>2, <3>3, TurnForms, RecordForms
  <2> QED BY <2>1, <2>2
<1>5. ASSUME NEW t \in Turn, EditPreview(t) PROVE turn' \in [Turn -> TurnType]
  <2>1. CASE AskAt(t, "fail") BY <2>1, TurnForms DEF AskPc
  <2>2. CASE \E b \in BOOLEAN : EditsWith(t, "revise", voice.session, b) \/ EditsWith(t, "generate", voice.session, b)
    <3>1. voice.session \in Session \cup {0} BY VoiceForms DEF VoiceTypeOK
    <3> QED BY <2>2, <3>1, EditsTyped DEF AskPc
  <2>3. CASE SessionLeft /\ EditsWith(t, "generate", NextSession, TRUE)
    <3>1. voice.session \in Session \cup {0} BY VoiceForms DEF VoiceTypeOK
    <3>2. budget.sessions \in 0..MaxSession BY QaAssumption DEF PanelTypes
    <3>3. NextSession \in Session BY <2>3, <3>1, <3>2 , BoundsAssumption DEF NextSession, SessionLeft, Session
    <3> QED BY <2>3, <3>3, EditsTyped DEF AskPc
  <2> QED BY <1>5, <2>1, <2>2, <2>3 DEF EditPreview
<1>6. ASSUME NEW t \in Turn, Revised(t) PROVE turn' \in [Turn -> TurnType]
  <2>1. voice.session \in Session \cup {0} BY VoiceForms DEF VoiceTypeOK
  <2> QED BY <1>6, <2>1, TurnForms, EditsTyped DEF Revised, AskPc
<1>7. ASSUME NEW t \in Turn, SettleAnswer(t) PROVE turn' \in [Turn -> TurnType]
  <2>1. CASE AskAt(t, "release") BY <2>1, TurnForms DEF AskPc
  <2>2. CASE ~AskAt(t, "release")
    <3>1. turn' = [turn EXCEPT ![t] = [turn[t] EXCEPT !.ask = "release", !.ok = TRUE]]
      BY <1>7, <2>2 DEF SettleAnswer
    <3>2. "release" \in AskPc BY DEF AskPc
    <3> QED BY <3>1, <3>2, TurnForms, RecordForms
  <2> QED BY <2>1, <2>2
<1>8. ASSUME NEW t \in Turn, AskReleases(t) PROVE turn' \in [Turn -> TurnType]
  BY <1>8, TurnForms, RecordForms DEF AskReleases
<1>9. ASSUME UNCHANGED turn PROVE turn' \in [Turn -> TurnType] BY <1>9
<1>10. ASSUME NEW s \in Session, RouteStep(s) PROVE turn' \in [Turn -> TurnType]
  BY <1>3, <1>9, <1>10 DEF RouteStep, RouteShows, RouteSetsMode, RouteAsks, RouteReturns, qaVars
<1>11. ASSUME NEW t \in Turn, FaultStep(t) \/ ConfirmEdit(t) \/ EditApplied(t) \/ AppliedEditCloses(t)
       PROVE turn' \in [Turn -> TurnType]
  BY <1>9, <1>11 DEF FaultStep, FaultStarts, FaultFails, FaultSweeps, ConfirmEdit, EditApplied, AppliedEditCloses, qaVars
<1>12. ASSUME NEW c \in Close, UserCloses(c) \/ CloseStep(c) PROVE turn' \in [Turn -> TurnType]
  BY <1>9, <1>12 DEF UserCloses, CloseStep, CloseHides, CloseCancelsRuntime, CloseClearsPreview
<1>13. ASSUME Show \/ ToggleEditMode PROVE turn' \in [Turn -> TurnType]
  BY <1>9, <1>13 DEF Show, ToggleEditMode
<1>14. ASSUME NEW t \in Turn, AskStep(t) PROVE turn' \in [Turn -> TurnType]
  BY <1>2, <1>4, <1>5, <1>6, <1>7, <1>8, <1>14 DEF AskStep, Plain
<1>15. ASSUME NEW t \in Turn, TypeQuestion(t) PROVE turn' \in [Turn -> TurnType]
  BY <1>3, <1>15 DEF TypeQuestion
<1> QED
  BY <1>1, <1>2, <1>10, <1>11, <1>12, <1>13, <1>14, <1>15, CloseNumbers
  DEF PanelStep

----------------------------------------------------------------------------
Runtime == {"none", "live", "gone", "cancelled"}

LEMMA RegistryForms ==
    ASSUME TurnTypes, NEW t \in Turn
    PROVE  /\ Unregistered(t, "gone") \in [Turn -> Runtime]
           /\ Unregistered(t, "cancelled") \in [Turn -> Runtime]
           /\ [runtime EXCEPT ![t] = "live"] \in [Turn -> Runtime]
           /\ installed \ {t} \subseteq Turn /\ installed \cup {t} \subseteq Turn
BY DEF TurnTypes, Unregistered, Runtime

(* of the registry,                                                         *)
LEMMA RegistryTyped ==
    ASSUME TurnTypes, PanelTypes, PanelStep
    PROVE  runtime' \in [Turn -> Runtime] /\ installed' \subseteq Turn
<1> DEFINE Goal == runtime' \in [Turn -> Runtime] /\ installed' \subseteq Turn
<1> USE DEF TurnTypes
<1>1. ASSUME UNCHANGED <<runtime, installed>> PROVE Goal BY <1>1 DEF Runtime
<1>2. ASSUME NEW t \in Turn, runtime' = Unregistered(t, "gone"), UNCHANGED installed PROVE Goal
  BY <1>2, RegistryForms
<1>3. ASSUME NEW t \in Turn, RuntimeCancel(t) PROVE Goal
  BY <1>3, RegistryForms DEF RuntimeCancel
<1> HIDE DEF Goal, TurnTypes
<1>4. ASSUME NEW t \in Turn, BeginStep(t) PROVE Goal
  <2>1. CASE Register(t) BY <2>1, RegistryForms DEF Register, Goal, TurnTypes
  <2>2. CASE QaInstalls(t) BY <2>2, RegistryForms, <1>1 DEF QaInstalls, Goal, TurnTypes, Runtime
  <2>3. CASE ~Register(t) /\ ~QaInstalls(t)
    <3>1. \/ UNCHANGED <<runtime, installed>> \/ RuntimeCancel(t)
          \/ runtime' = Unregistered(t, "gone") /\ UNCHANGED installed
      BY <1>4, <2>3 DEF BeginStep, ShowRecording, SelectionCaptured, QaOpens, Arm, QaDiscarded,
         BeginFails, BeginSweeps, registry
    <3> QED BY <3>1, <1>1, <1>2, <1>3
  <2> QED BY <2>1, <2>2, <2>3
<1>5. ASSUME NEW t \in Turn, AskStep(t) PROVE Goal
  <2>1. CASE Prepare(t) BY <2>1, RegistryForms DEF Prepare, Goal, TurnTypes
  <2>2. CASE CompleteRuntime(t) BY <2>2, RegistryForms DEF CompleteRuntime, Goal
  <2>3. CASE ~Prepare(t) /\ ~CompleteRuntime(t)
    <3>1. UNCHANGED <<runtime, installed>> \/ RuntimeCancel(t)
      BY <1>5, <2>3 DEF AskStep, StopMicrophone, QuestionHeard, ShowQuestion, ContextCaptured,
         CheckCurrent, PushQuestion, Answered, EditPreview, Revised, EditGenerated, BindTarget,
         SettleAnswer, AskFails, AskSweeps, AskClears, AskReleases, registry
    <3> QED BY <3>1, <1>1, <1>3
  <2> QED BY <2>1, <2>2, <2>3
<1>6. ASSUME NEW t \in Turn,
             \/ BeginRecording(t) \/ FaultStep(t) \/ FinishRecording(t) \/ TypeQuestion(t)
             \/ ConfirmEdit(t) \/ EditApplied(t) \/ AppliedEditCloses(t)
      PROVE  Goal
  <2>1. UNCHANGED <<runtime, installed>> \/ RuntimeCancel(t)
    BY <1>6 DEF BeginRecording, FaultStep, FaultStarts, FaultFails, FaultSweeps, FinishRecording,
       TypeQuestion, ConfirmEdit, EditApplied, AppliedEditCloses, registry, qaVars
  <2> QED BY <2>1, <1>1, <1>3
<1>7. ASSUME NEW c \in Close, UserCloses(c) \/ CloseHides(c) \/ CloseClearsPreview(c) PROVE Goal
  BY <1>7, <1>1 DEF UserCloses, CloseHides, CloseClearsPreview, registry
<1>8. ASSUME NEW c \in Close, CloseCancelsRuntime(c) PROVE Goal
  <2>1. close[c].runtime \in Turn \cup {0} BY DEF TurnTypes, CloseType
  <2> QED BY <1>8, <2>1, <1>1, <1>3 DEF CloseCancelsRuntime, registry
<1>9. ASSUME Show \/ ToggleEditMode PROVE Goal BY <1>9, <1>1 DEF Show, ToggleEditMode, registry
<1>10. ASSUME NEW s \in Session, RouteStep(s) PROVE Goal
  BY <1>10, <1>1 DEF RouteStep, RouteShows, RouteSetsMode, RouteAsks, RouteReturns, registry, qaVars
<1>11. Goal
  BY <1>4, <1>5, <1>6, <1>7, <1>8, <1>9, <1>10, CloseNumbers DEF PanelStep, CloseStep
<1> QED BY <1>11 DEF Goal

(* of the faults,                                                           *)
LEMMA FaultTyped ==
    ASSUME TurnTypes, PanelStep
    PROVE  fault' \in [Turn -> {"no", "fail", "sweep"}]
<1> DEFINE Goal == fault' \in [Turn -> {"no", "fail", "sweep"}]
<1>1. ASSUME UNCHANGED fault PROVE Goal BY <1>1 DEF TurnTypes
<1>2. ASSUME NEW t \in Turn, FaultStep(t) PROVE Goal
  BY <1>2 DEF TurnTypes, FaultStep, FaultStarts, FaultFails, FaultSweeps
<1> HIDE DEF Goal
<1>3. ASSUME NEW t \in Turn, BeginStep(t) PROVE Goal
  BY <1>1, <1>3 DEF BeginStep, ShowRecording, Register, SelectionCaptured, QaOpens, QaInstalls, Arm,
     QaDiscarded, BeginFails, BeginSweeps
<1>4. ASSUME NEW t \in Turn, AskStep(t) PROVE Goal
  BY <1>1, <1>4 DEF AskStep, StopMicrophone, QuestionHeard, ShowQuestion, Prepare, ContextCaptured,
     CheckCurrent, PushQuestion, Answered, EditPreview, Revised, EditGenerated, BindTarget,
     CompleteRuntime, SettleAnswer, AskFails, AskSweeps, AskClears, AskReleases
<1>5. ASSUME NEW t \in Turn,
             \/ BeginRecording(t) \/ FinishRecording(t) \/ TypeQuestion(t)
             \/ ConfirmEdit(t) \/ EditApplied(t) \/ AppliedEditCloses(t)
      PROVE  Goal
  BY <1>1, <1>5 DEF BeginRecording, FinishRecording, TypeQuestion, ConfirmEdit, EditApplied,
     AppliedEditCloses, qaVars
<1>6. ASSUME NEW c \in Close, UserCloses(c) \/ CloseStep(c) PROVE Goal
  BY <1>1, <1>6 DEF UserCloses, CloseStep, CloseHides, CloseCancelsRuntime, CloseClearsPreview
<1>7. ASSUME Show \/ ToggleEditMode PROVE Goal BY <1>1, <1>7 DEF Show, ToggleEditMode
<1>8. ASSUME NEW s \in Session, RouteStep(s) PROVE Goal
  BY <1>1, <1>8 DEF RouteStep, RouteShows, RouteSetsMode, RouteAsks, RouteReturns, qaVars
<1>9. Goal
  BY <1>2, <1>3, <1>4, <1>5, <1>6, <1>7, <1>8, CloseNumbers DEF PanelStep
<1> QED BY <1>9 DEF Goal

(* of the dismissals,                                                       *)
LEMMA ClosesTyped ==
    ASSUME TurnTypes, PanelTypes, PanelStep
    PROVE  close' \in [Close -> CloseType]
<1> DEFINE Goal == close' \in [Close -> CloseType]
<1>1. ASSUME UNCHANGED close PROVE Goal BY <1>1 DEF TurnTypes
<1>2. ASSUME NEW c \in Close, NEW b \in BOOLEAN, NEW r \in Turn \cup {0}, ClaimClose(c, b, r) PROVE Goal
  <2>1. qa.session \in Turn \cup {0} /\ qa.conversation \in Turn \cup {0}
    BY DEF PanelTypes, Snapshot
  <2> DEFINE r0 == IF r # 0 THEN r ELSE IF QaActive THEN qa.session ELSE 0
             m == [pc |-> "present", clear |-> b, owner |-> qa.conversation,
                   runtime |-> IF QaActive THEN qa.session ELSE 0, release |-> r0]
  <2>2. m \in CloseType BY <2>1 DEF CloseType
  <2>3. close' = [close EXCEPT ![c] = m] BY <1>2 DEF ClaimClose
  <2> HIDE DEF m
  <2> QED BY <2>2, <2>3 DEF TurnTypes
<1>3. ASSUME NEW c \in Close, CloseStep(c) PROVE Goal
  <2>1. CASE CloseHides(c) BY SMTT(30), <2>1 DEF CloseHides, TurnTypes, CloseType
  <2>2. CASE CloseCancelsRuntime(c)
    BY <2>2 DEF CloseCancelsRuntime, AfterCancel, TurnTypes, CloseType
  <2>3. CASE CloseClearsPreview(c)
    <3>1. [NoClose EXCEPT !.pc = "done"] \in CloseType BY DEF NoClose, CloseType
    <3> QED BY <2>3, <3>1 DEF CloseClearsPreview, TurnTypes
  <2> QED BY <1>3, <2>1, <2>2, <2>3 DEF CloseStep
<1>4. ASSUME NEW t \in Turn, EditApplied(t) PROVE Goal
  BY <1>4, CloseNumbers DEF EditApplied, TurnTypes, CloseType
<1>5. ASSUME NEW t \in Turn, AppliedEditCloses(t) PROVE Goal
  <2>1. CASE ClaimClose(t, TRUE, t) BY <1>2, <2>1, CloseNumbers
  <2>2. CASE ~ClaimClose(t, TRUE, t)
    <3>1. close' = [close EXCEPT ![t].pc = "done"] BY <1>5, <2>2 DEF AppliedEditCloses
    <3>2. t \in Close BY CloseNumbers
    <3> QED BY <3>1, <3>2 DEF TurnTypes, CloseType
  <2> QED BY <2>1, <2>2
<1>6. ASSUME NEW c \in UserClose, UserCloses(c) PROVE Goal
  <2>1. qa.session \in Turn \cup {0} BY DEF PanelTypes, Snapshot
  <2>2. \E b \in BOOLEAN, r \in Turn \cup {0} : ClaimClose(c, b, r)
    BY <1>6, <2>1 DEF UserCloses
  <2> QED BY <1>2, <2>2, CloseNumbers
<1> HIDE DEF Goal
<1>7. ASSUME NEW t \in Turn, BeginStep(t) PROVE Goal
  BY <1>1, <1>7 DEF BeginStep, ShowRecording, Register, SelectionCaptured, QaOpens, QaInstalls, Arm,
     QaDiscarded, BeginFails, BeginSweeps
<1>8. ASSUME NEW t \in Turn, AskStep(t) PROVE Goal
  BY <1>1, <1>8 DEF AskStep, StopMicrophone, QuestionHeard, ShowQuestion, Prepare, ContextCaptured,
     CheckCurrent, PushQuestion, Answered, EditPreview, Revised, EditGenerated, BindTarget,
     CompleteRuntime, SettleAnswer, AskFails, AskSweeps, AskClears, AskReleases
<1>9. ASSUME NEW t \in Turn,
             BeginRecording(t) \/ FaultStep(t) \/ FinishRecording(t) \/ TypeQuestion(t) \/ ConfirmEdit(t)
      PROVE  Goal
  BY <1>1, <1>9 DEF BeginRecording, FaultStep, FaultStarts, FaultFails, FaultSweeps, FinishRecording,
     TypeQuestion, ConfirmEdit, qaVars
<1>10. ASSUME Show \/ ToggleEditMode PROVE Goal BY <1>1, <1>10 DEF Show, ToggleEditMode
<1>11. ASSUME NEW s \in Session, RouteStep(s) PROVE Goal
  BY <1>1, <1>11 DEF RouteStep, RouteShows, RouteSetsMode, RouteAsks, RouteReturns, qaVars
<1>12. Goal
  BY <1>3, <1>4, <1>5, <1>6, <1>7, <1>8, <1>9, <1>10, <1>11, CloseNumbers DEF PanelStep
<1> QED BY <1>12 DEF Goal

----------------------------------------------------------------------------
(* and of the microphone; so do they with what the commands own.            *)
LEMMA PanelCapture ==
    ASSUME VoiceTypeOK, TurnTypes, PanelTypes, Numbered, PanelStep
    PROVE  CaptureTypeOK'
<1> USE Numbers
<1>0. CaptureTypeOK BY DEF VoiceTypeOK
<1>1. ASSUME NEW t \in Turn, RuntimeCancel(t), UNCHANGED lease, revoked' = revoked \/ revoked' = Revoke(t)
      PROVE  CaptureTypeOK'
  BY <1>0, <1>1, CaptureTyped DEF RuntimeCancel
<1>2. ASSUME NEW t \in Turn, BeginRecording(t) PROVE CaptureTypeOK'
  BY <1>0, <1>2, CaptureTyped DEF BeginRecording, Acquire
<1>3. ASSUME NEW t \in Turn, ShowRecording(t) \/ FaultFails(t) \/ AskReleases(t) PROVE CaptureTypeOK'
  BY <1>0, <1>3, CaptureTyped DEF ShowRecording, FaultFails, AskReleases
<1>4. ASSUME NEW t \in Turn, SelectionCaptured(t) \/ QaOpens(t) \/ QaInstalls(t) PROVE CaptureTypeOK'
  BY <1>0, <1>4, CaptureTyped DEF SelectionCaptured, QaOpens, QaInstalls, StartSucceeds, StartFails,
     MicState
<1>5. ASSUME NEW t \in Turn, BeginSweeps(t) \/ FaultSweeps(t) \/ AskSweeps(t) PROVE CaptureTypeOK'
  BY <1>1, <1>5 DEF BeginSweeps, FaultSweeps, AskSweeps
<1>6. ASSUME NEW t \in Turn, StopMicrophone(t) \/ QuestionHeard(t) PROVE CaptureTypeOK'
  BY <1>0, <1>6, CaptureTyped DEF StopMicrophone, QuestionHeard, BeginFinish, Settle, MicState
<1>7. ASSUME NEW t \in Turn, ContextCaptured(t) PROVE CaptureTypeOK'
  BY <1>0, <1>1, <1>7, CaptureFrame DEF ContextCaptured, captureVars
<1>8. ASSUME NEW t \in Turn, EditGenerated(t) PROVE CaptureTypeOK'
  <2>1. CASE UNCHANGED revoked
    BY <1>0, <1>8, <2>1, CaptureFrame DEF EditGenerated, captureVars
  <2>2. CASE ~UNCHANGED revoked
    <3>1. SetPreview(turn[t].session, turn[t].owner) BY <1>8, <2>2 DEF EditGenerated
    <3>2. voice.session \in Session
      BY <3>1, VoiceForms DEF VoiceTypeOK, SetPreview, Current, Numbered, Named
    <3> QED BY <1>0, <1>8, <3>1, <3>2, CaptureTyped DEF EditGenerated, SetPreview, Current
  <2> QED BY <2>1, <2>2
<1>9. ASSUME NEW c \in Close, CloseHides(c) PROVE CaptureTypeOK'
  <2>1. close[c].release \in Turn \cup {0} BY DEF TurnTypes, CloseType
  <2>2. CASE close[c].release = 0
    BY <1>0, <1>9, <2>2, CaptureFrame DEF CloseHides, captureVars
  <2>3. CASE close[c].release # 0
    BY <1>0, <1>9, <2>1, <2>3, CaptureTyped DEF CloseHides
  <2> QED BY <2>2, <2>3
<1>10. ASSUME NEW c \in Close, CloseCancelsRuntime(c) PROVE CaptureTypeOK'
  <2>1. close[c].runtime \in Turn \cup {0} BY DEF TurnTypes, CloseType
  <2>2. CASE close[c].runtime = 0
    BY <1>0, <1>10, <2>2, CaptureFrame DEF CloseCancelsRuntime, captureVars
  <2>3. CASE close[c].runtime # 0
    BY <1>1, <1>10, <2>1, <2>3 DEF CloseCancelsRuntime
  <2> QED BY <2>2, <2>3
<1>11. ASSUME NEW s \in Session, RouteReturns(s) PROVE CaptureTypeOK'
  <2>1. CASE UNCHANGED revoked
    BY <1>0, <1>11, <2>1, CaptureFrame DEF RouteReturns, captureVars
  <2>2. CASE revoked' = Revoke(s)
    BY <1>0, <1>11, <2>2, CaptureTyped DEF RouteReturns
  <2> QED BY <1>11, <2>1, <2>2 DEF RouteReturns, CompleteVoice
<1>12. ASSUME NEW t \in Turn,
              \/ Register(t) \/ Arm(t) \/ QaDiscarded(t) \/ BeginFails(t) \/ FaultStarts(t)
              \/ FinishRecording(t) \/ TypeQuestion(t) \/ ShowQuestion(t) \/ Prepare(t)
              \/ CheckCurrent(t) \/ PushQuestion(t) \/ Answered(t) \/ Revised(t)
              \/ CompleteRuntime(t) \/ SettleAnswer(t) \/ AskFails(t) \/ AppliedEditCloses(t)
              \/ EditPreview(t) \/ BindTarget(t) \/ AskClears(t) \/ ConfirmEdit(t) \/ EditApplied(t)
       PROVE  CaptureTypeOK'
  BY <1>0, <1>12, CaptureFrame
  DEF Register, Arm, QaDiscarded, BeginFails, FaultStarts, FinishRecording, TypeQuestion,
      ShowQuestion, Prepare, CheckCurrent, PushQuestion, Answered, Revised, CompleteRuntime,
      SettleAnswer, AskFails, AppliedEditCloses, EditPreview, BindTarget, AskClears, ConfirmEdit,
      EditApplied, voiceVars
<1>13. ASSUME NEW c \in Close, UserCloses(c) \/ CloseClearsPreview(c) PROVE CaptureTypeOK'
  BY <1>0, <1>13, CaptureFrame DEF UserCloses, CloseClearsPreview, voiceVars
<1>14. ASSUME Show \/ ToggleEditMode PROVE CaptureTypeOK'
  BY <1>0, <1>14, CaptureFrame DEF Show, ToggleEditMode, voiceVars
<1>15. ASSUME NEW s \in Session, RouteShows(s) \/ RouteSetsMode(s) \/ RouteAsks(s) PROVE CaptureTypeOK'
  BY <1>0, <1>15, CaptureFrame DEF RouteShows, RouteSetsMode, RouteAsks
<1>16. ASSUME NEW t \in Turn, AskStep(t) \/ BeginStep(t) \/ FaultStep(t) PROVE CaptureTypeOK'
  BY <1>3, <1>4, <1>5, <1>6, <1>7, <1>8, <1>12, <1>16 DEF AskStep, BeginStep, FaultStep
<1> QED
  BY <1>2, <1>9, <1>10, <1>11, <1>12, <1>13, <1>14, <1>15, <1>16, CloseNumbers
  DEF PanelStep, CloseStep, RouteStep

(* The panel steps that leave the commands alone.                           *)
LEMMA PanelCommandFrame ==
    /\ \A t \in Turn : BeginRecording(t) => UNCHANGED commandVars
    /\ \A t \in Turn : BeginStep(t) => UNCHANGED commandVars
    /\ \A t \in Turn : FaultStep(t) => UNCHANGED commandVars
    /\ \A t \in Turn : FinishRecording(t) \/ TypeQuestion(t) \/ AppliedEditCloses(t) => UNCHANGED commandVars
    /\ \A t \in Turn :
          \/ StopMicrophone(t) \/ QuestionHeard(t) \/ ShowQuestion(t) \/ Prepare(t)
          \/ ContextCaptured(t) \/ CheckCurrent(t) \/ PushQuestion(t) \/ Answered(t)
          \/ Revised(t) \/ CompleteRuntime(t) \/ SettleAnswer(t) \/ AskFails(t) \/ AskSweeps(t)
          \/ AskReleases(t)
          => UNCHANGED commandVars
    /\ \A c \in Close : UserCloses(c) \/ CloseHides(c) \/ CloseCancelsRuntime(c) => UNCHANGED commandVars
    /\ Show \/ ToggleEditMode => UNCHANGED commandVars
<1> USE DEF voiceVars, commandVars
<1>1. \A t \in Turn : BeginRecording(t) => UNCHANGED commandVars BY DEF BeginRecording
<1>2. \A t \in Turn : BeginStep(t) => UNCHANGED commandVars
  BY DEF BeginStep, ShowRecording, Register, SelectionCaptured, QaOpens, QaInstalls, Arm, QaDiscarded,
     BeginFails, BeginSweeps
<1>3. \A t \in Turn : FaultStep(t) => UNCHANGED commandVars
  BY DEF FaultStep, FaultStarts, FaultFails, FaultSweeps
<1>4. \A t \in Turn : FinishRecording(t) \/ TypeQuestion(t) \/ AppliedEditCloses(t) => UNCHANGED commandVars
  BY DEF FinishRecording, TypeQuestion, AppliedEditCloses
<1>5. \A t \in Turn :
          \/ StopMicrophone(t) \/ QuestionHeard(t) \/ ShowQuestion(t) \/ Prepare(t)
          \/ ContextCaptured(t) \/ CheckCurrent(t) \/ PushQuestion(t) \/ Answered(t)
          \/ Revised(t) \/ CompleteRuntime(t) \/ SettleAnswer(t) \/ AskFails(t) \/ AskSweeps(t)
          \/ AskReleases(t)
          => UNCHANGED commandVars
  BY DEF StopMicrophone, QuestionHeard, ShowQuestion, Prepare, ContextCaptured, CheckCurrent,
     PushQuestion, Answered, Revised, CompleteRuntime, SettleAnswer, AskFails, AskSweeps, AskReleases
<1>6. \A c \in Close : UserCloses(c) \/ CloseHides(c) \/ CloseCancelsRuntime(c) => UNCHANGED commandVars
  BY DEF UserCloses, CloseHides, CloseCancelsRuntime
<1>7. Show \/ ToggleEditMode => UNCHANGED commandVars BY DEF Show, ToggleEditMode
<1> QED BY <1>1, <1>2, <1>3, <1>4, <1>5, <1>6, <1>7

LEMMA ClearTyped ==
    ASSUME VoiceTypeOK, NEW o \in Turn \cup {0}, Numbered, ClearPreview(o)
    PROVE  voice' \in VoiceState /\ teardown' \in [Session -> {"no", "plain", "control"}]
<1>1. voice.session \in Session \cup {0} BY VoiceForms DEF VoiceTypeOK
<1> QED BY <1>1, CancelTypes DEF ClearPreview, VoiceTypeOK, Numbered, Named

----------------------------------------------------------------------------
LEMMA PanelCommandTypes ==
    ASSUME VoiceTypeOK, TurnTypes, PanelTypes, Numbered, PanelStep
    PROVE  HostTypes' /\ TaskTypes'
<1> DEFINE Goal == HostTypes' /\ TaskTypes'
<1> USE DEF HostTypes, TaskTypes
<1>0. /\ HostTypes /\ TaskTypes /\ voice \in VoiceState /\ voice.session \in Session \cup {0}
      /\ budget.sessions \in 0..MaxSession
  BY VoiceForms, QaAssumption DEF VoiceTypeOK, PanelTypes
<1>1. ASSUME UNCHANGED commandVars PROVE Goal
  BY <1>0, <1>1 DEF commandVars, hostVars, taskVars
<1>2. ASSUME NEW t \in Turn, EditPreview(t) PROVE Goal
  <2>1. voice' \in VoiceState
    <3>1. CASE UNCHANGED voice BY <1>0, <3>1
    <3>2. CASE SessionLeft /\ voice' = NewVoice(NextSession, "Processing", FALSE)
      <4>1. NextSession \in Session
        BY <1>0, <3>2, BoundsAssumption DEF NextSession, SessionLeft, Session
      <4> QED BY <3>2, <4>1, NewVoiceTyped DEF VoicePhase
    <3> QED BY <1>2, <3>1, <3>2 DEF EditPreview
  <2> QED BY <1>0, <1>2, <2>1 DEF EditPreview, hostVars, taskVars
<1>3. ASSUME NEW t \in Turn, EditGenerated(t) PROVE Goal
  <2>0. turn[t].session \in Session \cup {0} /\ turn[t].owner \in Turn \cup {0}
    BY TurnForms DEF TurnType
  <2>1. UNCHANGED <<target, slot, start, end, apply>> BY <1>3 DEF EditGenerated, hostVars, taskVars
  <2>2. CASE SetPreview(turn[t].session, turn[t].owner) /\ UNCHANGED teardown
    <3>1. turn[t].session \in Session BY <2>0, <2>2 DEF SetPreview, Current, Numbered, Named
    <3>2. voice' \in VoiceState BY <1>0, <2>0, <2>2, <3>1, VoiceForms DEF SetPreview
    <3> QED BY <1>0, <2>1, <2>2, <3>2
  <2>3. CASE turn[t].created /\ CancelVoice(turn[t].session)
    <3>1. turn[t].session \in Session BY <2>0, <2>3 DEF Numbered, Named
    <3> QED BY <1>0, <2>1, <2>3, <3>1, CancelTypes
  <2>4. CASE UNCHANGED <<voice, teardown>> BY <1>0, <2>1, <2>4
  <2> QED BY <1>3, <2>2, <2>3, <2>4 DEF EditGenerated
<1>4. ASSUME NEW t \in Turn, BindTarget(t) PROVE Goal
  <2>1. turn[t].session \in Session \cup {0} BY TurnForms DEF TurnType
  <2> QED BY <1>0, <1>4, <2>1 DEF BindTarget, taskVars
<1>5. ASSUME NEW t \in Turn, AskClears(t) PROVE Goal
  <2>1. turn[t].owner \in Turn \cup {0} BY TurnForms DEF TurnType
  <2>2. voice' \in VoiceState /\ teardown' \in [Session -> {"no", "plain", "control"}]
    BY <1>0, <1>5, <2>1, ClearTyped DEF AskClears
  <2> QED BY <1>0, <1>5, <2>2 DEF AskClears, hostVars, taskVars
<1>6. ASSUME NEW c \in Close, CloseClearsPreview(c) PROVE Goal
  <2>1. close[c].owner \in Turn \cup {0} BY DEF TurnTypes, CloseType
  <2>2. voice' \in VoiceState /\ teardown' \in [Session -> {"no", "plain", "control"}]
    BY <1>0, <1>6, <2>1, ClearTyped DEF CloseClearsPreview
  <2> QED BY <1>0, <1>6, <2>2 DEF CloseClearsPreview, hostVars, taskVars
<1>7. ASSUME NEW t \in Turn, ConfirmEdit(t) PROVE Goal
  <2>1. [voice EXCEPT !.phase = "Applying", !.ticket = t] \in VoiceState BY <1>0, Numbers, VoiceForms
  <2>2. apply' \in [Id -> Confirmation]
    BY <1>0, <1>7, Numbers DEF ConfirmEdit, BeginApply, Confirmation
  <2> QED BY <1>0, <1>7, <2>1, <2>2 DEF ConfirmEdit, BeginApply, hostVars
<1>8. ASSUME NEW t \in Turn, EditApplied(t) PROVE Goal
  <2>1. apply' \in [Id -> Confirmation] BY <1>0, <1>8, Numbers DEF EditApplied, ApplyAt, Confirmation
  <2> QED BY <1>0, <1>8, <2>1 DEF EditApplied
<1>9. ASSUME NEW s \in Session, RouteStep(s) PROVE Goal
  <2>1. end' \in [Session -> EndPc]
    BY <1>0, <1>9 DEF RouteStep, RouteShows, RouteSetsMode, RouteAsks, RouteReturns, EndAt, EndPc
  <2>2. [voice EXCEPT !.phase = "Completed", !.preview = {}, !.ticket = 0] \in VoiceState
    BY <1>0, VoiceForms
  <2>3. voice' \in VoiceState
    BY <1>0, <1>9, <2>2
    DEF RouteStep, RouteShows, RouteSetsMode, RouteAsks, RouteReturns, CompleteVoice
  <2> QED
    BY <1>0, <1>9, <2>1, <2>3
    DEF RouteStep, RouteShows, RouteSetsMode, RouteAsks, RouteReturns, hostVars
<1> HIDE DEF Goal
<1>10. ASSUME NEW t \in Turn, AskStep(t) PROVE Goal
  BY <1>1, <1>2, <1>3, <1>4, <1>5, <1>10, PanelCommandFrame DEF AskStep
<1>11. Goal
  BY <1>1, <1>6, <1>7, <1>8, <1>9, <1>10, PanelCommandFrame, CloseNumbers DEF PanelStep, CloseStep
<1> QED BY <1>11 DEF Goal

(* Only a confirmation inserts.                                             *)
LEMMA InsertionsOnly ==
    ASSUME QaNext
    PROVE  UNCHANGED inserted \/ \E i \in Id : Insert(i)
<1>1. PanelStep => UNCHANGED inserted
  <2>1. \A t \in Turn : AskStep(t) => UNCHANGED inserted
    BY PanelCommandFrame
    DEF AskStep, commandVars, EditPreview, EditGenerated, BindTarget, AskClears
  <2>2. \A t \in Turn : ConfirmEdit(t) \/ EditApplied(t) => UNCHANGED inserted
    BY DEF ConfirmEdit, EditApplied
  <2>3. \A c \in Close : CloseStep(c) => UNCHANGED inserted
    BY PanelCommandFrame DEF CloseStep, CloseClearsPreview, commandVars
  <2>4. \A s \in Session : RouteStep(s) => UNCHANGED inserted
    BY DEF RouteStep, RouteShows, RouteSetsMode, RouteAsks, RouteReturns
  <2> QED BY <2>1, <2>2, <2>3, <2>4, PanelCommandFrame, CloseNumbers DEF PanelStep, commandVars
<1>2. CommandStep => UNCHANGED inserted \/ \E i \in Id : Insert(i)
  <2>1. \A s \in Session : StartStep(s) => UNCHANGED inserted
    BY DEF StartStep, SetTarget, HoldResources, Bind, Opens, OpenFails, Install, Discarded,
       StartFailed, StartClears
  <2>2. \A s \in Session : EndStep(s) => UNCHANGED inserted
    BY DEF EndStep, TakeCapture, Transcribed, Resolve, Route, Generated, EndFailed, EndClears,
       ConfirmDirect, DirectApplied
  <2>3. \A s \in Session : Begin(s) \/ MarkProcessing(s) \/ Confirm(s) \/ RecordingFault(s)
                             \/ TearDown(s) => UNCHANGED inserted
    BY DEF Begin, MarkProcessing, Confirm, RecordingFault, TearDown
  <2>4. \A i \in Id : CaptureCloses(i) \/ FindTarget(i) \/ Report(i) => UNCHANGED inserted
    BY DEF CaptureCloses, FindTarget, Report
  <2>5. UserCancels => UNCHANGED inserted BY DEF UserCancels
  <2> QED BY <2>1, <2>2, <2>3, <2>4, <2>5 DEF CommandStep
<1> QED BY <1>1, <1>2 DEF QaNext

(* A confirmation that has not inserted its text yet.                       *)
Unapplied == {"insert", "aimed"}

(* A text is inserted only by a confirmation that has not inserted it.      *)
LEMMA InsertedTyped ==
    ASSUME VoiceTypeOK, Numbered, QaNext,
           \A i \in Id : apply[i].pc \in Unapplied => inserted[apply[i].session] = 0
    PROVE  inserted' \in [Session -> 0..2]
<1>0. inserted \in [Session -> 0..2] BY DEF VoiceTypeOK
<1>1. ASSUME NEW i \in Id, Insert(i) PROVE inserted' \in [Session -> 0..2]
  BY <1>0, <1>1 DEF Insert, Unapplied, Numbered, Named
<1>2. CASE UNCHANGED inserted BY <1>0, <1>2
<1> QED BY <1>1, <1>2, InsertionsOnly

----------------------------------------------------------------------------
(* The text of session s was not inserted, and nobody is about to.          *)
Untouched(s) ==
    /\ inserted[s] = 0
    /\ \A i \in Id : apply[i].session = s => apply[i].pc \notin Unapplied

(* The phases before a confirmation.                                        *)
Unconfirmed == {"Recording", "Processing", "AwaitingIntent", "Preview"}

(* The open confirmation is the only one of its session.                    *)
TicketOpen ==
    LET i == voice.ticket
    IN  /\ voice.phase = "Applying"
        /\ apply[i].session = voice.session
        /\ apply[i].pc \in Unapplied \cup {"applied", "failed"}
        /\ apply[i].pc # "applied" => inserted[voice.session] = 0
        /\ \A j \in Id \ {i} : apply[j].session = voice.session => apply[j].pc \notin Unapplied

(* No text is inserted twice: one that is confirmed was not inserted yet.   *)
Pending ==
    /\ \A s \in Session : s > voice.session => Untouched(s)
    /\ voice.phase \in Unconfirmed => Untouched(voice.session)
    /\ voice.ticket # 0 => TicketOpen
    /\ \A i \in Id : apply[i].pc \in Unapplied =>
         /\ inserted[apply[i].session] = 0
         /\ \A j \in Id \ {i} : apply[j].pc \in Unapplied => apply[j].session # apply[i].session

ConfirmInv == Named /\ Pending /\ InsertedOnce

LEMMA SessionsAreNumbers == Session \subseteq Nat /\ \A s \in Session : s > 0
BY BoundsAssumption DEF Session

(* The session ends, or is ended, without an open confirmation.             *)
LEMMA ConfirmEnds ==
    ASSUME ConfirmInv, UNCHANGED <<apply, inserted>>,
           voice'.session = voice.session, voice'.ticket = 0, voice'.phase \notin Unconfirmed,
           voice.phase # "Idle", voice'.preview \subseteq voice.preview
    PROVE  ConfirmInv'
BY DEF ConfirmInv, Named, Pending, InsertedOnce, Untouched

(* It goes on before its confirmation.                                      *)
LEMMA ConfirmGoesOn ==
    ASSUME ConfirmInv, UNCHANGED <<apply, inserted>>,
           voice'.session = voice.session, voice'.ticket = voice.ticket,
           voice.phase \in Unconfirmed, voice'.phase \in Unconfirmed
    PROVE  ConfirmInv'
BY DEF ConfirmInv, Named, Pending, InsertedOnce, Untouched, TicketOpen, Unconfirmed

LEMMA ConfirmFrame ==
    ASSUME ConfirmInv, UNCHANGED <<voice, apply, inserted>>
    PROVE  ConfirmInv'
BY DEF ConfirmInv, Named, Pending, InsertedOnce, Untouched, TicketOpen

(* A new session begins.                                                    *)
LEMMA ConfirmNew ==
    ASSUME VoiceTypeOK, ConfirmInv, UNCHANGED <<apply, inserted>>, NEW s \in Session, NEW e \in BOOLEAN,
           NEW p \in {"Recording", "Processing"}, s > voice.session, voice' = NewVoice(s, p, e)
    PROVE  ConfirmInv'
<1>1. voice'.session = s /\ voice'.phase = p /\ voice'.ticket = 0 /\ voice'.preview = {}
  BY DEF NewVoice
<1>0. voice.session \in Nat
  <2>1. voice.session \in Session \cup {0} BY VoiceForms DEF VoiceTypeOK
  <2>2. \A r \in Session : r \in Nat BY Numbers
  <2>3. CASE voice.session = 0 BY <2>3
  <2> QED BY <2>1, <2>2, <2>3
<1>2. Untouched(s) BY DEF ConfirmInv, Pending
<1>3. Named' BY <1>1, SessionsAreNumbers DEF ConfirmInv, Named
<1>4. (\A r \in Session : r > voice.session => Untouched(r))'
  BY <1>0, <1>1, SessionsAreNumbers DEF ConfirmInv, Pending, Untouched
<1>5. (voice.phase \in Unconfirmed => Untouched(voice.session))' BY <1>1, <1>2 DEF Untouched
<1>6. (voice.ticket # 0 => TicketOpen)' BY <1>1
<1>7. Pending' BY <1>4, <1>5, <1>6 DEF ConfirmInv, Pending
<1> QED BY <1>3, <1>7 DEF ConfirmInv, InsertedOnce

(* A preview is confirmed,                                                  *)
LEMMA ConfirmBegins ==
    ASSUME VoiceTypeOK, ConfirmInv, UNCHANGED inserted, NEW i \in Id, NEW o, BeginApply(i, o)
    PROVE  ConfirmInv'
<1>1. /\ voice.phase = "Preview" /\ voice.session \in Session /\ Untouched(voice.session)
      /\ voice'.session = voice.session /\ voice'.ticket = i /\ voice'.phase = "Applying"
      /\ voice'.preview = voice.preview
      /\ apply'[i] = [pc |-> "insert", session |-> voice.session]
      /\ \A j \in Id \ {i} : apply'[j] = apply[j]
  <2>1. voice.phase = "Preview" BY DEF BeginApply, Applyable
  <2>2. voice.session \in Session BY <2>1, VoiceForms DEF VoiceTypeOK, ConfirmInv, Named
  <2>3. Untouched(voice.session) BY <2>1 DEF ConfirmInv, Pending, Unconfirmed
  <2>4. /\ voice'.session = voice.session /\ voice'.ticket = i /\ voice'.phase = "Applying"
        /\ voice'.preview = voice.preview
    BY DEF BeginApply, VoiceTypeOK, VoiceState
  <2>5. /\ apply'[i] = [pc |-> "insert", session |-> voice.session]
        /\ \A j \in Id \ {i} : apply'[j] = apply[j]
    BY DEF BeginApply, VoiceTypeOK
  <2> QED BY <2>1, <2>2, <2>3, <2>4, <2>5
<1>2. Named' BY <1>1 DEF ConfirmInv, Named
<1>3. \A s \in Session : s > voice.session => Untouched(s)'
  BY <1>1, SessionsAreNumbers DEF ConfirmInv, Pending, Untouched
<1>4. Pending'
  <2>1. TicketOpen' BY <1>1 DEF Untouched, TicketOpen, Unapplied
  <2>2. \A k \in Id : apply'[k].pc \in Unapplied =>
           /\ inserted'[apply'[k].session] = 0
           /\ \A j \in Id \ {k} : apply'[j].pc \in Unapplied => apply'[j].session # apply'[k].session
    BY <1>1 DEF ConfirmInv, Pending, Untouched, Unapplied
  <2> QED BY <1>1, <1>3, <2>1, <2>2 DEF Pending, Unconfirmed
<1> QED BY <1>2, <1>4 DEF ConfirmInv, InsertedOnce

(* its target found, its text inserted, or refused,                         *)
LEMMA ConfirmInserts ==
    ASSUME VoiceTypeOK, ConfirmInv, NEW i \in Id, FindTarget(i) \/ Insert(i)
    PROVE  ConfirmInv'
<1>1. /\ UNCHANGED voice /\ apply[i].pc \in Unapplied /\ apply[i].session \in Session
      /\ apply'[i].session = apply[i].session
      /\ apply'[i].pc \in {"aimed", "applied", "failed"}
      /\ \A j \in Id \ {i} : apply'[j] = apply[j]
      /\ apply'[i].pc # "applied" => inserted' = inserted
      /\ apply'[i].pc = "applied" =>
            inserted' = [inserted EXCEPT ![apply[i].session] = 1]
  <2>1. UNCHANGED voice /\ apply[i].pc \in Unapplied BY DEF FindTarget, Insert, Unapplied
  <2>2. apply[i].session \in Session /\ inserted[apply[i].session] = 0
    BY <2>1 DEF ConfirmInv, Named, Pending, Unapplied
  <2>3. /\ apply'[i].session = apply[i].session
        /\ apply'[i].pc \in {"aimed", "applied", "failed"}
        /\ \A j \in Id \ {i} : apply'[j] = apply[j]
    BY DEF FindTarget, Insert, ApplyAt, VoiceTypeOK, Confirmation
  <2>4. apply'[i].pc # "applied" => inserted' = inserted
    BY DEF FindTarget, Insert, ApplyAt, VoiceTypeOK, Confirmation
  <2>5. apply'[i].pc = "applied" => inserted' = [inserted EXCEPT ![apply[i].session] = 1]
    BY <2>2 DEF FindTarget, Insert, ApplyAt, VoiceTypeOK, Confirmation
  <2> QED BY <2>1, <2>2, <2>3, <2>4, <2>5
<1>2. \A s \in Session : s # apply[i].session => inserted'[s] = inserted[s]
  BY <1>1 DEF VoiceTypeOK
<1>3. inserted'[apply[i].session] \in {0, 1} /\ inserted[apply[i].session] = 0
  BY <1>1 DEF VoiceTypeOK, ConfirmInv, Pending
<1>4. Named' BY <1>1 DEF ConfirmInv, Named
<1>5. \A s \in Session : Untouched(s) => Untouched(s)'
  BY <1>1, <1>2 DEF Untouched
<1>6. Pending'
  <2>1. \A s \in Session : s > voice'.session => Untouched(s)'
    BY <1>1, <1>5 DEF ConfirmInv, Pending
  <2>2. voice'.phase \in Unconfirmed => Untouched(voice.session)'
    <3>1. voice.phase \in Unconfirmed => voice.session \in Session
      BY VoiceForms DEF VoiceTypeOK, VoiceState, ConfirmInv, Named, Unconfirmed
    <3> QED BY <1>1, <1>5, <3>1 DEF ConfirmInv, Pending
  <2>3. voice'.ticket # 0 => TicketOpen'
    <3>1. SUFFICES ASSUME voice.ticket # 0 PROVE TicketOpen' BY <1>1
    <3>2. TicketOpen /\ voice.ticket \in Id /\ voice.session \in Session
      BY <3>1, VoiceForms DEF VoiceTypeOK, VoiceState, ConfirmInv, Named, Pending, TicketOpen
    <3>3. CASE voice.ticket = i
      BY <1>1, <3>2, <3>3 DEF TicketOpen, Unapplied
    <3>4. CASE voice.ticket # i
      <4>1. voice.session # apply[i].session BY <1>1, <3>2, <3>4 DEF TicketOpen
      <4> QED BY <1>1, <1>2, <3>2, <3>4, <4>1 DEF TicketOpen
    <3> QED BY <3>3, <3>4
  <2>4. \A k \in Id : apply'[k].pc \in Unapplied =>
           /\ inserted'[apply'[k].session] = 0
           /\ \A j \in Id \ {k} : apply'[j].pc \in Unapplied => apply'[j].session # apply'[k].session
    <3>1. SUFFICES ASSUME NEW k \in Id, apply'[k].pc \in Unapplied
                   PROVE  /\ inserted'[apply'[k].session] = 0
                          /\ \A j \in Id \ {k} : apply'[j].pc \in Unapplied =>
                                apply'[j].session # apply'[k].session
      OBVIOUS
    <3>2. apply[k].pc \in Unapplied /\ apply'[k].session = apply[k].session
      BY <1>1, <3>1
    <3>3. \A j \in Id \ {k} : apply'[j].pc \in Unapplied =>
             apply[j].pc \in Unapplied /\ apply'[j].session = apply[j].session
      BY <1>1
    <3>4. /\ inserted[apply[k].session] = 0 /\ apply[k].session \in Session
          /\ \A j \in Id \ {k} : apply[j].pc \in Unapplied =>
                apply[j].session # apply[k].session
      BY <3>1, <3>2 DEF ConfirmInv, Pending, Named, Unapplied
    <3>5. inserted'[apply[k].session] = 0
      <4>1. CASE k = i BY <1>1, <3>1, <3>4, <4>1 DEF Unapplied
      <4>2. CASE k # i
        <5>1. apply[k].session # apply[i].session BY <1>1, <3>4, <4>2
        <5> QED BY <1>2, <3>4, <5>1
      <4> QED BY <4>1, <4>2
    <3> QED BY <3>2, <3>3, <3>4, <3>5
  <2> QED BY <2>1, <2>2, <2>3, <2>4 DEF Pending
<1>7. InsertedOnce' BY <1>2, <1>3 DEF ConfirmInv, InsertedOnce
<1> QED BY <1>4, <1>6, <1>7 DEF ConfirmInv

(* the result reported,                                                     *)
LEMMA ConfirmReports ==
    ASSUME VoiceTypeOK, ConfirmInv, NEW i \in Id, Report(i)
    PROVE  ConfirmInv'
<1>1. /\ UNCHANGED inserted /\ apply[i].pc \in {"applied", "failed"}
      /\ apply'[i].session = apply[i].session /\ apply'[i].pc \in {"ok", "error"}
      /\ \A j \in Id \ {i} : apply'[j] = apply[j]
      /\ voice'.session = voice.session /\ voice'.preview \subseteq voice.preview
  <2>1. UNCHANGED inserted /\ apply[i].pc \in {"applied", "failed"} BY DEF Report
  <2>2. /\ apply'[i].session = apply[i].session /\ apply'[i].pc \in {"ok", "error"}
        /\ \A j \in Id \ {i} : apply'[j] = apply[j]
    BY DEF Report, ApplyAt, VoiceTypeOK, Confirmation
  <2>3. voice'.session = voice.session /\ voice'.preview \subseteq voice.preview
    BY DEF Report, VoiceTypeOK, VoiceState
  <2> QED BY <2>1, <2>2, <2>3
<1>2. \A s : Untouched(s) => Untouched(s)' BY <1>1 DEF Untouched, Unapplied
<1>3. CASE UNCHANGED voice /\ voice.ticket # i
  <2>1. Named' BY <1>1, <1>3 DEF ConfirmInv, Named
  <2>2. TicketOpen /\ voice.ticket \in Id => TicketOpen' BY <1>1, <1>3 DEF TicketOpen, Unapplied
  <2>3. voice.ticket \in Id \cup {0} BY DEF VoiceTypeOK, VoiceState
  <2>4. Pending' BY <1>1, <1>2, <1>3, <2>2, <2>3 DEF ConfirmInv, Pending, Unapplied
  <2> QED BY <1>1, <2>1, <2>4 DEF ConfirmInv, InsertedOnce
<1>4. CASE voice.ticket = i
  <2>1. TicketOpen /\ i # 0 BY <1>4, Numbers DEF ConfirmInv, Pending
  <2>2. /\ voice'.ticket = 0 /\ voice'.phase \in {"Completed", "Preview"}
        /\ voice'.phase = "Preview" => apply[i].pc = "failed"
    BY <1>4, <2>1 DEF Report, TicketOpen, VoiceTypeOK, VoiceState
  <2>3. voice'.phase = "Preview" => Untouched(voice.session)'
    BY <1>1, <1>4, <2>1, <2>2 DEF TicketOpen, Untouched, Unapplied
  <2>4. Pending' BY <1>1, <1>2, <2>2, <2>3 DEF ConfirmInv, Pending, Unconfirmed, Unapplied
  <2>5. Named' BY <1>1, <2>1, <2>2 DEF ConfirmInv, Named, TicketOpen
  <2> QED BY <1>1, <2>4, <2>5 DEF ConfirmInv, InsertedOnce
<1> QED BY <1>3, <1>4 DEF Report

(* and the confirmation forgotten by its caller.                            *)
LEMMA ConfirmReturns ==
    ASSUME VoiceTypeOK, ConfirmInv, NEW i \in Id, apply[i].pc \in {"ok", "error"}, ApplyAt(i, "no"),
           UNCHANGED <<voice, inserted>>
    PROVE  ConfirmInv'
<1>1. /\ apply'[i].session = apply[i].session /\ apply'[i].pc = "no"
      /\ \A j \in Id \ {i} : apply'[j] = apply[j]
  BY DEF ApplyAt, VoiceTypeOK, Confirmation
<1>2. \A s : Untouched(s) => Untouched(s)' BY <1>1 DEF Untouched, Unapplied
<1>3. voice.ticket # 0 => voice.ticket # i BY DEF ConfirmInv, Pending, TicketOpen, Unapplied
<1>4. Named' BY <1>1 DEF ConfirmInv, Named
<1>5. TicketOpen /\ voice.ticket \in Id /\ voice.ticket # i => TicketOpen' BY <1>1 DEF TicketOpen, Unapplied
<1>6. voice.ticket \in Id \cup {0} BY DEF VoiceTypeOK, VoiceState
<1>7. Pending' BY <1>1, <1>2, <1>3, <1>5, <1>6 DEF ConfirmInv, Pending, Unapplied
<1> QED BY <1>4, <1>7 DEF ConfirmInv, InsertedOnce

LEMMA CancelConfirms ==
    ASSUME VoiceTypeOK, ConfirmInv, NEW s \in Session, CancelVoice(s), UNCHANGED <<apply, inserted>>
    PROVE  ConfirmInv'
<1>1. CASE UNCHANGED voice BY <1>1, ConfirmFrame
<1>2. CASE ~UNCHANGED voice
  <2>1. /\ voice.session = s /\ voice'.session = s /\ voice'.ticket = 0
        /\ voice'.phase = "Cancelled" /\ voice'.preview = {}
    BY <1>2 DEF CancelVoice, VoiceTypeOK, VoiceState
  <2>2. s # 0 BY Numbers
  <2>3. Named' BY <2>1, <2>2 DEF ConfirmInv, Named
  <2> QED BY <2>1, <2>3 DEF ConfirmInv, Pending, InsertedOnce, Untouched, Unconfirmed
<1> QED BY <1>1, <1>2

LEMMA ConfirmCommandStep ==
    ASSUME VoiceTypeOK, ConfirmInv, CommandStep
    PROVE  ConfirmInv'
<1>0. voice \in VoiceState /\ voice.session \in Session \cup {0} BY VoiceForms DEF VoiceTypeOK
<1>1. ASSUME NEW s \in Session, Begin(s) PROVE ConfirmInv'
  <2>1. s > voice.session BY <1>0, <1>1, BoundsAssumption DEF Begin, NextSession, Session
  <2>2. UNCHANGED <<apply, inserted>> /\ \E e \in BOOLEAN : voice' = NewVoice(s, "Recording", e)
    BY <1>1 DEF Begin
  <2> QED BY <2>1, <2>2, ConfirmNew
<1>2. ASSUME NEW s \in Session, StartFailed(s) \/ EndFailed(s) PROVE ConfirmInv'
  BY <1>2, CancelConfirms DEF StartFailed, EndFailed
<1>3. ASSUME NEW s \in Session, Bind(s) PROVE ConfirmInv'
  <2>1. UNCHANGED <<apply, inserted>> BY <1>3 DEF Bind
  <2>2. CASE UNCHANGED voice BY <2>1, <2>2, ConfirmFrame
  <2>3. CASE ~UNCHANGED voice
    <3>1. /\ voice'.session = voice.session /\ voice'.ticket = voice.ticket
          /\ voice.phase = "Recording" /\ voice'.phase = "Recording"
      BY <1>0, <1>3, <2>3 DEF Bind, Current, VoiceState
    <3> QED BY <2>1, <3>1, ConfirmGoesOn DEF Unconfirmed
  <2> QED BY <2>2, <2>3
<1>4. ASSUME NEW s \in Session, MarkProcessing(s) \/ Resolve(s) \/ Confirm(s) PROVE ConfirmInv'
  <2>1. UNCHANGED <<apply, inserted>> BY <1>4 DEF MarkProcessing, Resolve, Confirm
  <2>2. CASE UNCHANGED voice BY <2>1, <2>2, ConfirmFrame
  <2>3. CASE ~UNCHANGED voice
    <3>1. /\ voice'.session = voice.session /\ voice'.ticket = voice.ticket
          /\ voice.phase \in Unconfirmed /\ voice'.phase \in Unconfirmed
      BY <1>0, <1>4, <2>3 DEF MarkProcessing, Resolve, Confirm, Current, VoiceState, Unconfirmed
    <3> QED BY <2>1, <3>1, ConfirmGoesOn
  <2> QED BY <2>2, <2>3
<1>5. ASSUME NEW s \in Session, Generated(s) PROVE ConfirmInv'
  <2>1. UNCHANGED <<apply, inserted>> BY <1>5 DEF Generated, taskVars
  <2>2. CASE UNCHANGED voice BY <2>1, <2>2, ConfirmFrame
  <2>3. CASE ~UNCHANGED voice
    <3>1. /\ voice'.session = voice.session /\ voice'.ticket = voice.ticket
          /\ voice.phase \in Unconfirmed /\ voice'.phase \in Unconfirmed
      BY <1>0, <1>5, <2>3 DEF Generated, SetPreview, Current, VoiceState, Unconfirmed
    <3> QED BY <2>1, <3>1, ConfirmGoesOn
  <2> QED BY <2>2, <2>3
<1>6. ASSUME NEW s \in Session, ConfirmDirect(s) PROVE ConfirmInv'
  <2>1. UNCHANGED inserted BY <1>6 DEF ConfirmDirect
  <2>2. CASE BeginApply(s, 0) BY <2>1, <2>2, ConfirmBegins, Numbers
  <2>3. CASE UNCHANGED <<voice, apply>> BY <2>1, <2>3, ConfirmFrame
  <2> QED BY <1>6, <2>2, <2>3 DEF ConfirmDirect
<1>7. ASSUME NEW s \in Session, DirectApplied(s) PROVE ConfirmInv'
  BY <1>7, ConfirmReturns, Numbers DEF DirectApplied
<1>8. ASSUME NEW s \in Session, RecordingFault(s) PROVE ConfirmInv'
  <2>1. /\ UNCHANGED <<apply, inserted>> /\ voice.phase = "Recording"
        /\ voice'.session = voice.session /\ voice'.phase = "Failed"
        /\ voice'.ticket = voice.ticket /\ voice'.preview = voice.preview
    BY <1>0, <1>8 DEF RecordingFault, Current, taskVars, VoiceState
  <2>2. voice.ticket = 0 BY <2>1 DEF ConfirmInv, Pending, TicketOpen
  <2> QED BY <2>1, <2>2, ConfirmEnds DEF Unconfirmed
<1>9. ASSUME UserCancels PROVE ConfirmInv'
  BY <1>0, <1>9, CancelConfirms DEF UserCancels, taskVars, ConfirmInv, Named
<1>10. ASSUME NEW i \in Id, FindTarget(i) \/ Insert(i) \/ Report(i) PROVE ConfirmInv'
  BY <1>10, ConfirmInserts, ConfirmReports
<1>11. ASSUME NEW i \in Id, CaptureCloses(i) PROVE ConfirmInv'
  BY <1>11, ConfirmFrame DEF CaptureCloses, taskVars
<1>12. ASSUME NEW s \in Session,
              \/ SetTarget(s) \/ HoldResources(s) \/ Opens(s) \/ OpenFails(s) \/ Install(s)
              \/ Discarded(s) \/ StartClears(s) \/ TakeCapture(s) \/ Transcribed(s) \/ Route(s)
              \/ EndClears(s) \/ TearDown(s)
       PROVE  ConfirmInv'
  BY <1>12, ConfirmFrame
  DEF SetTarget, HoldResources, Opens, OpenFails, Install, Discarded, StartClears, TakeCapture,
      Transcribed, Route, EndClears, TearDown, taskVars
<1> QED
  BY <1>1, <1>2, <1>3, <1>4, <1>5, <1>6, <1>7, <1>8, <1>9, <1>10, <1>11, <1>12
  DEF CommandStep, StartStep, EndStep

LEMMA ClearConfirms ==
    ASSUME VoiceTypeOK, ConfirmInv, NEW o, ClearPreview(o), UNCHANGED <<apply, inserted>>
    PROVE  ConfirmInv'
<1>1. CASE o \in voice.preview
  <2>1. voice.session \in Session
    BY <1>1, VoiceForms DEF VoiceTypeOK, ConfirmInv, Named
  <2> QED BY <1>1, <2>1, CancelConfirms, ConfirmFrame DEF ClearPreview
<1> QED BY <1>1, ConfirmFrame DEF ClearPreview

LEMMA ConfirmPanelStep ==
    ASSUME VoiceTypeOK, PanelTypes, TurnTypes, Numbered, ConfirmInv, PanelStep
    PROVE  ConfirmInv'
<1>0. voice \in VoiceState /\ voice.session \in Session \cup {0}
  BY VoiceForms DEF VoiceTypeOK
<1>1. UNCHANGED commandVars => ConfirmInv' BY ConfirmFrame DEF commandVars, taskVars
<1>2. ASSUME NEW t \in Turn, EditPreview(t) PROVE ConfirmInv'
  <2>1. UNCHANGED <<apply, inserted>> BY <1>2 DEF EditPreview, taskVars
  <2>2. CASE UNCHANGED voice BY <2>1, <2>2, ConfirmFrame
  <2>3. CASE SessionLeft /\ voice' = NewVoice(NextSession, "Processing", FALSE)
    <3>1. NextSession \in Session /\ NextSession > voice.session
      <4>1. budget.sessions \in 0..MaxSession BY QaAssumption DEF PanelTypes
      <4> QED BY <1>0, <2>3, <4>1, BoundsAssumption DEF NextSession, SessionLeft, Session
    <3> QED BY <2>1, <2>3, <3>1, ConfirmNew
  <2> QED BY <1>2, <2>2, <2>3 DEF EditPreview
<1>3. ASSUME NEW t \in Turn, EditGenerated(t) PROVE ConfirmInv'
  <2>1. UNCHANGED <<apply, inserted>> BY <1>3 DEF EditGenerated, taskVars
  <2>2. CASE SetPreview(turn[t].session, turn[t].owner)
    <3>1. /\ voice'.session = voice.session /\ voice'.ticket = voice.ticket
          /\ voice.phase \in Unconfirmed /\ voice'.phase \in Unconfirmed
      BY <1>0, <2>2 DEF SetPreview, Current, VoiceState, Unconfirmed
    <3> QED BY <2>1, <3>1, ConfirmGoesOn
  <2>3. CASE turn[t].created /\ CancelVoice(turn[t].session)
    <3>1. turn[t].session \in Session BY <2>3, TurnForms DEF Numbered, TurnType
    <3> QED BY <2>1, <2>3, <3>1, CancelConfirms
  <2>4. CASE UNCHANGED voice BY <2>1, <2>4, ConfirmFrame
  <2> QED BY <1>3, <2>2, <2>3, <2>4 DEF EditGenerated
<1>4. ASSUME NEW t \in Turn, BindTarget(t) PROVE ConfirmInv'
  BY <1>4, ConfirmFrame DEF BindTarget, taskVars
<1>5. ASSUME NEW t \in Turn, AskClears(t) PROVE ConfirmInv'
  BY <1>5, ClearConfirms, ConfirmFrame DEF AskClears, taskVars
<1>6. ASSUME NEW c \in Close, CloseClearsPreview(c) PROVE ConfirmInv'
  BY <1>6, ClearConfirms, ConfirmFrame DEF CloseClearsPreview, taskVars
<1>7. ASSUME NEW t \in Turn, ConfirmEdit(t) PROVE ConfirmInv'
  BY <1>7, ConfirmBegins, Numbers DEF ConfirmEdit
<1>8. ASSUME NEW t \in Turn, EditApplied(t) PROVE ConfirmInv'
  BY <1>8, ConfirmReturns, Numbers DEF EditApplied
<1>9. ASSUME NEW s \in Session, RouteReturns(s) PROVE ConfirmInv'
  <2>1. UNCHANGED <<apply, inserted>> BY <1>9 DEF RouteReturns
  <2>2. CASE UNCHANGED voice BY <2>1, <2>2, ConfirmFrame
  <2>3. CASE CompleteVoice(s)
    <3>1. /\ voice'.session = voice.session /\ voice'.ticket = 0 /\ voice'.phase = "Completed"
          /\ voice'.preview = {} /\ voice.phase # "Idle"
      BY <1>0, <2>3 DEF CompleteVoice, VoiceState, Resting
    <3> QED BY <2>1, <3>1, ConfirmEnds DEF Unconfirmed
  <2> QED BY <1>9, <2>2, <2>3 DEF RouteReturns
<1>10. ASSUME NEW s \in Session, RouteShows(s) \/ RouteSetsMode(s) \/ RouteAsks(s) PROVE ConfirmInv'
  BY <1>10, ConfirmFrame DEF RouteShows, RouteSetsMode, RouteAsks
<1>11. ASSUME NEW t \in Turn, AskStep(t) PROVE ConfirmInv'
  BY <1>1, <1>2, <1>3, <1>4, <1>5, <1>11, PanelCommandFrame DEF AskStep
<1> QED
  BY <1>1, <1>6, <1>7, <1>8, <1>9, <1>10, <1>11, PanelCommandFrame, CloseNumbers
  DEF PanelStep, CloseStep, RouteStep

----------------------------------------------------------------------------
(* A turn that began a session of its own knows it.                         *)
Created == \A t \in Turn : turn[t].created => turn[t].session # 0

(* What the positions of the calls leave alone.                             *)
LEMMA BeginAtFields ==
    ASSUME TurnTypes, NEW t \in Turn, NEW p, BeginAt(t, p)
    PROVE  /\ turn'[t] = [turn[t] EXCEPT !.begin = p]
           /\ \A u \in Turn \ {t} : turn'[u] = turn[u]
           /\ turn'[t].begin = p /\ turn'[t].ask = turn[t].ask /\ turn'[t].ok = turn[t].ok
           /\ turn'[t].owner = turn[t].owner /\ turn'[t].editing = turn[t].editing
           /\ turn'[t].session = turn[t].session /\ turn'[t].created = turn[t].created
           /\ turn'[t].command = turn[t].command /\ turn'[t].prebound = turn[t].prebound
BY DEF BeginAt, TurnTypes, TurnType

LEMMA AskAtFields ==
    ASSUME TurnTypes, NEW t \in Turn, NEW p, AskAt(t, p)
    PROVE  /\ turn'[t] = [turn[t] EXCEPT !.ask = p]
           /\ \A u \in Turn \ {t} : turn'[u] = turn[u]
           /\ turn'[t].begin = turn[t].begin /\ turn'[t].ask = p /\ turn'[t].ok = turn[t].ok
           /\ turn'[t].owner = turn[t].owner /\ turn'[t].editing = turn[t].editing
           /\ turn'[t].session = turn[t].session /\ turn'[t].created = turn[t].created
           /\ turn'[t].command = turn[t].command /\ turn'[t].prebound = turn[t].prebound
BY DEF AskAt, TurnTypes, TurnType

(* A call of a turn changes the record of that turn alone.                  *)
LEMMA CallFields ==
    ASSUME TurnTypes, NEW t \in Turn,
           \/ \E s \in Session \cup {0}, b \in BOOLEAN : SubmitText(t, s, b)
           \/ PushQuestion(t) \/ SettleAnswer(t)
    PROVE  /\ \A u \in Turn \ {t} : turn'[u] = turn[u]
           /\ turn'[t].begin = turn[t].begin
           /\ turn'[t].session = turn[t].session /\ turn'[t].created = turn[t].created
<1>1. CASE \E s \in Session \cup {0}, b \in BOOLEAN : SubmitText(t, s, b)
  <2>1. PICK s \in Session \cup {0}, b \in BOOLEAN :
          turn' = [turn EXCEPT ![t].ask = "show", ![t].command = s, ![t].prebound = b]
    BY <1>1 DEF SubmitText
  <2> QED BY <2>1 DEF TurnTypes, TurnType
<1>2. CASE PushQuestion(t) BY <1>2 DEF PushQuestion, AskAt, TurnTypes, TurnType
<1>3. CASE SettleAnswer(t) BY <1>3 DEF SettleAnswer, AskAt, TurnTypes, TurnType
<1> QED BY <1>1, <1>2, <1>3

LEMMA EditFields ==
    ASSUME TurnTypes, NEW t \in Turn, NEW p, NEW s, NEW b, EditsWith(t, p, s, b)
    PROVE  /\ \A u \in Turn \ {t} : turn'[u] = turn[u]
           /\ turn'[t].begin = turn[t].begin /\ turn'[t].ask = p /\ turn'[t].owner = turn[t].owner
           /\ turn'[t].session = s /\ turn'[t].created = b
BY DEF EditsWith, TurnTypes, TurnType

LEMMA ReleaseFields ==
    ASSUME TurnTypes, NEW t \in Turn, AskReleases(t)
    PROVE  /\ \A u \in Turn \ {t} : turn'[u] = turn[u]
           /\ turn'[t].begin = turn[t].begin /\ turn'[t].ask = "done" /\ turn'[t].owner = 0
           /\ turn'[t].session = 0 /\ turn'[t].created = FALSE
BY DEF AskReleases, TurnTypes, TurnType, NoTurn

(* The panel steps that leave the turns alone.                              *)
LEMMA PanelTurnFrame ==
    /\ \A t \in Turn :
          FaultStep(t) \/ ConfirmEdit(t) \/ EditApplied(t) \/ AppliedEditCloses(t) => UNCHANGED turn
    /\ \A c \in Close : UserCloses(c) \/ CloseStep(c) => UNCHANGED turn
    /\ Show \/ ToggleEditMode => UNCHANGED turn
    /\ \A s \in Session : RouteShows(s) \/ RouteSetsMode(s) \/ RouteReturns(s) => UNCHANGED turn
    /\ \A s \in Session : RouteAsks(s) =>
          UNCHANGED turn \/ \E t \in Turn, b \in BOOLEAN : SubmitText(t, s, b)
<1> USE DEF qaVars
<1>1. \A t \in Turn :
          FaultStep(t) \/ ConfirmEdit(t) \/ EditApplied(t) \/ AppliedEditCloses(t) => UNCHANGED turn
  BY DEF FaultStep, FaultStarts, FaultFails, FaultSweeps, ConfirmEdit, EditApplied, AppliedEditCloses
<1>2. \A c \in Close : UserCloses(c) \/ CloseStep(c) => UNCHANGED turn
  BY DEF UserCloses, CloseStep, CloseHides, CloseCancelsRuntime, CloseClearsPreview
<1>3. Show \/ ToggleEditMode => UNCHANGED turn BY DEF Show, ToggleEditMode
<1>4. \A s \in Session : RouteShows(s) \/ RouteSetsMode(s) \/ RouteReturns(s) => UNCHANGED turn
  BY DEF RouteShows, RouteSetsMode, RouteReturns
<1>5. \A s \in Session : RouteAsks(s) =>
          UNCHANGED turn \/ \E t \in Turn, b \in BOOLEAN : SubmitText(t, s, b)
  BY DEF RouteAsks
<1> QED BY <1>1, <1>2, <1>3, <1>4, <1>5

LEMMA CreatedStep ==
    ASSUME VoiceTypeOK, TurnTypes, Created, PanelStep
    PROVE  Created'
<1>1. ASSUME UNCHANGED turn PROVE Created' BY <1>1 DEF Created
<1>2. ASSUME NEW t \in Turn, \A u \in Turn \ {t} : turn'[u] = turn[u],
             turn'[t].created => turn'[t].session # 0
      PROVE  Created'
  BY <1>2 DEF Created
<1>3. ASSUME NEW t \in Turn, NEW p, BeginAt(t, p) \/ AskAt(t, p) PROVE Created'
  <2>1. /\ \A u \in Turn \ {t} : turn'[u] = turn[u]
        /\ turn'[t].created = turn[t].created /\ turn'[t].session = turn[t].session
    BY <1>3, BeginAtFields, AskAtFields
  <2> QED BY <1>2, <2>1 DEF Created
<1>4. ASSUME NEW t \in Turn,
             \/ \E s \in Session \cup {0}, b \in BOOLEAN : SubmitText(t, s, b)
             \/ PushQuestion(t) \/ SettleAnswer(t)
      PROVE  Created'
  BY <1>2, <1>4, CallFields DEF Created
<1>5. ASSUME NEW t \in Turn, EditPreview(t) \/ Revised(t) PROVE Created'
  <2>1. CASE AskAt(t, "fail") BY <1>3, <2>1
  <2>2. CASE \E p \in AskPc, s \in Session \cup {0} : EditsWith(t, p, s, FALSE)
    BY <1>2, <2>2, EditFields
  <2>3. CASE EditsWith(t, "generate", NextSession, TRUE)
    <3>1. NextSession # 0
      <4>1. voice.session \in Session \cup {0} BY VoiceForms DEF VoiceTypeOK
      <4>2. CASE voice.session = 0 BY <4>2, BoundsAssumption DEF NextSession
      <4>3. CASE voice.session \in Session
        BY <4>3, BoundsAssumption DEF NextSession, Session
      <4> QED BY <4>1, <4>2, <4>3
    <3>2. /\ \A u \in Turn \ {t} : turn'[u] = turn[u]
          /\ turn'[t].session = NextSession
      <4>1. AskPc # {} /\ "generate" \in AskPc BY DEF AskPc
      <4>2. turn' = [turn EXCEPT ![t] =
                       [turn[t] EXCEPT !.ask = "generate", !.session = NextSession, !.created = TRUE]]
        BY <2>3 DEF EditsWith
      <4>3. turn[t] \in TurnType /\ turn \in [Turn -> TurnType] BY DEF TurnTypes
      <4>4. /\ \A u \in Turn \ {t} : turn'[u] = turn[u]
            /\ turn'[t] = [turn[t] EXCEPT !.ask = "generate", !.session = NextSession, !.created = TRUE]
        BY <4>2, <4>3
      <4> QED BY <4>3, <4>4 DEF TurnType
    <3> QED BY <1>2, <3>1, <3>2
  <2>4. voice.session \in Session \cup {0} BY VoiceForms DEF VoiceTypeOK
  <2> QED BY <1>5, <2>1, <2>2, <2>3, <2>4 DEF EditPreview, Revised, AskPc
<1>6. ASSUME NEW t \in Turn, AskReleases(t) PROVE Created'
  BY <1>2, <1>6, ReleaseFields
<1>7. ASSUME NEW t \in Turn, BeginStep(t) \/ BeginRecording(t) PROVE Created'
  BY <1>3, <1>7, BeginMoves DEF BeginRecording
<1>8. ASSUME NEW t \in Turn, AskStep(t) \/ FinishRecording(t) PROVE Created'
  <2>1. CASE Plain(t) \/ FinishRecording(t) BY <1>3, <2>1, AskMoves DEF FinishRecording
  <2> QED BY <1>4, <1>5, <1>6, <1>8, <2>1 DEF AskStep, Plain
<1>9. ASSUME NEW t \in Turn, TypeQuestion(t) PROVE Created' BY <1>4, <1>9 DEF TypeQuestion
<1>10. ASSUME NEW s \in Session, RouteStep(s) PROVE Created'
  BY <1>1, <1>4, <1>10, PanelTurnFrame DEF RouteStep
<1> QED
  BY <1>1, <1>7, <1>8, <1>9, <1>10, PanelTurnFrame, CloseNumbers DEF PanelStep

----------------------------------------------------------------------------
(* The inductive invariant every theorem below rests on.                    *)
TypeInv == QaTypeOK /\ ConfirmInv /\ Created

(* The parts of the inductive invariant, by name,                           *)
LEMMA TypeParts ==
    TypeInv <=> /\ VoiceTypeOK /\ PanelTypes /\ TurnTypes
                /\ ConfirmInv /\ Created
BY QaParts DEF TypeInv

(* which every step keeps                                                   *)
LEMMA TypeStep ==
    ASSUME TypeInv, [QaNext]_allVars
    PROVE  TypeInv'
<1>0. VoiceTypeOK /\ PanelTypes /\ TurnTypes /\ ConfirmInv /\ Created /\ Numbered
  BY TypeParts DEF Numbered, Created, ConfirmInv
<1>1. CASE UNCHANGED allVars
  <2>1. VoiceTypeOK' /\ PanelTypes' /\ TurnTypes' /\ Created'
    BY <1>0, <1>1 DEF allVars, voiceVars, qaVars, captureVars, hostVars, taskVars, panelVars, registry,
       VoiceTypeOK, CaptureTypeOK, PanelTypes, TurnTypes, Created
  <2>2. ConfirmInv' BY <1>0, <1>1, ConfirmFrame DEF allVars, voiceVars, taskVars
  <2> QED BY <2>1, <2>2, QaParts DEF TypeInv, QaTypeOK, PanelTypes, TurnTypes
<1>2. CASE QaNext
  <2>1. inserted' \in [Session -> 0..2] BY <1>0, <1>2, InsertedTyped DEF ConfirmInv, Pending
  <2>2. CASE PanelStep /\ UNCHANGED budget
    <3>1. VoiceTypeOK'
      BY <1>0, <2>1, <2>2, PanelCapture, PanelCommandTypes DEF VoiceTypeOK, HostTypes, TaskTypes
    <3>2. PanelTypes' BY <1>0, <2>2, PanelTyped
    <3>3. TurnTypes'
      BY <1>0, <2>2, TurnTyped, RegistryTyped, FaultTyped, ClosesTyped DEF TurnTypes, Runtime
    <3>4. ConfirmInv' /\ Created' BY <1>0, <2>2, ConfirmPanelStep, CreatedStep
    <3> QED BY <3>1, <3>2, <3>3, <3>4 DEF TypeInv, QaTypeOK, PanelTypes, TurnTypes
  <2>3. CASE CommandStep /\ UNCHANGED qaVars /\ UNCHANGED budget
    <3>1. VoiceTypeOK'
      BY <1>0, <2>1, <2>3, CommandCapture, CommandHost, CommandTasks
      DEF VoiceTypeOK, HostTypes, TaskTypes
    <3>2. PanelTypes' /\ TurnTypes' /\ Created'
      BY <1>0, <2>3 DEF qaVars, panelVars, registry, PanelTypes, TurnTypes, Created
    <3>3. ConfirmInv' BY <1>0, <2>3, ConfirmCommandStep
    <3> QED BY <3>1, <3>2, <3>3 DEF TypeInv, QaTypeOK, PanelTypes, TurnTypes
  <2> QED BY <1>2, <2>2, <2>3 DEF QaNext
<1> QED BY <1>1, <1>2

(* and the initial state has.                                               *)
LEMMA TypeInit == QaInit => TypeInv
<1> SUFFICES ASSUME QaInit PROVE TypeInv OBVIOUS
<1> USE DEF QaInit, VoiceInit, CaptureInit
<1>1. VoiceTypeOK
  <2>1. voice \in VoiceState BY DEF NewVoice, VoiceState, VoicePhase, Resting
  <2>2. CaptureTypeOK BY DEF CaptureTypeOK, MicState
  <2>3. apply \in [Id -> Confirmation]
    <3>1. [pc |-> "no", session |-> 0] \in Confirmation BY DEF Confirmation
    <3> QED BY <3>1
  <2>4. start \in [Session -> StartPc]
    <3>1. "idle" \in StartPc BY DEF StartPc
    <3> QED BY <3>1
  <2>5. end \in [Session -> EndPc]
    <3>1. "idle" \in EndPc BY DEF EndPc
    <3> QED BY <3>1
  <2>6. /\ teardown \in [Session -> {"no", "plain", "control"}]
        /\ inserted \in [Session -> 0..2]
        /\ target \in Session \cup {0} /\ slot \in Session \cup {0}
    OBVIOUS
  <2> HIDE DEF QaInit, VoiceInit, CaptureInit
  <2> QED BY <2>1, <2>2, <2>3, <2>4, <2>5, <2>6 DEF VoiceTypeOK
<1>2. PanelTypes
  <2> HIDE DEF VoiceInit, CaptureInit
  <2>1. 0 \in 0..MaxTurn BY BoundsAssumption
  <2> QED BY <2>1, DefaultTyped DEF PanelTypes
<1>3. TurnTypes
  <2>1. NoTurn \in TurnType BY DEF NoTurn, TurnType, BeginPc, AskPc
  <2>2. NoClose \in CloseType BY DEF NoClose, CloseType
  <2> QED BY <2>1, <2>2 DEF TurnTypes
<1>4. ConfirmInv
  BY DEF NewVoice, ConfirmInv, Named, Pending, Untouched, InsertedOnce, Unconfirmed, Unapplied
<1>5. Created BY DEF Created, NoTurn
<1> QED BY <1>1, <1>2, <1>3, <1>4, <1>5, TypeParts

(* Every variable of the panel and of the commands has its type: no call of *)
(* begin, ask, cancel, dismiss or of a command stores anything else.        *)
THEOREM TypesHold == QaSpec => []QaTypeOK
<1>1. QaInit => TypeInv BY TypeInit
<1>2. TypeInv /\ [QaNext]_allVars => TypeInv' BY TypeStep
<1>3. TypeInv => QaTypeOK BY DEF TypeInv
<1> QED BY <1>1, <1>2, <1>3, PTL DEF QaSpec

(* The text of a session is inserted at most once, however often and by     *)
(* whom it is confirmed (begin_preview_apply, finish_preview_apply).        *)
THEOREM InsertsOnce == QaSpec => []InsertedOnce
<1>1. QaInit => TypeInv BY TypeInit
<1>2. TypeInv /\ [QaNext]_allVars => TypeInv' BY TypeStep
<1>3. TypeInv => InsertedOnce BY DEF TypeInv, ConfirmInv
<1> QED BY <1>1, <1>2, <1>3, PTL DEF QaSpec

----------------------------------------------------------------------------
(* Who holds the microphone has the lease in the gate,                      *)
LEMMA MicrophoneHeld ==
    ASSUME CaptureTypeOK, OneMicrophone, NEW i \in Id, UNCHANGED lease,
           \/ mic' = mic \/ mic' = CancelMic(i)
           \/ \E m \in MicState :
                 /\ m = "ended" \/ Holding(i) \/ lease = i
                 /\ mic' = [mic EXCEPT ![i] = m]
    PROVE  OneMicrophone'
BY DEF OneMicrophone, Holding, CancelMic, CaptureTypeOK

LEMMA MicrophoneFrame == OneMicrophone /\ UNCHANGED <<lease, mic>> => OneMicrophone'
BY DEF OneMicrophone, Holding

(* and a lease is acquired only when nobody holds it.                       *)
LEMMA MicrophoneTaken ==
    ASSUME CaptureTypeOK, OneMicrophone, NEW i \in Id, Acquire(i), UNCHANGED mic
    PROVE  OneMicrophone'
BY Numbers, BoundsAssumption DEF OneMicrophone, Holding, CaptureTypeOK, Acquire, LeaseFree, Id

LEMMA MicrophoneCommandStep ==
    ASSUME CaptureTypeOK, OneMicrophone, CommandStep
    PROVE  OneMicrophone'
<1> USE Numbers DEF Holding, MicState
<1>1. ASSUME NEW s \in Session, Begin(s) PROVE OneMicrophone'
  BY <1>1, MicrophoneTaken DEF Begin
<1>2. ASSUME NEW s \in Session, HoldResources(s) \/ Bind(s) \/ Opens(s) \/ OpenFails(s) \/ Install(s)
      PROVE  OneMicrophone'
  BY <1>2, MicrophoneHeld DEF HoldResources, CanHold, Bind, Opens, OpenFails, Install, StartSucceeds,
     StartFails
<1>3. ASSUME NEW s \in Session, SetTarget(s) \/ Discarded(s) \/ StartFailed(s) \/ StartClears(s)
      PROVE  OneMicrophone'
  BY <1>3, MicrophoneFrame DEF SetTarget, Discarded, StartFailed, StartClears, captureVars
<1>4. ASSUME NEW s \in Session, TakeCapture(s) \/ Transcribed(s)
      PROVE  OneMicrophone'
  BY <1>4, MicrophoneHeld DEF TakeCapture, Transcribed, BeginFinish, Settle
<1>5. ASSUME NEW s \in Session,
             \/ MarkProcessing(s) \/ Confirm(s) \/ RecordingFault(s) \/ Generated(s)
             \/ Resolve(s) \/ Route(s) \/ EndFailed(s) \/ EndClears(s)
             \/ ConfirmDirect(s) \/ DirectApplied(s)
      PROVE  OneMicrophone'
  BY <1>5, MicrophoneFrame DEF MarkProcessing, Confirm, RecordingFault, Generated, Resolve, Route,
     EndFailed, EndClears, ConfirmDirect, DirectApplied, captureVars
<1>6. ASSUME NEW s \in Session, TearDown(s) PROVE OneMicrophone'
  BY <1>6, MicrophoneHeld DEF TearDown, HostForgets
<1>7. ASSUME NEW i \in Id, CaptureCloses(i) PROVE OneMicrophone'
  BY <1>7, MicrophoneHeld DEF CaptureCloses, Closed
<1>8. ASSUME NEW i \in Id, FindTarget(i) \/ Insert(i) \/ Report(i) PROVE OneMicrophone'
  BY <1>8, MicrophoneFrame DEF FindTarget, Insert, Report, captureVars
<1>9. UserCancels => OneMicrophone' BY MicrophoneFrame DEF UserCancels, captureVars
<1> QED
  BY <1>1, <1>2, <1>3, <1>4, <1>5, <1>6, <1>7, <1>8, <1>9 DEF CommandStep, StartStep, EndStep

LEMMA MicrophonePanelStep ==
    ASSUME CaptureTypeOK, TurnTypes, OneMicrophone, PanelStep
    PROVE  OneMicrophone'
<1> USE Numbers DEF Holding, MicState
<1>1. ASSUME NEW t \in Turn, RuntimeCancel(t), UNCHANGED lease PROVE OneMicrophone'
  BY <1>1, MicrophoneHeld DEF RuntimeCancel
<1>2. ASSUME NEW t \in Turn, BeginRecording(t) PROVE OneMicrophone'
  BY <1>2, MicrophoneTaken DEF BeginRecording
<1>3. ASSUME NEW t \in Turn, SelectionCaptured(t) \/ QaOpens(t) \/ QaInstalls(t) PROVE OneMicrophone'
  BY <1>3, MicrophoneHeld DEF SelectionCaptured, CanHold, QaOpens, QaInstalls, StartSucceeds, StartFails
<1>4. ASSUME NEW t \in Turn, BeginSweeps(t) \/ FaultSweeps(t) \/ AskSweeps(t) PROVE OneMicrophone'
  BY <1>1, <1>4 DEF BeginSweeps, FaultSweeps, AskSweeps
<1>5. ASSUME NEW t \in Turn, StopMicrophone(t) \/ QuestionHeard(t) PROVE OneMicrophone'
  BY <1>5, MicrophoneHeld DEF StopMicrophone, QuestionHeard, BeginFinish, Settle
<1>6. ASSUME NEW t \in Turn, ContextCaptured(t) PROVE OneMicrophone'
  BY <1>1, <1>6, MicrophoneFrame DEF ContextCaptured
<1>7. ASSUME NEW c \in Close, CloseCancelsRuntime(c) PROVE OneMicrophone'
  <2>1. close[c].runtime \in Turn \cup {0} BY DEF TurnTypes, CloseType
  <2> QED BY <1>1, <1>7, <2>1, MicrophoneFrame DEF CloseCancelsRuntime
<1>8. ASSUME NEW t \in Turn,
              \/ ShowRecording(t) \/ FaultFails(t) \/ AskReleases(t) \/ EditGenerated(t)
              \/ Register(t) \/ Arm(t) \/ QaDiscarded(t) \/ BeginFails(t) \/ FaultStarts(t)
              \/ FinishRecording(t) \/ TypeQuestion(t) \/ ShowQuestion(t) \/ Prepare(t)
              \/ CheckCurrent(t) \/ PushQuestion(t) \/ Answered(t) \/ Revised(t)
              \/ CompleteRuntime(t) \/ SettleAnswer(t) \/ AskFails(t) \/ AppliedEditCloses(t)
              \/ EditPreview(t) \/ BindTarget(t) \/ AskClears(t) \/ ConfirmEdit(t) \/ EditApplied(t)
       PROVE  OneMicrophone'
  BY <1>8, MicrophoneFrame
  DEF ShowRecording, FaultFails, AskReleases, EditGenerated, Register, Arm, QaDiscarded, BeginFails,
      FaultStarts, FinishRecording, TypeQuestion, ShowQuestion, Prepare, CheckCurrent, PushQuestion,
      Answered, Revised, CompleteRuntime, SettleAnswer, AskFails, AppliedEditCloses, EditPreview,
      BindTarget, AskClears, ConfirmEdit, EditApplied, voiceVars, captureVars
<1>9. ASSUME NEW c \in Close, UserCloses(c) \/ CloseHides(c) \/ CloseClearsPreview(c) PROVE OneMicrophone'
  BY <1>9, MicrophoneFrame DEF UserCloses, CloseHides, CloseClearsPreview, voiceVars, captureVars
<1>10. ASSUME Show \/ ToggleEditMode PROVE OneMicrophone'
  BY <1>10, MicrophoneFrame DEF Show, ToggleEditMode, voiceVars, captureVars
<1>11. ASSUME NEW s \in Session, RouteStep(s) PROVE OneMicrophone'
  BY <1>11, MicrophoneFrame
  DEF RouteStep, RouteShows, RouteSetsMode, RouteAsks, RouteReturns, captureVars
<1>12. ASSUME NEW t \in Turn, AskStep(t) \/ BeginStep(t) \/ FaultStep(t) PROVE OneMicrophone'
  BY <1>3, <1>4, <1>5, <1>6, <1>8, <1>12 DEF AskStep, BeginStep, FaultStep
<1> QED
  BY <1>2, <1>7, <1>8, <1>9, <1>10, <1>11, <1>12, CloseNumbers DEF PanelStep, CloseStep

LEMMA MicrophoneStep ==
    ASSUME TypeInv, OneMicrophone, [QaNext]_allVars
    PROVE  OneMicrophone'
<1>1. CaptureTypeOK /\ TurnTypes BY TypeParts DEF VoiceTypeOK
<1>2. CASE UNCHANGED allVars
  BY <1>2, MicrophoneFrame DEF allVars, voiceVars, captureVars
<1>3. CASE QaNext
  BY <1>1, <1>3, MicrophonePanelStep, MicrophoneCommandStep DEF QaNext
<1> QED BY <1>2, <1>3

(* At most one native capture holds the microphone, the one of the lease in *)
(* the gate (VoiceSessionGate::acquire), for questions and commands alike.  *)
THEOREM MicrophoneIsExclusive == QaSpec => []OneMicrophone
<1>1. QaInit => TypeInv /\ OneMicrophone
  <2>1. QaInit => OneMicrophone BY DEF QaInit, VoiceInit, CaptureInit, OneMicrophone, Holding
  <2> QED BY <2>1, TypeInit
<1>2. TypeInv /\ OneMicrophone /\ [QaNext]_allVars => (TypeInv /\ OneMicrophone)'
  BY TypeStep, MicrophoneStep
<1> QED BY <1>1, <1>2, PTL DEF QaSpec

----------------------------------------------------------------------------
(* Every answer directly follows its question.                              *)
Follows(m) ==
    \A i \in DOMAIN m : m[i][1] = "assistant" => i > 1 /\ m[i - 1] = <<"user", m[i][2]>>

(* A call that has pushed its question.                                     *)
Answering == {"answer", "edit", "revise", "generate", "bind", "complete", "settle"}

(* The question of the turn that asks is the last message.                  *)
Asked(t) == Asking(t) => qa.messages # <<>> /\ qa.messages[Len(qa.messages)] = <<"user", t>>

(* The inductive invariant of the messages.                                 *)
MessageInv ==
    /\ Follows(qa.messages) /\ Follows(previous.messages)
    /\ previous.phase \notin {"Recording", "Thinking"}
    /\ \A t \in Turn : turn[t].ask \in Answering => Asked(t)

Message == {"user", "assistant"} \X Turn

(* What a question, an answer and a question taken back do to messages.     *)
LEMMA FollowsForms ==
    ASSUME NEW m \in Seq(Message), Follows(m), NEW t \in Turn
    PROVE  /\ Follows(Append(m, <<"user", t>>))
           /\ Append(m, <<"user", t>>) # <<>>
           /\ Append(m, <<"user", t>>)[Len(Append(m, <<"user", t>>))] = <<"user", t>>
           /\ m # <<>> /\ m[Len(m)] = <<"user", t>> => Follows(Append(m, <<"assistant", t>>))
           /\ m # <<>> => Follows(SubSeq(m, 1, Len(m) - 1))
<1>0. /\ m \in Seq(Message) /\ Len(m) \in Nat /\ DOMAIN m = 1..Len(m)
      /\ \A i \in 1..Len(m) : m[i][1] = "assistant" => i > 1 /\ m[i - 1] = <<"user", m[i][2]>>
  BY LenProperties DEF Follows
<1>1. ASSUME NEW x
      PROVE  /\ Len(Append(m, x)) = Len(m) + 1 /\ DOMAIN Append(m, x) = 1..Len(m) + 1
             /\ Append(m, x)[Len(m) + 1] = x
             /\ \A i \in 1..Len(m) : Append(m, x)[i] = m[i]
  OBVIOUS
<1>2. Follows(Append(m, <<"user", t>>))
  BY <1>0, <1>1 DEF Follows
<1>3. ASSUME m # <<>>, m[Len(m)] = <<"user", t>> PROVE Follows(Append(m, <<"assistant", t>>))
  <2>1. Len(m) > 0 BY <1>0, <1>3, EmptySeq
  <2> QED BY <1>0, <1>1, <1>3, <2>1 DEF Follows
<1>4. ASSUME m # <<>> PROVE Follows(SubSeq(m, 1, Len(m) - 1))
  <2>1. Len(m) > 0 BY <1>0, <1>4, EmptySeq
  <2> DEFINE f == SubSeq(m, 1, Len(m) - 1)
  <2>2. Len(f) = Len(m) - 1 /\ DOMAIN f = 1..Len(m) - 1 /\ \A i \in 1..Len(m) - 1 : f[i] = m[i]
    BY <1>0, <2>1
  <2> HIDE DEF f
  <2> QED BY <1>0, <2>2 DEF Follows
<1>5. Append(m, <<"user", t>>) # <<>> BY <1>0, <1>1
<1> QED BY <1>0, <1>1, <1>2, <1>3, <1>4, <1>5

----------------------------------------------------------------------------
(* No call starts to answer.                                                *)
Stays == \A u \in Turn : turn'[u].ask \in Answering => turn[u].ask \in Answering

LEMMA CallStays ==
    ASSUME TurnTypes, NEW t \in Turn
    PROVE  /\ UNCHANGED turn => Stays
           /\ \A p : BeginAt(t, p) => Stays
           /\ \A p : AskAt(t, p) /\ (p \notin Answering \/ turn[t].ask \in Answering) => Stays
           /\ \A p, s, b : EditsWith(t, p, s, b) /\ turn[t].ask \in Answering => Stays
           /\ AskReleases(t) => Stays
<1>1. UNCHANGED turn => Stays BY DEF Stays
<1>2. ASSUME NEW p, BeginAt(t, p) PROVE Stays BY <1>2, BeginAtFields DEF Stays
<1>3. ASSUME NEW p, AskAt(t, p), p \notin Answering \/ turn[t].ask \in Answering PROVE Stays
  <2>1. turn'[t].ask = p /\ \A u \in Turn \ {t} : turn'[u] = turn[u] BY <1>3, AskAtFields
  <2> QED BY <1>3, <2>1 DEF Stays
<1>4. ASSUME NEW p, NEW s, NEW b, EditsWith(t, p, s, b), turn[t].ask \in Answering PROVE Stays
  BY <1>4 DEF Stays, EditsWith, TurnTypes
<1>5. ASSUME AskReleases(t) PROVE Stays BY <1>5, ReleaseFields DEF Stays, Answering
<1> QED BY <1>1, <1>2, <1>3, <1>4, <1>5

(* The snapshot a turn may be taken back to is kept or dropped.             *)
Forgets == previous' = previous \/ previous' = DefaultSnapshot

LEMMA DefaultFollows == Follows(DefaultSnapshot.messages) /\ DefaultSnapshot.phase = "Idle"
BY DEF Follows, DefaultSnapshot

LEMMA MessageStays ==
    ASSUME MessageInv, Stays, Forgets, UNCHANGED qa
    PROVE  MessageInv'
BY DefaultFollows DEF MessageInv, Stays, Forgets, Asked, Asking

LEMMA MessageQuiet ==
    ASSUME MessageInv, Forgets, Follows(qa'.messages), qa'.phase # "Thinking"
    PROVE  MessageInv'
BY DefaultFollows DEF MessageInv, Forgets, Asked, Asking

(* A turn begins,                                                           *)
LEMMA MessageClaim ==
    ASSUME MessageInv, PanelTypes, NEW t \in Turn, NEW p, NEW from \in Snapshot,
           from = qa \/ from = DefaultSnapshot, ClaimTurn(t, p, from),
           turn'[t].ask \notin Answering
    PROVE  MessageInv'
<1>1. /\ qa'.session = t /\ qa'.messages = from.messages
      /\ previous' = qa /\ qa.phase \notin {"Recording", "Thinking"}
  BY DEF ClaimTurn, NewTurn, Snapshot, QaActive
<1>2. Follows(from.messages) BY DefaultFollows DEF MessageInv
<1> QED BY <1>1, <1>2 DEF MessageInv, Asked, Asking

(* or fails.                                                                *)
LEMMA MessageFails ==
    ASSUME MessageInv, PanelTypes, NEW t \in Turn, FailIfCurrent(t), Stays, UNCHANGED previous
    PROVE  MessageInv'
<1>1. CASE UNCHANGED qa BY <1>1, MessageStays DEF Forgets
<1>2. CASE ~UNCHANGED qa
  <2>1. qa.messages \in Seq(Message) BY DEF PanelTypes, Snapshot, Message
  <2>2. qa' = [qa EXCEPT !.phase = "Failed", !.conversation = 0,
                 !.messages = IF LastIsUser THEN SubSeq(@, 1, Len(@) - 1) ELSE @]
    BY <1>2 DEF FailIfCurrent
  <2>3. Follows(IF LastIsUser THEN SubSeq(qa.messages, 1, Len(qa.messages) - 1) ELSE qa.messages)
    BY <2>1, FollowsForms DEF MessageInv, LastIsUser
  <2>4. qa'.phase = "Failed" /\ Follows(qa'.messages) BY <2>2, <2>3 DEF PanelTypes, Snapshot
  <2> QED BY <2>4, MessageQuiet DEF Forgets
<1> QED BY <1>1, <1>2

LEMMA MessageTurns ==
    ASSUME MessageInv, VoiceTypeOK, PanelTypes, TurnTypes, NEW t \in Turn,
           \/ BeginRecording(t) \/ BeginStep(t) \/ FaultStep(t) \/ FinishRecording(t)
           \/ TypeQuestion(t) \/ AskStep(t)
    PROVE  MessageInv'
<1>1. ASSUME NEW s \in Session \cup {0}, NEW b \in BOOLEAN, SubmitText(t, s, b) PROVE MessageInv'
  <2>1. turn'[t].ask = "show" BY <1>1 DEF SubmitText, TurnTypes, TurnType
  <2> QED BY <1>1, <2>1, MessageClaim DEF SubmitText, Answering, PanelTypes
<1>2. CASE BeginRecording(t)
  <2>1. turn'[t].ask = turn[t].ask /\ BeginAt(t, "show") BY <1>2, BeginAtFields DEF BeginRecording
  <2>2. PICK from \in {qa, DefaultSnapshot} : ClaimTurn(t, "Recording", from)
    BY <1>2 DEF BeginRecording
  <2>3. /\ qa'.session = t /\ qa'.messages = from.messages /\ qa'.phase = "Recording"
        /\ previous' = qa /\ qa.phase \notin {"Recording", "Thinking"}
    BY <2>2, DefaultTyped DEF ClaimTurn, NewTurn, Snapshot, QaActive, PanelTypes
  <2>4. Follows(from.messages) BY DefaultFollows DEF MessageInv
  <2> QED BY <2>3, <2>4 DEF MessageInv, Asked, Asking
<1>3. CASE ShowRecording(t) \/ ShowQuestion(t)
  <2>1. Forgets BY <1>3 DEF ShowRecording, ShowQuestion, Forgets
  <2>2. Stays BY <1>3, CallStays DEF ShowRecording, ShowQuestion, Answering
  <2>3. CASE UNCHANGED qa BY <2>1, <2>2, <2>3, MessageStays
  <2>4. CASE qa' = previous BY <2>1, <2>4, MessageQuiet DEF MessageInv
  <2> QED BY <1>3, <2>3, <2>4 DEF ShowRecording, ShowQuestion, TakeBack
<1>4. CASE BeginFails(t) \/ AskFails(t) \/ FaultFails(t)
  <2>1. Stays BY <1>4, CallStays DEF BeginFails, AskFails, FaultFails, Answering
  <2> QED BY <1>4, <2>1, MessageFails DEF BeginFails, AskFails, FaultFails
<1>5. CASE FinishRecording(t)
  <2>1. turn'[t].ask = "finish" BY <1>5, AskAtFields DEF FinishRecording
  <2>2. qa'.session = t /\ qa'.messages = qa.messages /\ UNCHANGED previous
    BY <1>5 DEF FinishRecording, RecordingQuestion, PanelTypes, Snapshot
  <2> QED BY <2>1, <2>2 DEF MessageInv, Asked, Asking, Answering
<1>6. CASE PushQuestion(t)
  <2>1. CASE Asking(t)
    <3>1. qa' = [qa EXCEPT !.messages = Append(@, <<"user", t>>)] /\ UNCHANGED previous
      BY <1>6, <2>1 DEF PushQuestion
    <3>2. qa'.messages = Append(qa.messages, <<"user", t>>) /\ qa'.session = t
      BY <2>1, <3>1 DEF PanelTypes, Snapshot, Asking
    <3>3. qa.messages \in Seq(Message) BY DEF PanelTypes, Snapshot, Message
    <3> QED BY <3>1, <3>2, <3>3, FollowsForms DEF MessageInv, Asked, Asking
  <2>2. CASE ~Asking(t)
    <3>1. AskAt(t, "release") /\ UNCHANGED <<qa, previous>> BY <1>6, <2>2 DEF PushQuestion
    <3> QED BY <3>1, CallStays, MessageStays DEF Forgets, Answering
  <2> QED BY <2>1, <2>2
<1>7. CASE SettleAnswer(t)
  <2>1. CASE Asking(t)
    <3>1. /\ qa' = [qa EXCEPT !.messages = Append(@, <<"assistant", t>>), !.phase = "Completed"]
          /\ UNCHANGED previous
      BY <1>7, <2>1 DEF SettleAnswer
    <3>2. qa'.messages = Append(qa.messages, <<"assistant", t>>) /\ qa'.phase = "Completed"
      BY <3>1 DEF PanelTypes, Snapshot
    <3>3. qa.messages # <<>> /\ qa.messages[Len(qa.messages)] = <<"user", t>>
      BY <1>7, <2>1 DEF SettleAnswer, MessageInv, Asked, Answering
    <3>4. qa.messages \in Seq(Message) BY DEF PanelTypes, Snapshot, Message
    <3> QED BY <3>1, <3>2, <3>3, <3>4, FollowsForms, MessageQuiet DEF MessageInv, Forgets
  <2>2. CASE ~Asking(t)
    <3>1. AskAt(t, "release") /\ UNCHANGED <<qa, previous>> BY <1>7, <2>2 DEF SettleAnswer
    <3> QED BY <3>1, CallStays, MessageStays DEF Forgets, Answering
  <2> QED BY <2>1, <2>2
<1>8. CASE /\ BeginStep(t) \/ FaultStep(t)
           /\ ~(ShowRecording(t) \/ BeginFails(t) \/ FaultFails(t))
  <2>1. Stays
    <3>1. CASE BeginStep(t) BY <3>1, BeginMoves, CallStays
    <3>2. CASE FaultStep(t) BY <3>2, PanelTurnFrame, CallStays
    <3> QED BY <1>8, <3>1, <3>2
  <2>2. UNCHANGED <<qa, previous>>
    BY <1>8 DEF BeginStep, FaultStep, Register, SelectionCaptured, QaOpens, QaInstalls, Arm,
       QaDiscarded, BeginSweeps, FaultStarts, FaultSweeps, panelVars
  <2> QED BY <2>1, <2>2, MessageStays DEF Forgets
<1>9. CASE \/ StopMicrophone(t) \/ QuestionHeard(t) \/ Prepare(t) \/ ContextCaptured(t)
           \/ CheckCurrent(t) \/ Answered(t) \/ EditGenerated(t) \/ BindTarget(t)
           \/ CompleteRuntime(t) \/ AskSweeps(t) \/ AskClears(t)
  <2>1. Stays
    BY <1>9, CallStays
    DEF StopMicrophone, QuestionHeard, Prepare, ContextCaptured, CheckCurrent, Answered,
        EditGenerated, BindTarget, CompleteRuntime, AskSweeps, AskClears, AfterCancel, Answering
  <2>2. UNCHANGED <<qa, previous>>
    BY <1>9
    DEF StopMicrophone, QuestionHeard, Prepare, ContextCaptured, CheckCurrent, Answered,
        EditGenerated, BindTarget, CompleteRuntime, AskSweeps, AskClears, panelVars
  <2> QED BY <2>1, <2>2, MessageStays DEF Forgets
<1>10. CASE EditPreview(t) \/ Revised(t) \/ AskReleases(t)
  <2>1. Stays BY <1>10, CallStays DEF EditPreview, Revised, Answering
  <2>2. UNCHANGED <<qa, previous>> BY <1>10 DEF EditPreview, Revised, AskReleases, panelVars
  <2> QED BY <2>1, <2>2, MessageStays DEF Forgets
<1> QED
  BY <1>1, <1>2, <1>3, <1>4, <1>5, <1>6, <1>7, <1>8, <1>9, <1>10
  DEF TypeQuestion, AskStep, BeginStep, FaultStep

LEMMA MessagePanelStep ==
    ASSUME MessageInv, VoiceTypeOK, PanelTypes, TurnTypes, PanelStep
    PROVE  MessageInv'
<1>1. ASSUME NEW s \in Session \cup {0}, NEW b \in BOOLEAN, NEW t \in Turn, SubmitText(t, s, b)
      PROVE  MessageInv'
  <2>1. turn'[t].ask = "show" BY <1>1 DEF SubmitText, TurnTypes, TurnType
  <2> QED BY <1>1, <2>1, MessageClaim DEF SubmitText, Answering, PanelTypes
<1>2. ASSUME UNCHANGED <<qa, previous, turn>> PROVE MessageInv'
  BY <1>2, MessageStays DEF Forgets, Stays
<1>3. ASSUME NEW c \in Close, NEW b \in BOOLEAN, NEW r, ClaimClose(c, b, r), UNCHANGED previous
      PROVE  MessageInv'
  <2>1. qa'.phase # "Thinking" /\ qa'.messages = qa.messages
    BY <1>3 DEF ClaimClose, PanelTypes, Snapshot
  <2> QED BY <1>3, <2>1, MessageQuiet DEF MessageInv, Forgets
<1>4. ASSUME NEW t \in Turn, ConfirmEdit(t) \/ EditApplied(t) \/ AppliedEditCloses(t) PROVE MessageInv'
  <2>1. CASE UNCHANGED qa
    BY <1>2, <1>4, <2>1 DEF ConfirmEdit, EditApplied, AppliedEditCloses, panelVars, qaVars
  <2>2. CASE AppliedEditCloses(t) /\ ~UNCHANGED qa
    BY <1>3, <2>2, CloseNumbers DEF AppliedEditCloses
  <2> QED BY <1>4, <2>1, <2>2 DEF ConfirmEdit, EditApplied, panelVars, qaVars
<1>5. ASSUME NEW c \in UserClose, UserCloses(c) PROVE MessageInv'
  BY <1>3, <1>5, CloseNumbers DEF UserCloses
<1>6. ASSUME NEW c \in Close, CloseStep(c) PROVE MessageInv'
  <2>1. CASE UNCHANGED qa
    BY <1>2, <1>6, <2>1
    DEF CloseStep, CloseHides, CloseCancelsRuntime, CloseClearsPreview, panelVars
  <2>2. CASE qa' = DefaultSnapshot /\ UNCHANGED previous
    BY <2>2, DefaultFollows, MessageQuiet DEF Forgets
  <2> QED BY <1>6, <2>1, <2>2
       DEF CloseStep, CloseHides, CloseCancelsRuntime, CloseClearsPreview, panelVars
<1>7. ASSUME NEW b \in BOOLEAN, SetEditInstructionMode(b), UNCHANGED previous PROVE MessageInv'
  <2>1. qa'.phase # "Thinking" /\ qa'.messages = qa.messages
    BY <1>7 DEF SetEditInstructionMode, QaActive, PanelTypes, Snapshot
  <2> QED BY <1>7, <2>1, MessageQuiet DEF MessageInv, Forgets
<1>8. ASSUME Show \/ ToggleEditMode PROVE MessageInv'
  <2>1. (~qa.editing) \in BOOLEAN OBVIOUS
  <2> QED BY <1>2, <1>7, <1>8, <2>1 DEF Show, ToggleEditMode
<1>9. ASSUME NEW s \in Session, RouteStep(s) PROVE MessageInv'
  <2>1. CASE RouteShows(s) \/ RouteReturns(s)
    BY <1>2, <2>1 DEF RouteShows, RouteReturns, qaVars, panelVars
  <2>2. CASE RouteSetsMode(s)
    <3>1. (end[s] = "converseMode") \in BOOLEAN OBVIOUS
    <3> QED BY <1>2, <1>7, <2>2, <3>1 DEF RouteSetsMode
  <2>3. CASE RouteAsks(s)
    <3>1. (end[s] = "converseAsk") \in BOOLEAN OBVIOUS
    <3> QED BY <1>1, <1>2, <2>3, <3>1 DEF RouteAsks, panelVars
  <2> QED BY <1>9, <2>1, <2>2, <2>3 DEF RouteStep
<1> QED BY <1>4, <1>5, <1>6, <1>8, <1>9, MessageTurns DEF PanelStep

(* An answer directly follows its question, however late it comes and       *)
(* whatever was cancelled, failed or asked meanwhile (push_user_message,    *)
(* answer_input).                                                           *)
THEOREM AnswersFollow == QaSpec => []AnswerFollowsItsQuestion
<1> DEFINE AnswerInv == TypeInv /\ MessageInv
<1>1. QaInit => AnswerInv
  <2>1. QaInit => MessageInv
    BY DefaultFollows DEF QaInit, MessageInv, NoTurn, Answering
  <2> QED BY <2>1, TypeInit
<1>2. AnswerInv /\ [QaNext]_allVars => AnswerInv'
  <2> SUFFICES ASSUME AnswerInv, [QaNext]_allVars PROVE MessageInv' BY TypeStep
  <2>0. VoiceTypeOK /\ PanelTypes /\ TurnTypes BY TypeParts
  <2>1. CASE UNCHANGED qaVars
    BY <2>1, MessageStays DEF Forgets, Stays, qaVars, panelVars
  <2>2. CASE PanelStep BY <2>0, <2>2, MessagePanelStep
  <2> QED BY <2>1, <2>2 DEF QaNext, allVars
<1>3. AnswerInv => AnswerFollowsItsQuestion BY DEF MessageInv, Follows, AnswerFollowsItsQuestion
<1> QED BY <1>1, <1>2, <1>3, PTL DEF QaSpec

----------------------------------------------------------------------------
(* Turn t reached the microphone or a provider.                             *)
Reached(t) == turn[t].begin = "register" \/ turn[t].ask = "prepare" \/ runtime[t] # "none"

(* Turn t has begun.                                                        *)
Begun(t) == turn[t].begin # "idle" \/ turn[t].ask # "idle" \/ runtime[t] # "none"

(* The inductive invariant of the panel: who opens it has the mutex.        *)
ShownInv ==
    /\ QaActive => qa.session # 0
    /\ previous.phase \notin {"Recording", "Thinking"}
    /\ presenter = "close" => ~QaActive
    /\ qa.session <= lastTurn /\ previous.session <= lastTurn
    /\ \A t \in Turn : Begun(t) => t <= lastTurn
    /\ \A t \in Turn :
          turn[t].begin = "show" \/ turn[t].ask = "show" => presenter = "turn" /\ t = lastTurn
    /\ \A t \in Turn : turn[t].ask = "show" => turn[t].begin = "idle"
    /\ \A c \in Close : close[c].pc = "present" => presenter = "close"
    /\ \A c, d \in Close : close[c].pc = "present" /\ close[d].pc = "present" => c = d
    /\ QaActive /\ Reached(qa.session) => window
    /\ \A t \in Turn : RecordingQuestion(t) => turn[t].ask = "idle"

(* No call of turn t opens the panel, reaches a provider or starts.         *)
Goes(t) ==
    /\ turn'[t].begin \in {"show", "register"} => turn'[t].begin = turn[t].begin
    /\ turn'[t].ask \in {"show", "prepare"} => turn'[t].ask = turn[t].ask
    /\ turn[t].begin = "idle" => turn'[t].begin = "idle"
    /\ turn'[t].ask # "idle" =>
          t <= lastTurn /\ (turn[t].ask # "idle" \/ qa'.phase # "Recording")
    /\ runtime'[t] # "none" => Reached(t)

(* The types of the panel and of its calls.                                 *)
Fields == PanelTypes /\ TurnTypes

LEMMA DefaultShown ==
    DefaultSnapshot.session = 0 /\ DefaultSnapshot.phase = "Idle"
BY DEF DefaultSnapshot

LEMMA PanelNumbers ==
    ASSUME Fields
    PROVE  /\ lastTurn \in Nat /\ qa.session \in Turn \cup {0} /\ previous.session \in Turn \cup {0}
           /\ Turn \subseteq Nat \ {0}
BY BoundsAssumption DEF Fields, PanelTypes, Snapshot, Turn

(* A step that leaves the mutex alone and ends no turn unseen.              *)
LEMMA ShownFrame ==
    ASSUME Fields, ShownInv, Forgets, UNCHANGED <<presenter, lastTurn>>,
           qa'.session = qa.session, QaActive' => QaActive, window => window',
           qa'.phase = "Recording" => qa.phase = "Recording",
           \A t \in Turn : Goes(t),
           \A c \in Close : close'[c].pc = "present" => close[c].pc = "present"
    PROVE  ShownInv'
<1> USE PanelNumbers
<1>1. (QaActive => qa.session # 0)' BY DEF ShownInv
<1>2. (previous.phase \notin {"Recording", "Thinking"})' BY DefaultShown DEF ShownInv, Forgets
<1>3. (presenter = "close" => ~QaActive)' BY DEF ShownInv
<1>4. (qa.session <= lastTurn /\ previous.session <= lastTurn)' BY DefaultShown DEF ShownInv, Forgets
<1>5. (\A t \in Turn : Begun(t) => t <= lastTurn)' BY DEF ShownInv, Goes, Begun, Reached
<1>6. (\A t \in Turn :
          turn[t].begin = "show" \/ turn[t].ask = "show" => presenter = "turn" /\ t = lastTurn)'
  BY DEF ShownInv, Goes
<1>7. (\A t \in Turn : turn[t].ask = "show" => turn[t].begin = "idle")' BY DEF ShownInv, Goes
<1>8. (\A c \in Close : close[c].pc = "present" => presenter = "close")' BY DEF ShownInv
<1>9. (\A c, d \in Close : close[c].pc = "present" /\ close[d].pc = "present" => c = d)'
  BY DEF ShownInv
<1>10. (QaActive /\ Reached(qa.session) => window)' BY DEF ShownInv, Goes, Reached
<1>11. (\A t \in Turn : RecordingQuestion(t) => turn[t].ask = "idle")'
  BY DEF ShownInv, Goes, RecordingQuestion
<1> QED BY <1>1, <1>2, <1>3, <1>4, <1>5, <1>6, <1>7, <1>8, <1>9, <1>10, <1>11 DEF ShownInv

----------------------------------------------------------------------------
(* A turn takes the mutex; it is a fresh one.                               *)
LEMMA ShownClaim ==
    ASSUME Fields, ShownInv, NEW t \in Turn, NEW p, NEW from \in Snapshot,
           from = qa \/ from = DefaultSnapshot, ClaimTurn(t, p, from),
           UNCHANGED <<runtime, close>>,
           \A u \in Turn \ {t} : turn'[u] = turn[u],
           \/ turn'[t].begin = "show" /\ turn'[t].ask = turn[t].ask
           \/ turn'[t].ask = "show" /\ turn'[t].begin = turn[t].begin /\ p # "Recording"
    PROVE  ShownInv'
<1> USE PanelNumbers
<1>1. /\ t = lastTurn + 1 /\ lastTurn' = t /\ presenter = "none" /\ presenter' = "turn"
      /\ previous' = qa /\ ~QaActive /\ UNCHANGED window
      /\ qa'.session = t /\ qa'.phase = p
  BY DEF ClaimTurn, NewTurn, Snapshot
<1>2. ~Begun(t) BY <1>1 DEF ShownInv
<1>3. /\ turn[t].begin = "idle" /\ turn[t].ask = "idle" /\ runtime[t] = "none"
  BY <1>2 DEF Begun
<1>4. (\A u \in Turn : Begun(u) => u <= lastTurn)' BY <1>1 DEF ShownInv, Begun
<1>5. (\A u \in Turn :
          turn[u].begin = "show" \/ turn[u].ask = "show" => presenter = "turn" /\ u = lastTurn)'
  BY <1>1 DEF ShownInv
<1>6. (\A u \in Turn : turn[u].ask = "show" => turn[u].begin = "idle")' BY <1>3 DEF ShownInv
<1>7. \A c \in Close : close'[c].pc # "present" BY <1>1 DEF ShownInv
<1>8. ~Reached(qa.session)' BY <1>1, <1>3 DEF Reached
<1>9. (\A c \in Close : close[c].pc = "present" => presenter = "close")' BY <1>7
<1>10. (\A c, d \in Close : close[c].pc = "present" /\ close[d].pc = "present" => c = d)' BY <1>7
<1>11. (previous.phase \notin {"Recording", "Thinking"})' BY <1>1 DEF QaActive
<1>12. (qa.session <= lastTurn /\ previous.session <= lastTurn)' BY <1>1 DEF ShownInv
<1>13. (QaActive => qa.session # 0)' /\ (presenter = "close" => ~QaActive)' BY <1>1
<1>14. (\A u \in Turn : RecordingQuestion(u) => turn[u].ask = "idle")'
  BY <1>1, <1>3 DEF RecordingQuestion
<1> QED BY <1>4, <1>5, <1>6, <1>8, <1>9, <1>10, <1>11, <1>12, <1>13, <1>14 DEF ShownInv

(* A turn gives the mutex back, with the panel shown or taken back.         *)
LEMMA ShownPresented ==
    ASSUME Fields, ShownInv, NEW t \in Turn, turn[t].begin = "show" \/ turn[t].ask = "show",
           presenter' = "none", previous' = DefaultSnapshot, UNCHANGED <<lastTurn, runtime, close>>,
           \/ window' = TRUE /\ UNCHANGED qa
           \/ UNCHANGED window /\ (qa' = qa \/ qa' = previous)
              /\ turn'[t].begin # "register" /\ (turn'[t].ask = "prepare" => turn[t].ask = "prepare"),
           \A u \in Turn \ {t} : turn'[u] = turn[u],
           turn'[t].begin # "show" /\ turn'[t].ask # "show",
           turn[t].ask = "idle" => turn'[t].ask = "idle"
    PROVE  ShownInv'
<1> USE PanelNumbers
<1>0. turn[t].ask = "idle" => turn'[t].ask = "idle" OBVIOUS
<1>1. t = lastTurn /\ presenter = "turn" BY DEF ShownInv
<1>2. (QaActive => qa.session # 0)' BY DEF ShownInv, QaActive
<1>3. (qa.session <= lastTurn /\ previous.session <= lastTurn)' BY DefaultShown DEF ShownInv
<1>4. (\A u \in Turn : Begun(u) => u <= lastTurn)' BY <1>1 DEF ShownInv, Begun
<1>5. (\A u \in Turn : turn[u].begin # "show" /\ turn[u].ask # "show")' BY <1>1 DEF ShownInv
<1>6. (\A c \in Close : close[c].pc # "present")' BY <1>1 DEF ShownInv
<1>7. (QaActive /\ Reached(qa.session) => window)'
  <2>1. CASE window' = TRUE BY <2>1
  <2>2. CASE qa' = previous BY <2>2 DEF ShownInv, QaActive
  <2>3. CASE /\ UNCHANGED <<qa, window>> /\ turn'[t].begin # "register"
             /\ turn'[t].ask = "prepare" => turn[t].ask = "prepare"
    <3>1. QaActive' /\ Reached(qa.session)' => QaActive /\ Reached(qa.session)
      BY <2>3 DEF Reached, QaActive, ShownInv
    <3> QED BY <2>3, <3>1 DEF ShownInv
  <2> QED BY <2>1, <2>2, <2>3
<1>8. (\A u \in Turn : RecordingQuestion(u) => turn[u].ask = "idle")'
  <2>1. CASE qa' = previous BY <2>1 DEF ShownInv, RecordingQuestion
  <2>2. CASE UNCHANGED qa
    <3>1. \A u \in Turn : RecordingQuestion(u) => turn[u].ask = "idle" BY DEF ShownInv
    <3>2. turn[t].ask = "idle" => turn'[t].ask = "idle" BY <1>0
    <3> QED BY <2>2, <3>1, <3>2 DEF RecordingQuestion
  <2> QED BY <2>1, <2>2
<1> QED BY <1>2, <1>3, <1>4, <1>5, <1>6, <1>7, <1>8, DefaultShown DEF ShownInv

(* A dismissal takes the mutex                                              *)
LEMMA ShownClose ==
    ASSUME Fields, ShownInv, NEW c \in Close, NEW b, NEW r, ClaimClose(c, b, r),
           UNCHANGED <<previous, window, lastTurn, runtime, turn>>
    PROVE  ShownInv'
<1> USE PanelNumbers
<1>1. /\ presenter = "none" /\ presenter' = "close" /\ ~QaActive' /\ qa'.session = qa.session
  BY DEF ClaimClose, Fields, PanelTypes, Snapshot, QaActive
<1>2. \A d \in Close : close'[d].pc = "present" => d = c
  BY <1>1 DEF ShownInv, ClaimClose, Fields, TurnTypes
<1>3. \A u \in Turn : turn[u].begin # "show" /\ turn[u].ask # "show" BY <1>1 DEF ShownInv
<1>4. (\A u \in Turn : Begun(u) => u <= lastTurn)' BY DEF ShownInv, Begun
<1>5. (\A u \in Turn : RecordingQuestion(u) => turn[u].ask = "idle")'
  BY <1>1 DEF QaActive, RecordingQuestion
<1> QED BY <1>1, <1>2, <1>3, <1>4, <1>5 DEF ShownInv

(* and gives it back with the panel hidden.                                 *)
LEMMA ShownHides ==
    ASSUME Fields, ShownInv, NEW c \in Close, CloseHides(c)
    PROVE  ShownInv'
<1> USE PanelNumbers
<1>1. /\ presenter = "close" /\ presenter' = "none" /\ ~QaActive /\ close[c].pc = "present"
      /\ UNCHANGED <<previous, lastTurn, runtime, turn>>
  BY DEF ShownInv, CloseHides, registry
<1>2. qa' = qa \/ qa' = DefaultSnapshot BY DEF CloseHides
<1>3. ~QaActive' /\ qa'.session <= lastTurn BY <1>1, <1>2, DefaultShown DEF QaActive, ShownInv
<1>4. \A d \in Close : close'[d].pc # "present"
  BY <1>1 DEF ShownInv, CloseHides, Fields, TurnTypes
<1>5. \A u \in Turn : turn[u].begin # "show" /\ turn[u].ask # "show" BY <1>1 DEF ShownInv
<1>6. (\A u \in Turn : Begun(u) => u <= lastTurn)' BY <1>1 DEF ShownInv, Begun
<1>7. (\A u \in Turn : RecordingQuestion(u) => turn[u].ask = "idle")'
  BY <1>3 DEF QaActive, RecordingQuestion
<1> QED BY <1>1, <1>3, <1>4, <1>5, <1>6, <1>7 DEF ShownInv

----------------------------------------------------------------------------
(* Only a turn that reached a provider is in the registry.                  *)
Runs == \A u \in Turn : runtime'[u] # "none" => Reached(u)

LEMMA RunsOn ==
    ASSUME Fields
    PROVE  /\ UNCHANGED runtime => Runs
           /\ \A t \in Turn : Reached(t) /\ runtime' = [runtime EXCEPT ![t] = "live"] => Runs
           /\ \A t \in Turn, how \in {"gone", "cancelled"} : runtime' = Unregistered(t, how) => Runs
           /\ \A t \in Turn : RuntimeCancel(t) => Runs
BY DEF Fields, TurnTypes, Runs, Reached, Unregistered, RuntimeCancel

(* The call that answers turn t runs, or begins with its recording over.    *)
MayAsk(t) == turn[t].ask # "idle" \/ (qa.session = t /\ qa'.phase # "Recording")

(* The steps of the calls that leave the mutex alone.                       *)
LEMMA CallGoes ==
    ASSUME Fields, ShownInv, NEW t \in Turn, Runs
    PROVE  /\ UNCHANGED turn => \A u \in Turn : Goes(u)
           /\ \A p : /\ BeginAt(t, p) /\ turn[t].begin # "idle" /\ p \notin {"show", "register"}
                     => \A u \in Turn : Goes(u)
           /\ \A p : /\ AskAt(t, p) /\ MayAsk(t)
                     /\ p \notin {"show", "prepare"}
                     => \A u \in Turn : Goes(u)
           /\ \A p, s, b : /\ EditsWith(t, p, s, b) /\ turn[t].ask # "idle"
                           /\ p \notin {"show", "prepare"}
                           => \A u \in Turn : Goes(u)
           /\ AskReleases(t) => \A u \in Turn : Goes(u)
<1> DEFINE Rest == \A u \in Turn \ {t} : turn'[u] = turn[u]
<1>1. ASSUME NEW u \in Turn, turn'[u] = turn[u] PROVE Goes(u)
  BY <1>1 DEF Goes, ShownInv, Begun, Runs
<1>2. UNCHANGED turn => \A u \in Turn : Goes(u) BY <1>1
<1>3. ASSUME NEW p, BeginAt(t, p), turn[t].begin # "idle", p \notin {"show", "register"}
      PROVE  \A u \in Turn : Goes(u)
  <2>1. Rest /\ turn'[t].begin = p /\ turn'[t].ask = turn[t].ask BY <1>3, BeginAtFields DEF Fields
  <2>2. Goes(t) BY <1>3, <2>1 DEF Goes, ShownInv, Begun, Runs
  <2> QED BY <1>1, <2>1, <2>2
<1>4. ASSUME turn'[t].begin = turn[t].begin, turn'[t].ask \notin {"show", "prepare"}, Rest,
             MayAsk(t)
      PROVE  \A u \in Turn : Goes(u)
  <2>1. t <= lastTurn BY <1>4, PanelNumbers DEF ShownInv, Begun, MayAsk
  <2>2. Goes(t) BY <1>4, <2>1 DEF Goes, Runs, MayAsk
  <2> QED BY <1>1, <1>4, <2>2
<1>5. ASSUME NEW p, AskAt(t, p), p \notin {"show", "prepare"},
             MayAsk(t)
      PROVE  \A u \in Turn : Goes(u)
  <2>1. turn'[t].begin = turn[t].begin /\ turn'[t].ask = p /\ Rest
    BY <1>5, AskAtFields DEF Fields
  <2> QED BY <1>4, <1>5, <2>1
<1>6. ASSUME NEW p, NEW s, NEW b, EditsWith(t, p, s, b), turn[t].ask # "idle",
             p \notin {"show", "prepare"}
      PROVE  \A u \in Turn : Goes(u)
  <2>1. turn'[t].begin = turn[t].begin /\ turn'[t].ask = p /\ Rest
    BY <1>6 DEF EditsWith, Fields, TurnTypes, TurnType
  <2> QED BY <1>4, <1>6, <2>1 DEF MayAsk
<1>7. ASSUME AskReleases(t) PROVE \A u \in Turn : Goes(u)
  <2>1. turn'[t].begin = turn[t].begin /\ turn'[t].ask = "done" /\ Rest
    BY <1>7, ReleaseFields DEF Fields
  <2>2. turn[t].ask # "idle" BY <1>7 DEF AskReleases
  <2> QED BY <1>4, <2>1, <2>2 DEF MayAsk
<1> HIDE DEF Rest
<1>8. \A p : /\ BeginAt(t, p) /\ turn[t].begin # "idle" /\ p \notin {"show", "register"}
             => \A u \in Turn : Goes(u)
  BY <1>3
<1>9. \A p : /\ AskAt(t, p) /\ MayAsk(t)
             /\ p \notin {"show", "prepare"}
             => \A u \in Turn : Goes(u)
  BY <1>5
<1>10. \A p, s, b : /\ EditsWith(t, p, s, b) /\ turn[t].ask # "idle" /\ p \notin {"show", "prepare"}
                    => \A u \in Turn : Goes(u)
  BY <1>6
<1> QED BY <1>2, <1>7, <1>8, <1>9, <1>10

(* A step of the panel that leaves the mutex alone.                         *)
LEMMA ShownTurns ==
    ASSUME ShownInv, Fields, NEW t \in Turn,
           \/ BeginRecording(t) \/ BeginStep(t) \/ FaultStep(t) \/ FinishRecording(t)
           \/ TypeQuestion(t) \/ AskStep(t)
    PROVE  ShownInv'
<1> USE DEF Fields
<1>0. ASSUME UNCHANGED <<qa, previous, presenter, window, lastTurn, close>>, \A u \in Turn : Goes(u)
      PROVE  ShownInv'
  BY <1>0, ShownFrame DEF Forgets, QaActive
<1>1. ASSUME NEW s, NEW b, SubmitText(t, s, b), UNCHANGED <<runtime, close>> PROVE ShownInv'
  <2>1. /\ turn'[t].ask = "show" /\ turn'[t].begin = turn[t].begin
        /\ \A u \in Turn \ {t} : turn'[u] = turn[u]
    BY <1>1 DEF SubmitText, TurnTypes, TurnType
  <2> QED BY <1>1, <2>1, ShownClaim DEF SubmitText, PanelTypes
<1>2. CASE BeginRecording(t)
  <2>1. /\ turn'[t].begin = "show" /\ turn'[t].ask = turn[t].ask
        /\ \A u \in Turn \ {t} : turn'[u] = turn[u]
    BY <1>2, BeginAtFields DEF BeginRecording
  <2>2. PICK from \in {qa, DefaultSnapshot} : ClaimTurn(t, "Recording", from)
    BY <1>2 DEF BeginRecording
  <2>3. from \in Snapshot /\ UNCHANGED <<runtime, close>>
    BY <1>2, DefaultTyped DEF PanelTypes, BeginRecording, registry
  <2> QED BY <2>1, <2>2, <2>3, ShownClaim
<1>3. CASE ShowRecording(t)
  <2>1. PICK p \in {"register", "done"} : BeginAt(t, p) /\ (p = "register" => window' = TRUE)
    BY <1>3 DEF ShowRecording
  <2>2. /\ turn'[t].begin = p /\ turn'[t].ask = turn[t].ask
        /\ \A u \in Turn \ {t} : turn'[u] = turn[u]
    BY <2>1, BeginAtFields
  <2>3. turn[t].begin = "show" /\ turn[t].ask # "show" BY <1>3 DEF ShowRecording, ShownInv
  <2>4. /\ presenter' = "none" /\ previous' = DefaultSnapshot /\ UNCHANGED <<lastTurn, runtime, close>>
        /\ \/ window' = TRUE /\ UNCHANGED qa
           \/ UNCHANGED window /\ (qa' = qa \/ qa' = previous) /\ BeginAt(t, "done")
    BY <1>3 DEF ShowRecording, registry, TakeBack
  <2>5. BeginAt(t, "done") => turn'[t].begin = "done" BY BeginAtFields
  <2>6. turn'[t].begin # "show" /\ turn'[t].ask # "show" BY <2>2, <2>3
  <2> QED BY <2>2, <2>3, <2>4, <2>5, <2>6, ShownPresented
<1>4. CASE ShowQuestion(t)
  <2>1. PICK p \in {"prepare", "done"} : AskAt(t, p) /\ (p = "prepare" => window' = TRUE)
    BY <1>4 DEF ShowQuestion
  <2>2. /\ turn'[t].ask = p /\ turn'[t].begin = turn[t].begin
        /\ \A u \in Turn \ {t} : turn'[u] = turn[u]
    BY <2>1, AskAtFields
  <2>3. turn[t].ask = "show" /\ turn[t].begin = "idle" BY <1>4 DEF ShowQuestion, ShownInv
  <2>4. /\ presenter' = "none" /\ previous' = DefaultSnapshot /\ UNCHANGED <<lastTurn, runtime, close>>
        /\ \/ window' = TRUE /\ UNCHANGED qa
           \/ UNCHANGED window /\ (qa' = qa \/ qa' = previous) /\ AskAt(t, "done")
    BY <1>4 DEF ShowQuestion, registry, TakeBack
  <2>5. AskAt(t, "done") => turn'[t].ask = "done" BY AskAtFields
  <2> QED BY <2>2, <2>3, <2>4, <2>5, ShownPresented
<1>5. ASSUME FailIfCurrent(t), UNCHANGED <<previous, presenter, window, lastTurn, close>>,
             \A u \in Turn : Goes(u)
      PROVE  ShownInv'
  <2>1. /\ qa'.session = qa.session /\ (QaActive' => QaActive)
        /\ qa'.phase = "Recording" => qa.phase = "Recording"
    BY <1>5 DEF FailIfCurrent, PanelTypes, Snapshot, QaActive
  <2> QED BY <1>5, <2>1, ShownFrame DEF Forgets
<1>6. CASE BeginFails(t) \/ AskFails(t) \/ FaultFails(t)
  <2>1. Runs BY <1>6, RunsOn DEF BeginFails, AskFails, FaultFails, registry
  <2>2. \A u \in Turn : Goes(u) BY <1>6, <2>1, CallGoes DEF BeginFails, AskFails, FaultFails, MayAsk
  <2> QED BY <1>5, <1>6, <2>2 DEF BeginFails, AskFails, FaultFails
<1>7. CASE FinishRecording(t)
  <2>1. Runs BY <1>7, RunsOn DEF FinishRecording, registry
  <2>2. \A u \in Turn : Goes(u)
    <3>1. AskAt(t, "finish") /\ qa.session = t BY <1>7 DEF FinishRecording, RecordingQuestion
    <3>2. qa'.phase # "Recording" BY <1>7 DEF FinishRecording, PanelTypes, Snapshot
    <3> QED BY <2>1, <3>1, <3>2, CallGoes DEF MayAsk
  <2>3. qa'.session = qa.session /\ QaActive /\ qa'.phase # "Recording"
    BY <1>7 DEF FinishRecording, RecordingQuestion, QaActive, PanelTypes, Snapshot
  <2> QED BY <1>7, <2>2, <2>3, ShownFrame DEF Forgets, FinishRecording
<1>8. CASE PushQuestion(t) \/ SettleAnswer(t)
  <2>1. Runs BY <1>8, RunsOn DEF PushQuestion, SettleAnswer, registry
  <2>2. /\ turn'[t].ask \notin {"show", "prepare"} /\ turn'[t].begin = turn[t].begin
        /\ \A u \in Turn \ {t} : turn'[u] = turn[u]
    <3>1. CASE PushQuestion(t)
      <4>1. turn'[t].ask \in {"edit", "answer", "release"}
        BY <3>1 DEF PushQuestion, AskAt, TurnTypes, TurnType
      <4> QED BY <3>1, <4>1, CallFields
    <3>2. CASE SettleAnswer(t)
      <4>1. turn'[t].ask = "release"
        BY <3>2 DEF SettleAnswer, AskAt, TurnTypes, TurnType
      <4> QED BY <3>2, <4>1, CallFields
    <3> QED BY <1>8, <3>1, <3>2
  <2>3. t <= lastTurn BY <1>8 DEF PushQuestion, SettleAnswer, ShownInv, Begun
  <2>4. \A u \in Turn : Goes(u)
    <3>1. turn[t].ask # "idle" BY <1>8 DEF PushQuestion, SettleAnswer
    <3> QED BY <2>1, <2>2, <2>3, <3>1 DEF Goes, Runs, ShownInv, Begun
  <2>5. /\ qa'.session = qa.session /\ (QaActive' => QaActive)
        /\ qa'.phase = "Recording" => qa.phase = "Recording"
    BY <1>8 DEF PushQuestion, SettleAnswer, PanelTypes, Snapshot, QaActive
  <2> QED BY <1>8, <2>4, <2>5, ShownFrame DEF PushQuestion, SettleAnswer, Forgets
<1>9. CASE \/ Register(t) \/ SelectionCaptured(t) \/ QaOpens(t) \/ QaInstalls(t) \/ Arm(t)
           \/ QaDiscarded(t) \/ BeginSweeps(t) \/ FaultStarts(t) \/ FaultSweeps(t)
  <2>1. Runs
    BY <1>9, RunsOn DEF Register, SelectionCaptured, QaOpens, QaInstalls, Arm, QaDiscarded,
       BeginSweeps, FaultStarts, FaultSweeps, registry, Reached
  <2>2. \A u \in Turn : Goes(u)
    BY <1>9, <2>1, CallGoes DEF Register, SelectionCaptured, QaOpens, QaInstalls, Arm, QaDiscarded,
       BeginSweeps, FaultStarts, FaultSweeps
  <2>3. UNCHANGED <<qa, previous, presenter, window, lastTurn, close>>
    BY <1>9 DEF Register, SelectionCaptured, QaOpens, QaInstalls, Arm, QaDiscarded, BeginSweeps,
       FaultStarts, FaultSweeps, panelVars
  <2> QED BY <1>0, <2>2, <2>3
<1>10. CASE \/ StopMicrophone(t) \/ QuestionHeard(t) \/ Prepare(t) \/ ContextCaptured(t)
            \/ CheckCurrent(t) \/ Answered(t) \/ EditGenerated(t) \/ BindTarget(t)
            \/ CompleteRuntime(t) \/ AskSweeps(t) \/ AskClears(t)
  <2>1. Runs
    BY <1>10, RunsOn
    DEF StopMicrophone, QuestionHeard, Prepare, ContextCaptured, CheckCurrent, Answered,
        EditGenerated, BindTarget, CompleteRuntime, AskSweeps, AskClears, registry, Reached
  <2>2. turn[t].ask # "idle"
    BY <1>10
    DEF StopMicrophone, QuestionHeard, Prepare, ContextCaptured, CheckCurrent, Answered,
        EditGenerated, BindTarget, CompleteRuntime, AskSweeps, AskClears, Cleaned
  <2>3. \E p : AskAt(t, p) /\ p \notin {"show", "prepare"}
    BY <1>10
    DEF StopMicrophone, QuestionHeard, Prepare, ContextCaptured, CheckCurrent, Answered,
        EditGenerated, BindTarget, CompleteRuntime, AskSweeps, AskClears, AfterCancel
  <2>4. \A u \in Turn : Goes(u) BY <2>1, <2>2, <2>3, CallGoes DEF MayAsk
  <2>5. UNCHANGED <<qa, previous, presenter, window, lastTurn, close>>
    BY <1>10
    DEF StopMicrophone, QuestionHeard, Prepare, ContextCaptured, CheckCurrent, Answered,
        EditGenerated, BindTarget, CompleteRuntime, AskSweeps, AskClears, panelVars
  <2> QED BY <1>0, <2>4, <2>5
<1>11. CASE EditPreview(t) \/ Revised(t) \/ AskReleases(t)
  <2>1. Runs BY <1>11, RunsOn DEF EditPreview, Revised, AskReleases, registry
  <2>2. \A u \in Turn : Goes(u)
    <3>1. CASE AskReleases(t) BY <2>1, <3>1, CallGoes
    <3>2. CASE EditPreview(t) \/ Revised(t)
      <4>1. /\ turn[t].ask # "idle"
            /\ \/ AskAt(t, "fail")
               \/ \E p \in {"revise", "generate", "bind"} :
                     \E s \in {voice.session, NextSession}, b \in BOOLEAN : EditsWith(t, p, s, b)
        BY <3>2 DEF EditPreview, Revised
      <4> QED BY <2>1, <4>1, CallGoes DEF MayAsk
    <3> QED BY <1>11, <3>1, <3>2
  <2>3. UNCHANGED <<qa, previous, presenter, window, lastTurn, close>>
    BY <1>11 DEF EditPreview, Revised, AskReleases, panelVars
  <2> QED BY <1>0, <2>2, <2>3
<1> QED
  BY <1>1, <1>2, <1>3, <1>4, <1>6, <1>7, <1>8, <1>9, <1>10, <1>11
  DEF TypeQuestion, AskStep, BeginStep, FaultStep, registry

LEMMA ShownPanelStep ==
    ASSUME ShownInv, Fields, PanelStep
    PROVE  ShownInv'
<1> USE DEF Fields
<1>1. ASSUME NEW s, NEW b, NEW t \in Turn, SubmitText(t, s, b), UNCHANGED <<runtime, close>>
      PROVE  ShownInv'
  <2>1. /\ turn'[t].ask = "show" /\ turn'[t].begin = turn[t].begin
        /\ \A u \in Turn \ {t} : turn'[u] = turn[u]
    BY <1>1 DEF SubmitText, TurnTypes, TurnType
  <2> QED BY <1>1, <2>1, ShownClaim DEF SubmitText, PanelTypes
<1>2. ASSUME UNCHANGED <<previous, presenter, lastTurn, turn>>, qa'.session = qa.session,
             QaActive' => QaActive, window => window', Runs,
             qa'.phase = "Recording" => qa.phase = "Recording",
             \A c \in Close : close'[c].pc = "present" => close[c].pc = "present"
      PROVE  ShownInv'
  <2>1. \A u \in Turn : Goes(u) BY <1>2, CallGoes
  <2> QED BY <1>2, <2>1, ShownFrame DEF Forgets
<1>3. ASSUME NEW t \in Turn, AppliedEditCloses(t) PROVE ShownInv'
  <2>1. CASE ClaimClose(t, TRUE, t)
    BY <1>3, <2>1, ShownClose, CloseNumbers DEF AppliedEditCloses, registry
  <2>2. CASE ~ClaimClose(t, TRUE, t)
    <3>1. UNCHANGED <<qa, previous, presenter, lastTurn, turn, window, runtime>>
          /\ close' = [close EXCEPT ![t].pc = "done"]
      BY <1>3, <2>2 DEF AppliedEditCloses, registry
    <3>2. \A c \in Close : close'[c].pc = "present" => close[c].pc = "present"
      BY <3>1, CloseNumbers DEF TurnTypes, CloseType
    <3> QED BY <1>2, <3>1, <3>2, RunsOn DEF QaActive
  <2> QED BY <2>1, <2>2
<1>4. ASSUME NEW t \in Turn, ConfirmEdit(t) \/ EditApplied(t) PROVE ShownInv'
  <2>1. UNCHANGED <<qa, previous, presenter, lastTurn, turn, window, runtime>>
    BY <1>4 DEF ConfirmEdit, EditApplied, registry, panelVars, qaVars
  <2>2. close' = close \/ close' = [close EXCEPT ![t].pc = "claim"]
    BY <1>4 DEF ConfirmEdit, EditApplied, qaVars
  <2>3. \A c \in Close : close'[c].pc = "present" => close[c].pc = "present"
    BY <2>2, CloseNumbers DEF TurnTypes, CloseType
  <2> QED BY <1>2, <2>1, <2>3, RunsOn DEF QaActive
<1>5. ASSUME NEW c \in UserClose, UserCloses(c) PROVE ShownInv'
  BY <1>5, CloseNumbers, ShownClose DEF UserCloses, registry
<1>6. ASSUME NEW c \in Close, CloseCancelsRuntime(c) \/ CloseClearsPreview(c) PROVE ShownInv'
  <2>1. UNCHANGED <<qa, previous, presenter, lastTurn, turn, window>>
    BY <1>6 DEF CloseCancelsRuntime, CloseClearsPreview, panelVars
  <2>2. \A d \in Close : close'[d].pc = "present" => close[d].pc = "present"
    BY <1>6 DEF CloseCancelsRuntime, CloseClearsPreview, AfterCancel, NoClose, TurnTypes, CloseType
  <2>3. Runs
    <3>1. close[c].runtime \in Turn \cup {0} BY DEF TurnTypes, CloseType
    <3> QED BY <1>6, <3>1, RunsOn DEF CloseCancelsRuntime, CloseClearsPreview, registry
  <2> QED BY <1>2, <2>1, <2>2, <2>3 DEF QaActive
<1>7. ASSUME NEW b \in BOOLEAN, SetEditInstructionMode(b),
             UNCHANGED <<previous, presenter, lastTurn, turn, window, registry, close>>
      PROVE ShownInv'
  <2>1. qa'.session = qa.session /\ qa'.phase = qa.phase
    BY <1>7 DEF SetEditInstructionMode, PanelTypes, Snapshot
  <2> QED BY <1>2, <1>7, <2>1, RunsOn DEF QaActive, registry
<1>8. ASSUME Show PROVE ShownInv' BY <1>2, <1>8, RunsOn DEF Show, registry, QaActive
<1>9. ASSUME ToggleEditMode PROVE ShownInv'
  <2>1. (~qa.editing) \in BOOLEAN OBVIOUS
  <2> QED BY <1>7, <1>9, <2>1 DEF ToggleEditMode
<1>10. ASSUME NEW s \in Session, RouteShows(s) \/ RouteReturns(s) PROVE ShownInv'
  BY <1>2, <1>10, RunsOn DEF RouteShows, RouteReturns, qaVars, panelVars, registry, QaActive
<1>11. ASSUME NEW s \in Session, RouteSetsMode(s) PROVE ShownInv'
  <2>1. (end[s] = "converseMode") \in BOOLEAN OBVIOUS
  <2>2. CASE UNCHANGED qa
    BY <1>2, <1>11, <2>2, RunsOn DEF RouteSetsMode, registry, QaActive
  <2> QED BY <1>7, <1>11, <2>1, <2>2 DEF RouteSetsMode
<1>12. ASSUME NEW s \in Session, RouteAsks(s) PROVE ShownInv'
  <2>1. CASE UNCHANGED <<panelVars, turn>>
    BY <1>2, <1>12, <2>1, RunsOn DEF RouteAsks, registry, panelVars, QaActive
  <2> QED BY <1>1, <1>12, <2>1 DEF RouteAsks, registry
<1> QED
  BY <1>3, <1>4, <1>5, <1>6, <1>8, <1>9, <1>10, <1>11, <1>12, ShownTurns, ShownHides
  DEF PanelStep, CloseStep, RouteStep

(* The user sees every turn that reached the microphone or a provider       *)
(* (ShowRecording, ShowQuestion, the presentation mutex of the panel).      *)
THEOREM ActiveTurnsAreShown == QaSpec => []ActiveTurnIsShown
<1> DEFINE Inv == TypeInv /\ ShownInv
<1>1. QaInit => Inv
  <2>1. QaInit => ShownInv
    BY DefaultShown, BoundsAssumption
    DEF QaInit, ShownInv, NoTurn, NoClose, Begun, QaActive, Reached
  <2> QED BY <2>1, TypeInit
<1>2. Inv /\ [QaNext]_allVars => Inv'
  <2> SUFFICES ASSUME Inv, [QaNext]_allVars PROVE ShownInv' BY TypeStep
  <2>0. Fields BY TypeParts DEF Fields
  <2>1. CASE UNCHANGED qaVars
    BY <2>1 DEF ShownInv, qaVars, panelVars, registry, QaActive, Begun, Reached,
       RecordingQuestion
  <2>2. CASE PanelStep BY <2>0, <2>2, ShownPanelStep
  <2> QED BY <2>1, <2>2 DEF QaNext, allVars
<1>3. Inv => ActiveTurnIsShown BY DEF ShownInv, Reached, ActiveTurnIsShown
<1> QED BY <1>1, <1>2, <1>3, PTL DEF QaSpec

----------------------------------------------------------------------------
(* The calls of one turn, its microphone and its runtime session.           *)
TurnShape(t) ==
    /\ turn[t].begin \in {"show", "register"} => runtime[t] = "none"
    /\ turn[t].begin \in {"idle", "show", "register", "captured"} => mic[t] = "none"
    /\ t \in installed => turn[t].begin \in {"arm", "done", "discard", "fail", "sweep"}
    /\ turn[t].begin = "open" => mic[t] = "held"
    /\ turn[t].begin = "install" => mic[t] = "ready"
    /\ turn[t].begin \in {"discard", "fail", "sweep"} =>
          mic[t] \in {"none", "closing", "ended"} /\ runtime[t] # "live"
    /\ mic[t] = "held" => turn[t].begin = "open"
    /\ mic[t] = "ready" => turn[t].begin = "install" \/ t \in installed
    /\ mic[t] = "finishing" => turn[t].ask = "await" /\ t \in installed
    /\ t \in installed => runtime[t] = "live"
    /\ turn[t].ask = "await" => turn[t].begin # "idle"
    /\ turn[t].ask \in {"await", "check", "push"} \cup Answering =>
          turn[t].begin \in {"idle", "arm", "done", "discard", "fail", "sweep"} /\ mic[t] # "ready"
    /\ turn[t].ask \in {"show", "prepare", "context"} => turn[t].begin = "idle"
    /\ turn[t].ask \in {"show", "prepare"} => runtime[t] = "none"
    /\ turn[t].ask = "settle" => runtime[t] # "live"
    /\ fault[t] # "no" => turn[t].begin \in {"arm", "discard", "fail", "sweep", "done"}

(* The calls of every turn.                                                 *)
Shaped == \A t \in Turn : TurnShape(t)

(* Nothing of turn t changes.                                               *)
Same(t) ==
    /\ turn'[t] = turn[t] /\ runtime'[t] = runtime[t] /\ (t \in installed' <=> t \in installed)
    /\ mic'[t] = mic[t] /\ fault'[t] = fault[t]

(* A turn nothing of which changes keeps its shape.                         *)
LEMMA ShapeSame ==
    ASSUME NEW t \in Turn, TurnShape(t), Same(t)
    PROVE  TurnShape(t)'
BY DEF TurnShape, Same

(* What a cancellation of the runtime session of turn t does,               *)
LEMMA CancelFields ==
    ASSUME TurnTypes, CaptureTypeOK, NEW t \in Turn, RuntimeCancel(t)
    PROVE  /\ runtime'[t] = IF runtime[t] = "live" THEN "cancelled" ELSE runtime[t]
           /\ t \notin installed'
           /\ mic'[t] = IF /\ runtime[t] = "live" /\ t \in installed
                           /\ mic[t] \in {"ready", "finishing"}
                        THEN "closing" ELSE mic[t]
           /\ \A u \in Turn \ {t} : /\ runtime'[u] = runtime[u] /\ mic'[u] = mic[u]
                                    /\ u \in installed' <=> u \in installed
           /\ \A i \in Id \ {t} : mic'[i] = mic[i]
BY Numbers DEF TurnTypes, CaptureTypeOK, RuntimeCancel, Unregistered, Cancels, CancelMic

(* what the end of that session does,                                       *)
LEMMA GoneFields ==
    ASSUME TurnTypes, NEW t \in Turn, runtime' = Unregistered(t, "gone")
    PROVE  /\ runtime'[t] = IF runtime[t] = "live" THEN "gone" ELSE runtime[t]
           /\ \A u \in Turn \ {t} : runtime'[u] = runtime[u]
BY DEF TurnTypes, Unregistered

(* and what happens to the microphone of a turn.                            *)
LEMMA MicFields ==
    ASSUME CaptureTypeOK, NEW t \in Id
    PROVE  /\ \A m : mic' = [mic EXCEPT ![t] = m] =>
                  mic'[t] = m /\ \A i \in Id \ {t} : mic'[i] = mic[i]
           /\ mic' = CancelMic(t) =>
                  /\ mic'[t] = IF mic[t] \in {"ready", "finishing"} THEN "closing" ELSE mic[t]
                  /\ \A i \in Id \ {t} : mic'[i] = mic[i]
BY DEF CaptureTypeOK, CancelMic

(* A step of turn t is a step of no other turn.                             *)
LEMMA CancelSame ==
    ASSUME TurnTypes, CaptureTypeOK, NEW t \in Turn, RuntimeCancel(t), UNCHANGED fault,
           \A u \in Turn \ {t} : turn'[u] = turn[u]
    PROVE  \A u \in Turn \ {t} : Same(u)
BY CancelFields DEF Same

(* The calls that open the microphone keep the shape of their turn,         *)
LEMMA BeginShape ==
    ASSUME TurnTypes, CaptureTypeOK, NEW t \in Turn, TurnShape(t), BeginStep(t)
    PROVE  TurnShape(t)' /\ \A u \in Turn \ {t} : Same(u)
<1> DEFINE Goal == TurnShape(t)' /\ \A u \in Turn \ {t} : Same(u)
           Rest == \A u \in Turn \ {t} : turn'[u] = turn[u]
<1>0. t \in Id BY Numbers
<1>a. ASSUME NEW p, BeginAt(t, p) PROVE turn'[t].begin = p /\ turn'[t].ask = turn[t].ask /\ Rest
  BY <1>a, BeginAtFields
<1>b. ASSUME Rest, UNCHANGED fault,
             \A u \in Turn \ {t} : /\ runtime'[u] = runtime[u] /\ mic'[u] = mic[u]
                                   /\ u \in installed' <=> u \in installed
      PROVE  \A u \in Turn \ {t} : Same(u)
  BY <1>b DEF Same
<1>c. \A u \in Turn \ {t} : u \in Id \ {t} BY Numbers
<1> HIDE DEF Rest
<1>1. CASE ShowRecording(t)
  <2>1. CASE BeginAt(t, "register")
    <3>1. turn[t].begin = "show" /\ UNCHANGED <<mic, runtime, installed, fault>>
      BY <1>1, <2>1, <1>0, <1>c DEF ShowRecording, registry
    <3>2. turn'[t].begin = "register" /\ turn'[t].ask = turn[t].ask /\ Rest
      BY <1>1, <2>1, <1>a DEF ShowRecording
    <3>3. TurnShape(t)' BY <3>1, <3>2 DEF TurnShape, Answering
    <3> QED BY <3>1, <3>2, <3>3, <1>b
  <2>2. CASE BeginAt(t, "done")
    <3>1. turn[t].begin = "show" /\ UNCHANGED <<mic, runtime, installed, fault>>
      BY <1>1, <2>2, <1>0, <1>c DEF ShowRecording, registry
    <3>2. turn'[t].begin = "done" /\ turn'[t].ask = turn[t].ask /\ Rest
      BY <1>1, <2>2, <1>a DEF ShowRecording
    <3>3. TurnShape(t)' BY <3>1, <3>2 DEF TurnShape, Answering
    <3> QED BY <3>1, <3>2, <3>3, <1>b
  <2> QED BY <1>1, <2>1, <2>2 DEF ShowRecording
<1>2. CASE Register(t)
  <2>1. /\ turn[t].begin = "register" /\ UNCHANGED <<mic, installed, fault>>
        /\ runtime'[t] = "live" /\ \A u \in Turn \ {t} : runtime'[u] = runtime[u]
    BY <1>2, <1>0, <1>c DEF Register, TurnTypes, voiceVars, captureVars
  <2>2. turn'[t].begin = "captured" /\ turn'[t].ask = turn[t].ask /\ Rest
    BY <1>2, <1>a DEF Register
  <2>3. TurnShape(t)' BY <2>1, <2>2 DEF TurnShape, Answering
  <2> QED BY <2>1, <2>2, <2>3, <1>b
<1>3. CASE SelectionCaptured(t)
  <2>1. CASE CanHold(t) /\ RecordingQuestion(t)
    <3>1. /\ turn[t].begin = "captured" /\ UNCHANGED <<runtime, installed, fault>>
          /\ mic'[t] = "held" /\ \A u \in Turn \ {t} : mic'[u] = mic[u]
      BY <1>3, <2>1, <1>0, <1>c, MicFields DEF SelectionCaptured
    <3>2. turn'[t].begin = "open" /\ turn'[t].ask = turn[t].ask /\ Rest
      BY <1>3, <2>1, <1>a DEF SelectionCaptured
    <3>3. TurnShape(t)' BY <3>1, <3>2 DEF TurnShape, Answering
    <3> QED BY <3>1, <3>2, <3>3, <1>b
  <2>2. CASE ~(RecordingQuestion(t) /\ CanHold(t))
    <3>1. /\ turn[t].begin = "captured" /\ UNCHANGED <<mic, installed, fault>>
          /\ runtime'[t] # "live" /\ \A u \in Turn \ {t} : runtime'[u] = runtime[u]
      BY <1>3, <2>2, <1>0, <1>c, GoneFields DEF SelectionCaptured
    <3>2. turn'[t].begin = "fail" /\ turn'[t].ask = turn[t].ask /\ Rest
      BY <1>3, <2>2, <1>a DEF SelectionCaptured
    <3>3. TurnShape(t)' BY <3>1, <3>2 DEF TurnShape, Answering
    <3> QED BY <3>1, <3>2, <3>3, <1>b
  <2> QED BY <1>3, <2>1, <2>2 DEF SelectionCaptured
<1>4. CASE QaOpens(t)
  <2>1. CASE StartSucceeds(t) /\ BeginAt(t, "install") /\ UNCHANGED runtime
    <3>1. /\ turn[t].begin = "open" /\ UNCHANGED <<runtime, installed, fault>>
          /\ mic'[t] = "ready" /\ \A u \in Turn \ {t} : mic'[u] = mic[u]
      BY <1>4, <2>1, <1>0, <1>c, MicFields DEF QaOpens, StartSucceeds
    <3>2. turn'[t].begin = "install" /\ turn'[t].ask = turn[t].ask /\ Rest
      BY <1>4, <2>1, <1>a DEF QaOpens
    <3>3. TurnShape(t)' BY <3>1, <3>2 DEF TurnShape, Answering
    <3> QED BY <3>1, <3>2, <3>3, <1>b
  <2>2. CASE StartFails(t) /\ BeginAt(t, "fail") /\ runtime' = Unregistered(t, "gone")
    <3>1. /\ turn[t].begin = "open" /\ UNCHANGED <<installed, fault>>
          /\ mic'[t] = "ended" /\ runtime'[t] # "live"
          /\ \A u \in Turn \ {t} : runtime'[u] = runtime[u] /\ mic'[u] = mic[u]
      BY ZenonT(60), <1>4, <2>2, <1>0, <1>c, MicFields, GoneFields DEF QaOpens, StartFails
    <3>2. turn'[t].begin = "fail" /\ turn'[t].ask = turn[t].ask /\ Rest
      BY <1>4, <2>2, <1>a DEF QaOpens
    <3>3. TurnShape(t)' BY <3>1, <3>2 DEF TurnShape, Answering
    <3> QED BY <3>1, <3>2, <3>3, <1>b
  <2> QED BY <1>4, <2>1, <2>2 DEF QaOpens
<1>5. CASE QaInstalls(t)
  <2>1. CASE runtime[t] = "live"
    <3>1. /\ turn[t].begin = "install" /\ UNCHANGED <<mic, runtime, fault>>
          /\ t \in installed' /\ \A u \in Turn \ {t} : u \in installed' <=> u \in installed
      BY <1>5, <2>1, <1>0, <1>c DEF QaInstalls
    <3>2. turn'[t].begin = "arm" /\ turn'[t].ask = turn[t].ask /\ Rest
      BY <1>5, <2>1, <1>a DEF QaInstalls
    <3>3. TurnShape(t)' BY <2>1, <3>1, <3>2 DEF TurnShape, Answering
    <3> QED BY <3>1, <3>2, <3>3, <1>b
  <2>2. CASE runtime[t] # "live"
    <3>1. /\ turn[t].begin = "install" /\ UNCHANGED <<runtime, installed, fault>>
          /\ (mic[t] = "ready" => mic'[t] = "closing")
          /\ \A u \in Turn \ {t} : mic'[u] = mic[u]
      BY <1>5, <2>2, <1>0, <1>c, MicFields DEF QaInstalls
    <3>2. turn'[t].begin = "discard" /\ turn'[t].ask = turn[t].ask /\ Rest
      BY <1>5, <2>2, <1>a DEF QaInstalls
    <3>3. TurnShape(t)' BY <2>2, <3>1, <3>2 DEF TurnShape, Answering
    <3> QED BY <3>1, <3>2, <3>3, <1>b
  <2> QED BY <1>5, <2>1, <2>2 DEF QaInstalls
<1>6. CASE Arm(t)
  <2>1. CASE runtime[t] = "cancelled"
    <3>1. /\ turn[t].begin = "arm" /\ UNCHANGED <<mic, runtime, installed, fault>>
          /\ mic[t] \in {"none", "held", "ready", "finishing", "closing", "ended"}
      BY <1>6, <2>1, <1>0, <1>c DEF Arm, CaptureTypeOK, MicState, registry, voiceVars, captureVars
    <3>2. turn'[t].begin = "discard" /\ turn'[t].ask = turn[t].ask /\ Rest
      BY <1>6, <2>1, <1>a DEF Arm
    <3>3. TurnShape(t)' BY <2>1, <3>1, <3>2 DEF TurnShape, Answering
    <3> QED BY <3>1, <3>2, <3>3, <1>b
  <2>2. CASE runtime[t] # "cancelled"
    <3>1. turn[t].begin = "arm" /\ UNCHANGED <<mic, runtime, installed, fault>>
      BY <1>6, <2>2, <1>0, <1>c DEF Arm, registry, voiceVars, captureVars
    <3>2. turn'[t].begin = "done" /\ turn'[t].ask = turn[t].ask /\ Rest
      BY <1>6, <2>2, <1>a DEF Arm
    <3>3. TurnShape(t)' BY <3>1, <3>2 DEF TurnShape, Answering
    <3> QED BY <3>1, <3>2, <3>3, <1>b
  <2> QED BY <1>6, <2>1, <2>2 DEF Arm
<1>7. CASE QaDiscarded(t)
  <2>1. turn[t].begin = "discard" /\ UNCHANGED <<mic, runtime, installed, fault>>
    BY <1>7, <1>0, <1>c DEF QaDiscarded, registry, voiceVars, captureVars
  <2>2. turn'[t].begin = "fail" /\ turn'[t].ask = turn[t].ask /\ Rest
    BY <1>7, <1>a DEF QaDiscarded
  <2>3. TurnShape(t)' BY <2>1, <2>2 DEF TurnShape, Answering
  <2> QED BY <2>1, <2>2, <2>3, <1>b
<1>8. CASE BeginFails(t)
  <2>1. turn[t].begin = "fail" /\ UNCHANGED <<mic, runtime, installed, fault>>
    BY <1>8, <1>0, <1>c DEF BeginFails, registry, voiceVars, captureVars
  <2>2. turn'[t].begin = "sweep" /\ turn'[t].ask = turn[t].ask /\ Rest
    BY <1>8, <1>a DEF BeginFails
  <2>3. TurnShape(t)' BY <2>1, <2>2 DEF TurnShape, Answering
  <2> QED BY <2>1, <2>2, <2>3, <1>b
<1>9. CASE BeginSweeps(t)
  <2>1. turn[t].begin = "sweep" /\ UNCHANGED fault /\ RuntimeCancel(t)
    BY <1>9 DEF BeginSweeps
  <2>2. turn'[t].begin = "done" /\ turn'[t].ask = turn[t].ask /\ Rest
    BY <1>9, <1>a DEF BeginSweeps
  <2>3. /\ runtime'[t] # "live" /\ t \notin installed' /\ mic'[t] = mic[t]
        /\ runtime[t] # "none" => runtime'[t] # "none"
    BY <2>1, CancelFields DEF TurnShape
  <2>4. TurnShape(t)' BY <2>1, <2>2, <2>3 DEF TurnShape, Answering
  <2> QED BY <2>1, <2>2, <2>4, CancelFields, <1>b
<1> HIDE DEF Goal
<1>10. Goal BY <1>1, <1>2, <1>3, <1>4, <1>5, <1>6, <1>7, <1>8, <1>9 DEF BeginStep, Goal
<1> QED BY <1>10 DEF Goal

(* and so does a fault of the recorder,                                     *)
LEMMA FaultShape ==
    ASSUME TurnTypes, CaptureTypeOK, NEW t \in Turn, TurnShape(t), FaultStep(t)
    PROVE  TurnShape(t)' /\ \A u \in Turn \ {t} : Same(u)
<1>1. CASE FaultStarts(t) \/ FaultFails(t)
  <2>1. /\ UNCHANGED <<turn, mic, runtime, installed>>
        /\ turn[t].begin \in {"arm", "done"} \/ fault[t] = "fail"
        /\ \A u \in Turn \ {t} : fault'[u] = fault[u]
    BY <1>1 DEF FaultStarts, FaultFails, TurnTypes, voiceVars, captureVars, registry
  <2>2. TurnShape(t)' BY <2>1 DEF TurnShape
  <2> QED BY <2>1, <2>2 DEF Same
<1>2. CASE FaultSweeps(t)
  <2>1. /\ RuntimeCancel(t) /\ UNCHANGED turn /\ fault[t] = "sweep" /\ fault'[t] = "no"
        /\ \A u \in Turn \ {t} : fault'[u] = fault[u]
    BY <1>2 DEF FaultSweeps, TurnTypes
  <2>2. turn[t].begin \in {"arm", "discard", "fail", "sweep", "done"} BY <2>1 DEF TurnShape
  <2>3. TurnShape(t)' BY <2>1, <2>2, CancelFields DEF TurnShape, Answering
  <2> QED BY <2>1, <2>3, CancelFields DEF Same
<1> QED BY <1>1, <1>2 DEF FaultStep

----------------------------------------------------------------------------
(* The position of a call that only moves on.                               *)
MovesOn(a, p) ==
    \/ p \in {"fail", "sweep", "closing", "clear", "release", "done"} /\ a # "await"
    \/ a \in {"check", "push"} \cup Answering /\ p \in {"push"} \cup (Answering \ {"settle"})
    \/ a = "show" /\ p = "prepare"

(* and the calls that answer.                                               *)
LEMMA AskShape ==
    ASSUME TurnTypes, CaptureTypeOK, NEW t \in Turn, TurnShape(t), AskStep(t)
    PROVE  TurnShape(t)' /\ \A u \in Turn \ {t} : Same(u)
<1> DEFINE Goal == TurnShape(t)' /\ \A u \in Turn \ {t} : Same(u)
           Rest == \A u \in Turn \ {t} : turn'[u] = turn[u]
           At(p) == turn'[t].ask = p /\ turn'[t].begin = turn[t].begin /\ Rest
<1>0. t \in Id BY Numbers
<1>a. ASSUME NEW p, AskAt(t, p) PROVE At(p) BY <1>a, AskAtFields
<1>b. ASSUME Rest, UNCHANGED fault,
             \A u \in Turn \ {t} : /\ runtime'[u] = runtime[u] /\ mic'[u] = mic[u]
                                   /\ u \in installed' <=> u \in installed
      PROVE  \A u \in Turn \ {t} : Same(u)
  BY <1>b DEF Same
<1>c. \A u \in Turn \ {t} : u \in Id \ {t} BY Numbers
<1> HIDE DEF Rest
<1>d. ASSUME NEW p, At(p), MovesOn(turn[t].ask, p), UNCHANGED <<mic, runtime, installed, fault>>
      PROVE  Goal
  <2>1. turn'[t].ask = p /\ turn'[t].begin = turn[t].begin /\ Rest BY <1>d
  <2>2. TurnShape(t)' BY <1>d, <2>1 DEF TurnShape, MovesOn, Answering
  <2> QED BY <1>b, <1>d, <2>1, <2>2
<1> HIDE DEF Goal, At
<1>1. ASSUME \/ ShowQuestion(t) \/ CheckCurrent(t) \/ Answered(t) \/ EditGenerated(t) \/ BindTarget(t)
             \/ AskFails(t) \/ AskClears(t)
      PROVE  Goal
  <2>1. UNCHANGED <<mic, runtime, installed, fault>>
    BY <1>1
    DEF ShowQuestion, CheckCurrent, Answered, EditGenerated, BindTarget, AskFails, AskClears,
        voiceVars, captureVars, registry
  <2>2. \E p : AskAt(t, p) /\ MovesOn(turn[t].ask, p)
    BY <1>1
    DEF ShowQuestion, CheckCurrent, Answered, EditGenerated, BindTarget, AskFails, AskClears,
        Cleaned, MovesOn, Answering
  <2> QED BY <1>a, <1>d, <2>1, <2>2
<1>2. CASE PushQuestion(t) \/ SettleAnswer(t)
  <2>1. UNCHANGED <<mic, runtime, installed, fault>>
    BY <1>2 DEF PushQuestion, SettleAnswer, voiceVars, captureVars, registry
  <2>2. turn'[t].ask \in {"edit", "answer", "release"} /\ turn[t].ask \in {"push", "settle"}
        /\ (SettleAnswer(t) => turn'[t].ask = "release")
    BY <1>2 DEF PushQuestion, SettleAnswer, AskAt, TurnTypes, TurnType
  <2>3. turn[t].ask = "push" \/ turn'[t].ask = "release"
    BY <1>2, <2>2 DEF PushQuestion
  <2>4. MovesOn(turn[t].ask, turn'[t].ask) BY <2>2, <2>3 DEF MovesOn, Answering
  <2>5. At(turn'[t].ask) BY <1>2, CallFields DEF At, Rest
  <2> QED BY <1>d, <2>1, <2>4, <2>5 DEF Goal
<1>3. CASE EditPreview(t) \/ Revised(t)
  <2>1. UNCHANGED <<mic, runtime, installed, fault>>
    BY <1>3 DEF EditPreview, Revised, voiceVars, captureVars, registry
  <2>2. \E p : /\ MovesOn(turn[t].ask, p)
               /\ \/ AskAt(t, p)
                  \/ \E s \in {voice.session, NextSession}, b \in BOOLEAN : EditsWith(t, p, s, b)
    BY <1>3 DEF EditPreview, Revised, MovesOn, Answering
  <2>3. PICK p : /\ MovesOn(turn[t].ask, p)
                 /\ \/ AskAt(t, p)
                    \/ \E s \in {voice.session, NextSession}, b \in BOOLEAN : EditsWith(t, p, s, b)
    BY <2>2
  <2>4. At(p) BY <1>a, <2>3, EditFields DEF At, Rest
  <2> QED BY <1>d, <2>1, <2>3, <2>4 DEF Goal
<1>4. CASE AskReleases(t)
  <2>1. UNCHANGED <<mic, runtime, installed, fault>> BY <1>4 DEF AskReleases, registry
  <2>2. At("done") BY <1>4, ReleaseFields DEF At, Rest
  <2>3. MovesOn(turn[t].ask, "done") BY <1>4 DEF AskReleases, MovesOn
  <2> QED BY <1>d, <2>1, <2>2, <2>3 DEF Goal
<1> USE DEF At
<1>5. CASE StopMicrophone(t)
  <2>1. turn[t].ask = "finish" /\ UNCHANGED <<runtime, installed, fault>>
    BY <1>5 DEF StopMicrophone, registry
  <2>2. CASE runtime[t] = "live" /\ t \in installed /\ mic[t] = "ready"
    <3>1. mic'[t] = "finishing" /\ \A u \in Turn \ {t} : mic'[u] = mic[u]
      BY <1>5, <2>2, <1>0, <1>c, MicFields DEF StopMicrophone, BeginFinish
    <3>2. At("await") BY <1>5, <2>2, <1>a DEF StopMicrophone
    <3>3. TurnShape(t)' BY <2>1, <2>2, <3>1, <3>2 DEF TurnShape, Answering
    <3> QED BY <1>b, <2>1, <3>1, <3>2, <3>3 DEF Goal
  <2>3. CASE ~(runtime[t] = "live" /\ t \in installed /\ mic[t] = "ready")
    <3>1. At("fail") /\ UNCHANGED mic BY <1>5, <2>3, <1>a DEF StopMicrophone
    <3>2. MovesOn(turn[t].ask, "fail") BY <2>1 DEF MovesOn
    <3> QED BY <1>d, <2>1, <3>1, <3>2 DEF Goal
  <2> QED BY <2>2, <2>3
<1>6. CASE QuestionHeard(t)
  <2>1. turn[t].ask = "await" /\ UNCHANGED <<runtime, installed, fault>>
    BY <1>6 DEF QuestionHeard, registry
  <2>2. \/ mic[t] = "finishing" /\ mic'[t] = "ended"
        \/ mic[t] \in {"closing", "ended"} /\ mic'[t] = mic[t]
    BY <1>6, <1>0, MicFields DEF QuestionHeard, Settle, Settled
  <2>3. \A u \in Turn \ {t} : mic'[u] = mic[u]
    BY <1>6, <1>0, <1>c, MicFields DEF QuestionHeard, Settle, Settled
  <2>4. \E p \in {"check", "fail"} : AskAt(t, p) BY <1>6 DEF QuestionHeard
  <2>5. PICK p \in {"check", "fail"} : At(p) BY <1>a, <2>4
  <2>6. TurnShape(t)' BY <2>1, <2>2, <2>5 DEF TurnShape, Answering
  <2> QED BY <1>b, <2>1, <2>3, <2>5, <2>6 DEF Goal
<1>7. CASE Prepare(t)
  <2>1. /\ turn[t].ask = "prepare" /\ UNCHANGED <<mic, installed, fault>>
        /\ runtime'[t] = "live" /\ \A u \in Turn \ {t} : runtime'[u] = runtime[u]
    BY <1>7 DEF Prepare, TurnTypes, voiceVars, captureVars
  <2>2. At("context") BY <1>7, <1>a DEF Prepare
  <2>3. TurnShape(t)' BY <2>1, <2>2 DEF TurnShape, Answering
  <2> QED BY <1>b, <2>1, <2>2, <2>3 DEF Goal
<1>8. CASE ContextCaptured(t)
  <2>1. turn[t].ask = "context" /\ UNCHANGED fault BY <1>8 DEF ContextCaptured
  <2>2. CASE AskAt(t, "check") /\ UNCHANGED <<registry, mic>>
    <3>1. At("check") /\ UNCHANGED <<mic, runtime, installed>> BY <2>2, <1>a DEF registry
    <3>2. TurnShape(t)' BY <2>1, <3>1 DEF TurnShape, Answering
    <3> QED BY <1>b, <2>1, <3>1, <3>2 DEF Goal
  <2>3. CASE AskAt(t, "fail") /\ RuntimeCancel(t)
    <3>1. At("fail") BY <2>3, <1>a
    <3>2. TurnShape(t)' BY <2>1, <2>3, <3>1, CancelFields DEF TurnShape, Answering
    <3> QED BY <1>b, <2>1, <2>3, <3>1, <3>2, CancelFields DEF Goal
  <2> QED BY <1>8, <2>2, <2>3 DEF ContextCaptured
<1>9. CASE CompleteRuntime(t)
  <2>1. /\ turn[t].ask = "complete" /\ UNCHANGED <<mic, fault>> /\ t \notin installed'
        /\ runtime'[t] # "live" /\ \A u \in Turn \ {t} : runtime'[u] = runtime[u]
        /\ (runtime[t] = "none" => runtime'[t] = "none")
        /\ \A u \in Turn \ {t} : u \in installed' <=> u \in installed
    BY <1>9, GoneFields DEF CompleteRuntime, voiceVars, captureVars
  <2>2. At("settle") BY <1>9, <1>a DEF CompleteRuntime
  <2>3. TurnShape(t)' BY <2>1, <2>2 DEF TurnShape, Answering
  <2> QED BY <1>b, <2>1, <2>2, <2>3 DEF Goal
<1>10. CASE AskSweeps(t)
  <2>1. turn[t].ask = "sweep" /\ UNCHANGED fault /\ RuntimeCancel(t) BY <1>10 DEF AskSweeps
  <2>2. PICK p \in {"closing", "clear"} : At(p) BY <1>10, <1>a DEF AskSweeps, AfterCancel
  <2>3. TurnShape(t)' BY <2>1, <2>2, CancelFields DEF TurnShape, Answering
  <2> QED BY <1>b, <2>1, <2>2, <2>3, CancelFields DEF Goal
<1>11. Goal
  BY <1>1, <1>2, <1>3, <1>4, <1>5, <1>6, <1>7, <1>8, <1>9, <1>10 DEF AskStep, Goal
<1> QED BY <1>11 DEF Goal

(* A turn begins its calls, or its recording is over.                       *)
LEMMA FreshShape ==
    ASSUME TurnTypes, CaptureTypeOK, NEW t \in Turn, TurnShape(t),
           UNCHANGED <<mic, runtime, installed, fault>>,
           \A u \in Turn \ {t} : turn'[u] = turn[u],
           \/ /\ ~Begun(t)
              /\ \/ turn'[t].begin = "show" /\ turn'[t].ask = turn[t].ask
                 \/ turn'[t].ask = "show" /\ turn'[t].begin = turn[t].begin
           \/ turn[t].ask = "idle" /\ turn'[t].ask = "finish" /\ turn'[t].begin = turn[t].begin
    PROVE  TurnShape(t)' /\ \A u \in Turn \ {t} : Same(u)
<1>1. \A u \in Turn \ {t} : Same(u) BY DEF Same
<1>2. TurnShape(t)' BY DEF TurnShape, Answering, Begun
<1> QED BY <1>1, <1>2

(* The runtime session of turn t is cancelled by a dismissal.               *)
LEMMA CancelShape ==
    ASSUME TurnTypes, CaptureTypeOK, NEW t \in Turn, TurnShape(t), RuntimeCancel(t),
           UNCHANGED <<turn, fault>>
    PROVE  TurnShape(t)' /\ \A u \in Turn \ {t} : Same(u)
<1>1. \A u \in Turn \ {t} : Same(u) BY CancelSame
<1>2. TurnShape(t)' BY CancelFields DEF TurnShape, Answering
<1> QED BY <1>1, <1>2

----------------------------------------------------------------------------
(* What a turn sees of a step of the commands.                              *)
Elsewhere ==
    /\ \A t \in Turn : mic'[t] = mic[t] \/ (mic[t] = "closing" /\ mic'[t] = "ended")
    /\ lease' = lease \/ (LeaseFree /\ lease' \in Session)
    /\ \A t \in Turn : t \in revoked' <=> t \in revoked

(* The steps of the commands leave the turns alone, except for the gate and *)
(* for a microphone that closes.                                            *)
LEMMA CommandElsewhere ==
    ASSUME VoiceTypeOK, Named, CommandStep
    PROVE  Elsewhere
<1>0. CaptureTypeOK /\ (voice.session \in Session \cup {0}) BY VoiceForms DEF VoiceTypeOK
<1>a. ASSUME UNCHANGED <<lease, revoked, mic>> PROVE Elsewhere BY <1>a DEF Elsewhere
<1>b. ASSUME NEW s \in Session, UNCHANGED lease,
             UNCHANGED revoked \/ revoked' = Revoke(s),
             UNCHANGED mic \/ mic' = CancelMic(s) \/ \E m : mic' = [mic EXCEPT ![s] = m]
      PROVE  Elsewhere
  <2>1. s \in Id /\ s \notin Turn /\ \A t \in Turn : t \in Id \ {s} BY Numbers
  <2>2. \A t \in Turn : mic'[t] = mic[t] BY <1>0, <1>b, <2>1, MicFields
  <2>3. \A t \in Turn : t \in revoked' <=> t \in revoked BY <1>b, <2>1 DEF Revoke
  <2> QED BY <1>b, <2>2, <2>3 DEF Elsewhere
<1> HIDE DEF Elsewhere
<1>1. ASSUME NEW s \in Session, Begin(s) PROVE Elsewhere
  BY <1>1 DEF Begin, Acquire, Elsewhere
<1>2. ASSUME NEW s \in Session, StartStep(s) PROVE Elsewhere
  <2>1. CASE SetTarget(s) \/ Discarded(s) \/ StartFailed(s) \/ StartClears(s)
    BY <1>a, <2>1 DEF SetTarget, Discarded, StartFailed, StartClears, captureVars
  <2>2. CASE HoldResources(s) \/ Bind(s) \/ Opens(s) \/ OpenFails(s) \/ Install(s)
    <3>1. UNCHANGED <<lease, revoked>>
          /\ (UNCHANGED mic \/ mic' = CancelMic(s) \/ \E m : mic' = [mic EXCEPT ![s] = m])
      BY <2>2 DEF HoldResources, Bind, Opens, OpenFails, Install, StartSucceeds, StartFails
    <3> QED BY <1>b, <3>1
  <2> QED BY <1>2, <2>1, <2>2 DEF StartStep
<1>3. ASSUME NEW s \in Session, EndStep(s) PROVE Elsewhere
  <2>1. CASE Resolve(s) \/ Route(s) \/ EndFailed(s) \/ EndClears(s) \/ ConfirmDirect(s) \/ DirectApplied(s)
    BY <1>a, <2>1 DEF Resolve, Route, EndFailed, EndClears, ConfirmDirect, DirectApplied, captureVars
  <2>2. CASE TakeCapture(s) \/ Transcribed(s) \/ Generated(s)
    <3>1. /\ UNCHANGED lease /\ (UNCHANGED revoked \/ revoked' = Revoke(s))
          /\ (UNCHANGED mic \/ \E m : mic' = [mic EXCEPT ![s] = m])
      BY <2>2 DEF TakeCapture, Transcribed, Generated, BeginFinish, Settle, SetPreview
    <3> QED BY <1>b, <3>1
  <2> QED BY <1>3, <2>1, <2>2 DEF EndStep
<1>4. ASSUME NEW s \in Session, MarkProcessing(s) \/ Confirm(s) \/ RecordingFault(s) PROVE Elsewhere
  BY <1>a, <1>4 DEF MarkProcessing, Confirm, RecordingFault, captureVars
<1>5. ASSUME NEW s \in Session, TearDown(s) PROVE Elsewhere
  <2>1. /\ UNCHANGED lease /\ revoked' = Revoke(s) /\ (UNCHANGED mic \/ mic' = CancelMic(s))
    BY <1>5 DEF TearDown, HostForgets
  <2> QED BY <1>b, <2>1
<1>6. ASSUME NEW i \in Id, CaptureCloses(i) PROVE Elsewhere
  <2>1. /\ mic[i] = "closing" /\ mic'[i] = "ended" /\ \A j \in Id \ {i} : mic'[j] = mic[j]
        /\ UNCHANGED <<lease, revoked>>
    BY <1>0, <1>6, MicFields DEF CaptureCloses, Closed
  <2> QED BY <2>1, Numbers DEF Elsewhere
<1>7. ASSUME NEW i \in Id, FindTarget(i) \/ Insert(i) PROVE Elsewhere
  BY <1>a, <1>7 DEF FindTarget, Insert, captureVars
<1>8. ASSUME NEW i \in Id, Report(i) PROVE Elsewhere
  <2>1. /\ UNCHANGED <<lease, mic>>
        /\ \/ UNCHANGED revoked
           \/ /\ revoked' = Revoke(voice.session)
              /\ apply[i].pc # "no" /\ voice.session = apply[i].session
    BY <1>8 DEF Report
  <2>2. CASE UNCHANGED revoked BY <1>a, <2>1, <2>2
  <2>3. CASE ~UNCHANGED revoked
    <3>1. voice.session \in Session BY <2>1, <2>3 DEF Named
    <3> QED BY <1>b, <2>1, <3>1
  <2> QED BY <2>2, <2>3
<1>9. ASSUME UserCancels PROVE Elsewhere BY <1>a, <1>9 DEF UserCancels, captureVars
<1> QED BY <1>1, <1>2, <1>3, <1>4, <1>5, <1>6, <1>7, <1>8, <1>9 DEF CommandStep

(* The next turn has no call yet.                                           *)
LEMMA FreshTurn ==
    ASSUME Fields, ShownInv, NEW t \in Turn, t = lastTurn + 1
    PROVE  ~Begun(t)
BY PanelNumbers DEF ShownInv

(* What the routing of a command does to the turns.                         *)
LEMMA RouteTurns ==
    ASSUME NEW s \in Session, RouteStep(s)
    PROVE  /\ UNCHANGED <<lease, mic, registry, fault, close>>
           /\ UNCHANGED revoked \/ revoked' = Revoke(s)
           /\ \/ UNCHANGED turn
              \/ \E t \in Turn, b \in BOOLEAN : SubmitText(t, s, b) /\ UNCHANGED revoked
BY DEF RouteStep, RouteShows, RouteSetsMode, RouteAsks, RouteReturns, CompleteVoice, captureVars,
   qaVars, panelVars, registry

(* Every step keeps the shape of every turn.                                *)
LEMMA ShapeStep ==
    ASSUME VoiceTypeOK, Fields, Named, ShownInv, Shaped, [QaNext]_allVars
    PROVE  Shaped'
<1>0. CaptureTypeOK /\ TurnTypes BY DEF VoiceTypeOK, Fields
<1>1. ASSUME NEW t \in Turn, TurnShape(t)' /\ \A u \in Turn \ {t} : Same(u) PROVE Shaped'
  BY <1>1, ShapeSame DEF Shaped
<1>2. ASSUME UNCHANGED <<turn, mic, registry, fault>> PROVE Shaped'
  BY <1>2 DEF Shaped, TurnShape, registry, Answering
<1>3. ASSUME NEW t \in Turn, NEW s, NEW b, SubmitText(t, s, b), UNCHANGED <<mic, registry, fault>>
      PROVE  Shaped'
  <2>1. turn'[t].ask = "show" /\ turn'[t].begin = turn[t].begin
        /\ \A u \in Turn \ {t} : turn'[u] = turn[u]
    BY <1>0, <1>3 DEF SubmitText, TurnTypes, TurnType
  <2>2. ~Begun(t) BY <1>3, FreshTurn DEF SubmitText, ClaimTurn
  <2>3. TurnShape(t) BY DEF Shaped
  <2>4. TurnShape(t)' /\ \A u \in Turn \ {t} : Same(u)
    BY <1>0, <1>3, <2>1, <2>2, <2>3, FreshShape DEF registry
  <2> QED BY <1>1, <2>4
<1>4. ASSUME NEW t \in Turn, BeginRecording(t) PROVE Shaped'
  <2>1. turn'[t].begin = "show" /\ turn'[t].ask = turn[t].ask
        /\ \A u \in Turn \ {t} : turn'[u] = turn[u]
    BY <1>0, <1>4, BeginAtFields DEF BeginRecording
  <2>2. ~Begun(t) BY <1>4, FreshTurn DEF BeginRecording, ClaimTurn
  <2>3. TurnShape(t) BY DEF Shaped
  <2>4. UNCHANGED <<mic, runtime, installed, fault>> BY <1>4 DEF BeginRecording, registry
  <2>5. TurnShape(t)' /\ \A u \in Turn \ {t} : Same(u)
    BY <1>0, <2>1, <2>2, <2>3, <2>4, FreshShape
  <2> QED BY <1>1, <2>5
<1>5. ASSUME NEW t \in Turn, FinishRecording(t) PROVE Shaped'
  <2>1. turn'[t].ask = "finish" /\ turn'[t].begin = turn[t].begin
        /\ \A u \in Turn \ {t} : turn'[u] = turn[u]
    BY <1>0, <1>5, AskAtFields DEF FinishRecording
  <2>2. turn[t].ask = "idle" BY <1>5 DEF ShownInv, FinishRecording
  <2>3. TurnShape(t) BY DEF Shaped
  <2>4. UNCHANGED <<mic, runtime, installed, fault>>
    BY <1>5 DEF FinishRecording, registry, voiceVars, captureVars
  <2>5. TurnShape(t)' /\ \A u \in Turn \ {t} : Same(u)
    BY <1>0, <2>1, <2>2, <2>3, <2>4, FreshShape
  <2> QED BY <1>1, <2>5
<1>6. ASSUME NEW t \in Turn, BeginStep(t) \/ FaultStep(t) \/ AskStep(t) PROVE Shaped'
  <2>1. TurnShape(t) BY DEF Shaped
  <2> QED BY <1>0, <1>1, <1>6, <2>1, BeginShape, FaultShape, AskShape
<1>7. ASSUME NEW t \in Turn, TypeQuestion(t) PROVE Shaped'
  BY <1>3, <1>7 DEF TypeQuestion, voiceVars, captureVars
<1>8. ASSUME NEW t \in Turn, ConfirmEdit(t) \/ EditApplied(t) \/ AppliedEditCloses(t) PROVE Shaped'
  BY <1>2, <1>8 DEF ConfirmEdit, EditApplied, AppliedEditCloses, qaVars, voiceVars, captureVars
<1>9. ASSUME NEW c \in Close, CloseCancelsRuntime(c) PROVE Shaped'
  <2>1. CASE close[c].runtime = 0
    BY <1>2, <1>9, <2>1 DEF CloseCancelsRuntime
  <2>2. CASE close[c].runtime # 0
    <3>1. close[c].runtime \in Turn BY <1>0, <2>2 DEF TurnTypes, CloseType
    <3>2. PICK t \in Turn : RuntimeCancel(t) /\ UNCHANGED <<turn, fault>>
      BY <1>9, <2>2, <3>1 DEF CloseCancelsRuntime
    <3>3. TurnShape(t) BY DEF Shaped
    <3> QED BY <1>0, <1>1, <3>2, <3>3, CancelShape
  <2> QED BY <2>1, <2>2
<1>10. ASSUME NEW c \in Close, UserCloses(c) \/ CloseHides(c) \/ CloseClearsPreview(c) PROVE Shaped'
  BY <1>2, <1>10 DEF UserCloses, CloseHides, CloseClearsPreview, voiceVars, captureVars
<1>11. ASSUME Show \/ ToggleEditMode PROVE Shaped'
  BY <1>2, <1>11 DEF Show, ToggleEditMode, voiceVars, captureVars
<1>12. ASSUME NEW s \in Session, RouteStep(s) PROVE Shaped'
  BY <1>2, <1>3, <1>12, RouteTurns
<1>13. CASE PanelStep
  BY <1>4, <1>5, <1>6, <1>7, <1>8, <1>9, <1>10, <1>11, <1>12, <1>13, CloseNumbers
  DEF PanelStep, CloseStep
<1>14. CASE CommandStep /\ UNCHANGED qaVars
  <2>1. \A t \in Turn : mic'[t] = mic[t] \/ (mic[t] = "closing" /\ mic'[t] = "ended")
    BY <1>14, CommandElsewhere DEF Elsewhere
  <2>2. UNCHANGED <<turn, runtime, installed, fault>> BY <1>14 DEF qaVars, registry
  <2> QED BY <2>1, <2>2 DEF Shaped, TurnShape, Answering
<1>15. CASE UNCHANGED allVars
  BY <1>2, <1>15 DEF allVars, voiceVars, captureVars, qaVars
<1> QED BY <1>13, <1>14, <1>15 DEF QaNext

----------------------------------------------------------------------------
(* The calls that make a preview and bind its target.                       *)
Revising == {"edit", "revise", "generate", "bind"}

(* Turn t is making a preview for its conversation.                         *)
Making(t) == turn[t].ask \in Revising /\ turn[t].owner # 0

(* A conversation is the one of the turn that asks: a turn that makes a     *)
(* preview for the conversation on the panel is the turn that asks, and a   *)
(* conversation that a failed opening may bring back has nobody making one. *)
OwnerInv ==
    /\ qa.conversation <= lastTurn /\ previous.conversation <= lastTurn
    /\ \A t \in Turn : turn[t].owner <= lastTurn
    /\ previous.conversation # 0 => presenter = "turn"
    /\ presenter = "turn" /\ QaActive =>
          turn[qa.session].begin = "show" \/ turn[qa.session].ask = "show"
    /\ \A t \in Turn : Making(t) /\ turn[t].owner = qa.conversation => Asking(t)
    /\ \A t \in Turn : Making(t) => turn[t].owner # previous.conversation

(* No call of turn t begins to make a preview or leaves the mutex.          *)
Keeps(t) ==
    /\ turn'[t].owner \in {0, turn[t].owner}
    /\ turn'[t].ask \in Revising => turn[t].ask \in Revising
    /\ turn[t].begin = "show" => turn'[t].begin = "show"
    /\ turn[t].ask = "show" => turn'[t].ask = "show"

(* The types of the conversations.                                          *)
LEMMA OwnerNumbers ==
    ASSUME Fields
    PROVE  /\ qa.conversation \in Turn \cup {0} /\ previous.conversation \in Turn \cup {0}
           /\ \A t \in Turn : turn[t].owner \in Turn \cup {0}
           /\ lastTurn \in Nat /\ Turn \subseteq Nat \ {0}
           /\ DefaultSnapshot.conversation = 0 /\ DefaultSnapshot.session = 0
BY PanelNumbers DEF Fields, PanelTypes, TurnTypes, Snapshot, TurnType, DefaultSnapshot

(* A step that begins no conversation keeps OwnerInv,                       *)
LEMMA OwnerFrame ==
    ASSUME Fields, OwnerInv, Forgets, UNCHANGED lastTurn,
           presenter' = presenter \/ (presenter # "turn" /\ presenter' # "turn"),
           qa'.conversation \in {0, qa.conversation},
           QaActive' => QaActive /\ qa'.session = qa.session, QaActive => qa.session \in Turn,
           \A t \in Turn : Keeps(t),
           \A t \in Turn : Asking(t) /\ turn'[t].ask \in Revising /\ qa'.conversation # 0 => Asking(t)'
    PROVE  OwnerInv'
<1> USE OwnerNumbers
<1>1. (qa.conversation <= lastTurn /\ previous.conversation <= lastTurn)' BY DEF OwnerInv, Forgets
<1>2. (\A t \in Turn : turn[t].owner <= lastTurn)' BY DEF OwnerInv, Keeps
<1>3. (previous.conversation # 0 => presenter = "turn")' BY DEF OwnerInv, Forgets
<1>4. (presenter = "turn" /\ QaActive =>
          turn[qa.session].begin = "show" \/ turn[qa.session].ask = "show")'
  BY DEF OwnerInv, Keeps
<1>5. (\A t \in Turn : Making(t) /\ turn[t].owner = qa.conversation => Asking(t))'
  BY DEF OwnerInv, Keeps, Making
<1>6. (\A t \in Turn : Making(t) => turn[t].owner # previous.conversation)'
  BY DEF OwnerInv, Keeps, Making, Forgets
<1> QED BY <1>1, <1>2, <1>3, <1>4, <1>5, <1>6 DEF OwnerInv

(* a turn that begins one does,                                             *)
LEMMA OwnerClaim ==
    ASSUME Fields, OwnerInv, NEW t \in Turn, NEW p, NEW from \in Snapshot,
           from = qa \/ from = DefaultSnapshot, ClaimTurn(t, p, from),
           \A u \in Turn \ {t} : turn'[u] = turn[u],
           turn'[t].owner = turn[t].owner, turn'[t].ask \notin Revising,
           turn'[t].begin = "show" \/ turn'[t].ask = "show"
    PROVE  OwnerInv'
<1> USE OwnerNumbers
<1>1. /\ t = lastTurn + 1 /\ lastTurn' = t /\ presenter' = "turn" /\ previous' = qa /\ ~QaActive
      /\ qa'.session = t /\ qa'.conversation \in {qa.conversation, t} \ {0}
  BY DEF ClaimTurn, NewTurn, Snapshot
<1>2. (qa.conversation <= lastTurn /\ previous.conversation <= lastTurn)' BY <1>1 DEF OwnerInv
<1>3. (\A u \in Turn : turn[u].owner <= lastTurn)'
  <2>1. \A u \in Turn : turn'[u].owner = turn[u].owner OBVIOUS
  <2>2. \A u \in Turn : turn[u].owner <= lastTurn BY DEF OwnerInv
  <2>3. \A u \in Turn : turn[u].owner \in Nat OBVIOUS
  <2> QED BY <1>1, <2>1, <2>2, <2>3
<1>4. (presenter = "turn" /\ QaActive =>
          turn[qa.session].begin = "show" \/ turn[qa.session].ask = "show")'
  BY <1>1
<1>5. \A u \in Turn : Making(u) => turn[u].owner # qa.conversation /\ turn[u].owner < t
  BY <1>1 DEF OwnerInv, Asking, QaActive
<1>6. \A u \in Turn : Making(u)' => Making(u) /\ turn'[u].owner = turn[u].owner BY DEF Making
<1>7. (\A u \in Turn : Making(u) /\ turn[u].owner = qa.conversation => Asking(u))'
  BY <1>1, <1>5, <1>6
<1>8. (\A u \in Turn : Making(u) => turn[u].owner # previous.conversation)' BY <1>1, <1>5, <1>6
<1> QED BY <1>1, <1>2, <1>3, <1>4, <1>7, <1>8 DEF OwnerInv

(* and the turn that leaves the mutex does, whether the panel opened or     *)
(* not.                                                                     *)
LEMMA OwnerPresented ==
    ASSUME Fields, OwnerInv, NEW t \in Turn,
           presenter' = "none", previous' = DefaultSnapshot, UNCHANGED lastTurn,
           qa' = qa \/ (qa' = previous /\ ~QaActive'),
           \A u \in Turn \ {t} : turn'[u] = turn[u], turn'[t].owner = turn[t].owner,
           turn'[t].ask \in Revising => turn'[t].ask = turn[t].ask
    PROVE  OwnerInv'
<1> USE OwnerNumbers
<1>1. (qa.conversation <= lastTurn /\ previous.conversation <= lastTurn)' BY DEF OwnerInv
<1>2. (\A u \in Turn : turn[u].owner <= lastTurn)' BY DEF OwnerInv
<1>3. \A u \in Turn : Making(u)' => Making(u) /\ turn'[u].owner = turn[u].owner BY DEF Making
<1>4. (\A u \in Turn : Making(u) /\ turn[u].owner = qa.conversation => Asking(u))'
  <2>1. CASE qa' = qa BY <1>3, <2>1 DEF OwnerInv, Asking
  <2>2. CASE qa' = previous BY <1>3, <2>2 DEF OwnerInv
  <2> QED BY <2>1, <2>2
<1>5. (\A u \in Turn : Making(u) => turn[u].owner # previous.conversation)' BY <1>3 DEF Making
<1> QED BY <1>1, <1>2, <1>4, <1>5 DEF OwnerInv

(* How the calls of a turn change its record.                               *)
LEMMA CallKeeps ==
    ASSUME Fields, NEW t \in Turn
    PROVE  /\ UNCHANGED turn => \A u \in Turn : Keeps(u)
           /\ \A p : BeginAt(t, p) /\ turn[t].begin # "show" => \A u \in Turn : Keeps(u)
           /\ \A p : /\ AskAt(t, p) /\ turn[t].ask # "show"
                     /\ p \in Revising => turn[t].ask \in Revising
                     => \A u \in Turn : Keeps(u)
           /\ \A p, s, b : EditsWith(t, p, s, b) /\ turn[t].ask \in Revising => \A u \in Turn : Keeps(u)
           /\ SettleAnswer(t) \/ AskReleases(t) => \A u \in Turn : Keeps(u)
<1>1. ASSUME NEW u \in Turn, turn'[u] = turn[u] PROVE Keeps(u) BY <1>1 DEF Keeps
<1>2. UNCHANGED turn => \A u \in Turn : Keeps(u) BY <1>1
<1>3. ASSUME NEW p, BeginAt(t, p), turn[t].begin # "show" PROVE \A u \in Turn : Keeps(u)
  <2>1. /\ \A u \in Turn \ {t} : turn'[u] = turn[u]
        /\ turn'[t].begin = p /\ turn'[t].ask = turn[t].ask /\ turn'[t].owner = turn[t].owner
    BY <1>3, BeginAtFields DEF Fields
  <2>2. Keeps(t) BY <1>3, <2>1 DEF Keeps
  <2> QED BY <1>1, <2>1, <2>2
<1>4. ASSUME NEW p, AskAt(t, p), turn[t].ask # "show", p \in Revising => turn[t].ask \in Revising
      PROVE  \A u \in Turn : Keeps(u)
  <2>1. /\ \A u \in Turn \ {t} : turn'[u] = turn[u]
        /\ turn'[t].ask = p /\ turn'[t].begin = turn[t].begin /\ turn'[t].owner = turn[t].owner
    BY <1>4, AskAtFields DEF Fields
  <2>2. Keeps(t) BY <1>4, <2>1 DEF Keeps
  <2> QED BY <1>1, <2>1, <2>2
<1>5. ASSUME NEW p, NEW s, NEW b, EditsWith(t, p, s, b), turn[t].ask \in Revising
      PROVE  \A u \in Turn : Keeps(u)
  <2>1. /\ \A u \in Turn \ {t} : turn'[u] = turn[u]
        /\ turn'[t].ask = p /\ turn'[t].begin = turn[t].begin /\ turn'[t].owner = turn[t].owner
    BY <1>5, EditFields DEF Fields
  <2>2. Keeps(t) BY <1>5, <2>1 DEF Keeps, Revising
  <2> QED BY <1>1, <2>1, <2>2
<1>6. ASSUME AskReleases(t) PROVE \A u \in Turn : Keeps(u)
  <2>1. /\ \A u \in Turn \ {t} : turn'[u] = turn[u]
        /\ turn'[t].ask = "done" /\ turn'[t].begin = turn[t].begin /\ turn'[t].owner = 0
        /\ turn[t].ask = "release"
    BY <1>6, ReleaseFields DEF Fields, AskReleases
  <2>2. Keeps(t) BY <2>1 DEF Keeps, Revising
  <2> QED BY <1>1, <2>1, <2>2
<1>7. ASSUME SettleAnswer(t) PROVE \A u \in Turn : Keeps(u)
  <2>1. /\ \A u \in Turn \ {t} : turn'[u] = turn[u]
        /\ turn'[t].begin = turn[t].begin
    BY <1>7, CallFields DEF Fields
  <2>2. turn'[t].ask = "release" /\ turn'[t].owner = turn[t].owner /\ turn[t].ask = "settle"
    BY <1>7 DEF SettleAnswer, AskAt, Fields, TurnTypes, TurnType
  <2>3. Keeps(t) BY <2>1, <2>2 DEF Keeps, Revising
  <2> QED BY <1>1, <2>1, <2>3
<1>8. \A p : /\ AskAt(t, p) /\ turn[t].ask # "show"
             /\ p \in Revising => turn[t].ask \in Revising
             => \A u \in Turn : Keeps(u)
  BY <1>4
<1>9. \A p, s, b : EditsWith(t, p, s, b) /\ turn[t].ask \in Revising => \A u \in Turn : Keeps(u)
  BY <1>5
<1>10. \A p : BeginAt(t, p) /\ turn[t].begin # "show" => \A u \in Turn : Keeps(u) BY <1>3
<1> QED BY <1>2, <1>6, <1>7, <1>8, <1>9, <1>10

----------------------------------------------------------------------------
(* The calls of a turn keep OwnerInv,                                       *)
LEMMA OwnerTurns ==
    ASSUME Fields, ShownInv, Shaped, OwnerInv, NEW t \in Turn,
           \/ BeginRecording(t) \/ BeginStep(t) \/ FaultStep(t) \/ FinishRecording(t) \/ AskStep(t)
    PROVE  OwnerInv'
<1>0. TurnTypes /\ PanelTypes /\ (QaActive => qa.session \in Turn)
  BY PanelNumbers DEF Fields, ShownInv
<1>1. ASSUME UNCHANGED <<qa, previous, presenter, lastTurn>>, \A u \in Turn : Keeps(u)
      PROVE  OwnerInv'
  <2>1. qa'.conversation = qa.conversation /\ (QaActive' <=> QaActive) /\ qa'.session = qa.session
    BY <1>1 DEF QaActive
  <2>2. \A u \in Turn : Asking(u) => Asking(u)' BY <1>1 DEF Asking
  <2> QED BY <1>0, <1>1, <2>1, <2>2, OwnerFrame DEF Forgets
<1>2. ASSUME FailIfCurrent(t), UNCHANGED <<previous, presenter, lastTurn>>, \A u \in Turn : Keeps(u)
      PROVE  OwnerInv'
  <2>1. CASE qa' = qa BY <1>1, <1>2, <2>1
  <2>2. CASE qa' # qa
    <3>1. qa'.conversation = 0 /\ ~QaActive'
      BY <1>0, <1>2, <2>2 DEF FailIfCurrent, PanelTypes, Snapshot, QaActive
    <3> QED BY <1>0, <1>2, <3>1, OwnerFrame DEF Forgets
  <2> QED BY <2>1, <2>2
<1>3. CASE BeginRecording(t)
  <2>1. /\ turn'[t].begin = "show" /\ turn'[t].owner = turn[t].owner /\ turn'[t].ask = turn[t].ask
        /\ \A u \in Turn \ {t} : turn'[u] = turn[u]
    BY ZenonT(60), <1>0, <1>3, BeginAtFields DEF BeginRecording
  <2>2. PICK from \in {qa, DefaultSnapshot} : ClaimTurn(t, "Recording", from)
    BY <1>3 DEF BeginRecording
  <2>3. from \in Snapshot BY <1>0, DefaultTyped DEF PanelTypes
  <2>4. turn[t].ask = "idle" BY <2>2, FreshTurn DEF ClaimTurn, Begun
  <2>5. turn'[t].ask \notin Revising BY <2>1, <2>4 DEF Revising
  <2> QED BY <2>1, <2>2, <2>3, <2>5, OwnerClaim
<1>4. CASE ShowRecording(t)
  <2>1. \E p \in {"register", "done"} : BeginAt(t, p) BY <1>4 DEF ShowRecording
  <2>2. /\ turn'[t].ask = turn[t].ask /\ turn'[t].owner = turn[t].owner
        /\ \A u \in Turn \ {t} : turn'[u] = turn[u]
    BY <1>0, <2>1, BeginAtFields
  <2>3. previous.phase \notin {"Recording", "Thinking"} BY DEF ShownInv
  <2>4. /\ presenter' = "none" /\ previous' = DefaultSnapshot /\ UNCHANGED lastTurn
        /\ (qa' = qa \/ qa' = previous)
    BY <1>4 DEF ShowRecording, TakeBack
  <2> QED BY <2>2, <2>3, <2>4, OwnerPresented DEF QaActive
<1>5. CASE ShowQuestion(t)
  <2>1. PICK p \in {"prepare", "done"} : AskAt(t, p) BY <1>5 DEF ShowQuestion
  <2>2. /\ turn'[t].ask = p /\ turn'[t].owner = turn[t].owner
        /\ \A u \in Turn \ {t} : turn'[u] = turn[u]
    BY ZenonT(60), <1>0, <2>1, AskAtFields
  <2>3. previous.phase \notin {"Recording", "Thinking"} /\ turn'[t].ask \notin Revising
    BY <2>2 DEF ShownInv, Revising
  <2>4. /\ presenter' = "none" /\ previous' = DefaultSnapshot /\ UNCHANGED lastTurn
        /\ (qa' = qa \/ qa' = previous)
    BY <1>5 DEF ShowQuestion, TakeBack
  <2> QED BY <2>2, <2>3, <2>4, OwnerPresented DEF QaActive
<1>6. CASE BeginFails(t) \/ AskFails(t) \/ FaultFails(t)
  <2>1. \A u \in Turn : Keeps(u)
    BY <1>6, CallKeeps DEF BeginFails, AskFails, FaultFails, Revising
  <2> QED BY <1>2, <1>6, <2>1 DEF BeginFails, AskFails, FaultFails
<1>7. CASE FinishRecording(t)
  <2>1. turn[t].ask = "idle" /\ AskAt(t, "finish") BY <1>7 DEF FinishRecording, ShownInv
  <2>2. \A u \in Turn : Keeps(u) BY <2>1, CallKeeps DEF Revising
  <2>3. /\ qa'.session = qa.session /\ qa'.conversation = qa.conversation /\ QaActive
        /\ qa.phase = "Recording"
    BY <1>0, <1>7 DEF FinishRecording, RecordingQuestion, QaActive, PanelTypes, Snapshot
  <2>4. \A u \in Turn : ~Asking(u) BY <2>3 DEF Asking
  <2> QED BY <1>0, <1>7, <2>2, <2>3, <2>4, OwnerFrame DEF Forgets, FinishRecording
<1>8. CASE SettleAnswer(t)
  <2>1. \A u \in Turn : Keeps(u) BY <1>8, CallKeeps
  <2>2. CASE qa' = qa BY <1>1, <1>8, <2>1, <2>2 DEF SettleAnswer
  <2>3. CASE Asking(t) /\ qa' # qa
    <3>1. /\ qa'.conversation = qa.conversation /\ ~QaActive' /\ qa.session = t
      BY <1>0, <1>8, <2>3 DEF SettleAnswer, PanelTypes, Snapshot, QaActive, Asking
    <3>2. turn'[t].ask \notin Revising
      BY <1>0, <1>8 DEF SettleAnswer, AskAt, TurnTypes, TurnType, Revising
    <3>3. \A u \in Turn : Asking(u) /\ turn'[u].ask \in Revising => Asking(u)'
      BY <3>1, <3>2 DEF Asking
    <3> QED BY <1>0, <1>8, <2>1, <3>1, <3>3, OwnerFrame DEF Forgets, SettleAnswer
  <2> QED BY <1>8, <2>2, <2>3 DEF SettleAnswer
<1>9. CASE PushQuestion(t)
  <2>1. CASE ~Asking(t)
    <3>1. AskAt(t, "release") /\ UNCHANGED <<qa, previous, presenter, lastTurn>>
          /\ turn[t].ask = "push"
      BY <1>9, <2>1 DEF PushQuestion
    <3>2. \A u \in Turn : Keeps(u) BY <3>1, CallKeeps DEF Revising
    <3> QED BY <1>1, <3>1, <3>2
  <2>2. CASE Asking(t)
    <3>1. /\ qa'.conversation = qa.conversation /\ qa'.session = qa.session /\ qa'.phase = qa.phase
          /\ UNCHANGED <<previous, presenter, lastTurn>>
          /\ turn[t].ask = "push"
      BY <1>0, <1>9, <2>2 DEF PushQuestion, PanelTypes, Snapshot
    <3>2. /\ \A u \in Turn \ {t} : turn'[u] = turn[u]
          /\ turn'[t].begin = turn[t].begin
      BY <1>0, <1>9, CallFields
    <3>3. turn'[t].owner = qa.conversation
      BY <1>0, <1>9, <2>2 DEF PushQuestion, TurnTypes, TurnType
    <3>4. turn[t].begin # "show" BY <3>1 DEF Shaped, TurnShape
    <3>5. presenter # "turn" BY <2>2, <3>1, <3>4 DEF OwnerInv, Asking, QaActive
    <3>6. previous.conversation = 0 BY <3>5 DEF OwnerInv
    <3>7. (\A u \in Turn : turn[u].owner <= lastTurn)' BY <3>1, <3>2, <3>3 DEF OwnerInv
    <3>8. (\A u \in Turn : Making(u) /\ turn[u].owner = qa.conversation => Asking(u))'
      BY <2>2, <3>1, <3>2 DEF OwnerInv, Making, Asking
    <3>9. (\A u \in Turn : Making(u) => turn[u].owner # previous.conversation)'
      BY <3>1, <3>6 DEF Making
    <3>10. (qa.conversation <= lastTurn /\ previous.conversation <= lastTurn)' BY <3>1 DEF OwnerInv
    <3> QED BY <3>1, <3>5, <3>6, <3>7, <3>8, <3>9, <3>10 DEF OwnerInv
  <2> QED BY <2>1, <2>2
<1>10. CASE \/ Register(t) \/ SelectionCaptured(t) \/ QaOpens(t) \/ QaInstalls(t) \/ Arm(t)
            \/ QaDiscarded(t) \/ BeginSweeps(t) \/ FaultStarts(t) \/ FaultSweeps(t)
  <2>1. \A u \in Turn : Keeps(u)
    BY <1>10, CallKeeps DEF Register, SelectionCaptured, QaOpens, QaInstalls, Arm,
       QaDiscarded, BeginSweeps, FaultStarts, FaultSweeps
  <2>2. UNCHANGED <<qa, previous, presenter, lastTurn>>
    BY <1>10 DEF Register, SelectionCaptured, QaOpens, QaInstalls, Arm, QaDiscarded, BeginSweeps,
       FaultStarts, FaultSweeps, panelVars
  <2> QED BY <1>1, <2>1, <2>2
<1>11. CASE \/ StopMicrophone(t) \/ QuestionHeard(t) \/ Prepare(t) \/ ContextCaptured(t)
            \/ CheckCurrent(t) \/ Answered(t) \/ EditGenerated(t) \/ BindTarget(t)
            \/ CompleteRuntime(t) \/ AskSweeps(t) \/ AskClears(t)
  <2>1. \E p : /\ AskAt(t, p) /\ turn[t].ask # "show"
               /\ p \in Revising => turn[t].ask \in Revising
    BY <1>11
    DEF StopMicrophone, QuestionHeard, Prepare, ContextCaptured, CheckCurrent, Answered,
        EditGenerated, BindTarget, CompleteRuntime, AskSweeps, AskClears, AfterCancel, Revising,
        Cleaned
  <2>2. \A u \in Turn : Keeps(u) BY <2>1, CallKeeps
  <2>3. UNCHANGED <<qa, previous, presenter, lastTurn>>
    BY <1>11
    DEF StopMicrophone, QuestionHeard, Prepare, ContextCaptured, CheckCurrent, Answered,
        EditGenerated, BindTarget, CompleteRuntime, AskSweeps, AskClears, panelVars
  <2> QED BY <1>1, <2>2, <2>3
<1>12. CASE EditPreview(t) \/ Revised(t) \/ AskReleases(t)
  <2>1. \A u \in Turn : Keeps(u)
    <3>1. CASE AskReleases(t) BY <3>1, CallKeeps
    <3>2. CASE EditPreview(t) \/ Revised(t)
      <4>1. /\ turn[t].ask \in Revising
            /\ \/ AskAt(t, "fail")
               \/ \E p \in {"revise", "generate", "bind"} :
                     \E s \in {voice.session, NextSession}, b \in BOOLEAN : EditsWith(t, p, s, b)
        BY <3>2 DEF EditPreview, Revised, Revising
      <4>2. turn[t].ask # "show" BY <4>1 DEF Revising
      <4> QED BY <4>1, <4>2, CallKeeps DEF Revising
    <3> QED BY <1>12, <3>1, <3>2
  <2>2. UNCHANGED <<qa, previous, presenter, lastTurn>>
    BY <1>12 DEF EditPreview, Revised, AskReleases, panelVars
  <2> QED BY <1>1, <2>1, <2>2
<1> QED
  BY <1>3, <1>4, <1>5, <1>6, <1>7, <1>8, <1>9, <1>10, <1>11, <1>12
  DEF AskStep, BeginStep, FaultStep

(* and so do the steps of the panel.                                        *)
LEMMA OwnerPanelStep ==
    ASSUME Fields, ShownInv, Shaped, OwnerInv, PanelStep
    PROVE  OwnerInv'
<1>0. TurnTypes /\ PanelTypes /\ (QaActive => qa.session \in Turn)
  BY PanelNumbers DEF Fields, ShownInv
<1>1. ASSUME NEW s, NEW b, NEW t \in Turn, SubmitText(t, s, b) PROVE OwnerInv'
  <2>1. /\ turn'[t].ask = "show" /\ turn'[t].begin = turn[t].begin
        /\ turn'[t].owner = turn[t].owner
        /\ \A u \in Turn \ {t} : turn'[u] = turn[u]
    BY <1>0, <1>1 DEF SubmitText, TurnTypes, TurnType
  <2>2. turn'[t].ask \notin Revising BY <2>1 DEF Revising
  <2>3. qa \in Snapshot /\ ClaimTurn(t, "Thinking", qa) BY <1>0, <1>1 DEF SubmitText, PanelTypes
  <2> QED BY <2>1, <2>2, <2>3, OwnerClaim
<1>2. ASSUME UNCHANGED <<previous, lastTurn, turn>>,
             presenter' = presenter \/ (presenter # "turn" /\ presenter' # "turn"),
             qa'.conversation \in {0, qa.conversation},
             qa' = qa \/ ~QaActive' \/ (qa'.session = qa.session /\ qa'.phase = qa.phase),
             \A t \in Turn : Asking(t) /\ qa'.conversation # 0 => Asking(t)'
      PROVE  OwnerInv'
  <2>1. \A u \in Turn : Keeps(u) BY <1>2 DEF Keeps
  <2>2. QaActive' => QaActive /\ qa'.session = qa.session BY <1>2 DEF QaActive
  <2>3. \A t \in Turn : Asking(t) /\ turn'[t].ask \in Revising /\ qa'.conversation # 0 => Asking(t)'
    BY <1>2
  <2> QED BY <1>0, <1>2, <2>1, <2>2, <2>3, OwnerFrame DEF Forgets
<1>3. ASSUME UNCHANGED <<qa, previous, lastTurn, turn, presenter>> PROVE OwnerInv'
  BY <1>2, <1>3 DEF Asking
<1>4. ASSUME NEW c \in Close, NEW b, NEW r, ClaimClose(c, b, r), UNCHANGED <<previous, lastTurn, turn>>
      PROVE  OwnerInv'
  <2>1. presenter # "turn" /\ presenter' # "turn" /\ ~QaActive' /\ qa'.conversation = 0
    BY <1>0, <1>4 DEF ClaimClose, PanelTypes, Snapshot, QaActive
  <2> QED BY <1>2, <1>4, <2>1
<1>5. ASSUME NEW t \in Turn, AppliedEditCloses(t) PROVE OwnerInv'
  BY <1>3, <1>4, <1>5, CloseNumbers DEF AppliedEditCloses
<1>6. ASSUME NEW t \in Turn, ConfirmEdit(t) \/ EditApplied(t) PROVE OwnerInv'
  BY <1>3, <1>6 DEF ConfirmEdit, EditApplied, qaVars, panelVars
<1>7. ASSUME NEW c \in UserClose, UserCloses(c) PROVE OwnerInv'
  BY <1>4, <1>7, CloseNumbers DEF UserCloses
<1>8. ASSUME NEW c \in Close, CloseCancelsRuntime(c) \/ CloseClearsPreview(c) PROVE OwnerInv'
  BY <1>3, <1>8 DEF CloseCancelsRuntime, CloseClearsPreview, panelVars
<1>9. ASSUME NEW c \in Close, CloseHides(c) PROVE OwnerInv'
  <2>1. presenter # "turn" /\ presenter' # "turn" /\ UNCHANGED <<previous, lastTurn, turn>>
    BY <1>9 DEF CloseHides, ShownInv
  <2>2. CASE UNCHANGED qa BY <1>2, <2>1, <2>2 DEF Asking
  <2>3. CASE qa' = DefaultSnapshot
    <3>1. qa'.conversation = 0 /\ ~QaActive' BY <2>3 DEF DefaultSnapshot, QaActive
    <3> QED BY <1>2, <2>1, <3>1
  <2> QED BY <1>9, <2>2, <2>3 DEF CloseHides
<1>10. ASSUME NEW b \in BOOLEAN, SetEditInstructionMode(b),
             UNCHANGED <<previous, presenter, lastTurn, turn>>
      PROVE OwnerInv'
  <2>1. qa'.session = qa.session /\ qa'.phase = qa.phase /\ qa'.conversation = qa.conversation
    BY <1>0, <1>10 DEF SetEditInstructionMode, PanelTypes, Snapshot
  <2> QED BY <1>2, <1>10, <2>1 DEF Asking
<1>11. ASSUME Show PROVE OwnerInv' BY <1>3, <1>11 DEF Show
<1>12. ASSUME ToggleEditMode PROVE OwnerInv'
  <2>1. (~qa.editing) \in BOOLEAN OBVIOUS
  <2> QED BY <1>10, <1>12, <2>1 DEF ToggleEditMode
<1>13. ASSUME NEW s \in Session, RouteShows(s) \/ RouteReturns(s) PROVE OwnerInv'
  BY <1>3, <1>13 DEF RouteShows, RouteReturns, qaVars, panelVars
<1>14. ASSUME NEW s \in Session, RouteSetsMode(s) PROVE OwnerInv'
  <2>1. (end[s] = "converseMode") \in BOOLEAN OBVIOUS
  <2>2. CASE UNCHANGED qa BY <1>3, <1>14, <2>2 DEF RouteSetsMode
  <2> QED BY <1>10, <1>14, <2>1, <2>2 DEF RouteSetsMode
<1>15. ASSUME NEW s \in Session, RouteAsks(s) PROVE OwnerInv'
  <2>1. CASE UNCHANGED <<panelVars, turn>> BY <1>3, <2>1 DEF panelVars
  <2> QED BY <1>1, <1>15, <2>1 DEF RouteAsks
<1>16. ASSUME NEW t \in Turn, TypeQuestion(t) PROVE OwnerInv' BY <1>1, <1>16 DEF TypeQuestion
<1> QED
  BY <1>5, <1>6, <1>7, <1>8, <1>9, <1>11, <1>12, <1>13, <1>14, <1>15, <1>16, OwnerTurns
  DEF PanelStep, CloseStep, RouteStep

----------------------------------------------------------------------------
(* The text of turn t was inserted.                                         *)
Spent(t) == apply[t].pc = "ok" \/ close[t].pc # "idle"

(* Panel q offers the edit of turn t.                                       *)
Offers(q, t) == q.session = t /\ q.phase = "Completed" /\ q.conversation # 0

(* Turn t records or asks.                                                  *)
ActiveTurn(t) == qa.session = t /\ QaActive

(* An edit that was inserted is not offered again, and a turn whose edit is *)
(* confirmed or inserted does not record or ask any more.                   *)
OfferInv ==
    /\ \A t \in Turn : Spent(t) /\ Offers(qa, t) => qa.conversation \notin voice.preview
    /\ \A t \in Turn : Spent(t) /\ Offers(previous, t) => previous.conversation \notin voice.preview
    /\ \A t \in Turn : apply[t].pc # "no" => close[t].pc = "idle"
    /\ \A t \in Turn : apply[t].pc # "no" \/ close[t].pc # "idle" => ~ActiveTurn(t) /\ t <= lastTurn

(* What the steps may do to the confirmations,                              *)
EditsKeep ==
    \A t \in Turn :
       /\ Spent(t)' => Spent(t) \/ voice'.preview = {}
       /\ apply'[t].pc # "no" /\ close'[t].pc # "idle" => apply[t].pc # "no" /\ close[t].pc # "idle"
       /\ apply'[t].pc # "no" \/ close'[t].pc # "idle" =>
             apply[t].pc # "no" \/ close[t].pc # "idle" \/ (~ActiveTurn(t) /\ t <= lastTurn)

(* to the previews,                                                         *)
PreviewKeeps ==
    \A o \in voice'.preview \ {0} :
       \/ o \in voice.preview
       \/ o # previous.conversation /\ (o = qa.conversation => qa.phase # "Completed")

(* and to the panel that offers them.                                       *)
OffersKeep ==
    /\ \A t \in Turn : Offers(qa', t) =>
          \/ Offers(qa, t) /\ qa'.conversation = qa.conversation
          \/ ActiveTurn(t)
          \/ qa' = previous
    /\ previous' \in {previous, qa, DefaultSnapshot}
    /\ \A t \in Turn : ActiveTurn(t)' => ActiveTurn(t) \/ t > lastTurn
    /\ lastTurn <= lastTurn'

(* Such a step keeps OfferInv.                                              *)
LEMMA OfferFrame ==
    ASSUME Fields, OfferInv, EditsKeep, PreviewKeeps, OffersKeep, lastTurn' \in Nat
    PROVE  OfferInv'
<1> USE OwnerNumbers
<1>1. ASSUME NEW t \in Turn, Spent(t)', Offers(qa', t), qa'.conversation \in voice'.preview
      PROVE  FALSE
  <2>1. qa'.conversation # 0 BY <1>1 DEF Offers
  <2>2. Spent(t) BY <1>1 DEF EditsKeep
  <2>3. ~ActiveTurn(t) BY <2>2 DEF OfferInv, Spent
  <2>4. CASE Offers(qa, t) /\ qa'.conversation = qa.conversation
    BY <1>1, <2>1, <2>2, <2>4 DEF OfferInv, PreviewKeeps, Offers
  <2>5. CASE qa' = previous BY <1>1, <2>1, <2>2, <2>5 DEF OfferInv, PreviewKeeps
  <2> QED BY <1>1, <2>3, <2>4, <2>5 DEF OffersKeep
<1>2. ASSUME NEW t \in Turn, Spent(t)', Offers(previous', t), previous'.conversation \in voice'.preview
      PROVE  FALSE
  <2>1. previous'.conversation # 0 BY <1>2 DEF Offers
  <2>2. Spent(t) BY <1>2 DEF EditsKeep
  <2>3. CASE previous' = previous BY <1>2, <2>1, <2>2, <2>3 DEF OfferInv, PreviewKeeps
  <2>4. CASE previous' = qa BY <1>2, <2>1, <2>2, <2>4 DEF OfferInv, PreviewKeeps, Offers
  <2>5. CASE previous' = DefaultSnapshot BY <2>1, <2>5
  <2> QED BY <2>3, <2>4, <2>5 DEF OffersKeep
<1>3. (\A t \in Turn : Spent(t) /\ Offers(qa, t) => qa.conversation \notin voice.preview)'
  BY <1>1 DEF Offers
<1>4. (\A t \in Turn : Spent(t) /\ Offers(previous, t) => previous.conversation \notin voice.preview)'
  BY <1>2 DEF Offers
<1>5. (\A t \in Turn : apply[t].pc # "no" => close[t].pc = "idle")' BY DEF OfferInv, EditsKeep
<1>6. ASSUME NEW t \in Turn, apply'[t].pc # "no" \/ close'[t].pc # "idle"
      PROVE  ~ActiveTurn(t)' /\ t <= lastTurn'
  <2>1. ~ActiveTurn(t) /\ t <= lastTurn BY <1>6 DEF OfferInv, EditsKeep
  <2> QED BY <2>1 DEF OffersKeep
<1> QED BY <1>3, <1>4, <1>5, <1>6 DEF OfferInv

(* What the steps of the panel make of its snapshot.                        *)
LEMMA PanelOffers ==
    ASSUME Fields, ShownInv, PanelStep
    PROVE  OffersKeep
<1>0. TurnTypes /\ PanelTypes /\ lastTurn \in Nat BY PanelNumbers DEF Fields
<1>1. ASSUME UNCHANGED lastTurn, previous' \in {previous, DefaultSnapshot},
             \/ qa' = qa
             \/ qa'.phase \notin {"Recording", "Thinking", "Completed"}
             \/ qa'.phase = "Completed" /\ QaActive /\ qa'.session = qa.session
             \/ qa' = previous
             \/ /\ qa'.session = qa.session /\ qa'.conversation = qa.conversation
                /\ qa'.phase = qa.phase \/ (QaActive /\ qa'.phase = "Thinking")
      PROVE  OffersKeep
  <2>1. \A t \in Turn : Offers(qa', t) =>
          \/ Offers(qa, t) /\ qa'.conversation = qa.conversation
          \/ ActiveTurn(t)
          \/ qa' = previous
    BY <1>1 DEF Offers, ActiveTurn, QaActive
  <2>2. \A t \in Turn : ActiveTurn(t)' => ActiveTurn(t)
    BY <1>1 DEF ActiveTurn, QaActive, ShownInv
  <2> QED BY <1>0, <1>1, <2>1, <2>2 DEF OffersKeep
<1>2. ASSUME NEW t \in Turn, NEW p \in {"Recording", "Thinking"}, NEW from \in Snapshot,
             from = qa \/ from = DefaultSnapshot, ClaimTurn(t, p, from)
      PROVE  OffersKeep
  <2>1. /\ t = lastTurn + 1 /\ lastTurn' = t /\ previous' = qa
        /\ qa'.session = t /\ qa'.phase = p
    BY <1>2 DEF ClaimTurn, NewTurn, Snapshot
  <2>2. \A u \in Turn : ~Offers(qa', u) BY <2>1 DEF Offers
  <2>3. \A u \in Turn : ActiveTurn(u)' => u > lastTurn BY <1>0, <2>1 DEF ActiveTurn
  <2> QED BY <1>0, <2>1, <2>2, <2>3 DEF OffersKeep
<1>3. ASSUME NEW t \in Turn, FailIfCurrent(t), UNCHANGED <<lastTurn, previous>> PROVE OffersKeep
  <2>1. qa' = qa \/ qa'.phase = "Failed" BY <1>0, <1>3 DEF FailIfCurrent, PanelTypes, Snapshot
  <2> QED BY <1>1, <1>3, <2>1
<1>4. ASSUME NEW s, NEW b, NEW t \in Turn, SubmitText(t, s, b) PROVE OffersKeep
  BY <1>0, <1>2, <1>4 DEF SubmitText, PanelTypes
<1>5. ASSUME NEW t \in Turn, BeginRecording(t) PROVE OffersKeep
  BY <1>0, <1>2, <1>5, DefaultTyped DEF BeginRecording, PanelTypes
<1>6. ASSUME NEW t \in Turn, ShowRecording(t) \/ ShowQuestion(t) PROVE OffersKeep
  <2>1. UNCHANGED lastTurn /\ previous' = DefaultSnapshot /\ (qa' = qa \/ qa' = previous)
    BY <1>6 DEF ShowRecording, ShowQuestion, TakeBack
  <2> QED BY <1>1, <2>1
<1>7. ASSUME NEW t \in Turn, BeginFails(t) \/ AskFails(t) \/ FaultFails(t) PROVE OffersKeep
  BY <1>3, <1>7 DEF BeginFails, AskFails, FaultFails
<1>8. ASSUME NEW t \in Turn, FinishRecording(t) PROVE OffersKeep
  <2>1. /\ qa'.session = qa.session /\ qa'.conversation = qa.conversation /\ QaActive
        /\ qa'.phase = "Thinking" /\ UNCHANGED <<lastTurn, previous>>
    BY <1>0, <1>8 DEF FinishRecording, RecordingQuestion, QaActive, PanelTypes, Snapshot
  <2> QED BY <1>1, <2>1
<1>9. ASSUME NEW t \in Turn, PushQuestion(t) PROVE OffersKeep
  <2>1. /\ qa'.session = qa.session /\ qa'.conversation = qa.conversation /\ qa'.phase = qa.phase
        /\ UNCHANGED <<lastTurn, previous>>
    BY <1>0, <1>9 DEF PushQuestion, PanelTypes, Snapshot
  <2> QED BY <1>1, <2>1
<1>10. ASSUME NEW t \in Turn, SettleAnswer(t) PROVE OffersKeep
  <2>1. /\ UNCHANGED <<lastTurn, previous>>
        /\ qa' = qa \/ (qa'.phase = "Completed" /\ QaActive /\ qa'.session = qa.session)
    BY <1>0, <1>10 DEF SettleAnswer, Asking, QaActive, PanelTypes, Snapshot
  <2> QED BY <1>1, <2>1
<1>11. ASSUME NEW t \in Turn,
              \/ Register(t) \/ SelectionCaptured(t) \/ QaOpens(t) \/ QaInstalls(t) \/ Arm(t)
              \/ QaDiscarded(t) \/ BeginSweeps(t) \/ FaultStarts(t) \/ FaultSweeps(t)
              \/ EditPreview(t) \/ Revised(t) \/ AskReleases(t)
       PROVE  OffersKeep
  BY <1>1, <1>11
  DEF Register, SelectionCaptured, QaOpens, QaInstalls, Arm, QaDiscarded, BeginSweeps, FaultStarts,
      FaultSweeps, EditPreview, Revised, AskReleases, panelVars
<1>12. ASSUME NEW t \in Turn,
              \/ StopMicrophone(t) \/ QuestionHeard(t) \/ Prepare(t) \/ ContextCaptured(t)
              \/ CheckCurrent(t) \/ Answered(t) \/ EditGenerated(t) \/ BindTarget(t)
              \/ CompleteRuntime(t) \/ AskSweeps(t) \/ AskClears(t)
       PROVE  OffersKeep
  BY <1>1, <1>12
  DEF StopMicrophone, QuestionHeard, Prepare, ContextCaptured, CheckCurrent, Answered,
      EditGenerated, BindTarget, CompleteRuntime, AskSweeps, AskClears, panelVars
<1>13. ASSUME NEW c \in Close, NEW b, NEW r, ClaimClose(c, b, r), UNCHANGED <<previous, lastTurn>>
       PROVE  OffersKeep
  <2>1. qa'.phase \in {"Idle", "Cancelled"} BY <1>0, <1>13 DEF ClaimClose, PanelTypes, Snapshot
  <2> QED BY <1>1, <1>13, <2>1
<1>14. ASSUME NEW t \in Turn, AppliedEditCloses(t) \/ ConfirmEdit(t) \/ EditApplied(t) PROVE OffersKeep
  BY <1>1, <1>13, <1>14, CloseNumbers
  DEF AppliedEditCloses, ConfirmEdit, EditApplied, qaVars, panelVars
<1>15. ASSUME NEW c \in UserClose, UserCloses(c) PROVE OffersKeep
  BY <1>13, <1>15, CloseNumbers DEF UserCloses
<1>16. ASSUME NEW c \in Close, CloseStep(c) PROVE OffersKeep
  <2>1. DefaultSnapshot.phase = "Idle" BY DEF DefaultSnapshot
  <2>2. UNCHANGED <<previous, lastTurn>> /\ (qa' = qa \/ qa' = DefaultSnapshot)
    BY <1>16 DEF CloseStep, CloseHides, CloseCancelsRuntime, CloseClearsPreview, panelVars
  <2> QED BY <1>1, <2>1, <2>2
<1>17. ASSUME NEW b \in BOOLEAN, SetEditInstructionMode(b), UNCHANGED <<previous, lastTurn>>
       PROVE  OffersKeep
  <2>1. qa'.session = qa.session /\ qa'.phase = qa.phase /\ qa'.conversation = qa.conversation
    BY <1>0, <1>17 DEF SetEditInstructionMode, PanelTypes, Snapshot
  <2> QED BY <1>1, <1>17, <2>1
<1>18. ASSUME Show \/ ToggleEditMode PROVE OffersKeep
  <2>1. (~qa.editing) \in BOOLEAN OBVIOUS
  <2> QED BY <1>1, <1>17, <1>18, <2>1 DEF Show, ToggleEditMode
<1>19. ASSUME NEW s \in Session, RouteStep(s) PROVE OffersKeep
  <2>1. (end[s] = "converseMode") \in BOOLEAN OBVIOUS
  <2>2. CASE UNCHANGED panelVars BY <1>1, <2>2 DEF panelVars
  <2>3. CASE RouteShows(s) BY <1>1, <2>3 DEF RouteShows
  <2>4. CASE RouteSetsMode(s) BY <1>1, <1>17, <2>1, <2>4 DEF RouteSetsMode
  <2>5. CASE RouteAsks(s) BY <1>4, <2>2, <2>5 DEF RouteAsks
  <2>6. CASE RouteReturns(s) BY <2>2, <2>6 DEF RouteReturns, qaVars
  <2> QED BY <1>19, <2>3, <2>4, <2>5, <2>6 DEF RouteStep
<1>20. ASSUME NEW t \in Turn, TypeQuestion(t) PROVE OffersKeep BY <1>4, <1>20 DEF TypeQuestion
<1> QED
  BY <1>5, <1>6, <1>7, <1>8, <1>9, <1>10, <1>11, <1>12, <1>14, <1>15, <1>16, <1>18, <1>19, <1>20
  DEF PanelStep, BeginStep, FaultStep, AskStep

----------------------------------------------------------------------------
(* A step that leaves the confirmations alone,                              *)
LEMMA EditsFrame ==
    ASSUME UNCHANGED apply, \A t \in Turn : close'[t].pc # "idle" => close[t].pc # "idle"
    PROVE  EditsKeep
BY DEF EditsKeep, Spent

(* one that makes no preview of a conversation,                             *)
LEMMA PreviewFrame ==
    ASSUME voice'.preview \subseteq voice.preview \cup {0}
    PROVE  PreviewKeeps
BY DEF PreviewKeeps

(* a cancellation,                                                          *)
LEMMA CancelPreview ==
    ASSUME voice \in VoiceState, NEW s, CancelVoice(s)
    PROVE  voice'.preview \subseteq voice.preview
BY DEF CancelVoice, VoiceState

(* and one that begins no dismissal of an edit.                             *)
LEMMA ClosedTurns ==
    ASSUME TurnTypes, NEW c \in Close, NEW r, close' = [close EXCEPT ![c] = r],
           c \in UserClose \/ close[c].pc # "idle" \/ r.pc = "idle"
    PROVE  \A t \in Turn : close'[t].pc # "idle" => close[t].pc # "idle"
<1>1. \A t \in Turn : t \in Close /\ (c \in UserClose => t # c)
  BY CloseNumbers, BoundsAssumption, QaAssumption DEF Turn, UserClose
<1> QED BY <1>1 DEF TurnTypes

(* The steps of the panel make a preview only for the conversation that     *)
(* asks.                                                                    *)
LEMMA PanelPreviews ==
    ASSUME VoiceTypeOK, Fields, ShownInv, OwnerInv, PanelStep
    PROVE  PreviewKeeps
<1>0. voice \in VoiceState /\ TurnTypes BY DEF VoiceTypeOK, Fields
<1>1. ASSUME UNCHANGED voice PROVE PreviewKeeps BY <1>1, PreviewFrame
<1>2. ASSUME NEW o, ClearPreview(o) PROVE PreviewKeeps
  <2>1. CASE UNCHANGED voice BY <1>1, <2>1
  <2>2. CASE CancelVoice(voice.session)
    <3>1. voice'.preview \subseteq voice.preview BY <1>0, <2>2, CancelPreview
    <3> QED BY <3>1, PreviewFrame
  <2>3. voice' = voice \/ CancelVoice(voice.session) BY <1>2 DEF ClearPreview
  <2> QED BY <2>1, <2>2, <2>3
<1>3. ASSUME NEW t \in Turn, EditPreview(t) PROVE PreviewKeeps
  <2>1. NewVoice(NextSession, "Processing", FALSE).preview = {} BY DEF NewVoice
  <2>2. voice' = voice \/ voice' = NewVoice(NextSession, "Processing", FALSE) BY <1>3 DEF EditPreview
  <2>3. CASE voice' = voice BY <1>1, <2>3
  <2>4. CASE voice' = NewVoice(NextSession, "Processing", FALSE)
    <3>1. voice'.preview \subseteq voice.preview \cup {0} BY <2>1, <2>4
    <3> QED BY <3>1, PreviewFrame
  <2> QED BY <2>2, <2>3, <2>4
<1>4. ASSUME NEW t \in Turn, EditGenerated(t) PROVE PreviewKeeps
  <2>1. CASE SetPreview(turn[t].session, turn[t].owner)
    <3>1. voice'.preview = {turn[t].owner} BY <1>0, <2>1 DEF SetPreview, VoiceState
    <3>2. turn[t].owner # 0 => Making(t) BY <1>4 DEF EditGenerated, Making, Revising
    <3> QED BY <3>1, <3>2 DEF OwnerInv, PreviewKeeps, Asking
  <2>2. CASE CancelVoice(turn[t].session) BY <1>0, <2>2, PreviewFrame, CancelPreview
  <2>3. CASE UNCHANGED voice BY <1>1, <2>3
  <2> QED BY <1>4, <2>1, <2>2, <2>3 DEF EditGenerated
<1>5. ASSUME NEW t \in Turn, AskStep(t) PROVE PreviewKeeps
  <2>1. CASE AskClears(t) BY <1>1, <1>2, <2>1 DEF AskClears
  <2>2. CASE BindTarget(t) BY <1>1, <2>2 DEF BindTarget
  <2> QED
    BY <1>1, <1>3, <1>4, <1>5, <2>1, <2>2, PanelCommandFrame DEF AskStep, commandVars
<1>6. ASSUME NEW t \in Turn, ConfirmEdit(t) PROVE PreviewKeeps
  <2>1. voice'.preview = voice.preview BY <1>0, <1>6 DEF ConfirmEdit, BeginApply, VoiceState
  <2> QED BY <2>1, PreviewFrame
<1>7. ASSUME NEW t \in Turn, EditApplied(t) PROVE PreviewKeeps BY <1>1, <1>7 DEF EditApplied
<1>8. ASSUME NEW c \in Close, CloseClearsPreview(c) PROVE PreviewKeeps
  BY <1>1, <1>2, <1>8 DEF CloseClearsPreview
<1>9. ASSUME NEW s \in Session, RouteStep(s) PROVE PreviewKeeps
  <2>1. voice' = voice \/ voice'.preview = {}
    BY <1>0, <1>9
    DEF RouteStep, RouteShows, RouteSetsMode, RouteAsks, RouteReturns, CompleteVoice, VoiceState
  <2> QED BY <2>1, PreviewFrame
<1>10. ASSUME UNCHANGED commandVars PROVE PreviewKeeps BY <1>1, <1>10 DEF commandVars
<1> QED
  BY <1>5, <1>6, <1>7, <1>8, <1>9, <1>10, PanelCommandFrame, CloseNumbers DEF PanelStep, CloseStep

(* A confirmation or a dismissal of an edit begins only for an edit that    *)
(* was not inserted yet.                                                    *)
LEMMA PanelEdits ==
    ASSUME VoiceTypeOK, Fields, ShownInv, OfferInv, PanelStep
    PROVE  EditsKeep
<1>0. TurnTypes /\ apply \in [Id -> Confirmation] /\ voice \in VoiceState
  BY DEF Fields, VoiceTypeOK
<1>1. ASSUME UNCHANGED <<apply, close>> PROVE EditsKeep BY <1>1, EditsFrame
<1>2. ASSUME NEW c \in Close, NEW r, close' = [close EXCEPT ![c] = r],
             c \in UserClose \/ close[c].pc # "idle" \/ r.pc = "idle", UNCHANGED apply
      PROVE  EditsKeep
  BY <1>0, <1>2, ClosedTurns, EditsFrame
<1>3. ASSUME NEW t \in Turn,
             \/ BeginRecording(t) \/ BeginStep(t) \/ FaultStep(t) \/ FinishRecording(t)
             \/ TypeQuestion(t)
      PROVE  EditsKeep
  <2>1. UNCHANGED commandVars BY <1>3, PanelCommandFrame
  <2>2. UNCHANGED close
    BY <1>3
    DEF BeginRecording, BeginStep, FaultStep, FinishRecording, TypeQuestion, ShowRecording, Register,
        SelectionCaptured, QaOpens, QaInstalls, Arm, QaDiscarded, BeginFails, BeginSweeps,
        FaultStarts, FaultFails, FaultSweeps
  <2> QED BY <1>1, <2>1, <2>2 DEF commandVars, taskVars
<1>4. ASSUME NEW t \in Turn, AskStep(t) PROVE EditsKeep
  <2>1. UNCHANGED apply
    BY <1>4, PanelCommandFrame
    DEF AskStep, EditPreview, EditGenerated, BindTarget, AskClears, commandVars, taskVars
  <2>2. UNCHANGED close
    BY <1>4
    DEF AskStep, StopMicrophone, QuestionHeard, ShowQuestion, Prepare, ContextCaptured, CheckCurrent,
        PushQuestion, Answered, EditPreview, Revised, EditGenerated, BindTarget, CompleteRuntime,
        SettleAnswer, AskFails, AskSweeps, AskClears, AskReleases
  <2> QED BY <1>1, <2>1, <2>2
<1>5. ASSUME NEW t \in Turn, ConfirmEdit(t) PROVE EditsKeep
  <2>1. /\ Offers(qa, t) /\ qa.conversation \in voice.preview
        /\ apply[t].pc = "no" /\ UNCHANGED close
        /\ \A i \in Turn \ {t} : apply'[i] = apply[i]
        /\ apply'[t].pc = "insert" /\ voice'.preview = voice.preview
    BY <1>0, <1>5, Numbers
    DEF ConfirmEdit, Offers, BeginApply, Applyable, qaVars, Confirmation, VoiceState
  <2>2. ~Spent(t) BY <2>1 DEF OfferInv
  <2>3. ~ActiveTurn(t) /\ t <= lastTurn
    BY <2>1 DEF Offers, ActiveTurn, QaActive, ShownInv
  <2> QED BY <2>1, <2>2, <2>3 DEF EditsKeep, Spent
<1>6. ASSUME NEW t \in Turn, EditApplied(t) PROVE EditsKeep
  <2>1. /\ apply[t].pc # "no" /\ apply'[t].pc = "no"
        /\ \A i \in Turn \ {t} : apply'[i] = apply[i] /\ close'[i] = close[i]
        /\ UNCHANGED close \/ (apply[t].pc = "ok" /\ close'[t].pc = "claim")
    BY <1>0, <1>6, Numbers, CloseNumbers
    DEF EditApplied, ApplyAt, Confirmation, TurnTypes, CloseType
  <2> QED BY <2>1 DEF EditsKeep, Spent
<1>7. ASSUME NEW t \in Turn, AppliedEditCloses(t) PROVE EditsKeep
  <2>1. close[t].pc = "claim" /\ UNCHANGED apply /\ \E r : close' = [close EXCEPT ![t] = r]
    BY <1>7 DEF AppliedEditCloses, ClaimClose, voiceVars, taskVars
  <2> QED BY <1>2, <2>1, CloseNumbers
<1>8. ASSUME NEW c \in UserClose, UserCloses(c) PROVE EditsKeep
  <2>1. UNCHANGED apply /\ \E r : close' = [close EXCEPT ![c] = r]
    BY <1>8 DEF UserCloses, ClaimClose, voiceVars, taskVars
  <2> QED BY <1>2, <2>1, CloseNumbers
<1>9. ASSUME NEW c \in Close, CloseStep(c) PROVE EditsKeep
  <2>1. /\ UNCHANGED apply /\ \E r : close' = [close EXCEPT ![c] = r]
    BY <1>9
    DEF CloseStep, CloseHides, CloseCancelsRuntime, CloseClearsPreview, commandVars, taskVars
  <2>2. close[c].pc # "idle"
    BY <1>9 DEF CloseStep, CloseHides, CloseCancelsRuntime, CloseClearsPreview, Cleaned
  <2> QED BY <1>2, <2>1, <2>2
<1>10. ASSUME Show \/ ToggleEditMode PROVE EditsKeep
  BY <1>1, <1>10 DEF Show, ToggleEditMode, voiceVars, taskVars
<1>11. ASSUME NEW s \in Session, RouteStep(s) PROVE EditsKeep
  BY <1>1, <1>11
  DEF RouteStep, RouteShows, RouteSetsMode, RouteAsks, RouteReturns, qaVars
<1> QED
  BY <1>3, <1>4, <1>5, <1>6, <1>7, <1>8, <1>9, <1>10, <1>11 DEF PanelStep

(* The steps of the commands report an edit inserted only with its preview. *)
LEMMA CommandEdits ==
    ASSUME VoiceTypeOK, Numbered, CommandStep, UNCHANGED qaVars
    PROVE  EditsKeep /\ PreviewKeeps
<1>0. apply \in [Id -> Confirmation] /\ voice \in VoiceState BY DEF VoiceTypeOK
<1>q. UNCHANGED close BY DEF qaVars
<1> DEFINE Goal == EditsKeep /\ PreviewKeeps
<1>1. ASSUME UNCHANGED apply \/ \A t \in Turn : apply'[t] = apply[t],
             voice' = voice \/ voice'.preview \subseteq voice.preview \cup {0}
      PROVE  Goal
  BY <1>1, <1>q, PreviewFrame DEF EditsKeep, Spent
<1> HIDE DEF Goal
<1>2. ASSUME NEW s \in Session, Begin(s) PROVE Goal
  <2>1. UNCHANGED apply /\ voice'.preview = {} BY <1>2 DEF Begin, NewVoice
  <2> QED BY <1>1, <2>1
<1>3. ASSUME NEW s, CancelVoice(s), UNCHANGED apply PROVE Goal
  BY <1>0, <1>1, <1>3, CancelPreview
<1>4. ASSUME NEW s \in Session, StartStep(s) PROVE Goal
  <2>1. CASE StartFailed(s) BY <1>3, <2>1 DEF StartFailed
  <2>2. CASE ~StartFailed(s)
    <3>1. UNCHANGED apply /\ voice'.preview = voice.preview
      BY <1>0, <1>4, <2>2
      DEF StartStep, SetTarget, HoldResources, Bind, Opens, OpenFails, Install, Discarded, StartClears,
          VoiceState
    <3> QED BY <1>1, <3>1
  <2> QED BY <2>1, <2>2
<1>5. ASSUME NEW s \in Session, MarkProcessing(s) \/ Confirm(s) \/ RecordingFault(s) PROVE Goal
  <2>1. UNCHANGED apply /\ voice'.preview = voice.preview
    BY <1>0, <1>5 DEF MarkProcessing, Confirm, RecordingFault, taskVars, VoiceState
  <2> QED BY <1>1, <2>1
<1>6. ASSUME NEW s \in Session, TearDown(s) PROVE Goal
  BY <1>1, <1>6 DEF TearDown, taskVars
<1>7. ASSUME NEW s \in Session, EndStep(s) PROVE Goal
  <2>0. s \in Id /\ s \notin Turn BY Numbers
  <2>1. CASE EndFailed(s) BY <1>3, <2>1 DEF EndFailed
  <2>2. CASE Generated(s)
    <3>1. UNCHANGED apply /\ (voice' = voice \/ voice'.preview = {0})
      BY <1>0, <2>2 DEF Generated, SetPreview, VoiceState
    <3> QED BY <1>1, <3>1
  <2>3. CASE ConfirmDirect(s)
    <3>1. voice'.preview = voice.preview BY <1>0, <2>3 DEF ConfirmDirect, BeginApply, VoiceState
    <3>2. \A t \in Turn : apply'[t] = apply[t]
      BY <1>0, <2>0, <2>3, Numbers DEF ConfirmDirect, BeginApply
    <3> QED BY <1>1, <3>1, <3>2
  <2>4. CASE DirectApplied(s)
    <3>1. UNCHANGED voice /\ \A t \in Turn : apply'[t] = apply[t]
      BY <1>0, <2>0, <2>4, Numbers DEF DirectApplied, ApplyAt
    <3> QED BY <1>1, <3>1
  <2>5. CASE Resolve(s)
    <3>1. UNCHANGED apply /\ voice'.preview = voice.preview
      BY <1>0, <2>5 DEF Resolve, VoiceState
    <3> QED BY <1>1, <3>1
  <2>6. CASE TakeCapture(s) \/ Transcribed(s) \/ Route(s) \/ EndClears(s)
    BY <1>1, <2>6 DEF TakeCapture, Transcribed, Route, EndClears
  <2> QED BY <1>7, <2>1, <2>2, <2>3, <2>4, <2>5, <2>6 DEF EndStep
<1>8. ASSUME NEW i \in Id, CaptureCloses(i) PROVE Goal BY <1>1, <1>8 DEF CaptureCloses, taskVars
<1>9. ASSUME NEW i \in Id, FindTarget(i) \/ Insert(i) PROVE Goal
  <2>1. /\ UNCHANGED voice /\ \A j \in Id \ {i} : apply'[j] = apply[j]
        /\ apply[i].pc \in Unapplied /\ apply'[i].pc \in {"aimed", "applied", "failed"}
    BY <1>0, <1>9 DEF FindTarget, Insert, Unapplied, ApplyAt, Confirmation
  <2>2. EditsKeep BY <1>q, <2>1, Numbers DEF EditsKeep, Spent, Unapplied
  <2> QED BY <2>1, <2>2, PreviewFrame DEF Goal
<1>10. ASSUME NEW i \in Id, Report(i) PROVE Goal
  <2>1. /\ \A j \in Id \ {i} : apply'[j] = apply[j]
        /\ apply[i].pc # "no" /\ apply'[i].pc \in {"ok", "error"}
        /\ apply'[i].pc = "ok" => voice'.preview = {}
        /\ voice'.preview \subseteq voice.preview
    BY ZenonT(60), <1>0, <1>10 DEF Report, ApplyAt, Confirmation, VoiceState
  <2>2. EditsKeep BY <1>q, <2>1, Numbers DEF EditsKeep, Spent
  <2> QED BY <2>1, <2>2, PreviewFrame DEF Goal
<1>11. ASSUME UserCancels PROVE Goal BY <1>3, <1>11 DEF UserCancels, taskVars
<1>12. Goal
  BY <1>2, <1>4, <1>5, <1>6, <1>7, <1>8, <1>9, <1>10, <1>11 DEF CommandStep
<1> QED BY <1>12 DEF Goal

----------------------------------------------------------------------------
(* The dismissals that have taken turn t.                                   *)
Closes(t)     == \E c \in Close : close[c].runtime = t \/ close[c].release = t
Releasing(t)  == \E c \in Close : close[c].pc = "present" /\ close[c].release = t
Cancelling(t) == \E c \in Close : close[c].pc \in {"present", "cancel"} /\ close[c].runtime = t

(* What the turn on the panel has.                                          *)
ActiveInv(t) ==
    /\ turn[t].begin = "idle" => lease # t
    /\ RecordingQuestion(t) =>
          /\ turn[t].begin \notin {"idle", "sweep"}
          /\ lease = t /\ t \notin revoked
          /\ turn[t].begin \in {"arm", "done"} =>
                runtime[t] = "live" /\ t \in installed /\ mic[t] = "ready"
    /\ Asking(t) =>
          turn[t].ask \notin {"idle", "sweep", "closing", "clear", "release", "done"}
    /\ turn[t].begin = "sweep" \/ fault[t] = "sweep" \/ Closes(t) => ~ActiveTurn(t)

(* Who still has to give back the lease and the runtime session of a turn.  *)
OwnedInv(t) ==
    /\ lease = t /\ t \notin revoked =>
          \/ RecordingQuestion(t) \/ turn[t].ask \notin {"idle", "done"}
          \/ turn[t].begin = "sweep" \/ Releasing(t)
    /\ runtime[t] = "live" =>
          \/ ActiveTurn(t) \/ turn[t].begin = "captured"
          \/ turn[t].ask \in {"context", "check", "fail", "sweep"}
          \/ fault[t] = "sweep" \/ Cancelling(t)

(* The turn on the panel has what it needs, and what a turn has left is     *)
(* still given back.                                                        *)
Held(t) == ActiveInv(t) /\ OwnedInv(t)

(* The numbers of the turns that were taken.                                *)
TakenInv == \A t \in Turn : t \in revoked \/ Closes(t) => t <= lastTurn

(* Turn t records or asks as before.                                        *)
Steady(t) ==
    /\ RecordingQuestion(t)' <=> RecordingQuestion(t)
    /\ Asking(t)' <=> Asking(t)

(* The dismissals treat turn t as before.                                   *)
ClosesSame(t) ==
    /\ Closes(t)' <=> Closes(t)
    /\ Releasing(t)' <=> Releasing(t)
    /\ Cancelling(t)' <=> Cancelling(t)

(* Nothing changes around turn t.                                           *)
Calm(t) == Steady(t) /\ ClosesSame(t) /\ UNCHANGED lease /\ (t \in revoked' <=> t \in revoked)

(* What the calls of others may do to turn t.                               *)
Around(t) ==
    /\ lease' = lease \/ (LeaseFree /\ lease' # t)
    /\ t \in revoked => t \in revoked'
    /\ t \in revoked' => t \in revoked \/ ~RecordingQuestion(t)'
    /\ RecordingQuestion(t)' => RecordingQuestion(t)
    /\ Asking(t)' => Asking(t)
    /\ RecordingQuestion(t) => RecordingQuestion(t)' \/ Releasing(t)'
    /\ ActiveTurn(t) => ActiveTurn(t)' \/ Cancelling(t)'
    /\ Closes(t)' => Closes(t) \/ ~ActiveTurn(t)'
    /\ Releasing(t) => Releasing(t)' \/ t \in revoked'
    /\ Cancelling(t) => Cancelling(t)' \/ runtime'[t] # "live"

(* Nothing of turn t itself changes but the end of its cleanup.             *)
Still(t) ==
    /\ turn'[t] = turn[t] /\ runtime'[t] = runtime[t] /\ (t \in installed' <=> t \in installed)
    /\ mic'[t] = mic[t] \/ mic[t] = "closing"
    /\ fault'[t] = fault[t]

(* A turn is active when it records or asks.                                *)
LEMMA ActiveIs ==
    /\ \A t \in Turn : ActiveTurn(t) <=> RecordingQuestion(t) \/ Asking(t)
    /\ \A t \in Turn : ActiveTurn(t)' <=> RecordingQuestion(t)' \/ Asking(t)'
    /\ \A t \in Turn : ~(RecordingQuestion(t) /\ Asking(t))
BY DEF ActiveTurn, RecordingQuestion, Asking, QaActive

(* The calls of others keep what turn t holds.                              *)
LEMMA HeldAround ==
    ASSUME NEW t \in Turn, Held(t), Still(t), Around(t)
    PROVE  Held(t)'
<1>1. 0 \notin Turn BY Numbers
<1>2. RecordingQuestion(t) => ~LeaseFree BY <1>1 DEF Held, ActiveInv, LeaseFree
<1>3. (turn[t].begin = "idle" => lease # t)' BY DEF Held, ActiveInv, Still, Around
<1>4. (RecordingQuestion(t) =>
          /\ turn[t].begin \notin {"idle", "sweep"}
          /\ lease = t /\ t \notin revoked
          /\ turn[t].begin \in {"arm", "done"} =>
                runtime[t] = "live" /\ t \in installed /\ mic[t] = "ready")'
  BY <1>2 DEF Held, ActiveInv, Still, Around
<1>5. (Asking(t) =>
          turn[t].ask \notin {"idle", "sweep", "closing", "clear", "release", "done"})'
  BY DEF Held, ActiveInv, Still, Around
<1>6. (turn[t].begin = "sweep" \/ fault[t] = "sweep" \/ Closes(t) => ~ActiveTurn(t))'
  BY ActiveIs DEF Held, ActiveInv, Still, Around
<1>7. OwnedInv(t)' BY ActiveIs DEF Held, OwnedInv, Still, Around
<1> QED BY <1>3, <1>4, <1>5, <1>6, <1>7 DEF Held, ActiveInv

(* A step that leaves the dismissals alone,                                 *)
LEMMA ClosesAre ==
    ASSUME UNCHANGED close
    PROVE  \A t \in Turn : ClosesSame(t)
BY DEF ClosesSame, Closes, Releasing, Cancelling

(* and the panel and the gate as well.                                      *)
LEMMA CalmIs ==
    ASSUME UNCHANGED <<qa, lease, revoked, close>>
    PROVE  \A t \in Turn : Calm(t)
<1>1. \A t \in Turn : Steady(t) BY DEF Steady, RecordingQuestion, Asking
<1> QED BY <1>1, ClosesAre DEF Calm

(* A calm step is one of others.                                            *)
LEMMA CalmAround ==
    ASSUME NEW t \in Turn, Steady(t), ClosesSame(t), t \in revoked' <=> t \in revoked,
           lease' = lease \/ (LeaseFree /\ lease' # t)
    PROVE  Around(t)
BY ActiveIs DEF Around, Steady, ClosesSame

(* A step of turn t seen from the others.                                   *)
LEMMA OthersAround ==
    ASSUME NEW t \in Turn, UNCHANGED close, lease' = lease \/ (LeaseFree /\ lease' = t),
           \A u \in Turn \ {t} : u \in revoked' <=> u \in revoked,
           \/ qa' = qa
           \/ /\ qa.session = t \/ ~QaActive
              /\ qa'.session = t \/ ~QaActive'
    PROVE  \A u \in Turn \ {t} : Around(u)
<1>1. \A u \in Turn \ {t} : Steady(u) BY DEF Steady, RecordingQuestion, Asking, QaActive
<1> QED BY <1>1, ClosesAre, CalmAround

(* How the snapshot changes in a step of turn t.                            *)
LEMMA FailEnds ==
    ASSUME PanelTypes, NEW t \in Turn, FailIfCurrent(t)
    PROVE  ~ActiveTurn(t)' /\ (qa' = qa \/ (qa.session = t /\ ~QaActive'))
BY DEF FailIfCurrent, ActiveTurn, QaActive, PanelTypes, Snapshot

(* A panel that did not open takes its turn back.                           *)
LEMMA TakeBackEnds ==
    ASSUME ShownInv, NEW t \in Turn, NEW p, TakeBack(t, p)
    PROVE  \/ qa' = qa /\ ~(qa.session = t /\ qa.phase = p)
           \/ qa.session = t /\ qa.phase = p /\ ~QaActive'
BY DEF TakeBack, QaActive, ShownInv

(* A new turn replaces a panel at rest.                                     *)
LEMMA ClaimTakes ==
    ASSUME NEW t \in Turn, NEW p \in {"Recording", "Thinking"}, NEW from \in Snapshot,
           ClaimTurn(t, p, from)
    PROVE  ~QaActive /\ qa'.session = t /\ qa'.phase = p
BY DEF ClaimTurn, NewTurn, Snapshot

----------------------------------------------------------------------------
(* The calls that open a microphone, as the other turns see them,           *)
LEMMA BeginAround ==
    ASSUME Fields, ShownInv, NEW t \in Turn, BeginStep(t) \/ FaultStep(t) \/ BeginRecording(t)
    PROVE  \A u \in Turn \ {t} : Around(u)
<1>0. PanelTypes BY DEF Fields
<1>1. UNCHANGED close
  BY DEF BeginStep, FaultStep, BeginRecording, ShowRecording, Register, SelectionCaptured, QaOpens,
     QaInstalls, Arm, QaDiscarded, BeginFails, BeginSweeps, FaultStarts, FaultFails, FaultSweeps
<1>2. lease' = lease \/ (LeaseFree /\ lease' = t)
  BY DEF BeginStep, FaultStep, BeginRecording, ShowRecording, Register, SelectionCaptured, QaOpens,
     QaInstalls, Arm, QaDiscarded, BeginFails, BeginSweeps, FaultStarts, FaultFails, FaultSweeps,
     voiceVars, captureVars, Acquire
<1>3. revoked' = revoked \/ revoked' = Revoke(t)
  BY DEF BeginStep, FaultStep, BeginRecording, ShowRecording, Register, SelectionCaptured, QaOpens,
     QaInstalls, Arm, QaDiscarded, BeginFails, BeginSweeps, FaultStarts, FaultFails, FaultSweeps,
     voiceVars, captureVars
<1>4. \A u \in Turn \ {t} : u \in revoked' <=> u \in revoked BY <1>3 DEF Revoke
<1>5. \/ qa' = qa
      \/ /\ qa.session = t \/ ~QaActive
         /\ qa'.session = t \/ ~QaActive'
  <2>1. CASE BeginRecording(t)
    <3>1. PICK from \in {qa, DefaultSnapshot} : ClaimTurn(t, "Recording", from)
      BY <2>1 DEF BeginRecording
    <3>2. from \in Snapshot BY <1>0, DefaultTyped DEF PanelTypes
    <3> QED BY <3>1, <3>2, ClaimTakes
  <2>2. CASE ShowRecording(t)
    <3>1. qa' = qa \/ TakeBack(t, "Recording") BY <2>2 DEF ShowRecording
    <3> QED BY <3>1, TakeBackEnds
  <2>3. CASE BeginFails(t) \/ FaultFails(t)
    <3>1. FailIfCurrent(t) BY <2>3 DEF BeginFails, FaultFails
    <3> QED BY <1>0, <3>1, FailEnds
  <2>4. CASE \/ Register(t) \/ SelectionCaptured(t) \/ QaOpens(t) \/ QaInstalls(t) \/ Arm(t)
             \/ QaDiscarded(t) \/ BeginSweeps(t) \/ FaultStarts(t) \/ FaultSweeps(t)
    BY <2>4
    DEF Register, SelectionCaptured, QaOpens, QaInstalls, Arm, QaDiscarded, BeginSweeps, FaultStarts,
        FaultSweeps, panelVars
  <2> QED BY <2>1, <2>2, <2>3, <2>4 DEF BeginStep, FaultStep
<1> QED BY <1>1, <1>2, <1>4, <1>5, OthersAround

(* and the calls that answer.                                               *)
LEMMA AskAround ==
    ASSUME VoiceTypeOK, Fields, ShownInv, NEW t \in Turn, AskStep(t) \/ FinishRecording(t)
    PROVE  \A u \in Turn \ {t} : Around(u)
<1>0. PanelTypes /\ voice.session \in Session \cup {0} BY VoiceForms DEF Fields, VoiceTypeOK
<1>1. UNCHANGED close /\ lease' = lease
  BY DEF AskStep, FinishRecording, StopMicrophone, QuestionHeard, ShowQuestion, Prepare,
     ContextCaptured, CheckCurrent, PushQuestion, Answered, EditPreview, Revised, EditGenerated,
     BindTarget, CompleteRuntime, SettleAnswer, AskFails, AskSweeps, AskClears, AskReleases,
     voiceVars, captureVars
<1>2. revoked' = revoked \/ revoked' = Revoke(t) \/ revoked' = Revoke(voice.session)
  BY DEF AskStep, FinishRecording, StopMicrophone, QuestionHeard, ShowQuestion, Prepare,
     ContextCaptured, CheckCurrent, PushQuestion, Answered, EditPreview, Revised, EditGenerated,
     BindTarget, CompleteRuntime, SettleAnswer, AskFails, AskSweeps, AskClears, AskReleases,
     voiceVars, captureVars, SetPreview, Current
<1>3. \A u \in Turn \ {t} : u \in revoked' <=> u \in revoked BY <1>0, <1>2, Numbers DEF Revoke
<1>4. \/ qa' = qa
      \/ /\ qa.session = t \/ ~QaActive
         /\ qa'.session = t \/ ~QaActive'
  <2>1. CASE FinishRecording(t)
    BY <1>0, <2>1 DEF FinishRecording, RecordingQuestion, PanelTypes, Snapshot
  <2>2. CASE ShowQuestion(t)
    <3>1. qa' = qa \/ TakeBack(t, "Thinking") BY <2>2 DEF ShowQuestion
    <3> QED BY <3>1, TakeBackEnds
  <2>3. CASE AskFails(t) BY <1>0, <2>3, FailEnds DEF AskFails
  <2>4. CASE PushQuestion(t) \/ SettleAnswer(t)
    BY <1>0, <2>4 DEF PushQuestion, SettleAnswer, Asking, PanelTypes, Snapshot
  <2>5. CASE \/ StopMicrophone(t) \/ QuestionHeard(t) \/ Prepare(t) \/ ContextCaptured(t)
             \/ CheckCurrent(t) \/ Answered(t) \/ EditPreview(t) \/ Revised(t) \/ EditGenerated(t)
             \/ BindTarget(t) \/ CompleteRuntime(t) \/ AskSweeps(t) \/ AskClears(t) \/ AskReleases(t)
    BY <2>5
    DEF StopMicrophone, QuestionHeard, Prepare, ContextCaptured, CheckCurrent, Answered, EditPreview,
        Revised, EditGenerated, BindTarget, CompleteRuntime, AskSweeps, AskClears, AskReleases,
        panelVars
  <2> QED BY <2>1, <2>2, <2>3, <2>4, <2>5 DEF AskStep
<1> QED BY <1>1, <1>3, <1>4, OthersAround

----------------------------------------------------------------------------
(* The steps that open the microphone of turn t.                            *)
LEMMA BeginHeld ==
    ASSUME Fields, CaptureTypeOK, ShownInv, NEW t \in Turn, TurnShape(t), Held(t), BeginStep(t)
    PROVE  Held(t)'
<1>0. TurnTypes /\ PanelTypes /\ t \in Id BY Numbers DEF Fields
<1>a. ASSUME NEW p, BeginAt(t, p) PROVE turn'[t].begin = p /\ turn'[t].ask = turn[t].ask
  BY <1>0, <1>a, BeginAtFields
<1>1. CASE ShowRecording(t)
  <2>0. /\ turn[t].begin = "show" /\ UNCHANGED <<lease, mic, runtime, installed, fault, close>>
    BY <1>1 DEF ShowRecording, registry
  <2>1. CASE BeginAt(t, "register") /\ UNCHANGED <<qa, revoked>>
    <3>1. turn'[t].begin = "register" /\ turn'[t].ask = turn[t].ask BY <1>a, <2>1
    <3>2. Calm(t) BY <2>0, <2>1, CalmIs
    <3> QED BY <2>0, <3>1, <3>2, ActiveIs
      DEF Held, ActiveInv, OwnedInv, Calm, Steady, ClosesSame, TurnShape
  <2>2. CASE TakeBack(t, "Recording") /\ revoked' = Revoke(t) /\ BeginAt(t, "done")
    <3>1. turn'[t].begin = "done" /\ turn'[t].ask = turn[t].ask BY <1>a, <2>2
    <3>2. ~RecordingQuestion(t)' /\ (Asking(t)' => Asking(t)) /\ t \in revoked'
      BY <2>2, TakeBackEnds DEF RecordingQuestion, Asking, QaActive, Revoke
    <3>3. ClosesSame(t) BY <2>0, ClosesAre
    <3> QED BY <2>0, <3>1, <3>2, <3>3, ActiveIs
      DEF Held, ActiveInv, OwnedInv, ClosesSame, TurnShape
  <2> QED BY <1>1, <2>1, <2>2 DEF ShowRecording
<1>2. CASE Register(t)
  <2>1. /\ turn[t].begin = "register" /\ UNCHANGED <<mic, installed, fault>> /\ runtime'[t] = "live"
        /\ UNCHANGED <<qa, lease, revoked, close>>
    BY <1>0, <1>2 DEF Register, TurnTypes, voiceVars, captureVars, panelVars
  <2>2. turn'[t].begin = "captured" /\ turn'[t].ask = turn[t].ask BY <1>2, <1>a DEF Register
  <2>3. Calm(t) BY <2>1, CalmIs
  <2> QED BY <2>1, <2>2, <2>3, ActiveIs DEF Held, ActiveInv, OwnedInv, Calm, Steady, ClosesSame
<1>3. CASE SelectionCaptured(t)
  <2>0. turn[t].begin = "captured" /\ UNCHANGED <<installed, fault>>
        /\ UNCHANGED <<qa, lease, revoked, close>>
    BY <1>3 DEF SelectionCaptured, panelVars
  <2>c. Calm(t) BY <2>0, CalmIs
  <2>1. CASE RecordingQuestion(t) /\ CanHold(t)
    <3>1. UNCHANGED runtime /\ BeginAt(t, "open") BY <1>3, <2>1 DEF SelectionCaptured
    <3>2. turn'[t].begin = "open" /\ turn'[t].ask = turn[t].ask BY <3>1, <1>a
    <3> QED BY <2>0, <2>c, <2>1, <3>1, <3>2, ActiveIs
      DEF Held, ActiveInv, OwnedInv, Calm, Steady, ClosesSame
  <2>2. CASE ~(RecordingQuestion(t) /\ CanHold(t))
    <3>1. runtime'[t] # "live" /\ BeginAt(t, "fail")
      BY <1>0, <1>3, <2>2, GoneFields DEF SelectionCaptured
    <3>2. turn'[t].begin = "fail" /\ turn'[t].ask = turn[t].ask BY <3>1, <1>a
    <3> QED BY <2>0, <2>c, <3>1, <3>2, ActiveIs
      DEF Held, ActiveInv, OwnedInv, Calm, Steady, ClosesSame
  <2> QED BY <2>1, <2>2
<1>4. CASE QaOpens(t)
  <2>0. turn[t].begin = "open" /\ UNCHANGED <<installed, fault>>
        /\ UNCHANGED <<qa, lease, revoked, close>>
    BY <1>4 DEF QaOpens, panelVars
  <2>c. Calm(t) BY <2>0, CalmIs
  <2>1. CASE BeginAt(t, "install") /\ UNCHANGED runtime
    <3>1. turn'[t].begin = "install" /\ turn'[t].ask = turn[t].ask BY <2>1, <1>a
    <3> QED BY <2>0, <2>c, <2>1, <3>1, ActiveIs
      DEF Held, ActiveInv, OwnedInv, Calm, Steady, ClosesSame
  <2>2. CASE BeginAt(t, "fail") /\ runtime' = Unregistered(t, "gone")
    <3>1. turn'[t].begin = "fail" /\ turn'[t].ask = turn[t].ask /\ runtime'[t] # "live"
      BY <1>0, <2>2, <1>a, GoneFields
    <3> QED BY <2>0, <2>c, <3>1, ActiveIs
      DEF Held, ActiveInv, OwnedInv, Calm, Steady, ClosesSame
  <2> QED BY <1>4, <2>1, <2>2 DEF QaOpens
<1>5. CASE QaInstalls(t)
  <2>0. turn[t].begin = "install" /\ UNCHANGED <<runtime, fault>> /\ mic[t] = "ready"
        /\ UNCHANGED <<qa, lease, revoked, close>>
    BY <1>5 DEF QaInstalls, panelVars, TurnShape
  <2>c. Calm(t) BY <2>0, CalmIs
  <2>1. CASE runtime[t] = "live"
    <3>1. BeginAt(t, "arm") /\ UNCHANGED mic /\ t \in installed' BY <1>5, <2>1 DEF QaInstalls
    <3>2. turn'[t].begin = "arm" /\ turn'[t].ask = turn[t].ask BY <3>1, <1>a
    <3> QED BY <2>0, <2>c, <2>1, <3>1, <3>2, ActiveIs
      DEF Held, ActiveInv, OwnedInv, Calm, Steady, ClosesSame
  <2>2. CASE runtime[t] # "live"
    <3>1. BeginAt(t, "discard") BY <1>5, <2>2 DEF QaInstalls
    <3>2. turn'[t].begin = "discard" /\ turn'[t].ask = turn[t].ask BY <3>1, <1>a
    <3> QED BY <2>0, <2>c, <2>2, <3>1, <3>2, ActiveIs
      DEF Held, ActiveInv, OwnedInv, Calm, Steady, ClosesSame
  <2> QED BY <2>1, <2>2
<1>6. CASE Arm(t) \/ QaDiscarded(t)
  <2>0. turn[t].begin \in {"arm", "discard"} /\ UNCHANGED <<mic, runtime, installed, fault>>
        /\ UNCHANGED <<qa, lease, revoked, close>>
    BY <1>6 DEF Arm, QaDiscarded, panelVars, voiceVars, captureVars, registry
  <2>c. Calm(t) BY <2>0, CalmIs
  <2>1. \E p \in {"discard", "done", "fail"} :
           BeginAt(t, p) /\ (p = "done" => turn[t].begin = "arm")
    BY <1>6 DEF Arm, QaDiscarded
  <2>2. /\ turn'[t].begin \in {"discard", "done", "fail"} /\ turn'[t].ask = turn[t].ask
        /\ turn'[t].begin = "done" => turn[t].begin = "arm"
    BY <2>1, <1>a
  <2> QED BY <2>0, <2>c, <2>2, ActiveIs DEF Held, ActiveInv, OwnedInv, Calm, Steady, ClosesSame
<1>7. CASE BeginFails(t)
  <2>1. /\ turn[t].begin = "fail" /\ UNCHANGED <<mic, runtime, installed, fault>>
        /\ UNCHANGED <<lease, revoked, close>> /\ FailIfCurrent(t)
    BY <1>7 DEF BeginFails, voiceVars, captureVars, registry
  <2>2. turn'[t].begin = "sweep" /\ turn'[t].ask = turn[t].ask BY <1>7, <1>a DEF BeginFails
  <2>3. ~ActiveTurn(t)' BY <1>0, <2>1, FailEnds
  <2>4. ClosesSame(t) BY <2>1, ClosesAre
  <2> QED BY <2>1, <2>2, <2>3, <2>4, ActiveIs DEF Held, ActiveInv, OwnedInv, ClosesSame, TurnShape
<1>8. CASE BeginSweeps(t)
  <2>1. /\ turn[t].begin = "sweep" /\ UNCHANGED <<qa, lease, fault, close>> /\ RuntimeCancel(t)
        /\ t \in revoked'
    BY <1>8 DEF BeginSweeps, panelVars, Revoke
  <2>2. turn'[t].begin = "done" /\ turn'[t].ask = turn[t].ask BY <1>8, <1>a DEF BeginSweeps
  <2>3. runtime'[t] # "live" BY <1>0, <2>1, CancelFields
  <2>4. ClosesSame(t) BY <2>1, ClosesAre
  <2>5. Steady(t) BY <2>1 DEF Steady, RecordingQuestion, Asking
  <2> QED BY <2>1, <2>2, <2>3, <2>4, <2>5, ActiveIs DEF Held, ActiveInv, OwnedInv, ClosesSame, Steady
<1> QED BY <1>1, <1>2, <1>3, <1>4, <1>5, <1>6, <1>7, <1>8 DEF BeginStep

(* A fault of the recorder.                                                 *)
LEMMA FaultHeld ==
    ASSUME Fields, CaptureTypeOK, NEW t \in Turn, TurnShape(t), Held(t), FaultStep(t)
    PROVE  Held(t)'
<1>0. TurnTypes /\ PanelTypes /\ t \in Id BY Numbers DEF Fields
<1>1. CASE FaultStarts(t)
  <2>1. /\ fault'[t] = "fail" /\ UNCHANGED <<turn, mic, runtime, installed>>
        /\ fault[t] # "sweep" \/ ~ActiveTurn(t)
        /\ ActiveTurn(t) /\ UNCHANGED <<qa, lease, revoked, close>>
    BY <1>0, <1>1, ActiveIs
    DEF FaultStarts, TurnTypes, Held, ActiveInv, voiceVars, captureVars, panelVars, registry
  <2>2. Calm(t) BY <2>1, CalmIs
  <2> QED BY <2>1, <2>2, ActiveIs DEF Held, ActiveInv, OwnedInv, Calm, Steady, ClosesSame
<1>2. CASE FaultFails(t)
  <2>1. /\ fault'[t] = "sweep" /\ UNCHANGED <<turn, mic, runtime, installed, lease, close>>
        /\ FailIfCurrent(t) /\ t \in revoked'
    BY <1>0, <1>2 DEF FaultFails, TurnTypes, registry, Revoke
  <2>2. ~ActiveTurn(t)' BY <1>0, <2>1, FailEnds
  <2>3. ClosesSame(t) BY <2>1, ClosesAre
  <2> QED BY <2>1, <2>2, <2>3, ActiveIs DEF Held, ActiveInv, OwnedInv, ClosesSame
<1>3. CASE FaultSweeps(t)
  <2>1. /\ fault'[t] = "no" /\ fault[t] = "sweep" /\ RuntimeCancel(t) /\ UNCHANGED turn
        /\ UNCHANGED <<qa, lease, revoked, close>>
    BY <1>0, <1>3 DEF FaultSweeps, TurnTypes, panelVars
  <2>2. runtime'[t] # "live" BY <1>0, <2>1, CancelFields
  <2>3. Calm(t) BY <2>1, CalmIs
  <2> QED BY <2>1, <2>2, <2>3, ActiveIs DEF Held, ActiveInv, OwnedInv, Calm, Steady, ClosesSame
<1> QED BY <1>1, <1>2, <1>3 DEF FaultStep

(* A turn that begins is nobody's yet.                                      *)
LEMMA FreshHeld ==
    ASSUME Fields, ShownInv, TakenInv, NEW t \in Turn, t = lastTurn + 1, TurnShape(t), Held(t),
           UNCHANGED <<runtime, fault, close>>, qa'.session = t,
           \/ /\ turn'[t].begin = "show" /\ lease' = t /\ qa'.phase = "Recording"
              /\ UNCHANGED revoked
           \/ /\ turn'[t].begin = turn[t].begin /\ turn'[t].ask = "show" /\ qa'.phase = "Thinking"
              /\ UNCHANGED <<lease, revoked>>
    PROVE  Held(t)'
<1>1. ~Begun(t) BY FreshTurn
<1>2. turn[t].begin = "idle" /\ turn[t].ask = "idle" /\ runtime[t] = "none" BY <1>1 DEF Begun
<1>3. fault[t] = "no" BY <1>2 DEF TurnShape
<1>4. lease # t BY <1>2 DEF Held, ActiveInv
<1>5. t \notin revoked /\ ~Closes(t) BY PanelNumbers DEF TakenInv
<1>6. ClosesSame(t) BY ClosesAre
<1>7. CASE turn'[t].begin = "show" /\ lease' = t /\ qa'.phase = "Recording" /\ UNCHANGED revoked
  <2>1. RecordingQuestion(t)' /\ ~Asking(t)' BY <1>7 DEF RecordingQuestion, Asking
  <2> QED BY <1>2, <1>3, <1>5, <1>6, <1>7, <2>1, ActiveIs DEF Held, ActiveInv, OwnedInv, ClosesSame
<1>8. CASE /\ turn'[t].begin = turn[t].begin /\ turn'[t].ask = "show" /\ qa'.phase = "Thinking"
           /\ UNCHANGED <<lease, revoked>>
  <2>1. Asking(t)' /\ ~RecordingQuestion(t)' BY <1>8 DEF RecordingQuestion, Asking
  <2> QED BY <1>2, <1>3, <1>4, <1>5, <1>6, <1>8, <2>1, ActiveIs DEF Held, ActiveInv, OwnedInv, ClosesSame
<1> QED BY <1>7, <1>8

(* The second press.                                                        *)
LEMMA FinishHeld ==
    ASSUME Fields, ShownInv, NEW t \in Turn, Held(t), FinishRecording(t)
    PROVE  Held(t)'
<1>1. /\ qa'.session = t /\ qa'.phase = "Thinking" /\ RecordingQuestion(t)
      /\ AskAt(t, "finish") /\ UNCHANGED <<lease, revoked, mic, runtime, installed, fault, close>>
  BY DEF FinishRecording, RecordingQuestion, Fields, PanelTypes, Snapshot, voiceVars, captureVars,
     registry
<1>2. turn'[t].ask = "finish" /\ turn'[t].begin = turn[t].begin
  BY <1>1, AskAtFields DEF Fields
<1>3. Asking(t)' /\ ~RecordingQuestion(t)' BY <1>1 DEF RecordingQuestion, Asking
<1>4. ClosesSame(t) BY <1>1, ClosesAre
<1> QED BY <1>1, <1>2, <1>3, <1>4, ActiveIs DEF Held, ActiveInv, OwnedInv, ClosesSame

----------------------------------------------------------------------------
(* The steps that answer turn t.                                            *)
LEMMA AskHeld ==
    ASSUME VoiceTypeOK, Fields, ShownInv, NEW t \in Turn, TurnShape(t), Held(t), AskStep(t)
    PROVE  Held(t)'
<1>0. /\ TurnTypes /\ PanelTypes /\ CaptureTypeOK /\ t \in Id
      /\ voice.session \in Session \cup {0}
  BY Numbers, VoiceForms DEF Fields, VoiceTypeOK
<1>a. ASSUME NEW p, AskAt(t, p) PROVE turn'[t].ask = p /\ turn'[t].begin = turn[t].begin
  BY <1>0, <1>a, AskAtFields
<1>r. turn[t].ask # "idle"
  BY DEF AskStep, StopMicrophone, QuestionHeard, ShowQuestion, Prepare, ContextCaptured, CheckCurrent,
     PushQuestion, Answered, EditPreview, Revised, EditGenerated, BindTarget, CompleteRuntime,
     SettleAnswer, AskFails, AskSweeps, AskClears, AskReleases, Cleaned
<1>q. ~RecordingQuestion(t) BY <1>r DEF ShownInv
<1>s. ASSUME NEW p, turn[t].ask \notin {"context", "check", "fail", "sweep"},
             p \notin {"idle", "sweep", "closing", "clear", "release", "done"},
             Calm(t), UNCHANGED <<runtime, fault>>, turn'[t].ask = p, turn'[t].begin = turn[t].begin
      PROVE  Held(t)'
  BY <1>q, <1>s, ActiveIs DEF Held, ActiveInv, OwnedInv, Calm, Steady, ClosesSame
<1>1. CASE StopMicrophone(t) \/ QuestionHeard(t)
  <2>1. /\ \E p \in {"await", "fail", "check"} : AskAt(t, p)
        /\ turn[t].ask \in {"finish", "await"}
        /\ UNCHANGED <<runtime, fault>> /\ UNCHANGED <<qa, lease, revoked, close>>
    BY <1>1 DEF StopMicrophone, QuestionHeard, registry, panelVars
  <2>2. turn'[t].ask \in {"await", "fail", "check"} /\ turn'[t].begin = turn[t].begin BY <2>1, <1>a
  <2>3. Calm(t) BY <2>1, CalmIs
  <2> QED BY <1>s, <2>1, <2>2, <2>3
<1>2. CASE ShowQuestion(t)
  <2>0. /\ turn[t].ask = "show" /\ UNCHANGED <<lease, revoked, mic, runtime, installed, fault, close>>
        /\ turn[t].begin = "idle" /\ runtime[t] = "none"
    BY <1>2 DEF ShowQuestion, voiceVars, captureVars, registry, TurnShape
  <2>1. CASE AskAt(t, "prepare") /\ UNCHANGED qa
    <3>1. turn'[t].ask = "prepare" /\ turn'[t].begin = turn[t].begin BY <1>a, <2>1
    <3>2. Calm(t) BY <2>0, <2>1, CalmIs
    <3> QED BY <1>s, <2>0, <3>1, <3>2
  <2>2. CASE TakeBack(t, "Thinking") /\ AskAt(t, "done")
    <3>1. turn'[t].ask = "done" /\ turn'[t].begin = turn[t].begin BY <1>a, <2>2
    <3>2. ~Asking(t)' /\ ~RecordingQuestion(t)'
      BY <1>q, <2>2, TakeBackEnds DEF RecordingQuestion, Asking, QaActive
    <3>3. ClosesSame(t) BY <2>0, ClosesAre
    <3> QED BY <2>0, <3>1, <3>2, <3>3, ActiveIs DEF Held, ActiveInv, OwnedInv, ClosesSame
  <2> QED BY <1>2, <2>1, <2>2 DEF ShowQuestion
<1>3. CASE Prepare(t)
  <2>1. /\ AskAt(t, "context") /\ turn[t].ask = "prepare" /\ UNCHANGED fault
        /\ UNCHANGED <<qa, lease, revoked, close>>
    BY <1>3 DEF Prepare, panelVars, voiceVars, captureVars
  <2>2. turn'[t].ask = "context" /\ turn'[t].begin = turn[t].begin BY <2>1, <1>a
  <2>3. Calm(t) BY <2>1, CalmIs
  <2> QED BY <1>q, <2>1, <2>2, <2>3, ActiveIs
    DEF Held, ActiveInv, OwnedInv, Calm, Steady, ClosesSame
<1>4. CASE ContextCaptured(t)
  <2>1. /\ turn[t].ask = "context" /\ UNCHANGED fault
        /\ \/ AskAt(t, "check")
           \/ AskAt(t, "fail") /\ RuntimeCancel(t)
        /\ UNCHANGED <<qa, lease, revoked, close>>
    BY <1>4 DEF ContextCaptured, panelVars
  <2>2. turn'[t].ask \in {"check", "fail"} /\ turn'[t].begin = turn[t].begin BY <2>1, <1>a
  <2>3. Calm(t) BY <2>1, CalmIs
  <2> QED BY <1>q, <2>1, <2>2, <2>3, ActiveIs
    DEF Held, ActiveInv, OwnedInv, Calm, Steady, ClosesSame
<1>5. CASE CheckCurrent(t)
  <2>1. /\ turn[t].ask = "check" /\ UNCHANGED <<runtime, fault>>
        /\ AskAt(t, IF Asking(t) THEN "push" ELSE "sweep")
        /\ UNCHANGED <<qa, lease, revoked, close>>
    BY <1>5 DEF CheckCurrent, panelVars, voiceVars, captureVars, registry
  <2>2. /\ turn'[t].ask = IF Asking(t) THEN "push" ELSE "sweep"
        /\ turn'[t].begin = turn[t].begin
    BY <2>1, <1>a
  <2>3. Calm(t) BY <2>1, CalmIs
  <2> QED BY <1>q, <2>1, <2>2, <2>3, ActiveIs
    DEF Held, ActiveInv, OwnedInv, Calm, Steady, ClosesSame
<1>6. CASE PushQuestion(t)
  <2>0. turn[t].ask = "push" /\ UNCHANGED <<lease, revoked, mic, runtime, fault, close>>
    BY <1>6 DEF PushQuestion, voiceVars, captureVars, registry
  <2>1. CASE Asking(t)
    <3>1. turn'[t].ask \in {"edit", "answer"} /\ turn'[t].begin = turn[t].begin
      BY <1>0, <1>6, <2>1 DEF PushQuestion, TurnTypes, TurnType
    <3>2. qa'.session = qa.session /\ qa'.phase = qa.phase
      BY <1>0, <1>6, <2>1 DEF PushQuestion, PanelTypes, Snapshot
    <3>3. Steady(t) BY <3>2 DEF Steady, RecordingQuestion, Asking
    <3>4. Calm(t) BY <2>0, <3>3, ClosesAre DEF Calm
    <3> QED BY <1>s, <2>0, <3>1, <3>4
  <2>2. CASE ~Asking(t)
    <3>1. AskAt(t, "release") /\ UNCHANGED qa BY <1>6, <2>2 DEF PushQuestion
    <3>2. turn'[t].ask = "release" /\ turn'[t].begin = turn[t].begin BY <3>1, <1>a
    <3>3. Calm(t) BY <2>0, <3>1, CalmIs
    <3> QED BY <1>q, <2>0, <2>2, <3>2, <3>3, ActiveIs
      DEF Held, ActiveInv, OwnedInv, Calm, Steady, ClosesSame
  <2> QED BY <2>1, <2>2
<1>7. CASE Answered(t) \/ BindTarget(t)
  <2>1. /\ \E p \in {"complete", "fail"} : AskAt(t, p)
        /\ turn[t].ask \in {"answer", "bind"}
        /\ UNCHANGED <<runtime, fault>> /\ UNCHANGED <<qa, lease, revoked, close>>
    BY <1>7 DEF Answered, BindTarget, registry, panelVars, voiceVars, captureVars
  <2>2. turn'[t].ask \in {"complete", "fail"} /\ turn'[t].begin = turn[t].begin BY <2>1, <1>a
  <2>3. Calm(t) BY <2>1, CalmIs
  <2> QED BY <1>s, <2>1, <2>2, <2>3
<1>8. CASE EditPreview(t) \/ Revised(t)
  <2>1. /\ \/ AskAt(t, "fail")
           \/ \E p \in {"revise", "generate", "bind"} :
                 \E s \in {voice.session, NextSession}, b \in BOOLEAN : EditsWith(t, p, s, b)
        /\ turn[t].ask \in {"edit", "revise"}
        /\ UNCHANGED <<runtime, fault>> /\ UNCHANGED <<qa, lease, revoked, close>>
    BY <1>8 DEF EditPreview, Revised, registry, panelVars, voiceVars, captureVars
  <2>2. turn'[t].ask \in {"revise", "generate", "bind", "fail"} /\ turn'[t].begin = turn[t].begin
    BY <1>0, <2>1, <1>a, EditFields
  <2>3. Calm(t) BY <2>1, CalmIs
  <2> QED BY <1>s, <2>1, <2>2, <2>3
<1>9. CASE EditGenerated(t)
  <2>1. /\ AskAt(t, "bind") \/ AskAt(t, "fail")
        /\ turn[t].ask = "generate" /\ UNCHANGED <<runtime, fault, qa, lease, close>>
        /\ revoked' = revoked \/ revoked' = Revoke(voice.session)
    BY <1>9 DEF EditGenerated, registry, panelVars, SetPreview, Current
  <2>2. turn'[t].ask \in {"bind", "fail"} /\ turn'[t].begin = turn[t].begin BY <2>1, <1>a
  <2>3. t \in revoked' <=> t \in revoked BY <1>0, <2>1, Numbers DEF Revoke
  <2>4. Steady(t) BY <2>1 DEF Steady, RecordingQuestion, Asking
  <2>5. Calm(t) BY <2>1, <2>3, <2>4, ClosesAre DEF Calm
  <2> QED BY <1>s, <2>1, <2>2, <2>5
<1>10. CASE CompleteRuntime(t)
  <2>1. /\ AskAt(t, "settle") /\ turn[t].ask = "complete" /\ UNCHANGED fault
        /\ runtime' = Unregistered(t, "gone")
        /\ UNCHANGED <<qa, lease, revoked, close>>
    BY <1>10 DEF CompleteRuntime, panelVars, voiceVars, captureVars
  <2>2. turn'[t].ask = "settle" /\ turn'[t].begin = turn[t].begin BY <2>1, <1>a
  <2>3. runtime'[t] # "live" BY <1>0, <2>1, GoneFields
  <2>4. Calm(t) BY <2>1, CalmIs
  <2> QED BY <1>q, <2>1, <2>2, <2>3, <2>4, ActiveIs
    DEF Held, ActiveInv, OwnedInv, Calm, Steady, ClosesSame
<1>11. CASE SettleAnswer(t)
  <2>1. /\ turn[t].ask = "settle" /\ runtime[t] # "live"
        /\ UNCHANGED <<lease, revoked, runtime, fault, close>>
    BY <1>11 DEF SettleAnswer, voiceVars, captureVars, registry, TurnShape
  <2>2. turn'[t].ask = "release" /\ turn'[t].begin = turn[t].begin
    BY <1>0, <1>11 DEF SettleAnswer, AskAt, TurnTypes, TurnType
  <2>3. ~RecordingQuestion(t)' /\ ~Asking(t)'
    BY <1>0, <1>q, <1>11
    DEF SettleAnswer, RecordingQuestion, Asking, PanelTypes, Snapshot
  <2>4. ClosesSame(t) BY <2>1, ClosesAre
  <2> QED BY <2>1, <2>2, <2>3, <2>4, ActiveIs DEF Held, ActiveInv, OwnedInv, ClosesSame
<1>12. CASE AskFails(t)
  <2>1. /\ turn[t].ask = "fail" /\ FailIfCurrent(t) /\ AskAt(t, "sweep")
        /\ UNCHANGED <<lease, revoked, runtime, fault, close>>
    BY <1>12 DEF AskFails, voiceVars, captureVars, registry
  <2>2. turn'[t].ask = "sweep" /\ turn'[t].begin = turn[t].begin BY <2>1, <1>a
  <2>3. ~ActiveTurn(t)' BY <1>0, <2>1, FailEnds
  <2>4. ClosesSame(t) BY <2>1, ClosesAre
  <2> QED BY <2>1, <2>2, <2>3, <2>4, ActiveIs DEF Held, ActiveInv, OwnedInv, ClosesSame
<1>13. CASE AskSweeps(t)
  <2>1. /\ turn[t].ask = "sweep" /\ RuntimeCancel(t) /\ AskAt(t, AfterCancel(t))
        /\ UNCHANGED fault /\ UNCHANGED <<qa, lease, revoked, close>>
    BY <1>13 DEF AskSweeps, panelVars
  <2>2. turn'[t].ask \in {"closing", "clear"} /\ turn'[t].begin = turn[t].begin
    BY <2>1, <1>a DEF AfterCancel
  <2>3. runtime'[t] # "live" BY <1>0, <2>1, CancelFields
  <2>4. Calm(t) BY <2>1, CalmIs
  <2> QED BY <1>q, <2>1, <2>2, <2>3, <2>4, ActiveIs
    DEF Held, ActiveInv, OwnedInv, Calm, Steady, ClosesSame
<1>14. CASE AskClears(t)
  <2>1. /\ turn[t].ask \in {"closing", "clear"} /\ AskAt(t, "release")
        /\ UNCHANGED <<runtime, fault>> /\ UNCHANGED <<qa, lease, revoked, close>>
    BY <1>14 DEF AskClears, Cleaned, panelVars, captureVars, registry
  <2>2. turn'[t].ask = "release" /\ turn'[t].begin = turn[t].begin BY <2>1, <1>a
  <2>3. Calm(t) BY <2>1, CalmIs
  <2> QED BY <1>q, <2>1, <2>2, <2>3, ActiveIs
    DEF Held, ActiveInv, OwnedInv, Calm, Steady, ClosesSame
<1>15. CASE AskReleases(t)
  <2>1. /\ turn[t].ask = "release" /\ UNCHANGED <<qa, lease, runtime, fault, close>>
        /\ revoked \subseteq revoked' /\ (turn[t].begin # "idle" => t \in revoked')
    BY <1>15 DEF AskReleases, panelVars, registry, Spoken, Revoke
  <2>2. turn'[t].ask = "done" /\ turn'[t].begin = turn[t].begin BY <1>0, <1>15, ReleaseFields
  <2>3. Steady(t) /\ ClosesSame(t) BY <2>1, ClosesAre DEF Steady, RecordingQuestion, Asking
  <2> QED BY <1>q, <2>1, <2>2, <2>3, ActiveIs DEF Held, ActiveInv, OwnedInv, Steady, ClosesSame
<1> QED
  BY <1>1, <1>2, <1>3, <1>4, <1>5, <1>6, <1>7, <1>8, <1>9, <1>10, <1>11, <1>12, <1>13, <1>14, <1>15
  DEF AskStep

----------------------------------------------------------------------------
(* The dismissals as the turns see them: the claim,                         *)
LEMMA ClaimAround ==
    ASSUME Fields, NEW c \in Close, NEW b, NEW r \in {0, qa.session}, ClaimClose(c, b, r),
           close[c].pc \in {"idle", "claim"}, UNCHANGED <<lease, revoked>>, NEW t \in Turn
    PROVE  Around(t)
<1>0. t # 0 /\ PanelTypes /\ TurnTypes BY Numbers DEF Fields
<1>1. /\ \A d \in Close \ {c} : close'[d] = close[d]
      /\ close'[c].pc = "present"
      /\ close'[c].runtime = IF QaActive THEN qa.session ELSE 0
      /\ close'[c].release = IF r # 0 THEN r ELSE IF QaActive THEN qa.session ELSE 0
      /\ ~QaActive'
  BY <1>0 DEF ClaimClose, TurnTypes, PanelTypes, Snapshot, QaActive
<1>2. ~ActiveTurn(t)' BY <1>1 DEF ActiveTurn
<1>3. ActiveTurn(t) => Releasing(t)' /\ Cancelling(t)'
  BY <1>0, <1>1 DEF ActiveTurn, Releasing, Cancelling
<1>4. (Releasing(t) => Releasing(t)') /\ (Cancelling(t) => Cancelling(t)')
  BY <1>1 DEF Releasing, Cancelling
<1> QED BY <1>2, <1>3, <1>4, ActiveIs DEF Around

(* the release of the lease,                                                *)
LEMMA HidesAround ==
    ASSUME Fields, ShownInv, NEW c \in Close, CloseHides(c), NEW t \in Turn
    PROVE  Around(t)
<1>0. t # 0 /\ TurnTypes BY Numbers DEF Fields
<1>1. /\ \A d \in Close \ {c} : close'[d] = close[d]
      /\ close[c].pc = "present" /\ close'[c].pc = "cancel"
      /\ close'[c].runtime = close[c].runtime /\ close'[c].release = close[c].release
  BY <1>0 DEF CloseHides, TurnTypes, CloseType
<1>2. ~QaActive BY <1>1 DEF ShownInv
<1>3. ~QaActive' BY <1>2 DEF CloseHides, QaActive, DefaultSnapshot
<1>4. ~ActiveTurn(t) /\ ~ActiveTurn(t)' BY <1>2, <1>3 DEF ActiveTurn
<1>5. Releasing(t) => Releasing(t)' \/ t \in revoked'
  BY <1>0, <1>1 DEF CloseHides, Releasing, Revoke
<1>6. Cancelling(t) => Cancelling(t)' BY <1>1 DEF Cancelling
<1>7. UNCHANGED lease /\ revoked \subseteq revoked' BY DEF CloseHides, Revoke
<1> QED BY <1>4, <1>5, <1>6, <1>7, ActiveIs DEF Around

(* the runtime session,                                                     *)
LEMMA CancelHeld ==
    ASSUME VoiceTypeOK, Fields, NEW c \in Close, CloseCancelsRuntime(c), \A t \in Turn : Held(t)
    PROVE  \A t \in Turn : Held(t)'
<1>0. 0 \notin Turn /\ TurnTypes /\ CaptureTypeOK BY Numbers DEF Fields, VoiceTypeOK
<1>1. /\ \A d \in Close \ {c} : close'[d] = close[d]
      /\ close[c].pc = "cancel" /\ close'[c].pc \in {"clear", "closing"}
      /\ close'[c].runtime = close[c].runtime /\ close'[c].release = close[c].release
  BY <1>0 DEF CloseCancelsRuntime, TurnTypes, CloseType, AfterCancel
<1>2. \A t \in Turn : /\ Closes(t)' <=> Closes(t)
                      /\ Releasing(t)' <=> Releasing(t)
                      /\ t # close[c].runtime => (Cancelling(t)' <=> Cancelling(t))
  BY <1>1 DEF Closes, Releasing, Cancelling
<1>3. UNCHANGED <<qa, lease, revoked, turn, fault>> BY DEF CloseCancelsRuntime, panelVars
<1>4. \A t \in Turn : Steady(t) BY <1>3 DEF Steady, RecordingQuestion, Asking
<1>5. \A t \in Turn \ {close[c].runtime} : Around(t)
  BY <1>2, <1>3, <1>4, CalmAround DEF ClosesSame
<1>6. CASE close[c].runtime = 0
  <2>1. UNCHANGED <<runtime, installed, mic>> BY <1>6 DEF CloseCancelsRuntime, registry
  <2>2. \A t \in Turn : Still(t) BY <1>3, <2>1 DEF Still
  <2> QED BY <1>0, <1>5, <1>6, <2>2, HeldAround
<1>7. CASE close[c].runtime # 0
  <2>1. PICK u \in Turn : u = close[c].runtime BY <1>0, <1>7 DEF TurnTypes, CloseType
  <2>2. RuntimeCancel(u) BY <1>7, <2>1 DEF CloseCancelsRuntime
  <2>3. \A t \in Turn \ {u} : Still(t) BY <1>0, <1>3, <2>2, CancelSame DEF Same, Still
  <2>4. \A t \in Turn \ {u} : Held(t)' BY <1>5, <2>1, <2>3, HeldAround
  <2>5. runtime'[u] # "live" BY <1>0, <2>2, CancelFields
  <2>6. Closes(u) BY <2>1 DEF Closes
  <2>7. Held(u)'
    BY <1>2, <1>3, <1>4, <2>5, <2>6, ActiveIs DEF Held, ActiveInv, OwnedInv, Steady
  <2> QED BY <2>4, <2>7
<1> QED BY <1>6, <1>7

(* and the end.                                                             *)
LEMMA ClearsAround ==
    ASSUME Fields, NEW c \in Close, CloseClearsPreview(c), NEW t \in Turn
    PROVE  Around(t)
<1>0. t # 0 /\ TurnTypes BY Numbers DEF Fields
<1>1. /\ \A d \in Close \ {c} : close'[d] = close[d]
      /\ close[c].pc \in {"clear", "closing"}
      /\ close'[c].runtime = 0 /\ close'[c].release = 0
  BY <1>0 DEF CloseClearsPreview, TurnTypes, CloseType, NoClose, Cleaned
<1>2. /\ Closes(t)' => Closes(t)
      /\ Releasing(t) => Releasing(t)'
      /\ Cancelling(t) => Cancelling(t)'
  BY <1>0, <1>1 DEF Closes, Releasing, Cancelling
<1>3. UNCHANGED <<qa, lease, revoked>> BY DEF CloseClearsPreview, panelVars, captureVars
<1>4. Steady(t) BY <1>3 DEF Steady, RecordingQuestion, Asking
<1> QED BY <1>2, <1>3, <1>4, ActiveIs DEF Around, Steady

(* The report of an applied edit, as the turns see it.                      *)
LEMMA AppliedAround ==
    ASSUME Fields, OfferInv, NEW u \in Turn, EditApplied(u), NEW t \in Turn
    PROVE  Around(t)
<1>0. TurnTypes BY DEF Fields
<1>1. close[u].pc = "idle" BY DEF EditApplied, OfferInv
<1>2. UNCHANGED <<qa, lease, revoked>> BY DEF EditApplied, panelVars, captureVars
<1>3. CASE UNCHANGED close
  <2>1. Calm(t) BY <1>2, <1>3, CalmIs
  <2> QED BY <1>2, <2>1, CalmAround DEF Calm
<1>4. CASE close' = [close EXCEPT ![u].pc = "claim"]
  <2>1. /\ \A d \in Close \ {u} : close'[d] = close[d]
        /\ close'[u].pc = "claim" /\ close'[u].runtime = close[u].runtime
        /\ close'[u].release = close[u].release
    BY <1>0, <1>4, CloseNumbers DEF TurnTypes, CloseType
  <2>2. ClosesSame(t) BY <1>1, <2>1 DEF ClosesSame, Closes, Releasing, Cancelling
  <2>3. Steady(t) BY <1>2 DEF Steady, RecordingQuestion, Asking
  <2> QED BY <1>2, <2>2, <2>3, CalmAround
<1> QED BY <1>3, <1>4 DEF EditApplied

----------------------------------------------------------------------------
(* A question changes the record of its turn alone.                         *)
LEMMA SubmitFields ==
    ASSUME TurnTypes, NEW t \in Turn, NEW s, NEW b, SubmitText(t, s, b)
    PROVE  /\ turn'[t].begin = turn[t].begin /\ turn'[t].ask = "show"
           /\ \A u \in Turn \ {t} : turn'[u] = turn[u]
BY DEF SubmitText, TurnTypes, TurnType

(* The calls of a turn keep what every turn holds.                          *)
LEMMA HeldTurns ==
    ASSUME VoiceTypeOK, Fields, ShownInv, Shaped, TakenInv, \A t \in Turn : Held(t), NEW t \in Turn,
           \/ BeginRecording(t) \/ BeginStep(t) \/ FaultStep(t) \/ FinishRecording(t) \/ AskStep(t)
           \/ \E s \in Session \cup {0}, b \in BOOLEAN :
                 SubmitText(t, s, b) /\ UNCHANGED <<captureVars, registry, fault, close>>
    PROVE  \A u \in Turn : Held(u)'
<1>0. /\ TurnTypes /\ PanelTypes /\ CaptureTypeOK /\ TurnShape(t) /\ Held(t)
  BY DEF Fields, VoiceTypeOK, Shaped
<1>1. ASSUME \A u \in Turn \ {t} : Same(u) /\ Around(u), Held(t)' PROVE \A u \in Turn : Held(u)'
  BY <1>1, HeldAround DEF Same, Still
<1>2. CASE BeginStep(t) BY <1>0, <1>1, <1>2, BeginShape, BeginAround, BeginHeld
<1>3. CASE FaultStep(t) BY <1>0, <1>1, <1>3, FaultShape, BeginAround, FaultHeld
<1>4. CASE AskStep(t) BY <1>0, <1>1, <1>4, AskShape, AskAround, AskHeld
<1>5. CASE FinishRecording(t)
  <2>1. turn'[t].ask = "finish" /\ turn'[t].begin = turn[t].begin
        /\ \A u \in Turn \ {t} : turn'[u] = turn[u]
    BY <1>0, <1>5, AskAtFields DEF FinishRecording
  <2>2. UNCHANGED <<mic, runtime, installed, fault>>
    BY <1>5 DEF FinishRecording, registry, voiceVars, captureVars
  <2>3. \A u \in Turn \ {t} : Same(u) BY <2>1, <2>2 DEF Same
  <2> QED BY <1>0, <1>1, <1>5, <2>3, AskAround, FinishHeld
<1>6. CASE BeginRecording(t)
  <2>1. turn'[t].begin = "show" /\ \A u \in Turn \ {t} : turn'[u] = turn[u]
    BY <1>0, <1>6, BeginAtFields DEF BeginRecording
  <2>2. PICK from \in {qa, DefaultSnapshot} : ClaimTurn(t, "Recording", from)
    BY <1>6 DEF BeginRecording
  <2>3. from \in Snapshot BY <1>0, DefaultTyped DEF PanelTypes
  <2>4. qa'.session = t /\ qa'.phase = "Recording" /\ t = lastTurn + 1
    BY <2>2, <2>3, ClaimTakes DEF ClaimTurn
  <2>5. UNCHANGED <<revoked, mic, runtime, installed, fault, close>> /\ lease' = t
    BY <1>6 DEF BeginRecording, registry, Acquire
  <2>6. Held(t)' BY <1>0, <2>1, <2>4, <2>5, FreshHeld
  <2>7. \A u \in Turn \ {t} : Same(u) BY <2>1, <2>5 DEF Same
  <2> QED BY <1>1, <1>6, <2>6, <2>7, BeginAround
<1>7. ASSUME NEW s \in Session \cup {0}, NEW b \in BOOLEAN, SubmitText(t, s, b),
             UNCHANGED <<captureVars, registry, fault, close>>
      PROVE  \A u \in Turn : Held(u)'
  <2>1. turn'[t].begin = turn[t].begin /\ turn'[t].ask = "show"
        /\ \A u \in Turn \ {t} : turn'[u] = turn[u]
    BY <1>0, <1>7, SubmitFields
  <2>2. qa'.session = t /\ qa'.phase = "Thinking" /\ t = lastTurn + 1 /\ ~QaActive
    BY <1>0, <1>7, ClaimTakes DEF SubmitText, ClaimTurn, PanelTypes
  <2>3. UNCHANGED <<lease, revoked, mic, runtime, installed, fault, close>>
    BY <1>7 DEF captureVars, registry
  <2>4. Held(t)' BY <1>0, <2>1, <2>2, <2>3, FreshHeld
  <2>5. \A u \in Turn \ {t} : Same(u) BY <2>1, <2>3 DEF Same
  <2>6. \A u \in Turn \ {t} : Around(u) BY <2>2, <2>3, OthersAround
  <2> QED BY <1>1, <2>4, <2>5, <2>6
<1> QED BY <1>2, <1>3, <1>4, <1>5, <1>6, <1>7

(* So does every step.                                                      *)
LEMMA HeldStep ==
    ASSUME VoiceTypeOK, Fields, Named, ShownInv, OfferInv, Shaped, TakenInv, \A t \in Turn : Held(t),
           [QaNext]_allVars
    PROVE  \A t \in Turn : Held(t)'
<1>0. TurnTypes /\ PanelTypes /\ CaptureTypeOK BY DEF Fields, VoiceTypeOK
<1> DEFINE Goal == \A t \in Turn : Held(t)'
<1>1. ASSUME \A t \in Turn : Around(t), UNCHANGED <<turn, runtime, installed, fault, mic>> PROVE Goal
  BY <1>1, HeldAround DEF Still
<1>2. ASSUME UNCHANGED <<lease, turn, runtime, installed, fault, mic, close>>,
             \A t \in Turn : t \in revoked' <=> t \in revoked,
             qa'.session = qa.session /\ qa'.phase = qa.phase
      PROVE  Goal
  <2>1. \A t \in Turn : Steady(t) BY <1>2 DEF Steady, RecordingQuestion, Asking
  <2>2. \A t \in Turn : Around(t) BY <1>2, <2>1, ClosesAre, CalmAround
  <2> QED BY <1>1, <1>2, <2>2
<1> HIDE DEF Goal
<1>3. ASSUME NEW t \in Turn,
             \/ BeginRecording(t) \/ BeginStep(t) \/ FaultStep(t) \/ FinishRecording(t) \/ AskStep(t)
      PROVE  Goal
  BY <1>3, HeldTurns DEF Goal
<1>4. ASSUME NEW t \in Turn, TypeQuestion(t) PROVE Goal
  BY <1>4, HeldTurns DEF Goal, TypeQuestion, voiceVars
<1>5. ASSUME NEW t \in Turn, ConfirmEdit(t) PROVE Goal
  BY <1>2, <1>5 DEF ConfirmEdit, captureVars, qaVars, panelVars, registry
<1>6. ASSUME NEW t \in Turn, EditApplied(t) PROVE Goal
  <2>1. UNCHANGED <<turn, runtime, installed, fault, mic>>
    BY <1>6 DEF EditApplied, captureVars, registry
  <2> QED BY <1>1, <1>6, <2>1, AppliedAround
<1>7. ASSUME NEW c \in Close, NEW b, NEW r \in {0, qa.session}, ClaimClose(c, b, r),
             close[c].pc \in {"idle", "claim"},
             UNCHANGED <<lease, revoked, turn, runtime, installed, fault, mic>>
      PROVE  Goal
  BY <1>1, <1>7, ClaimAround
<1>8. ASSUME NEW t \in Turn, AppliedEditCloses(t) PROVE Goal
  <2>1. UNCHANGED <<lease, revoked, turn, runtime, installed, fault, mic>> /\ close[t].pc = "claim"
    BY <1>8 DEF AppliedEditCloses, voiceVars, captureVars, registry
  <2>2. CASE qa.session = t /\ ClaimClose(t, TRUE, t) BY <1>7, <2>1, <2>2, CloseNumbers
  <2>3. CASE close' = [close EXCEPT ![t].pc = "done"] /\ UNCHANGED qa
    <3>1. /\ \A d \in Close \ {t} : close'[d] = close[d]
          /\ close'[t].pc = "done" /\ close'[t].runtime = close[t].runtime
          /\ close'[t].release = close[t].release
      BY <1>0, <2>3, CloseNumbers DEF TurnTypes, CloseType
    <3>2. \A u \in Turn : ClosesSame(u)
      BY <2>1, <3>1 DEF ClosesSame, Closes, Releasing, Cancelling
    <3>3. \A u \in Turn : Steady(u) BY <2>3 DEF Steady, RecordingQuestion, Asking
    <3>4. \A u \in Turn : Around(u) BY <2>1, <3>2, <3>3, CalmAround
    <3> QED BY <1>1, <2>1, <3>4
  <2> QED BY <1>8, <2>2, <2>3 DEF AppliedEditCloses
<1>9. ASSUME NEW c \in UserClose, UserCloses(c) PROVE Goal
  <2>1. UNCHANGED <<lease, revoked, turn, runtime, installed, fault, mic>> /\ close[c].pc = "idle"
    BY <1>9 DEF UserCloses, voiceVars, captureVars, registry
  <2>2. \E b \in BOOLEAN, r \in {0, qa.session} : ClaimClose(c, b, r) BY <1>9 DEF UserCloses
  <2> QED BY <1>7, <2>1, <2>2, CloseNumbers
<1>10. ASSUME NEW c \in Close, CloseStep(c) PROVE Goal
  <2>1. CASE CloseHides(c)
    <3>1. UNCHANGED <<turn, runtime, installed, fault, mic>> BY <2>1 DEF CloseHides, registry
    <3> QED BY <1>1, <2>1, <3>1, HidesAround
  <2>2. CASE CloseCancelsRuntime(c) BY <2>2, CancelHeld DEF Goal
  <2>3. CASE CloseClearsPreview(c)
    <3>1. UNCHANGED <<turn, runtime, installed, fault, mic>>
      BY <2>3 DEF CloseClearsPreview, registry, captureVars
    <3> QED BY <1>1, <2>3, <3>1, ClearsAround
  <2> QED BY <1>10, <2>1, <2>2, <2>3 DEF CloseStep
<1>11. ASSUME NEW b \in BOOLEAN, SetEditInstructionMode(b),
              UNCHANGED <<lease, revoked, turn, runtime, installed, fault, mic, close>>
       PROVE  Goal
  <2>1. qa'.session = qa.session /\ qa'.phase = qa.phase
    BY <1>0, <1>11 DEF SetEditInstructionMode, PanelTypes, Snapshot
  <2> QED BY <1>2, <1>11, <2>1
<1>12. ASSUME Show \/ ToggleEditMode PROVE Goal
  <2>1. (~qa.editing) \in BOOLEAN OBVIOUS
  <2> QED BY <1>2, <1>11, <1>12, <2>1 DEF Show, ToggleEditMode, voiceVars, captureVars, registry
<1>13. ASSUME NEW s \in Session, RouteStep(s) PROVE Goal
  <2>1. CASE RouteShows(s) BY <1>2, <2>1 DEF RouteShows, captureVars, registry
  <2>2. CASE RouteSetsMode(s)
    <3>1. (end[s] = "converseMode") \in BOOLEAN OBVIOUS
    <3> QED BY <1>2, <1>11, <2>2, <3>1 DEF RouteSetsMode, captureVars, registry
  <2>3. CASE RouteReturns(s)
    <3>1. UNCHANGED <<lease, mic, qaVars>> /\ (revoked' = revoked \/ revoked' = Revoke(s))
      BY <2>3 DEF RouteReturns, CompleteVoice
    <3>2. \A t \in Turn : t \in revoked' <=> t \in revoked BY <3>1, Numbers DEF Revoke
    <3> QED BY <1>2, <3>1, <3>2 DEF qaVars, panelVars, registry
  <2>4. CASE RouteAsks(s)
    <3>1. UNCHANGED <<captureVars, registry, fault, close>> BY <2>4 DEF RouteAsks
    <3>2. CASE UNCHANGED <<panelVars, turn>>
      BY <1>2, <3>1, <3>2 DEF captureVars, registry, panelVars
    <3>3. CASE \E t \in Turn : SubmitText(t, s, end[s] = "converseAsk")
      <4>1. (end[s] = "converseAsk") \in BOOLEAN OBVIOUS
      <4> QED BY <3>1, <3>3, <4>1, HeldTurns DEF Goal
    <3> QED BY <2>4, <3>2, <3>3 DEF RouteAsks
  <2> QED BY <1>13, <2>1, <2>2, <2>3, <2>4 DEF RouteStep
<1>14. ASSUME PanelStep PROVE Goal
  BY <1>3, <1>4, <1>5, <1>6, <1>8, <1>9, <1>10, <1>12, <1>13, <1>14 DEF PanelStep
<1>15. ASSUME CommandStep, UNCHANGED qaVars PROVE Goal
  <2>1. Elsewhere BY <1>15, CommandElsewhere
  <2>2. UNCHANGED <<qa, turn, runtime, installed, fault, close>>
    BY <1>15 DEF qaVars, panelVars, registry
  <2>3. \A t \in Turn : Still(t) BY <2>1, <2>2 DEF Still, Elsewhere
  <2>4. \A t \in Turn : Steady(t) BY <2>2 DEF Steady, RecordingQuestion, Asking
  <2>5. \A t \in Turn : Around(t)
    BY <2>1, <2>2, <2>4, ClosesAre, CalmAround, Numbers DEF Elsewhere
  <2> QED BY <2>3, <2>5, HeldAround DEF Goal
<1>16. ASSUME UNCHANGED allVars PROVE Goal
  BY <1>2, <1>16 DEF allVars, voiceVars, captureVars, qaVars, panelVars, registry
<1>17. Goal BY <1>14, <1>15, <1>16 DEF QaNext
<1> QED BY <1>17 DEF Goal

----------------------------------------------------------------------------
(* A call takes no turn that was not begun.                                 *)
LEMMA TakenFrame ==
    ASSUME Fields, TakenInv, lastTurn \in Nat, lastTurn' \in Nat, lastTurn <= lastTurn',
           \A t \in Turn : t \in revoked' => t \in revoked \/ t <= lastTurn,
           \A t \in Turn : Closes(t)' => Closes(t) \/ t <= lastTurn
    PROVE  TakenInv'
<1>1. ASSUME NEW t \in Turn, t <= lastTurn PROVE t <= lastTurn'
  <2>1. t \in Nat BY PanelNumbers
  <2> QED BY <1>1, <2>1
<1>2. ASSUME NEW t \in Turn, t \in revoked' PROVE t <= lastTurn'
  BY <1>1, <1>2 DEF TakenInv
<1>3. ASSUME NEW t \in Turn, Closes(t)' PROVE t <= lastTurn'
  BY <1>1, <1>3 DEF TakenInv
<1> QED BY <1>2, <1>3 DEF TakenInv

(* The calls of a turn take only turns that were begun,                     *)
LEMMA TakenTurns ==
    ASSUME VoiceTypeOK, Fields, ShownInv, Shaped, NEW t \in Turn,
           \/ BeginRecording(t) \/ BeginStep(t) \/ FaultStep(t) \/ FinishRecording(t)
           \/ TypeQuestion(t) \/ AskStep(t)
    PROVE  /\ UNCHANGED close
           /\ \A u \in Turn : u \in revoked' => u \in revoked \/ u <= lastTurn
<1> DEFINE Goal == /\ UNCHANGED close
                   /\ \A u \in Turn : u \in revoked' => u \in revoked \/ u <= lastTurn
<1>0. TurnShape(t) /\ (Begun(t) => t <= lastTurn) BY DEF Shaped, ShownInv
<1>1. ASSUME UNCHANGED <<revoked, close>> PROVE Goal BY <1>1
<1>2. ASSUME revoked' = Revoke(t), UNCHANGED close, Begun(t) PROVE Goal BY <1>0, <1>2 DEF Revoke
<1> HIDE DEF Goal
<1>3. CASE BeginRecording(t) \/ TypeQuestion(t) \/ FinishRecording(t)
  BY <1>1, <1>3 DEF BeginRecording, TypeQuestion, FinishRecording, voiceVars, captureVars
<1>4. ASSUME BeginStep(t) PROVE Goal
  <2>1. CASE ShowRecording(t)
    <3>1. Begun(t) /\ UNCHANGED close /\ (UNCHANGED revoked \/ revoked' = Revoke(t))
      BY <2>1 DEF ShowRecording, Begun
    <3> QED BY <1>1, <1>2, <3>1
  <2>2. CASE BeginSweeps(t) BY <1>2, <2>2 DEF BeginSweeps, Begun
  <2>3. CASE ~ShowRecording(t) /\ ~BeginSweeps(t)
    BY <1>1, <1>4, <2>3 DEF BeginStep, Register, SelectionCaptured, QaOpens, QaInstalls, Arm,
       QaDiscarded, BeginFails, voiceVars, captureVars
  <2> QED BY <2>1, <2>2, <2>3
<1>5. ASSUME FaultStep(t) PROVE Goal
  <2>1. CASE FaultFails(t)
    <3>1. Begun(t) BY <1>0, <2>1 DEF FaultFails, TurnShape, Begun
    <3> QED BY <1>2, <2>1, <3>1 DEF FaultFails
  <2>2. CASE ~FaultFails(t)
    BY <1>1, <1>5, <2>2 DEF FaultStep, FaultStarts, FaultSweeps, voiceVars, captureVars
  <2> QED BY <2>1, <2>2
<1>6. ASSUME AskStep(t) PROVE Goal
  <2>1. CASE AskReleases(t)
    <3>1. Begun(t) /\ UNCHANGED close /\ (UNCHANGED revoked \/ revoked' = Revoke(t))
      BY <2>1 DEF AskReleases, Begun
    <3> QED BY <1>1, <1>2, <3>1
  <2>2. CASE EditGenerated(t)
    <3>1. turn[t].session \in Session \cup {0} BY DEF Fields, TurnTypes, TurnType
    <3>2. UNCHANGED close /\ (UNCHANGED revoked \/ revoked' = Revoke(turn[t].session))
      BY <2>2 DEF EditGenerated, SetPreview
    <3> QED BY <3>1, <3>2, Numbers DEF Goal, Revoke
  <2>3. CASE StopMicrophone(t) \/ QuestionHeard(t) \/ ContextCaptured(t)
    BY <1>1, <2>3 DEF StopMicrophone, QuestionHeard, ContextCaptured
  <2>4. CASE ShowQuestion(t) \/ Prepare(t) \/ CheckCurrent(t) \/ PushQuestion(t) \/ Answered(t)
             \/ Revised(t) \/ CompleteRuntime(t) \/ SettleAnswer(t) \/ AskFails(t)
    BY <1>1, <2>4 DEF ShowQuestion, Prepare, CheckCurrent, PushQuestion, Answered, Revised,
       CompleteRuntime, SettleAnswer, AskFails, voiceVars, captureVars
  <2>5. CASE EditPreview(t) \/ BindTarget(t) \/ AskSweeps(t) \/ AskClears(t)
    BY <1>1, <2>5 DEF EditPreview, BindTarget, AskSweeps, AskClears, captureVars
  <2> QED BY <1>6, <2>1, <2>2, <2>3, <2>4, <2>5 DEF AskStep
<1> QED BY <1>3, <1>4, <1>5, <1>6 DEF Goal

(* and so does every step.                                                  *)
LEMMA TakenStep ==
    ASSUME VoiceTypeOK, Fields, Named, ShownInv, OfferInv, Shaped, TakenInv, OffersKeep,
           lastTurn' \in Nat, [QaNext]_allVars
    PROVE  TakenInv'
<1>0. TurnTypes /\ PanelTypes BY DEF Fields
<1>n. lastTurn \in Nat /\ lastTurn <= lastTurn' BY PanelNumbers DEF OffersKeep
<1>1. ASSUME \A t \in Turn : t \in revoked' => t \in revoked \/ t <= lastTurn,
             \A t \in Turn : Closes(t)' => Closes(t) \/ t <= lastTurn
      PROVE  TakenInv'
  BY <1>1, <1>n, TakenFrame
<1>2. ASSUME \A t \in Turn : t \in revoked' => t \in revoked \/ t <= lastTurn, UNCHANGED close
      PROVE  TakenInv'
  <2>1. \A t \in Turn : Closes(t)' <=> Closes(t) BY <1>2 DEF Closes
  <2> QED BY <1>1, <1>2, <2>1
<1>s. qa.session = 0 \/ (qa.session \in Turn /\ qa.session <= lastTurn)
  BY PanelNumbers DEF ShownInv
<1> HIDE DEF TakenInv
<1> DEFINE Goal == TakenInv'
<1>3. ASSUME NEW t \in Turn,
             \/ BeginRecording(t) \/ BeginStep(t) \/ FaultStep(t) \/ FinishRecording(t)
             \/ TypeQuestion(t) \/ AskStep(t)
      PROVE  Goal
  BY <1>2, <1>3, TakenTurns
<1>4. ASSUME NEW c \in Close, NEW b, NEW r \in {0, qa.session}, ClaimClose(c, b, r),
             UNCHANGED revoked
      PROVE  Goal
  <2>1. /\ \A d \in Close \ {c} : close'[d] = close[d]
        /\ close'[c].runtime \in {0, qa.session} /\ close'[c].release \in {0, qa.session}
    BY <1>0, <1>4 DEF ClaimClose, TurnTypes
  <2>2. \A t \in Turn : Closes(t)' => Closes(t) \/ t = qa.session
    BY <2>1, Numbers DEF Closes
  <2>3. \A t \in Turn : Closes(t)' => Closes(t) \/ t <= lastTurn
    BY <2>2, <1>s, Numbers
  <2> QED BY <1>1, <1>4, <2>3
<1>5. ASSUME NEW c \in Close, UNCHANGED revoked, \A d \in Close \ {c} : close'[d] = close[d],
             close'[c].runtime \in {0, close[c].runtime}, close'[c].release \in {0, close[c].release}
      PROVE  Goal
  <2>1. \A t \in Turn : Closes(t)' => Closes(t) BY <1>5, Numbers DEF Closes
  <2> QED BY <1>1, <1>5, <2>1
<1>6. ASSUME NEW t \in Turn, ConfirmEdit(t) PROVE Goal
  BY <1>2, <1>6 DEF ConfirmEdit, captureVars, qaVars
<1>7. ASSUME NEW t \in Turn, EditApplied(t) PROVE Goal
  <2>1. UNCHANGED revoked /\ (close' = close \/ close' = [close EXCEPT ![t].pc = "claim"])
    BY <1>7 DEF EditApplied, captureVars
  <2>2. /\ \A d \in Close \ {t} : close'[d] = close[d]
        /\ close'[t].runtime = close[t].runtime /\ close'[t].release = close[t].release
    BY <1>0, <2>1, CloseNumbers DEF TurnTypes, CloseType
  <2> QED BY <1>5, <2>1, <2>2, CloseNumbers
<1>8. ASSUME NEW t \in Turn, AppliedEditCloses(t) PROVE Goal
  <2>1. UNCHANGED revoked BY <1>8 DEF AppliedEditCloses, voiceVars, captureVars
  <2>2. CASE qa.session = t /\ ClaimClose(t, TRUE, t) BY <1>4, <2>1, <2>2, CloseNumbers
  <2>3. CASE close' = [close EXCEPT ![t].pc = "done"]
    <3>1. /\ \A d \in Close \ {t} : close'[d] = close[d]
          /\ close'[t].runtime = close[t].runtime /\ close'[t].release = close[t].release
      BY <1>0, <2>3, CloseNumbers DEF TurnTypes, CloseType
    <3> QED BY <1>5, <2>1, <3>1, CloseNumbers
  <2> QED BY <1>8, <2>2, <2>3 DEF AppliedEditCloses
<1>9. ASSUME NEW c \in UserClose, UserCloses(c) PROVE Goal
  <2>1. UNCHANGED revoked BY <1>9 DEF UserCloses, voiceVars, captureVars
  <2>2. \E b \in BOOLEAN, r \in {0, qa.session} : ClaimClose(c, b, r) BY <1>9 DEF UserCloses
  <2> QED BY <1>4, <2>1, <2>2, CloseNumbers
<1>10. ASSUME NEW c \in Close, CloseStep(c) PROVE Goal
  <2>1. CASE CloseHides(c)
    <3>1. /\ \A d \in Close \ {c} : close'[d] = close[d]
          /\ close'[c].runtime = close[c].runtime /\ close'[c].release = close[c].release
      BY <1>0, <2>1 DEF CloseHides, TurnTypes, CloseType
    <3>2. \A t \in Turn : Closes(t)' => Closes(t) BY <3>1 DEF Closes
    <3>3. \A t \in Turn : t \in revoked' => t \in revoked \/ t = close[c].release
      BY <2>1 DEF CloseHides, Revoke
    <3>4. \A t \in Turn : t = close[c].release => t <= lastTurn BY DEF TakenInv, Closes
    <3> QED BY <1>1, <3>2, <3>3, <3>4
  <2>2. CASE CloseCancelsRuntime(c)
    <3>1. UNCHANGED revoked BY <2>2 DEF CloseCancelsRuntime
    <3>2. /\ \A d \in Close \ {c} : close'[d] = close[d]
          /\ close'[c].runtime = close[c].runtime /\ close'[c].release = close[c].release
      BY <1>0, <2>2 DEF CloseCancelsRuntime, TurnTypes, CloseType
    <3> QED BY <1>5, <3>1, <3>2
  <2>3. CASE CloseClearsPreview(c)
    <3>1. UNCHANGED revoked BY <2>3 DEF CloseClearsPreview, captureVars
    <3>2. /\ \A d \in Close \ {c} : close'[d] = close[d]
          /\ close'[c].runtime = 0 /\ close'[c].release = 0
      BY <1>0, <2>3 DEF CloseClearsPreview, TurnTypes, NoClose
    <3> QED BY <1>5, <3>1, <3>2
  <2> QED BY <1>10, <2>1, <2>2, <2>3 DEF CloseStep
<1>11. ASSUME Show \/ ToggleEditMode PROVE Goal
  BY <1>2, <1>11 DEF Show, ToggleEditMode, voiceVars, captureVars
<1>12. ASSUME NEW s \in Session, RouteStep(s) PROVE Goal
  <2>1. UNCHANGED close /\ (UNCHANGED revoked \/ revoked' = Revoke(s))
    BY <1>12 DEF RouteStep, RouteShows, RouteSetsMode, RouteAsks, RouteReturns, CompleteVoice,
       captureVars, qaVars
  <2>2. \A t \in Turn : t \in revoked' => t \in revoked BY <2>1, Numbers DEF Revoke
  <2> QED BY <1>2, <2>1, <2>2
<1>13. ASSUME PanelStep PROVE Goal
  BY <1>3, <1>6, <1>7, <1>8, <1>9, <1>10, <1>11, <1>12, <1>13 DEF PanelStep
<1>14. ASSUME CommandStep, UNCHANGED qaVars PROVE Goal
  <2>1. Elsewhere BY <1>14, CommandElsewhere
  <2> QED BY <1>2, <1>14, <2>1 DEF Elsewhere, qaVars
<1>15. ASSUME UNCHANGED allVars PROVE Goal
  BY <1>2, <1>15 DEF allVars, voiceVars, captureVars, qaVars
<1> QED BY <1>13, <1>14, <1>15 DEF QaNext

----------------------------------------------------------------------------
(* The inductive invariant of the panel.                                    *)
PanelInv ==
    /\ ShownInv /\ Shaped /\ OwnerInv /\ OfferInv /\ TakenInv
    /\ \A t \in Turn : Held(t)

(* It holds initially                                                       *)
LEMMA PanelInit == QaInit => PanelInv
<1> SUFFICES ASSUME QaInit PROVE PanelInv OBVIOUS
<1>1. /\ qa = DefaultSnapshot /\ previous = DefaultSnapshot /\ presenter = "none" /\ lastTurn = 0
      /\ \A t \in Turn : turn[t] = NoTurn /\ runtime[t] = "none" /\ fault[t] = "no"
      /\ installed = {} /\ \A c \in Close : close[c] = NoClose
  BY DEF QaInit
<1>2. /\ lease = 0 /\ revoked = {} /\ \A t \in Turn : mic[t] = "none" /\ apply[t].pc = "no"
  BY Numbers DEF QaInit, VoiceInit, CaptureInit
<1>3. qa.session = 0 /\ qa.phase = "Idle" /\ qa.conversation = 0 BY <1>1 DEF DefaultSnapshot
<1>4. /\ \A t \in Turn : turn[t].begin = "idle" /\ turn[t].ask = "idle" /\ turn[t].owner = 0
      /\ \A c \in Close : close[c].pc = "idle" /\ close[c].runtime = 0 /\ close[c].release = 0
  BY <1>1 DEF NoTurn, NoClose
<1>5. 0 \notin Turn /\ Turn \subseteq Close BY Numbers, CloseNumbers
<1>6. ShownInv BY <1>1, <1>3, <1>4 DEF ShownInv, QaActive, Begun, RecordingQuestion
<1>7. Shaped BY <1>1, <1>2, <1>4 DEF Shaped, TurnShape, Answering
<1>8. OwnerInv BY <1>1, <1>3, <1>4 DEF OwnerInv, Making, Revising, QaActive
<1>9. OfferInv BY <1>1, <1>2, <1>3, <1>4, <1>5 DEF OfferInv, Spent, Offers, ActiveTurn
<1>10. TakenInv BY <1>2, <1>4, <1>5 DEF TakenInv, Closes
<1>11. \A t \in Turn : Held(t)
  BY <1>1, <1>2, <1>3, <1>4, <1>5 DEF Held, ActiveInv, OwnedInv, RecordingQuestion, Asking, Closes
<1> QED BY <1>6, <1>7, <1>8, <1>9, <1>10, <1>11 DEF PanelInv

(* and in every step.                                                       *)
LEMMA PanelInvStep ==
    ASSUME TypeInv, PanelInv, [QaNext]_allVars
    PROVE  PanelInv'
<1>1. VoiceTypeOK /\ Fields /\ Numbered /\ Named
  BY TypeParts DEF Fields, Numbered, Created, ConfirmInv
<1>2. TypeInv' BY TypeStep
<1>3. lastTurn' \in Nat BY <1>2, BoundsAssumption DEF TypeInv, QaTypeOK
<1>4. ShownInv /\ Shaped /\ OwnerInv /\ OfferInv /\ TakenInv /\ (\A t \in Turn : Held(t))
  BY DEF PanelInv
<1>5. Shaped' BY <1>1, <1>4, ShapeStep
<1>6. (\A t \in Turn : Held(t))' BY <1>1, <1>4, HeldStep
<1>7. ASSUME UNCHANGED qaVars PROVE ShownInv' /\ OwnerInv' /\ OffersKeep
  <2>1. ShownInv'
    BY <1>4, <1>7 DEF ShownInv, qaVars, panelVars, registry, QaActive, Begun, Reached,
       RecordingQuestion
  <2>2. OwnerInv' BY <1>4, <1>7 DEF OwnerInv, qaVars, panelVars, QaActive, Making, Asking
  <2>3. OffersKeep
    BY <1>1, <1>7, PanelNumbers DEF OffersKeep, qaVars, panelVars, Offers, ActiveTurn, QaActive
  <2> QED BY <2>1, <2>2, <2>3
<1>8. ShownInv' /\ OwnerInv' /\ OffersKeep
  <2>1. CASE PanelStep BY <1>1, <1>4, <2>1, ShownPanelStep, OwnerPanelStep, PanelOffers
  <2> QED BY <1>7, <2>1 DEF QaNext, allVars
<1>9. EditsKeep /\ PreviewKeeps
  <2>1. CASE PanelStep BY <1>1, <1>4, <2>1, PanelEdits, PanelPreviews
  <2>2. CASE CommandStep /\ UNCHANGED qaVars BY <1>1, <2>2, CommandEdits
  <2>3. CASE UNCHANGED allVars
    <3>1. UNCHANGED <<voice, apply, close>> BY <2>3 DEF allVars, voiceVars, taskVars, qaVars
    <3> QED BY <3>1, EditsFrame, PreviewFrame
  <2> QED BY <2>1, <2>2, <2>3 DEF QaNext
<1>10. OfferInv' BY <1>1, <1>3, <1>4, <1>8, <1>9, OfferFrame
<1>11. TakenInv' BY <1>1, <1>3, <1>4, <1>8, TakenStep
<1> QED BY <1>5, <1>6, <1>8, <1>10, <1>11 DEF PanelInv

(* It leaves nothing behind when every call has returned.                   *)
LEMMA NoneLeft ==
    ASSUME TypeInv, PanelInv
    PROVE  QaNoneLeft
<1> SUFFICES ASSUME QaQuiet, NEW t \in Turn
             PROVE  IF RecordingQuestion(t)
                    THEN /\ runtime[t] = "live" /\ t \in installed /\ mic[t] = "ready"
                         /\ CanHold(t)
                    ELSE /\ runtime[t] # "live" /\ t \notin installed /\ mic[t] \in {"none", "ended"}
                         /\ lease = t => t \in revoked
  BY DEF QaNoneLeft
<1>1. /\ turn[t].begin \in {"idle", "done"} /\ turn[t].ask \in {"idle", "done"}
      /\ fault[t] = "no" /\ mic[t] # "closing"
      /\ \A c \in Close : close[c].pc \in {"idle", "done"}
  BY DEF QaQuiet
<1>2. TurnShape(t) /\ Held(t) BY DEF PanelInv, Shaped
<1>3. mic[t] \in {"none", "held", "ready", "finishing", "closing", "ended"}
  BY TypeParts, Numbers DEF VoiceTypeOK, CaptureTypeOK, MicState
<1>4. CASE RecordingQuestion(t)
  BY <1>1, <1>2, <1>4 DEF Held, ActiveInv, CanHold
<1>5. CASE ~RecordingQuestion(t)
  <2>1. ~Asking(t) BY <1>1, <1>2 DEF Held, ActiveInv
  <2>2. ~ActiveTurn(t) BY <1>5, <2>1, ActiveIs
  <2>3. ~Releasing(t) /\ ~Cancelling(t) BY <1>1 DEF Releasing, Cancelling
  <2>4. runtime[t] # "live" BY <1>1, <1>2, <2>2, <2>3 DEF Held, OwnedInv
  <2>5. lease = t => t \in revoked BY <1>1, <1>2, <1>5, <2>3 DEF Held, OwnedInv
  <2>6. t \notin installed BY <1>2, <2>4 DEF TurnShape
  <2>7. mic[t] \in {"none", "ended"} BY <1>1, <1>2, <1>3, <2>6 DEF TurnShape
  <2> QED BY <1>5, <2>4, <2>5, <2>6, <2>7
<1> QED BY <1>4, <1>5

(* Nothing of a question is left behind: whatever cancelled, failed or       *)
(* answered it, once every call has returned its runtime session has left    *)
(* the desktop registry, its microphone is closed and its lease is given     *)
(* back, and the turn that records has all three.                            *)
THEOREM NoQuestionLeft == QaSpec => []QaNoneLeft
<1>1. QaInit => TypeInv /\ PanelInv BY TypeInit, PanelInit
<1>2. TypeInv /\ PanelInv /\ [QaNext]_allVars => (TypeInv /\ PanelInv)' BY TypeStep, PanelInvStep
<1>3. TypeInv /\ PanelInv => QaNoneLeft BY NoneLeft
<1> QED BY <1>1, <1>2, <1>3, PTL DEF QaSpec

----------------------------------------------------------------------------
(* The microphone and the start of command s are through.                   *)
Dead(s) == mic[s] \in {"none", "closing", "ended"} /\ start[s] \in {"idle", "done"}

(* The end of the command is past its microphone.                           *)
Late == EndPc \ {"idle", "take", "await", "fail", "clear", "done"}

(* Somebody will still stop the microphone of command s: its teardown, or   *)
(* the one that comes when it is ended, cancelled or failed.                *)
Opening(s) ==
    \/ teardown[s] = "control"
    \/ /\ voice.session = s /\ voice.control
       /\ \/ voice.phase = "Recording"
          \/ voice.phase = "Processing" /\ end[s] \in {"take", "fail"}

(* The service still works on command s.                                    *)
Leading(s) == voice.session = s /\ voice.phase \in {"Recording", "Processing", "AwaitingIntent"}

(* The tasks of command s, its microphone, its lease and its place in the   *)
(* slot.                                                                    *)
CommandShape(s) ==
    /\ s > voice.session => start[s] = "idle" /\ teardown[s] = "no" /\ target # s /\ s \notin revoked
    /\ start[s] = "idle" => mic[s] = "none" /\ lease # s /\ end[s] = "idle"
    /\ start[s] \in {"target", "hold"} => mic[s] = "none"
    /\ start[s] \in {"bind", "open"} => mic[s] = "held"
    /\ start[s] = "install" => mic[s] = "ready"
    /\ start[s] \in {"discard", "fail", "clear"} => mic[s] \in {"none", "closing", "ended"}
    /\ start[s] = "done" => mic[s] # "held"
    /\ slot = s => start[s] = "done" /\ mic[s] \in {"ready", "finishing"}
    /\ mic[s] = "ready" /\ start[s] = "done" => slot = s
    /\ mic[s] = "finishing" => end[s] = "await" /\ slot = s
    /\ Current(s, "Recording") =>
          lease = s /\ s \notin revoked /\ teardown[s] = "no" /\ end[s] = "idle" /\ start[s] # "idle"
    /\ end[s] \in Late \cup {"await"} => start[s] = "done" /\ mic[s] \notin {"held", "ready"}

(* What command s has left is still given back.                             *)
CommandOwned(s) ==
    /\ slot = s /\ mic[s] = "ready" => Opening(s)
    /\ target = s /\ start[s] \in {"open", "install"} => Opening(s)
    /\ lease = s /\ s \notin revoked => teardown[s] # "no" \/ Leading(s)

(* The invariant of one command.                                            *)
CommandAt(s) == CommandShape(s) /\ CommandOwned(s)

(* What the steps of others may do to command s.                            *)
Kept(s) ==
    /\ start'[s] = start[s]
    /\ end'[s] = end[s] \/ (end[s] \in Late /\ end'[s] \in Late \cup {"fail", "clear", "done"})
    /\ mic'[s] = mic[s] \/ (mic[s] = "closing" /\ mic'[s] = "ended")
    /\ slot' = s <=> slot = s
    /\ target' = s => target = s \/ (Dead(s) /\ s <= voice.session)

(* to its lease,                                                            *)
Leased(s) ==
    /\ lease' = lease \/ (LeaseFree /\ lease' # s)
    /\ s \in revoked => s \in revoked'
    /\ s \in revoked' => s \in revoked \/ (s <= voice'.session /\ ~Current(s, "Recording")')

(* and to what the service shows of it.                                     *)
Voiced(s) ==
    /\ s > voice'.session => s > voice.session
    /\ Current(s, "Recording")' => Current(s, "Recording")
    /\ \/ teardown'[s] = teardown[s]
       \/ /\ s <= voice'.session /\ ~Current(s, "Recording")' /\ teardown'[s] # "no"
          /\ teardown[s] = "control" => teardown'[s] = "control"
    /\ Opening(s) => Opening(s)' \/ Dead(s)
    /\ Leading(s) => Leading(s)' \/ teardown'[s] # "no" \/ s \in revoked'

(* The ids of sessions are numbers.                                         *)
LEMMA VoiceNumber ==
    ASSUME NEW v \in VoiceState
    PROVE  v.session \in Session \cup {0} /\ v.session \in Nat
<1>1. v.session \in Session \cup {0} BY VoiceForms
<1>2. \A x \in Session \cup {0} : x \in Nat BY SessionsAreNumbers
<1> QED BY <1>1, <1>2

(* No session has the id of none.                                           *)
LEMMA SessionNumber == \A s \in Session : s \in Nat /\ s # 0
BY SessionsAreNumbers

(* Such a step keeps the invariant of command s.                            *)
LEMMA CommandFrame ==
    ASSUME VoiceTypeOK, VoiceTypeOK', NEW s \in Session, CommandAt(s), Kept(s), Leased(s), Voiced(s)
    PROVE  CommandAt(s)'
<1>0. s # 0 /\ s \in Nat /\ voice.session \in Nat /\ voice'.session \in Nat
  BY SessionNumber, VoiceNumber DEF VoiceTypeOK
<1>1. \A p \in Late : p \notin {"idle", "take", "await", "fail", "clear", "done"} BY DEF Late
<1>2. (s > voice.session =>
          start[s] = "idle" /\ teardown[s] = "no" /\ target # s /\ s \notin revoked)'
  BY <1>0 DEF CommandAt, CommandShape, Kept, Leased, Voiced
<1>3. (start[s] = "idle" => mic[s] = "none" /\ lease # s /\ end[s] = "idle")'
  BY <1>1 DEF CommandAt, CommandShape, Kept, Leased
<1>4. /\ (start[s] \in {"target", "hold"} => mic[s] = "none")'
      /\ (start[s] \in {"bind", "open"} => mic[s] = "held")'
      /\ (start[s] = "install" => mic[s] = "ready")'
      /\ (start[s] \in {"discard", "fail", "clear"} => mic[s] \in {"none", "closing", "ended"})'
      /\ (start[s] = "done" => mic[s] # "held")'
      /\ (slot = s => start[s] = "done" /\ mic[s] \in {"ready", "finishing"})'
      /\ (mic[s] = "ready" /\ start[s] = "done" => slot = s)'
  BY DEF CommandAt, CommandShape, Kept
<1>5. (mic[s] = "finishing" => end[s] = "await" /\ slot = s)'
  BY <1>1 DEF CommandAt, CommandShape, Kept
<1>6. (Current(s, "Recording") =>
          lease = s /\ s \notin revoked /\ teardown[s] = "no" /\ end[s] = "idle" /\ start[s] # "idle")'
  <2>1. SUFFICES ASSUME Current(s, "Recording")'
                 PROVE  (lease = s /\ s \notin revoked /\ teardown[s] = "no" /\ end[s] = "idle"
                         /\ start[s] # "idle")'
    OBVIOUS
  <2>2. /\ lease = s /\ s \notin revoked /\ teardown[s] = "no" /\ end[s] = "idle"
        /\ start[s] # "idle"
    BY <2>1 DEF Voiced, CommandAt, CommandShape
  <2>3. ~LeaseFree BY <1>0, <2>2 DEF LeaseFree
  <2> QED BY <1>1, <2>1, <2>2, <2>3 DEF Kept, Leased, Voiced
<1>7. (end[s] \in Late \cup {"await"} => start[s] = "done" /\ mic[s] \notin {"held", "ready"})'
  BY <1>1 DEF CommandAt, CommandShape, Kept
<1>8. CommandShape(s)' BY <1>2, <1>3, <1>4, <1>5, <1>6, <1>7 DEF CommandShape
<1>9. (slot = s /\ mic[s] = "ready" => Opening(s))'
  BY DEF CommandAt, CommandOwned, Kept, Voiced, Dead
<1>10. (target = s /\ start[s] \in {"open", "install"} => Opening(s))'
  BY DEF CommandAt, CommandOwned, Kept, Voiced, Dead
<1>11. (lease = s /\ s \notin revoked => teardown[s] # "no" \/ Leading(s))'
  BY DEF CommandAt, CommandOwned, Leased, Voiced
<1> QED BY <1>8, <1>9, <1>10, <1>11 DEF CommandAt, CommandOwned

----------------------------------------------------------------------------
(* What the operations of the service do to the commands.                   *)
LateEnd(s) == end'[s] = end[s] \/ (end[s] \in Late /\ end'[s] \in Late \cup {"fail", "clear", "done"})

(* A step that leaves the service alone,                                    *)
LEMMA VoicedSame ==
    ASSUME UNCHANGED <<voice, teardown>>, NEW s \in Session, LateEnd(s)
    PROVE  Voiced(s)
BY DEF Voiced, LateEnd, Late, Opening, Leading, Current

(* one that ends the current session,                                       *)
LEMMA VoicedEnds ==
    ASSUME VoiceTypeOK, NEW w, voice.session = w, voice'.session = w,
           voice'.phase \in {"Cancelled", "Failed"}, teardown' = Ending(w),
           NEW s \in Session
    PROVE  Voiced(s)
<1>0. s \in Nat /\ s # 0 /\ voice.session \in Nat
  BY SessionNumber, VoiceNumber DEF VoiceTypeOK
<1>1. CASE s = w
  <2>1. teardown'[s] = IF voice.control \/ teardown[s] = "control" THEN "control" ELSE "plain"
    BY <1>1 DEF Ending, VoiceTypeOK
  <2> QED BY <1>0, <1>1, <2>1 DEF Voiced, Opening, Leading, Current
<1>2. CASE s # w
  <2>1. teardown'[s] = teardown[s] BY <1>2 DEF Ending, VoiceTypeOK
  <2> QED BY <1>0, <1>2, <2>1 DEF Voiced, Opening, Leading, Current
<1> QED BY <1>1, <1>2

(* one that cancels a session,                                              *)
LEMMA VoicedCancel ==
    ASSUME VoiceTypeOK, NEW w, CancelVoice(w), NEW s \in Session, LateEnd(s)
    PROVE  Voiced(s)
<1>1. CASE UNCHANGED <<voice, teardown>> BY <1>1, VoicedSame
<1>2. CASE ~UNCHANGED <<voice, teardown>>
  <2>1. /\ voice.session = w /\ voice'.session = w /\ voice'.phase = "Cancelled"
        /\ teardown' = Ending(w)
    BY <1>2 DEF CancelVoice, VoiceTypeOK, VoiceState
  <2> QED BY <2>1, VoicedEnds
<1> QED BY <1>1, <1>2

(* one of a session at rest,                                                *)
LEMMA VoicedRests ==
    ASSUME NEW s \in Session, UNCHANGED teardown, voice'.session = voice.session,
           voice.phase \notin {"Recording", "Processing", "AwaitingIntent"},
           voice'.phase \notin {"Recording", "Processing", "AwaitingIntent"}
    PROVE  Voiced(s)
BY DEF Voiced, Opening, Leading, Current

(* a new session,                                                           *)
LEMMA VoicedNew ==
    ASSUME VoiceTypeOK, NEW n \in Session, n > voice.session, NEW p, NEW e, voice' = NewVoice(n, p, e),
           voice.phase \in Resting, UNCHANGED teardown, NEW s \in Session \ {n}
    PROVE  Voiced(s)
<1>1. s \in Nat /\ n \in Nat /\ voice.session \in Nat
  BY SessionNumber, VoiceNumber DEF VoiceTypeOK
<1>2. voice'.session = n BY DEF NewVoice
<1>3. s > voice'.session => s > voice.session BY <1>1, <1>2
<1> QED BY <1>2, <1>3 DEF Voiced, Opening, Leading, Current, Resting

(* and one of the session itself, after its microphone.                     *)
LEMMA VoicedOwner ==
    ASSUME NEW w, voice.session = w, voice'.session = w, Dead(w), UNCHANGED teardown,
           voice'.phase # "Recording",
           voice'.phase \in {"Processing", "AwaitingIntent"} \/ w \in revoked',
           NEW s \in Session, LateEnd(s)
    PROVE  Voiced(s)
<1>1. CASE s = w BY <1>1 DEF Voiced, Opening, Leading, Current
<1>2. CASE s # w BY <1>2 DEF Voiced, Opening, Leading, Current
<1> QED BY <1>1, <1>2

(* A step that releases no lease,                                           *)
LEMMA LeasedSame ==
    ASSUME NEW s \in Session, lease' = lease \/ (LeaseFree /\ lease' # s),
           s \in revoked' <=> s \in revoked
    PROVE  Leased(s)
BY DEF Leased

(* and one that releases the lease of the current session.                  *)
LEMMA LeasedRevoke ==
    ASSUME VoiceTypeOK, UNCHANGED lease, NEW w, revoked' = Revoke(w), voice.session = w,
           voice'.session = w, voice'.phase # "Recording", NEW s \in Session
    PROVE  Leased(s)
<1>1. s \in Nat BY SessionNumber
<1> QED BY <1>1 DEF Leased, Revoke, Current

(* The later tasks of a command have its microphone behind them.            *)
LEMMA LateIsDead ==
    ASSUME VoiceTypeOK, NEW s \in Session, CommandAt(s), end[s] \in Late
    PROVE  Dead(s)
<1>1. start[s] = "done" /\ mic[s] \notin {"held", "ready", "finishing"}
  BY DEF CommandAt, CommandShape, Late
<1>2. mic[s] \in MicState BY Numbers DEF VoiceTypeOK, CaptureTypeOK
<1> QED BY <1>1, <1>2 DEF Dead, MicState

----------------------------------------------------------------------------
(* What the tasks of command s change is its own.                           *)
LEMMA StartFields ==
    ASSUME VoiceTypeOK, NEW s \in Session
    PROVE  /\ \A p : StartAt(s, p) => start'[s] = p /\ \A u \in Session \ {s} : start'[u] = start[u]
           /\ \A p : EndAt(s, p) => end'[s] = p /\ \A u \in Session \ {s} : end'[u] = end[u]
           /\ \A m : mic' = [mic EXCEPT ![s] = m] =>
                 mic'[s] = m /\ \A i \in Id \ {s} : mic'[i] = mic[i]
           /\ mic' = CancelMic(s) =>
                 /\ mic'[s] = IF mic[s] \in {"ready", "finishing"} THEN "closing" ELSE mic[s]
                 /\ \A i \in Id \ {s} : mic'[i] = mic[i]
BY Numbers DEF VoiceTypeOK, CaptureTypeOK, StartAt, EndAt, CancelMic

(* The start of a command moves on; nothing else of it changes but what is  *)
(* said of its microphone, the target and the slot.                         *)
LEMMA StartMoves ==
    ASSUME VoiceTypeOK, NEW s \in Session, CommandAt(s), start[s] \notin {"idle", "done"},
           UNCHANGED <<lease, revoked, teardown, end>>,
           voice'.session = voice.session, voice'.phase = voice.phase,
           voice.control => voice'.control,
           start'[s] # "idle", slot' = slot \/ (start'[s] = "done" /\ mic'[s] = "ready" /\ slot' = s),
           start'[s] \in {"target", "hold"} => mic'[s] = "none",
           start'[s] \in {"bind", "open"} => mic'[s] = "held",
           start'[s] = "install" => mic'[s] = "ready",
           start'[s] \in {"discard", "fail", "clear"} => mic'[s] \in {"none", "closing", "ended"},
           start'[s] = "done" => mic'[s] \in {"none", "closing", "ended"} \/ (mic'[s] = "ready" /\ slot' = s),
           mic'[s] # "finishing", slot' = s => Opening(s),
           target' = s /\ start'[s] \in {"open", "install"} => Opening(s)'
    PROVE  CommandAt(s)'
<1>1. ~(s > voice.session) /\ slot # s /\ end[s] \notin Late \cup {"await"}
  BY DEF CommandAt, CommandShape
<1>2. Opening(s) => Opening(s)' BY DEF Opening
<1>3. Leading(s)' <=> Leading(s) BY DEF Leading
<1>4. CommandShape(s)' BY <1>1 DEF CommandAt, CommandShape, Current
<1>5. CommandOwned(s)' BY <1>1, <1>2, <1>3 DEF CommandAt, CommandOwned
<1> QED BY <1>4, <1>5 DEF CommandAt

(* The steps that start the recording keep the invariant of their command.  *)
LEMMA StartOwn ==
    ASSUME VoiceTypeOK, NEW s \in Session, CommandAt(s), StartStep(s)
    PROVE  CommandAt(s)'
<1>0. s # 0 /\ s \in Nat /\ voice.session \in Nat /\ voice \in VoiceState
  BY SessionNumber, VoiceNumber DEF VoiceTypeOK
<1>f. CommandShape(s) /\ CommandOwned(s) BY DEF CommandAt
<1>1. CASE SetTarget(s)
  <2>1. start[s] = "target" /\ start'[s] = "hold" BY <1>1, StartFields DEF SetTarget
  <2>2. UNCHANGED <<lease, revoked, teardown, end, voice, mic, slot>>
    BY <1>1 DEF SetTarget, captureVars
  <2>3. mic'[s] = "none" /\ slot' # s BY <1>f, <2>1, <2>2 DEF CommandShape
  <2> QED BY <2>1, <2>2, <2>3, StartMoves
<1>2. CASE HoldResources(s)
  <2>1. start[s] = "hold" /\ UNCHANGED <<lease, revoked, teardown, end, voice, slot, target>>
    BY <1>2 DEF HoldResources, hostVars
  <2>2. slot # s /\ mic[s] = "none" BY <1>f, <2>1 DEF CommandShape
  <2>3. \/ start'[s] = "bind" /\ mic'[s] = "held"
        \/ start'[s] = "fail" /\ mic'[s] = "none"
    BY <1>2, <2>2, StartFields DEF HoldResources
  <2> QED BY <2>1, <2>2, <2>3, StartMoves
<1>3. CASE Bind(s)
  <2>1. start[s] = "bind" /\ UNCHANGED <<lease, revoked, teardown, end, slot>>
    BY <1>3 DEF Bind, hostVars
  <2>2. slot # s /\ mic[s] = "held" BY <1>f, <2>1 DEF CommandShape
  <2>3. CASE Current(s, "Recording")
    <3>1. voice' = [voice EXCEPT !.control = TRUE] /\ start'[s] = "open" /\ mic'[s] = "held"
      BY <1>3, <2>2, <2>3, StartFields DEF Bind
    <3>2. voice'.session = voice.session /\ voice'.phase = voice.phase /\ voice'.control
      BY <1>0, <3>1 DEF VoiceState
    <3>3. Opening(s)' BY <2>3, <3>2 DEF Opening, Current
    <3> QED BY <2>1, <2>2, <3>1, <3>2, <3>3, StartMoves
  <2>4. CASE ~Current(s, "Recording")
    <3>1. UNCHANGED voice /\ start'[s] = "fail" /\ mic'[s] = "ended"
      BY <1>3, <2>4, StartFields DEF Bind
    <3> QED BY <2>1, <2>2, <3>1, StartMoves
  <2> QED BY <2>3, <2>4
<1>4. CASE Opens(s) \/ OpenFails(s)
  <2>1. start[s] = "open" /\ UNCHANGED <<lease, revoked, teardown, end, voice, slot, target>>
    BY <1>4 DEF Opens, OpenFails, hostVars
  <2>2. slot # s BY <1>f, <2>1 DEF CommandShape
  <2>3. \/ start'[s] = "install" /\ mic'[s] = "ready"
        \/ start'[s] = "fail" /\ mic'[s] = "ended"
    BY <1>4, StartFields DEF Opens, OpenFails, StartSucceeds, StartFails
  <2>4. target' = s => Opening(s) BY <1>f, <2>1 DEF CommandOwned
  <2>5. Opening(s) => Opening(s)' BY <2>1 DEF Opening
  <2> QED BY <2>1, <2>2, <2>3, <2>4, <2>5, StartMoves
<1>5. CASE Install(s)
  <2>1. start[s] = "install" /\ UNCHANGED <<lease, revoked, teardown, end, voice, target>>
    BY <1>5 DEF Install
  <2>2. slot # s /\ mic[s] = "ready" BY <1>f, <2>1 DEF CommandShape
  <2>3. \/ target = s /\ slot' = s /\ start'[s] = "done" /\ mic'[s] = "ready"
        \/ UNCHANGED slot /\ start'[s] = "discard" /\ mic'[s] = "closing"
    BY <1>5, <2>2, StartFields DEF Install
  <2>4. target = s => Opening(s) BY <1>f, <2>1 DEF CommandOwned
  <2> QED BY <2>1, <2>2, <2>3, <2>4, StartMoves
<1>6. CASE Discarded(s)
  <2>1. start[s] = "discard" /\ start'[s] = "done" /\ mic'[s] = "ended"
        /\ UNCHANGED <<lease, revoked, teardown, end, voice, target, slot>>
    BY <1>6, StartFields DEF Discarded, captureVars, hostVars
  <2>2. slot # s BY <1>f, <2>1 DEF CommandShape
  <2> QED BY <2>1, <2>2, StartMoves
<1>7. CASE StartClears(s)
  <2>1. start[s] = "clear" /\ start'[s] = "done"
        /\ UNCHANGED <<lease, revoked, mic, teardown, end, voice, slot>>
    BY <1>7, StartFields DEF StartClears, captureVars
  <2>2. slot # s /\ mic[s] \in {"none", "closing", "ended"} BY <1>f, <2>1 DEF CommandShape
  <2> QED BY <2>1, <2>2, StartMoves
<1>8. CASE StartFailed(s)
  <2>1. start[s] = "fail" /\ start'[s] = "clear" /\ CancelVoice(s)
        /\ UNCHANGED <<lease, revoked, mic, end, target, slot>>
    BY <1>8, StartFields DEF StartFailed, captureVars, hostVars
  <2>2. slot # s /\ mic[s] \in {"none", "closing", "ended"} BY <1>f, <2>1 DEF CommandShape
  <2>3. Voiced(s) BY <2>1, VoicedCancel DEF LateEnd
  <2>4. ~(s > voice.session) /\ mic[s] # "finishing" /\ end[s] \notin Late \cup {"await"}
    BY <1>f, <2>1, <2>2 DEF CommandShape
  <2>5. ~(s > voice.session)' /\ ~Current(s, "Recording")'
    <3>1. CASE UNCHANGED <<voice, teardown>> /\ ~(voice.session = s /\ voice.phase # "Cancelled")
      BY <2>4, <3>1 DEF Current
    <3>2. CASE voice' = [voice EXCEPT !.phase = "Cancelled", !.preview = {}, !.ticket = 0,
                                      !.control = FALSE]
      BY <1>0, <2>4, <3>2 DEF Current, VoiceState
    <3> QED BY <2>1, <3>1, <3>2 DEF CancelVoice
  <2>6. CommandShape(s)' BY <1>f, <2>1, <2>2, <2>4, <2>5 DEF CommandShape
  <2>7. CommandOwned(s)' BY <1>f, <2>1, <2>2, <2>3 DEF CommandOwned, Voiced
  <2> QED BY <2>6, <2>7 DEF CommandAt
<1> QED BY <1>1, <1>2, <1>3, <1>4, <1>5, <1>6, <1>7, <1>8 DEF StartStep

----------------------------------------------------------------------------
(* What a cancellation does to its own command.                             *)
LEMMA CancelOwn ==
    ASSUME VoiceTypeOK, NEW s \in Session, CancelVoice(s)
    PROVE  /\ voice'.session = voice.session /\ ~Current(s, "Recording")'
           /\ Opening(s) => teardown'[s] = "control"
           /\ Leading(s) \/ teardown[s] # "no" => teardown'[s] # "no"
           /\ voice.session # s => teardown'[s] = teardown[s]
<1>0. voice \in VoiceState /\ teardown[s] \in {"no", "plain", "control"} BY DEF VoiceTypeOK
<1>1. CASE UNCHANGED <<voice, teardown>> /\ ~(voice.session = s /\ voice.phase # "Cancelled")
  BY <1>1 DEF Opening, Leading, Current
<1>2. CASE /\ voice.session = s /\ teardown' = Ending(s)
           /\ voice' = [voice EXCEPT !.phase = "Cancelled", !.preview = {}, !.ticket = 0,
                                     !.control = FALSE]
  <2>1. voice'.session = voice.session /\ voice'.phase = "Cancelled" BY <1>0, <1>2 DEF VoiceState
  <2>2. teardown'[s] = IF voice.control \/ teardown[s] = "control" THEN "control" ELSE "plain"
    BY <1>2 DEF Ending, VoiceTypeOK
  <2> QED BY <1>2, <2>1, <2>2 DEF Opening, Leading, Current
<1> QED BY <1>1, <1>2 DEF CancelVoice

(* The steps that end the recording keep the invariant of their command,    *)
LEMMA EndOwn ==
    ASSUME VoiceTypeOK, NEW s \in Session, CommandAt(s),
           \/ MarkProcessing(s) \/ TakeCapture(s) \/ Transcribed(s) \/ EndFailed(s) \/ EndClears(s)
    PROVE  CommandAt(s)'
<1>0. /\ s # 0 /\ s \in Nat /\ voice.session \in Nat /\ voice \in VoiceState
      /\ CommandShape(s) /\ CommandOwned(s)
  BY SessionNumber, VoiceNumber DEF VoiceTypeOK, CommandAt
<1>1. CASE MarkProcessing(s)
  <2>1. UNCHANGED <<lease, revoked, mic, teardown, target, slot, start>> /\ end'[s] = "take"
    BY <1>1, StartFields DEF MarkProcessing, captureVars, hostVars
  <2>2. /\ voice.session = s /\ voice.phase = "Recording" /\ voice'.session = s
        /\ voice'.phase = "Processing" /\ voice'.control = voice.control
    BY <1>0, <1>1 DEF MarkProcessing, VoiceState, Current
  <2>3. (Opening(s) => Opening(s)') /\ Leading(s)' BY <2>1, <2>2 DEF Opening, Leading
  <2>4. CommandShape(s)' BY <1>0, <2>1, <2>2 DEF CommandShape, Current, Late
  <2>5. CommandOwned(s)' BY <1>0, <2>1, <2>3 DEF CommandOwned
  <2> QED BY <2>4, <2>5 DEF CommandAt
<1>2. CASE TakeCapture(s)
  <2>1. UNCHANGED <<lease, revoked, voice, teardown, target, slot, start>> /\ end[s] = "take"
    BY <1>2 DEF TakeCapture, hostVars
  <2>2. \/ slot = s /\ mic[s] = "ready" /\ mic'[s] = "finishing" /\ end'[s] = "await"
        \/ mic'[s] = mic[s] /\ end'[s] = "fail"
    BY <1>2, StartFields DEF TakeCapture, BeginFinish
  <2>3. Leading(s)' <=> Leading(s) BY <2>1 DEF Leading
  <2>4. mic'[s] = mic[s] /\ Opening(s) => Opening(s)' BY <2>1, <2>2 DEF Opening
  <2>5. CommandShape(s)' BY <1>0, <2>1, <2>2 DEF CommandShape, Current, Late
  <2>6. CommandOwned(s)' BY <1>0, <2>1, <2>2, <2>3, <2>4 DEF CommandShape, CommandOwned
  <2> QED BY <2>5, <2>6 DEF CommandAt
<1>3. CASE Transcribed(s)
  <2>1. UNCHANGED <<lease, revoked, voice, teardown, target, start>> /\ end[s] = "await"
    BY <1>3 DEF Transcribed
  <2>2. slot' # s /\ mic'[s] \in {"closing", "ended"} /\ end'[s] \in {"process", "fail"}
    BY <1>0, <1>3, StartFields DEF Transcribed, Settle, Settled
  <2>3. start[s] = "done" BY <1>0, <2>1 DEF CommandShape
  <2>4. Leading(s)' <=> Leading(s) BY <2>1 DEF Leading
  <2>5. CommandShape(s)' BY <1>0, <2>1, <2>2, <2>3 DEF CommandShape, Current
  <2>6. CommandOwned(s)' BY <1>0, <2>1, <2>2, <2>3, <2>4 DEF CommandOwned
  <2> QED BY <2>5, <2>6 DEF CommandAt
<1>4. CASE EndFailed(s)
  <2>1. UNCHANGED <<lease, revoked, mic, target, slot, start>> /\ end[s] = "fail" /\ end'[s] = "clear"
        /\ CancelVoice(s)
    BY <1>4, StartFields DEF EndFailed, captureVars, hostVars
  <2>2. start[s] # "idle" /\ mic[s] # "finishing" BY <1>0, <2>1 DEF CommandShape
  <2>3. ~(s > voice.session) BY <1>0, <2>2 DEF CommandShape
  <2>4. CommandShape(s)' BY <1>0, <2>1, <2>2, <2>3, CancelOwn DEF CommandShape, Late
  <2>5. CommandOwned(s)' BY <1>0, <2>1, CancelOwn DEF CommandOwned, Opening
  <2> QED BY <2>4, <2>5 DEF CommandAt
<1>5. CASE EndClears(s)
  <2>1. /\ UNCHANGED <<lease, revoked, voice, teardown, mic, slot, start>> /\ target' # s
        /\ end[s] = "clear" /\ end'[s] = "done" /\ teardown[s] = "no"
    BY <1>0, <1>5, StartFields DEF EndClears, captureVars
  <2>2. start[s] # "idle" /\ mic[s] # "finishing" /\ ~Current(s, "Recording")
    BY <1>0, <2>1 DEF CommandShape
  <2>3. ~Opening(s) BY <2>1, <2>2 DEF Opening, Current
  <2>4. Leading(s)' <=> Leading(s) BY <2>1 DEF Leading
  <2>5. CommandShape(s)' BY <1>0, <2>1, <2>2 DEF CommandShape, Current, Late
  <2>6. CommandOwned(s)' BY <1>0, <2>1, <2>3, <2>4 DEF CommandOwned
  <2> QED BY <2>5, <2>6 DEF CommandAt
<1> QED BY <1>1, <1>2, <1>3, <1>4, <1>5

(* and so do the teardown                                                   *)
LEMMA TearDownOwn ==
    ASSUME VoiceTypeOK, NEW s \in Session, CommandAt(s), TearDown(s)
    PROVE  CommandAt(s)'
<1>0. /\ s # 0 /\ s \in Nat /\ voice.session \in Nat
      /\ CommandShape(s) /\ CommandOwned(s)
  BY SessionNumber, VoiceNumber DEF VoiceTypeOK, CommandAt
<1>1. /\ UNCHANGED <<lease, voice, start, end>> /\ teardown[s] # "no" /\ teardown'[s] = "no"
      /\ s \in revoked'
  BY DEF TearDown, taskVars, Revoke, VoiceTypeOK
<1>2. ~(s > voice.session) /\ ~Current(s, "Recording") BY <1>0, <1>1 DEF CommandShape
<1>3. CASE teardown[s] = "control"
  <2>1. HostForgets(s) BY <1>3 DEF TearDown
  <2>2. target' # s /\ slot' # s BY <1>0, <2>1 DEF HostForgets
  <2>3. \/ slot # s /\ mic'[s] = mic[s]
        \/ slot = s /\ mic'[s] = "closing"
    <3>1. CASE slot = s
      <4>1. mic[s] \in {"ready", "finishing"} BY <1>0, <3>1 DEF CommandShape
      <4> QED BY <2>1, <3>1, <4>1, StartFields DEF HostForgets
    <3>2. CASE slot # s BY <2>1, <3>2 DEF HostForgets
    <3> QED BY <3>1, <3>2
  <2>4. CommandShape(s)' BY <1>0, <1>1, <1>2, <2>2, <2>3 DEF CommandShape, Current
  <2>5. CommandOwned(s)' BY <1>1, <2>2 DEF CommandOwned
  <2> QED BY <2>4, <2>5 DEF CommandAt
<1>4. CASE teardown[s] # "control"
  <2>1. UNCHANGED <<target, slot, mic>> BY <1>4 DEF TearDown
  <2>2. CommandShape(s)' BY <1>0, <1>1, <1>2, <2>1 DEF CommandShape, Current
  <2>3. Opening(s) => Opening(s)' BY <1>1, <1>4 DEF Opening
  <2>4. CommandOwned(s)' BY <1>0, <1>1, <2>1, <2>3 DEF CommandOwned
  <2> QED BY <2>2, <2>4 DEF CommandAt
<1> QED BY <1>3, <1>4

(* and the beginning.                                                       *)
LEMMA BeginOwn ==
    ASSUME VoiceTypeOK, NEW s \in Session, CommandAt(s), Begin(s)
    PROVE  CommandAt(s)' /\ s > voice.session
<1>0. /\ s # 0 /\ s \in Nat /\ voice.session \in Nat
      /\ CommandShape(s) /\ CommandOwned(s)
  BY SessionNumber, VoiceNumber DEF VoiceTypeOK, CommandAt
<1>1. s > voice.session BY <1>0 DEF Begin, NextSession
<1>2. /\ start[s] = "idle" /\ teardown[s] = "no" /\ target # s /\ s \notin revoked /\ mic[s] = "none"
      /\ end[s] = "idle" /\ slot # s
  BY <1>0, <1>1 DEF CommandShape
<1>3. /\ start'[s] = "target" /\ lease' = s
      /\ UNCHANGED <<revoked, mic, teardown, target, slot, end>>
  BY StartFields DEF Begin, Acquire, hostVars
<1>4. voice'.session = s /\ voice'.phase = "Recording" BY DEF Begin, NewVoice
<1>5. CommandShape(s)' BY <1>0, <1>2, <1>3, <1>4 DEF CommandShape, Current, Late
<1>6. CommandOwned(s)' BY <1>2, <1>3, <1>4 DEF CommandOwned, Leading
<1> QED BY <1>1, <1>5, <1>6 DEF CommandAt

----------------------------------------------------------------------------
(* The steps of command s before and after its microphone, as the others     *)
(* see them.                                                                *)
LEMMA StartOthers ==
    ASSUME VoiceTypeOK, OneMicrophone, NEW s \in Session, CommandAt(s), StartStep(s),
           NEW u \in Session \ {s}, CommandAt(u)
    PROVE  Kept(u) /\ Leased(u) /\ Voiced(u)
<1>0. u # 0 /\ s # 0 /\ u \in Id /\ s \in Id /\ u \in Id \ {s} /\ voice \in VoiceState
  BY SessionNumber, Numbers DEF VoiceTypeOK
<1>1. UNCHANGED <<lease, revoked, end>>
  BY DEF StartStep, SetTarget, HoldResources, Bind, Opens, OpenFails, Install, Discarded,
     StartFailed, StartClears, captureVars
<1>2. start'[u] = start[u] /\ target' \in {target, s, 0}
  BY StartFields DEF StartStep, SetTarget, HoldResources, Bind, Opens, OpenFails, Install,
     Discarded, StartFailed, StartClears, hostVars
<1>3. mic'[u] = mic[u]
  BY <1>0, StartFields DEF StartStep, SetTarget, HoldResources, Bind, Opens, OpenFails, Install,
     Discarded, StartFailed, StartClears, StartSucceeds, StartFails, captureVars
<1>4. slot' = u <=> slot = u
  <2>1. CASE Install(s)
    <3>1. mic[s] = "ready" BY <2>1 DEF CommandAt, CommandShape, Install
    <3>2. lease = s BY <1>0, <3>1 DEF OneMicrophone, Holding
    <3>3. slot = u => lease = u BY <1>0 DEF OneMicrophone, Holding, CommandAt, CommandShape
    <3> QED BY <2>1, <3>2, <3>3 DEF Install
  <2>2. CASE ~Install(s)
    BY <2>2 DEF StartStep, SetTarget, HoldResources, Bind, Opens, OpenFails, Discarded,
       StartFailed, StartClears, hostVars
  <2> QED BY <2>1, <2>2
<1>5. Voiced(u)
  <2>0. LateEnd(u) BY <1>1 DEF LateEnd
  <2>1. CASE StartFailed(s) BY <2>0, <2>1, VoicedCancel DEF StartFailed
  <2>2. CASE Bind(s) /\ Current(s, "Recording")
    <3>1. voice.session = s /\ voice'.session = s /\ UNCHANGED teardown
      BY <1>0, <2>2 DEF Bind, Current, VoiceState
    <3> QED BY <1>0, <3>1 DEF Voiced, Opening, Leading, Current
  <2>3. CASE UNCHANGED <<voice, teardown>> BY <2>0, <2>3, VoicedSame
  <2> QED
    BY <2>1, <2>2, <2>3 DEF StartStep, SetTarget, HoldResources, Bind, Opens, OpenFails, Install,
       Discarded, StartClears
<1> QED BY <1>0, <1>1, <1>2, <1>3, <1>4, <1>5 DEF Kept, Leased

(* The steps that end the recording, as the others see them,                *)
LEMMA EndOthers ==
    ASSUME VoiceTypeOK, NEW s \in Session,
           \/ MarkProcessing(s) \/ TakeCapture(s) \/ Transcribed(s) \/ EndFailed(s) \/ EndClears(s),
           NEW u \in Session \ {s}
    PROVE  Kept(u) /\ Leased(u) /\ Voiced(u)
<1>0. u # 0 /\ s # 0 /\ u \in Id \ {s} /\ voice \in VoiceState
  BY SessionNumber, Numbers DEF VoiceTypeOK
<1>1. UNCHANGED <<lease, revoked, start>>
  BY DEF MarkProcessing, TakeCapture, Transcribed, EndFailed, EndClears, captureVars
<1>2. end'[u] = end[u] /\ target' \in {target, 0} /\ slot' \in {slot, IF slot = s THEN 0 ELSE slot}
  BY StartFields DEF MarkProcessing, TakeCapture, Transcribed, EndFailed, EndClears, hostVars
<1>3. mic'[u] = mic[u]
  BY <1>0, StartFields DEF MarkProcessing, TakeCapture, Transcribed, EndFailed, EndClears,
     captureVars, BeginFinish, Settle
<1>4. Voiced(u)
  <2>0. LateEnd(u) BY <1>2 DEF LateEnd
  <2>1. CASE EndFailed(s) BY <2>0, <2>1, VoicedCancel DEF EndFailed
  <2>2. CASE MarkProcessing(s)
    <3>1. voice.session = s /\ voice'.session = s /\ UNCHANGED teardown
      BY <1>0, <2>2 DEF MarkProcessing, Current, VoiceState
    <3> QED BY <1>0, <3>1 DEF Voiced, Opening, Leading, Current
  <2>3. CASE UNCHANGED <<voice, teardown>> BY <2>0, <2>3, VoicedSame
  <2> QED BY <2>1, <2>2, <2>3 DEF TakeCapture, Transcribed, EndClears
<1> QED BY <1>0, <1>1, <1>2, <1>3, <1>4 DEF Kept, Leased

(* the teardown,                                                            *)
LEMMA TearDownOthers ==
    ASSUME VoiceTypeOK, NEW s \in Session, CommandAt(s), TearDown(s), NEW u \in Session \ {s}
    PROVE  Kept(u) /\ Leased(u) /\ Voiced(u)
<1>0. u # 0 /\ s # 0 /\ u \in Id \ {s} BY SessionNumber, Numbers
<1>1. /\ UNCHANGED <<lease, voice, start, end>> /\ teardown'[u] = teardown[u]
      /\ u \in revoked' <=> u \in revoked
  BY DEF TearDown, taskVars, Revoke, VoiceTypeOK
<1>2. target' \in {target, 0} /\ slot' \in {slot, IF slot = s THEN 0 ELSE slot}
  BY DEF TearDown, HostForgets
<1>3. mic'[u] = mic[u] BY <1>0, StartFields DEF TearDown, HostForgets
<1>4. Voiced(u) BY <1>1 DEF Voiced, Opening, Leading, Current
<1> QED BY <1>0, <1>1, <1>2, <1>3, <1>4, LeasedSame DEF Kept

(* and the beginning.                                                       *)
LEMMA BeginOthers ==
    ASSUME VoiceTypeOK, NEW s \in Session, CommandAt(s), Begin(s), NEW u \in Session \ {s}
    PROVE  Kept(u) /\ Leased(u) /\ Voiced(u)
<1>1. /\ LeaseFree /\ lease' = s /\ start'[u] = start[u]
      /\ UNCHANGED <<revoked, mic, teardown, target, slot, end>>
  BY StartFields DEF Begin, Acquire, hostVars
<1>2. s > voice.session BY BeginOwn
<1>3. PICK e \in BOOLEAN : voice' = NewVoice(s, "Recording", e) BY DEF Begin
<1>4. Voiced(u) BY <1>1, <1>2, <1>3, VoicedNew DEF Begin
<1> QED BY <1>1, <1>4, LeasedSame DEF Kept

(* The steps of command s that come after its microphone.                   *)
LateStep(s) ==
    \/ Resolve(s) \/ Route(s) \/ Generated(s) \/ ConfirmDirect(s) \/ DirectApplied(s) \/ Confirm(s)
    \/ RouteStep(s)

(* They have nothing of a microphone to change.                             *)
LEMMA LateKeeps ==
    ASSUME VoiceTypeOK, NEW s \in Session, CommandAt(s), LateStep(s), NEW u \in Session
    PROVE  Kept(u) /\ Leased(u) /\ Voiced(u)
<1>0. u # 0 /\ s # 0 /\ voice \in VoiceState BY SessionNumber DEF VoiceTypeOK
<1>1. UNCHANGED <<lease, mic, teardown, slot, start>> /\ target' \in {target, 0}
  BY DEF LateStep, Resolve, Route, Generated, ConfirmDirect, DirectApplied, Confirm, RouteStep,
     RouteShows, RouteSetsMode, RouteAsks, RouteReturns, captureVars, hostVars
<1>2. end[s] \in Late
  BY DEF LateStep, Resolve, Route, Generated, ConfirmDirect, DirectApplied, Confirm, RouteStep,
     RouteShows, RouteSetsMode, RouteAsks, RouteReturns, Late, EndPc
<1>3. PICK p \in Late \cup {"fail", "clear", "done"} : EndAt(s, p)
  BY DEF LateStep, Resolve, Route, Generated, ConfirmDirect, DirectApplied, Confirm, RouteStep,
     RouteShows, RouteSetsMode, RouteAsks, RouteReturns, Late, EndPc
<1>4. LateEnd(u) BY <1>2, <1>3, StartFields DEF LateEnd
<1>5. Kept(u) BY <1>0, <1>1, <1>4 DEF Kept, LateEnd
<1>6. Dead(s) BY <1>2, LateIsDead
<1>7. CASE UNCHANGED <<voice, revoked>> BY <1>1, <1>4, <1>7, <1>5, VoicedSame, LeasedSame
<1>8. CASE (SetPreview(s, 0) \/ CompleteVoice(s))
  <2>1. voice.session = s /\ voice'.session = s /\ voice'.phase \in {"Preview", "Completed"}
        /\ revoked' = Revoke(s)
    BY <1>0, <1>8 DEF SetPreview, CompleteVoice, Current, VoiceState
  <2>2. s \in revoked' BY <2>1 DEF Revoke
  <2> QED BY <1>1, <1>4, <1>5, <1>6, <2>1, <2>2, LeasedRevoke, VoicedOwner
<1>9. CASE /\ UNCHANGED revoked /\ voice.session = s /\ voice'.session = s
           /\ voice'.phase \in {"Processing", "AwaitingIntent"}
  BY <1>1, <1>4, <1>5, <1>6, <1>9, LeasedSame, VoicedOwner
<1>10. CASE BeginApply(s, 0) /\ UNCHANGED revoked
  <2>1. voice'.session = voice.session /\ voice.phase = "Preview" /\ voice'.phase = "Applying"
    BY <1>0, <1>10 DEF BeginApply, Applyable, VoiceState
  <2> QED BY <1>1, <1>5, <1>10, <2>1, LeasedSame, VoicedRests
<1>11. CASE Resolve(s)
  <2>1. UNCHANGED revoked BY <1>11 DEF Resolve, captureVars
  <2>2. CASE UNCHANGED voice BY <1>7, <2>1, <2>2
  <2>3. CASE ~UNCHANGED voice
    <3>1. Current(s, "Processing") BY <1>11, <2>3 DEF Resolve
    <3>2. voice'.session = voice.session /\ voice'.phase \in {"AwaitingIntent", voice.phase}
      BY <1>0, <1>11, <2>3 DEF Resolve, VoiceState
    <3> QED BY <1>9, <2>1, <3>1, <3>2 DEF Current
  <2> QED BY <2>2, <2>3
<1>12. CASE Confirm(s)
  <2>1. UNCHANGED revoked /\ voice.session = s BY <1>12 DEF Confirm, captureVars, Current
  <2>2. voice'.session = voice.session /\ voice'.phase = "Processing"
    BY <1>0, <1>12 DEF Confirm, VoiceState
  <2> QED BY <1>9, <2>1, <2>2
<1>13. CASE Route(s) \/ DirectApplied(s) BY <1>7, <1>13 DEF Route, DirectApplied, captureVars
<1>14. CASE Generated(s) BY <1>7, <1>8, <1>14 DEF Generated
<1>15. CASE ConfirmDirect(s) BY <1>7, <1>10, <1>15 DEF ConfirmDirect, captureVars
<1>16. CASE RouteStep(s)
  BY <1>7, <1>8, <1>16 DEF RouteStep, RouteShows, RouteSetsMode, RouteAsks, RouteReturns, captureVars
<1> QED BY <1>11, <1>12, <1>13, <1>14, <1>15, <1>16 DEF LateStep

----------------------------------------------------------------------------
(* A session whose preview or intent is known has its microphone behind it, *)
Prepared ==
    voice.session # 0 /\ (voice.intent # "none" \/ voice.preview # {}) => Dead(voice.session)

(* and so has one a turn of the panel edits with.                           *)
Edited ==
    \A t \in Turn : turn[t].session # 0 => turn[t].session <= voice.session /\ Dead(turn[t].session)

(* The inductive invariant of the commands.                                 *)
CommandInv == Prepared /\ Edited /\ \A s \in Session : CommandAt(s)

(* The steps of nobody in particular: a cancellation by the user, a fault,  *)
(* the end of a cleanup, an insertion and its report.                       *)
LEMMA FreeKeeps ==
    ASSUME VoiceTypeOK, ConfirmInv,
           \/ UserCancels \/ \E s \in Session : RecordingFault(s)
           \/ \E i \in Id : CaptureCloses(i) \/ FindTarget(i) \/ Insert(i) \/ Report(i),
           NEW u \in Session
    PROVE  Kept(u) /\ Leased(u) /\ Voiced(u)
<1>0. u # 0 /\ u \in Id /\ voice \in VoiceState /\ voice.session \in Nat
  BY SessionNumber, VoiceNumber, Numbers DEF VoiceTypeOK
<1>1. UNCHANGED <<lease, target, slot, start, end>>
  BY DEF UserCancels, RecordingFault, CaptureCloses, Closed, FindTarget, Insert, Report, captureVars, hostVars,
     taskVars
<1>2. mic'[u] = mic[u] \/ (mic[u] = "closing" /\ mic'[u] = "ended")
  <2>1. CASE UNCHANGED mic BY <2>1
  <2>2. ASSUME NEW i \in Id, CaptureCloses(i)
        PROVE  mic'[u] = mic[u] \/ (mic[u] = "closing" /\ mic'[u] = "ended")
    BY <1>0, <2>2 DEF CaptureCloses, Closed, VoiceTypeOK, CaptureTypeOK
  <2> QED BY <2>1, <2>2 DEF UserCancels, RecordingFault, FindTarget, Insert, Report, captureVars
<1>3. Kept(u) BY <1>0, <1>1, <1>2 DEF Kept
<1>4. LateEnd(u) BY <1>1 DEF LateEnd
<1>5. ASSUME UserCancels PROVE Leased(u) /\ Voiced(u)
  BY <1>1, <1>4, <1>5, LeasedSame, VoicedCancel DEF UserCancels, captureVars
<1>6. ASSUME NEW s \in Session, RecordingFault(s) PROVE Leased(u) /\ Voiced(u)
  <2>1. /\ voice.session = s /\ voice'.session = s /\ voice'.phase = "Failed"
        /\ teardown' = Ending(s) /\ UNCHANGED revoked
    BY <1>0, <1>6 DEF RecordingFault, Current, VoiceState, captureVars
  <2> QED BY <1>1, <2>1, LeasedSame, VoicedEnds
<1>7. ASSUME NEW i \in Id, CaptureCloses(i) \/ FindTarget(i) \/ Insert(i) PROVE Leased(u) /\ Voiced(u)
  BY <1>1, <1>4, <1>7, LeasedSame, VoicedSame DEF CaptureCloses, FindTarget, Insert, captureVars
<1>8. ASSUME NEW i \in Id, Report(i) PROVE Leased(u) /\ Voiced(u)
  <2>1. CASE UNCHANGED <<voice, revoked>>
    BY <1>1, <1>4, <1>8, <2>1, LeasedSame, VoicedSame DEF Report
  <2>2. CASE ~UNCHANGED <<voice, revoked>>
    <3>1. voice.ticket = i BY <1>8, <2>2 DEF Report
    <3>2. voice.phase = "Applying" BY <3>1, Numbers DEF ConfirmInv, Pending, TicketOpen
    <3>3. /\ voice'.session = voice.session /\ voice'.phase \in {"Completed", "Preview"}
          /\ revoked' = revoked \/ revoked' = Revoke(voice.session)
          /\ UNCHANGED teardown
      BY <1>0, <1>8, <2>2 DEF Report, VoiceState
    <3>4. Voiced(u) BY <3>2, <3>3, VoicedRests
    <3> QED BY <1>1, <3>3, <3>4, LeasedSame, LeasedRevoke
  <2> QED BY <2>1, <2>2
<1> QED BY <1>3, <1>5, <1>6, <1>7, <1>8

----------------------------------------------------------------------------
(* A microphone of a turn is not the one of a command.                      *)
LEMMA MicElsewhere ==
    ASSUME CaptureTypeOK, TurnTypes, NEW t \in Turn,
           \/ mic' = mic \/ mic' = CancelMic(t) \/ RuntimeCancel(t)
           \/ \E m : mic' = [mic EXCEPT ![t] = m],
           NEW u \in Session
    PROVE  mic'[u] = mic[u]
<1>1. t \in Id /\ u \in Id \ {t} BY Numbers
<1> QED BY <1>1, MicFields, CancelFields

(* What the calls of the panel leave of the commands.                       *)
LEMMA QuietKeeps ==
    ASSUME UNCHANGED <<voice, teardown, slot, start, end>>, target' \in {target, 0},
           lease' = lease \/ (LeaseFree /\ lease' \in Turn),
           NEW u \in Session, mic'[u] = mic[u], u \in revoked' <=> u \in revoked
    PROVE  Kept(u) /\ Leased(u) /\ Voiced(u)
<1>1. u # 0 /\ u \notin Turn BY Numbers
<1>2. LateEnd(u) BY DEF LateEnd
<1> QED BY <1>1, <1>2, VoicedSame, LeasedSame DEF Kept

(* The calls that open a microphone of a turn,                              *)
LEMMA BeginQuiet ==
    ASSUME VoiceTypeOK, Fields, NEW t \in Turn,
           BeginRecording(t) \/ BeginStep(t) \/ FaultStep(t) \/ FinishRecording(t) \/ TypeQuestion(t),
           NEW u \in Session
    PROVE  /\ UNCHANGED <<voice, teardown, target, slot, start, end>>
           /\ lease' = lease \/ (LeaseFree /\ lease' \in Turn)
           /\ mic'[u] = mic[u] /\ (u \in revoked' <=> u \in revoked)
<1>0. CaptureTypeOK /\ TurnTypes /\ u # t BY Numbers DEF VoiceTypeOK, Fields
<1>1. CASE BeginRecording(t)
  BY <1>1 DEF BeginRecording, Acquire, commandVars, hostVars, taskVars
<1>2. CASE TypeQuestion(t) \/ FinishRecording(t)
  BY <1>2 DEF TypeQuestion, FinishRecording, voiceVars, captureVars, hostVars, taskVars
<1>3. CASE BeginStep(t)
  <2>1. UNCHANGED <<voice, teardown, target, slot, start, end, lease>>
    BY <1>3 DEF BeginStep, ShowRecording, Register, SelectionCaptured, QaOpens, QaInstalls, Arm,
       QaDiscarded, BeginFails, BeginSweeps, voiceVars, commandVars, captureVars, hostVars, taskVars
  <2>2. revoked' = revoked \/ revoked' = Revoke(t)
    BY <1>3 DEF BeginStep, ShowRecording, Register, SelectionCaptured, QaOpens, QaInstalls, Arm,
       QaDiscarded, BeginFails, BeginSweeps, voiceVars, captureVars
  <2>3. \/ mic' = mic \/ mic' = CancelMic(t) \/ RuntimeCancel(t)
        \/ \E m : mic' = [mic EXCEPT ![t] = m]
    BY <1>3 DEF BeginStep, ShowRecording, Register, SelectionCaptured, QaOpens, QaInstalls, Arm,
       QaDiscarded, BeginFails, BeginSweeps, voiceVars, captureVars, StartSucceeds, StartFails
  <2> QED BY <1>0, <2>1, <2>2, <2>3, MicElsewhere DEF Revoke
<1>4. CASE FaultStep(t)
  <2>1. UNCHANGED <<voice, teardown, target, slot, start, end, lease>>
    BY <1>4 DEF FaultStep, FaultStarts, FaultFails, FaultSweeps, voiceVars, commandVars, captureVars,
       hostVars, taskVars
  <2>2. (revoked' = revoked \/ revoked' = Revoke(t)) /\ (mic' = mic \/ RuntimeCancel(t))
    BY <1>4 DEF FaultStep, FaultStarts, FaultFails, FaultSweeps, voiceVars, captureVars
  <2> QED BY <1>0, <2>1, <2>2, MicElsewhere DEF Revoke
<1> QED BY <1>1, <1>2, <1>3, <1>4

(* and those that answer it.                                                *)
LEMMA AskQuiet ==
    ASSUME VoiceTypeOK, Fields, NEW t \in Turn, AskStep(t), NEW u \in Session
    PROVE  /\ UNCHANGED <<lease, slot, start, end>> /\ mic'[u] = mic[u]
           /\ ~BindTarget(t) => UNCHANGED target
           /\ ~EditGenerated(t) => (u \in revoked' <=> u \in revoked)
           /\ EditPreview(t) \/ EditGenerated(t) \/ AskClears(t) \/ UNCHANGED <<voice, teardown>>
<1>0. CaptureTypeOK /\ TurnTypes /\ u # t BY Numbers DEF VoiceTypeOK, Fields
<1>1. CASE StopMicrophone(t) \/ QuestionHeard(t) \/ ContextCaptured(t) \/ AskSweeps(t)
  <2>1. UNCHANGED <<voice, teardown, target, slot, start, end, lease, revoked>>
    BY <1>1 DEF StopMicrophone, QuestionHeard, ContextCaptured, AskSweeps, commandVars, hostVars,
       taskVars
  <2>2. mic' = mic \/ RuntimeCancel(t) \/ \E m : mic' = [mic EXCEPT ![t] = m]
    BY <1>1 DEF StopMicrophone, QuestionHeard, ContextCaptured, AskSweeps, BeginFinish, Settle
  <2> QED BY <1>0, <2>1, <2>2, MicElsewhere
<1>2. CASE ShowQuestion(t) \/ Prepare(t) \/ CheckCurrent(t) \/ PushQuestion(t) \/ Answered(t)
           \/ Revised(t) \/ CompleteRuntime(t) \/ SettleAnswer(t) \/ AskFails(t)
  BY <1>2 DEF ShowQuestion, Prepare, CheckCurrent, PushQuestion, Answered, Revised,
     CompleteRuntime, SettleAnswer, AskFails, voiceVars, captureVars, hostVars, taskVars
<1>3. CASE AskReleases(t)
  <2>1. UNCHANGED <<voice, teardown, target, slot, start, end, lease, mic>>
    BY <1>3 DEF AskReleases, commandVars, hostVars, taskVars
  <2>2. revoked' = revoked \/ revoked' = Revoke(t) BY <1>3 DEF AskReleases
  <2> QED BY <1>0, <2>1, <2>2 DEF Revoke
<1>4. CASE EditPreview(t) \/ AskClears(t)
  BY <1>4 DEF EditPreview, AskClears, captureVars, hostVars, taskVars
<1>5. CASE EditGenerated(t) BY <1>5 DEF EditGenerated, hostVars, taskVars
<1>6. CASE BindTarget(t) BY <1>6 DEF BindTarget, captureVars, taskVars
<1> QED BY <1>1, <1>2, <1>3, <1>4, <1>5, <1>6 DEF AskStep

----------------------------------------------------------------------------
(* The session begun by an edit is the next one.                            *)
LEMMA EditSession ==
    ASSUME VoiceTypeOK, PanelTypes, SessionLeft
    PROVE  NextSession \in Session /\ NextSession > voice.session
<1>0. voice \in VoiceState BY DEF VoiceTypeOK
<1>1. voice.session \in Session \cup {0} BY <1>0, VoiceNumber
<1>2. budget.sessions \in 0..MaxSession BY QaAssumption DEF PanelTypes
<1>3. NextSession <= MaxTurn + MaxSession
  <2>1. MaxTurn \in Nat /\ MaxSession \in Nat BY BoundsAssumption
  <2>2. NextSession \in Nat BY <1>0, <2>1, VoiceNumber DEF NextSession
  <2>3. NextSession <= MaxTurn + budget.sessions BY DEF SessionLeft
  <2> QED BY <1>2, <2>1, <2>2, <2>3
<1> QED BY <1>1, <1>3, NextIsSession

(* A step of the panel as command u sees it, or the edit that begins it.    *)
LEMMA EditBegins ==
    ASSUME VoiceTypeOK, NEW u \in Session, CommandAt(u), u > voice.session,
           NEW p, p # "Recording", NEW e, voice' = NewVoice(u, p, e),
           UNCHANGED <<captureVars, teardown, hostVars, start, end>>
    PROVE  CommandAt(u)' /\ Dead(u)'
<1>0. u # 0 /\ u \in Nat /\ voice'.session = u /\ voice'.phase = p
  BY SessionNumber DEF NewVoice
<1>1. /\ start[u] = "idle" /\ teardown[u] = "no" /\ target # u /\ u \notin revoked
      /\ mic[u] = "none" /\ lease # u /\ end[u] = "idle" /\ slot # u
  BY DEF CommandAt, CommandShape
<1>2. UNCHANGED <<lease, revoked, mic, teardown, target, slot, start, end>>
  BY DEF captureVars, hostVars
<1>3. CommandShape(u)' BY <1>0, <1>1, <1>2 DEF CommandShape, Current, Late
<1>4. CommandOwned(u)' BY <1>1, <1>2 DEF CommandOwned
<1> QED BY <1>1, <1>2, <1>3, <1>4 DEF CommandAt, Dead

(* The end of a dismissal may cancel the session of its preview.            *)
LEMMA ClearKeeps ==
    ASSUME VoiceTypeOK, NEW o, ClearPreview(o) \/ UNCHANGED <<voice, teardown>>,
           UNCHANGED <<captureVars, hostVars, start, end>>, NEW u \in Session
    PROVE  Kept(u) /\ Leased(u) /\ Voiced(u)
<1>1. UNCHANGED <<lease, revoked, mic, target, slot, start, end>> BY DEF captureVars, hostVars
<1>2. Kept(u) /\ Leased(u) /\ LateEnd(u) BY <1>1, LeasedSame DEF Kept, LateEnd
<1>3. Voiced(u)
  <2>1. CancelVoice(voice.session) \/ UNCHANGED <<voice, teardown>> BY DEF ClearPreview
  <2> QED BY <1>2, <2>1, VoicedCancel, VoicedSame
<1> QED BY <1>2, <1>3

(* The calls that answer a turn keep the invariant of the commands,         *)
LEMMA AskKeeps ==
    ASSUME VoiceTypeOK, Fields, Named, CommandInv, NEW t \in Turn, AskStep(t), NEW u \in Session,
           ~(EditPreview(t) /\ ~UNCHANGED voice /\ u = NextSession)
    PROVE  Kept(u) /\ Leased(u) /\ Voiced(u)
<1>0. /\ u # 0 /\ u \in Nat /\ voice \in VoiceState /\ voice.session \in Nat
      /\ turn[t].session \in Session \cup {0} /\ TurnTypes
  BY SessionNumber, VoiceNumber DEF VoiceTypeOK, Fields, TurnTypes, TurnType
<1>1. UNCHANGED <<lease, slot, start, end>> /\ mic'[u] = mic[u] BY AskQuiet
<1>2. LateEnd(u) BY <1>1 DEF LateEnd
<1>3. turn[t].session # 0 => turn[t].session <= voice.session /\ Dead(turn[t].session)
  BY DEF CommandInv, Edited
<1>4. CASE BindTarget(t)
  <2>1. UNCHANGED <<voice, teardown, revoked>> /\ target' \in {target, turn[t].session}
    BY <1>4 DEF BindTarget, captureVars
  <2>2. target' = u => target = u \/ (Dead(u) /\ u <= voice.session) BY <1>0, <1>3, <2>1
  <2> QED BY <1>1, <1>2, <2>1, <2>2, VoicedSame, LeasedSame DEF Kept
<1>5. CASE EditGenerated(t)
  <2>1. Kept(u) BY <1>1, <1>5, AskQuiet DEF Kept, EditGenerated, hostVars
  <2>2. CASE UNCHANGED <<voice, teardown>> /\ UNCHANGED revoked
    BY <1>1, <1>2, <2>1, <2>2, VoicedSame, LeasedSame
  <2>3. CASE CancelVoice(turn[t].session) /\ UNCHANGED revoked
    BY <1>1, <1>2, <2>1, <2>3, VoicedCancel, LeasedSame
  <2>4. CASE SetPreview(turn[t].session, turn[t].owner) /\ UNCHANGED teardown
    <3> DEFINE w == turn[t].session
    <3>1. /\ voice.session = w /\ voice'.session = w /\ voice'.phase = "Preview"
          /\ revoked' = Revoke(w) /\ w # 0
      BY <1>0, <2>4 DEF SetPreview, Current, VoiceState, Named
    <3>2. w \in revoked' /\ Dead(w) BY <1>3, <3>1 DEF Revoke
    <3>3. Voiced(u) BY <1>2, <2>4, <3>1, <3>2, VoicedOwner
    <3> QED BY <1>1, <2>1, <3>1, <3>3, LeasedRevoke
  <2> QED BY <1>5, <2>2, <2>3, <2>4 DEF EditGenerated
<1>6. CASE AskClears(t)
  <2>1. ClearPreview(turn[t].owner) \/ UNCHANGED <<voice, teardown>> BY <1>6 DEF AskClears
  <2>2. UNCHANGED <<captureVars, hostVars, start, end>> BY <1>6 DEF AskClears, taskVars
  <2> QED BY <2>1, <2>2, ClearKeeps
<1>7. CASE EditPreview(t)
  <2>1. UNCHANGED <<revoked, target, teardown>> BY <1>7 DEF EditPreview, captureVars, hostVars
  <2>2. CASE UNCHANGED voice
    BY <1>1, <1>2, <2>1, <2>2, VoicedSame, LeasedSame DEF Kept
  <2>3. CASE ~UNCHANGED voice
    <3>1. /\ voice' = NewVoice(NextSession, "Processing", FALSE) /\ voice.phase \in Resting
          /\ SessionLeft
      BY <1>7, <2>3 DEF EditPreview
    <3>2. NextSession \in Session /\ NextSession > voice.session /\ u # NextSession
      BY <1>7, <2>3, <3>1, EditSession DEF Fields
    <3>3. Voiced(u) BY <2>1, <3>1, <3>2, VoicedNew
    <3> QED BY <1>1, <2>1, <3>3, LeasedSame DEF Kept
  <2> QED BY <2>2, <2>3
<1>8. CASE ~(BindTarget(t) \/ EditGenerated(t) \/ AskClears(t) \/ EditPreview(t))
  BY <1>1, <1>8, AskQuiet, QuietKeeps
<1> QED BY <1>4, <1>5, <1>6, <1>7, <1>8

----------------------------------------------------------------------------
(* the dismissals do,                                                       *)
LEMMA CloseKeeps ==
    ASSUME VoiceTypeOK, Fields, NEW c \in Close, CloseStep(c), NEW u \in Session
    PROVE  Kept(u) /\ Leased(u) /\ Voiced(u)
<1>0. /\ CaptureTypeOK /\ TurnTypes /\ u \notin Turn /\ u # 0
      /\ close[c].release \in Turn \cup {0} /\ close[c].runtime \in Turn \cup {0}
  BY Numbers DEF VoiceTypeOK, Fields, TurnTypes, CloseType
<1>1. CASE CloseHides(c)
  <2>1. UNCHANGED <<lease, mic, voice, teardown, target, slot, start, end>>
    BY <1>1 DEF CloseHides, commandVars, hostVars, taskVars
  <2>2. revoked' = revoked \/ revoked' = Revoke(close[c].release) BY <1>1 DEF CloseHides
  <2>3. u \in revoked' <=> u \in revoked BY <1>0, <2>2 DEF Revoke
  <2> QED BY <2>1, <2>3, QuietKeeps
<1>2. CASE CloseCancelsRuntime(c)
  <2>1. UNCHANGED <<lease, revoked, voice, teardown, target, slot, start, end>>
    BY <1>2 DEF CloseCancelsRuntime, commandVars, hostVars, taskVars
  <2>2. mic' = mic \/ (close[c].runtime \in Turn /\ RuntimeCancel(close[c].runtime))
    BY <1>0, <1>2 DEF CloseCancelsRuntime
  <2>3. mic'[u] = mic[u] BY <1>0, <2>2, MicElsewhere
  <2> QED BY <2>1, <2>3, QuietKeeps
<1>3. CASE CloseClearsPreview(c)
  <2>1. UNCHANGED <<captureVars, hostVars, start, end>> BY <1>3 DEF CloseClearsPreview, taskVars
  <2>2. ClearPreview(close[c].owner) \/ UNCHANGED <<voice, teardown>>
    BY <1>3 DEF CloseClearsPreview
  <2> QED BY <2>1, <2>2, ClearKeeps
<1> QED BY <1>1, <1>2, <1>3 DEF CloseStep

(* and so do the steps of the panel.                                        *)
LEMMA PanelKeeps ==
    ASSUME VoiceTypeOK, Fields, Named, CommandInv, PanelStep, NEW u \in Session,
           ~\E t \in Turn : EditPreview(t) /\ ~UNCHANGED voice /\ u = NextSession
    PROVE  Kept(u) /\ Leased(u) /\ Voiced(u)
<1> DEFINE Goal == Kept(u) /\ Leased(u) /\ Voiced(u)
<1>0. u # 0 /\ voice \in VoiceState /\ \A s \in Session : CommandAt(s)
  BY SessionNumber DEF VoiceTypeOK, CommandInv
<1>1. ASSUME NEW t \in Turn,
             BeginRecording(t) \/ BeginStep(t) \/ FaultStep(t) \/ FinishRecording(t) \/ TypeQuestion(t)
      PROVE  Goal
  BY <1>1, BeginQuiet, QuietKeeps
<1>2. ASSUME NEW t \in Turn, AskStep(t) PROVE Goal BY <1>2, AskKeeps
<1>3. ASSUME NEW t \in Turn, ConfirmEdit(t) PROVE Goal
  <2>1. /\ UNCHANGED <<lease, revoked, mic, teardown, target, slot, start, end>>
        /\ BeginApply(t, qa.conversation)
    BY <1>3 DEF ConfirmEdit, captureVars, hostVars
  <2>2. voice.phase = "Preview" /\ voice'.phase = "Applying" /\ voice'.session = voice.session
    BY <1>0, <2>1 DEF BeginApply, Applyable, VoiceState
  <2> QED BY <2>1, <2>2, VoicedRests, LeasedSame DEF Kept
<1>4. ASSUME NEW t \in Turn, EditApplied(t) PROVE Goal
  BY <1>4, QuietKeeps DEF EditApplied, captureVars
<1>5. ASSUME \/ \E t \in Turn : AppliedEditCloses(t)
             \/ \E c \in UserClose : UserCloses(c)
             \/ Show \/ ToggleEditMode
      PROVE  Goal
  BY <1>5, QuietKeeps
  DEF AppliedEditCloses, UserCloses, Show, ToggleEditMode, voiceVars, captureVars, hostVars, taskVars
<1>6. ASSUME NEW c \in Close, CloseStep(c) PROVE Goal BY <1>6, CloseKeeps
<1>7. ASSUME NEW s \in Session, RouteStep(s) PROVE Goal BY <1>0, <1>7, LateKeeps DEF LateStep
<1> HIDE DEF Goal
<1>8. Goal BY <1>1, <1>2, <1>3, <1>4, <1>5, <1>6, <1>7 DEF PanelStep
<1> QED BY <1>8 DEF Goal

----------------------------------------------------------------------------
(* The steps of others leave a microphone that is closed alone.             *)
LEMMA KeptDead ==
    ASSUME NEW u \in Session, Kept(u), Dead(u)
    PROVE  Dead(u)'
BY DEF Kept, Dead

(* What a microphone and a start have behind them stays behind them.        *)
LEMMA OwnDead ==
    ASSUME VoiceTypeOK, NEW s \in Session, Dead(s),
           \/ StartStep(s) \/ MarkProcessing(s) \/ TakeCapture(s) \/ Transcribed(s)
           \/ EndFailed(s) \/ EndClears(s) \/ TearDown(s)
    PROVE  Dead(s)'
<1>1. CASE StartStep(s)
  BY <1>1 DEF Dead, StartStep, SetTarget, HoldResources, Bind, Opens, OpenFails, Install, Discarded,
     StartFailed, StartClears
<1>2. CASE MarkProcessing(s) \/ TakeCapture(s) \/ EndFailed(s) \/ EndClears(s)
  <2>1. UNCHANGED <<mic, start>>
    BY <1>2 DEF Dead, MarkProcessing, TakeCapture, EndFailed, EndClears, captureVars
  <2> QED BY <2>1 DEF Dead
<1>3. CASE Transcribed(s)
  <2>1. UNCHANGED start BY <1>3 DEF Transcribed
  <2>2. mic'[s] \in {"closing", "ended"}
    BY <1>3, StartFields DEF Transcribed, Settle, Settled, Dead
  <2> QED BY <2>1, <2>2 DEF Dead
<1>4. CASE TearDown(s)
  <2>1. UNCHANGED start BY <1>4 DEF TearDown, taskVars
  <2>2. mic' = mic \/ mic' = CancelMic(s) BY <1>4 DEF TearDown, HostForgets
  <2>3. mic'[s] \in {"none", "closing", "ended"} BY <2>2, StartFields DEF Dead
  <2> QED BY <2>1, <2>3 DEF Dead
<1> QED BY <1>1, <1>2, <1>3, <1>4

(* Every step keeps the invariant of every command.                         *)
LEMMA CommandKeeps ==
    ASSUME VoiceTypeOK, VoiceTypeOK', Fields, ConfirmInv, OneMicrophone, CommandInv,
           PanelStep \/ CommandStep \/ UNCHANGED voiceVars, NEW u \in Session
    PROVE  CommandAt(u)' /\ (u <= voice.session /\ Dead(u) => Dead(u)')
<1> DEFINE Goal == CommandAt(u)' /\ (u <= voice.session /\ Dead(u) => Dead(u)')
<1>0. /\ u \in Nat /\ voice.session \in Nat /\ Named
      /\ \A s \in Session : CommandAt(s)
  BY SessionNumber, VoiceNumber DEF VoiceTypeOK, CommandInv, ConfirmInv
<1>1. ASSUME Kept(u), Leased(u), Voiced(u) PROVE Goal BY <1>0, <1>1, CommandFrame, KeptDead
<1>2. ASSUME UNCHANGED voiceVars PROVE Goal
  BY <1>1, <1>2, QuietKeeps DEF voiceVars, captureVars, hostVars, taskVars
<1>3. ASSUME PanelStep PROVE Goal
  <2>1. CASE \E t \in Turn : EditPreview(t) /\ ~UNCHANGED voice /\ u = NextSession
    <3>1. PICK t \in Turn : EditPreview(t) /\ ~UNCHANGED voice /\ u = NextSession BY <2>1
    <3>2. /\ voice' = NewVoice(u, "Processing", FALSE) /\ SessionLeft
          /\ UNCHANGED <<captureVars, teardown, hostVars, start, end>>
      BY <3>1 DEF EditPreview, taskVars
    <3>3. u > voice.session BY <3>1, <3>2, EditSession DEF Fields
    <3> QED BY <1>0, <3>2, <3>3, EditBegins
  <2>2. CASE ~\E t \in Turn : EditPreview(t) /\ ~UNCHANGED voice /\ u = NextSession
    BY <1>0, <1>1, <1>3, <2>2, PanelKeeps
  <2> QED BY <2>1, <2>2
<1>4. ASSUME NEW s \in Session, Begin(s) PROVE Goal
  <2>1. CASE s = u
    <3>1. CommandAt(u)' /\ u > voice.session BY <1>0, <1>4, <2>1, BeginOwn
    <3>2. ~(u <= voice.session) BY <1>0, <3>1
    <3> QED BY <3>1, <3>2
  <2>2. CASE s # u BY <1>0, <1>1, <1>4, <2>2, BeginOthers
  <2> QED BY <2>1, <2>2
<1>5. ASSUME NEW s \in Session, StartStep(s) PROVE Goal
  <2>1. CASE s = u BY <1>0, <1>5, <2>1, StartOwn, OwnDead
  <2>2. CASE s # u BY <1>0, <1>1, <1>5, <2>2, StartOthers
  <2> QED BY <2>1, <2>2
<1>6. ASSUME NEW s \in Session,
             \/ MarkProcessing(s) \/ TakeCapture(s) \/ Transcribed(s) \/ EndFailed(s) \/ EndClears(s)
      PROVE Goal
  <2>1. CASE s = u BY <1>0, <1>6, <2>1, EndOwn, OwnDead
  <2>2. CASE s # u BY <1>0, <1>1, <1>6, <2>2, EndOthers
  <2> QED BY <2>1, <2>2
<1>7. ASSUME NEW s \in Session, TearDown(s) PROVE Goal
  <2>1. CASE s = u BY <1>0, <1>7, <2>1, TearDownOwn, OwnDead
  <2>2. CASE s # u BY <1>0, <1>1, <1>7, <2>2, TearDownOthers
  <2> QED BY <2>1, <2>2
<1>8. ASSUME NEW s \in Session, LateStep(s) PROVE Goal BY <1>0, <1>1, <1>8, LateKeeps
<1>9. ASSUME \/ UserCancels \/ \E s \in Session : RecordingFault(s)
             \/ \E i \in Id : CaptureCloses(i) \/ FindTarget(i) \/ Insert(i) \/ Report(i)
      PROVE Goal
  BY <1>1, <1>9, FreeKeeps
<1> HIDE DEF Goal
<1>10. ASSUME CommandStep PROVE Goal
  BY <1>4, <1>5, <1>6, <1>7, <1>8, <1>9, <1>10 DEF CommandStep, EndStep, LateStep
<1>11. Goal BY <1>2, <1>3, <1>10
<1> QED BY <1>11 DEF Goal

----------------------------------------------------------------------------
(* The intent and the preview of a session come after its microphone.       *)
VoiceMoves ==
    \/ /\ voice'.session = voice.session
       /\ \/ Dead(voice.session)
          \/ voice'.intent = voice.intent /\ voice'.preview \subseteq voice.preview
    \/ voice'.session > voice.session /\ voice'.intent = "none" /\ voice'.preview = {}

(* A cancellation,                                                          *)
LEMMA CancelMoves ==
    ASSUME VoiceTypeOK, NEW w, CancelVoice(w) \/ ClearPreview(w)
    PROVE  VoiceMoves
<1>1. voice \in VoiceState BY DEF VoiceTypeOK
<1>2. CASE UNCHANGED voice BY <1>2 DEF VoiceMoves
<1>3. CASE voice' = [voice EXCEPT !.phase = "Cancelled", !.preview = {}, !.ticket = 0,
                                  !.control = FALSE]
  <2>1. /\ voice'.session = voice.session /\ voice'.intent = voice.intent /\ voice'.preview = {}
    BY <1>1, <1>3 DEF VoiceState
  <2> QED BY <2>1 DEF VoiceMoves
<1> QED BY <1>2, <1>3 DEF CancelVoice, ClearPreview

(* a new session,                                                           *)
LEMMA NewMoves ==
    ASSUME NEW n, n > voice.session, NEW p, NEW e, voice' = NewVoice(n, p, e)
    PROVE  VoiceMoves
<1>1. voice'.session = n /\ voice'.intent = "none" /\ voice'.preview = {} BY DEF NewVoice
<1> QED BY <1>1 DEF VoiceMoves

(* the steps of the commands,                                               *)
LEMMA CommandMoves ==
    ASSUME VoiceTypeOK, CommandInv, CommandStep
    PROVE  VoiceMoves
<1>0. voice \in VoiceState /\ \A s \in Session : CommandAt(s) BY DEF VoiceTypeOK, CommandInv
<1>1. ASSUME UNCHANGED voice PROVE VoiceMoves BY <1>1 DEF VoiceMoves
<1>2. ASSUME NEW s \in Session, Begin(s) PROVE VoiceMoves
  BY <1>0, <1>2, BeginOwn, NewMoves DEF Begin
<1>3. ASSUME voice'.session = voice.session, voice'.intent = voice.intent,
             voice'.preview \subseteq voice.preview
      PROVE VoiceMoves
  BY <1>3 DEF VoiceMoves
<1>4. ASSUME NEW s \in Session, StartStep(s) PROVE VoiceMoves
  <2>1. CASE StartFailed(s) BY <2>1, CancelMoves DEF StartFailed
  <2>2. CASE Bind(s)
    <3>1. CASE UNCHANGED voice BY <1>1, <3>1
    <3>2. CASE voice' = [voice EXCEPT !.control = TRUE]
      <4>1. /\ voice'.session = voice.session /\ voice'.intent = voice.intent
            /\ voice'.preview = voice.preview
        BY <1>0, <3>2 DEF VoiceState
      <4> QED BY <1>3, <4>1
    <3> QED BY <2>2, <3>1, <3>2 DEF Bind
  <2>3. CASE ~StartFailed(s) /\ ~Bind(s)
    BY <1>1, <1>4, <2>3 DEF StartStep, SetTarget, HoldResources, Opens, OpenFails, Install,
       Discarded, StartClears
  <2> QED BY <2>1, <2>2, <2>3
<1>5. ASSUME NEW s \in Session, MarkProcessing(s) \/ RecordingFault(s) PROVE VoiceMoves
  <2>1. /\ voice'.session = voice.session /\ voice'.intent = voice.intent
        /\ voice'.preview = voice.preview
    BY <1>0, <1>5 DEF MarkProcessing, RecordingFault, VoiceState
  <2> QED BY <1>3, <2>1
<1>6. ASSUME NEW s \in Session, end[s] \in Late, voice.session = s, voice'.session = voice.session
      PROVE  VoiceMoves
  BY <1>0, <1>6, LateIsDead DEF VoiceMoves
<1>7. ASSUME NEW s \in Session, Resolve(s) \/ Confirm(s) \/ Generated(s) PROVE VoiceMoves
  <2>1. CASE UNCHANGED voice BY <1>1, <2>1
  <2>2. CASE ~UNCHANGED voice
    <3>1. end[s] \in Late BY <1>7 DEF Resolve, Confirm, Generated, Late, EndPc
    <3>2. voice.session = s /\ voice'.session = voice.session
      BY <1>0, <1>7, <2>2 DEF Resolve, Confirm, Generated, SetPreview, Current, VoiceState
    <3> QED BY <1>6, <3>1, <3>2
  <2> QED BY <2>1, <2>2
<1>8. ASSUME NEW i, NEW o, BeginApply(i, o) PROVE VoiceMoves
  <2>1. /\ voice'.session = voice.session /\ voice'.intent = voice.intent
        /\ voice'.preview = voice.preview
    BY <1>0, <1>8 DEF BeginApply, VoiceState
  <2> QED BY <1>3, <2>1
<1>9. ASSUME NEW i \in Id, Report(i) PROVE VoiceMoves
  <2>1. /\ voice'.session = voice.session /\ voice'.intent = voice.intent
        /\ voice'.preview \subseteq voice.preview
    BY <1>0, <1>9 DEF Report, VoiceState
  <2> QED BY <1>3, <2>1
<1>10. ASSUME NEW s \in Session, EndStep(s) PROVE VoiceMoves
  <2>1. CASE EndFailed(s) BY <2>1, CancelMoves DEF EndFailed
  <2>2. CASE ConfirmDirect(s) BY <1>1, <1>8, <2>2 DEF ConfirmDirect
  <2>3. CASE TakeCapture(s) \/ Transcribed(s) \/ Route(s) \/ EndClears(s) \/ DirectApplied(s)
    BY <1>1, <2>3 DEF TakeCapture, Transcribed, Route, EndClears, DirectApplied
  <2> QED BY <1>7, <1>10, <2>1, <2>2, <2>3 DEF EndStep
<1>11. ASSUME UserCancels PROVE VoiceMoves BY <1>11, CancelMoves DEF UserCancels
<1>12. ASSUME \/ \E s \in Session : TearDown(s)
              \/ \E i \in Id : CaptureCloses(i) \/ FindTarget(i) \/ Insert(i)
       PROVE VoiceMoves
  BY <1>1, <1>12 DEF TearDown, CaptureCloses, FindTarget, Insert
<1> QED
  BY <1>2, <1>4, <1>5, <1>7, <1>9, <1>10, <1>11, <1>12 DEF CommandStep

(* and those of the panel.                                                  *)
LEMMA PanelMoves ==
    ASSUME VoiceTypeOK, Fields, Named, CommandInv, PanelStep
    PROVE  VoiceMoves
<1>0. voice \in VoiceState /\ voice.session # 0 <=> voice.session \in Session
  BY VoiceForms, SessionNumber DEF VoiceTypeOK
<1>1. ASSUME UNCHANGED voice PROVE VoiceMoves BY <1>1 DEF VoiceMoves
<1>2. ASSUME NEW t \in Turn, AskStep(t) PROVE VoiceMoves
  <2>1. turn[t].session # 0 => turn[t].session <= voice.session /\ Dead(turn[t].session)
    BY DEF CommandInv, Edited
  <2>2. CASE EditPreview(t)
    <3>1. CASE UNCHANGED voice BY <1>1, <3>1
    <3>2. CASE ~UNCHANGED voice
      <4>1. voice' = NewVoice(NextSession, "Processing", FALSE) /\ SessionLeft
        BY <2>2, <3>2 DEF EditPreview
      <4> QED BY <4>1, EditSession, NewMoves DEF Fields
    <3> QED BY <3>1, <3>2
  <2>3. CASE EditGenerated(t)
    <3>1. CASE SetPreview(turn[t].session, turn[t].owner)
      <4>1. voice.session = turn[t].session /\ voice.session # 0 /\ voice'.session = voice.session
        BY <1>0, <3>1 DEF SetPreview, Current, Named, VoiceState
      <4> QED BY <2>1, <4>1 DEF VoiceMoves
    <3> QED BY <1>1, <2>3, <3>1, CancelMoves DEF EditGenerated
  <2>4. CASE AskClears(t) BY <1>1, <2>4, CancelMoves DEF AskClears
  <2>5. CASE ~(EditPreview(t) \/ EditGenerated(t) \/ AskClears(t))
    BY <1>1, <1>2, <2>5
    DEF AskStep, StopMicrophone, QuestionHeard, ShowQuestion, Prepare, ContextCaptured, CheckCurrent,
        PushQuestion, Answered, Revised, BindTarget, CompleteRuntime, SettleAnswer, AskFails,
        AskSweeps, AskReleases, voiceVars, commandVars
  <2> QED BY <2>2, <2>3, <2>4, <2>5
<1>3. ASSUME NEW t \in Turn, ConfirmEdit(t) PROVE VoiceMoves
  <2>1. BeginApply(t, qa.conversation) BY <1>3 DEF ConfirmEdit
  <2>2. /\ voice'.session = voice.session /\ voice'.intent = voice.intent
        /\ voice'.preview = voice.preview
    BY <1>0, <2>1 DEF BeginApply, VoiceState
  <2> QED BY <2>2 DEF VoiceMoves
<1>4. ASSUME NEW c \in Close, CloseStep(c) PROVE VoiceMoves
  BY <1>1, <1>4, CancelMoves
  DEF CloseStep, CloseHides, CloseCancelsRuntime, CloseClearsPreview, commandVars
<1>5. ASSUME NEW s \in Session, RouteStep(s) PROVE VoiceMoves
  <2>1. CASE CompleteVoice(s)
    <3>1. /\ voice'.session = voice.session /\ voice'.intent = voice.intent /\ voice'.preview = {}
      BY <1>0, <2>1 DEF CompleteVoice, VoiceState
    <3> QED BY <3>1 DEF VoiceMoves
  <2> QED BY <1>1, <1>5, <2>1 DEF RouteStep, RouteShows, RouteSetsMode, RouteAsks, RouteReturns
<1>6. ASSUME NEW t \in Turn,
             BeginRecording(t) \/ BeginStep(t) \/ FaultStep(t) \/ FinishRecording(t) \/ TypeQuestion(t)
      PROVE  VoiceMoves
  BY <1>1, <1>6
  DEF BeginRecording, BeginStep, ShowRecording, Register, SelectionCaptured, QaOpens, QaInstalls, Arm,
      QaDiscarded, BeginFails, BeginSweeps, FaultStep, FaultStarts, FaultFails, FaultSweeps,
      FinishRecording, TypeQuestion, voiceVars, commandVars
<1>7. ASSUME \/ \E t \in Turn : EditApplied(t) \/ AppliedEditCloses(t)
             \/ \E c \in UserClose : UserCloses(c)
             \/ Show \/ ToggleEditMode
      PROVE  VoiceMoves
  BY <1>1, <1>7 DEF EditApplied, AppliedEditCloses, UserCloses, Show, ToggleEditMode, voiceVars
<1> QED BY <1>2, <1>3, <1>4, <1>5, <1>6, <1>7 DEF PanelStep

----------------------------------------------------------------------------
(* Every microphone that is closed stays closed,                            *)
DeadStays == \A w \in Session : w <= voice.session /\ Dead(w) => Dead(w)'

(* which is so after a step                                                 *)
DeadAfter(s) == mic'[s] \in {"none", "closing", "ended"} /\ start'[s] \in {"idle", "done"}

(* for a session that has begun.                                            *)
LEMMA StaysDead ==
    ASSUME DeadStays
    PROVE  \A w \in Session : w <= voice.session /\ Dead(w) => DeadAfter(w)
BY DEF DeadStays, Dead, DeadAfter

(* Every step keeps the previews                                            *)
LEMMA PreparedStep ==
    ASSUME VoiceTypeOK, VoiceTypeOK', Prepared, VoiceMoves, DeadStays
    PROVE  Prepared'
<1>1. voice.session \in Session \cup {0} /\ voice.session \in Nat
      /\ voice'.session \in Nat
  BY VoiceNumber DEF VoiceTypeOK
<1>2. CASE voice'.session = voice.session
  <2>1. CASE voice.session = 0 BY <1>2, <2>1 DEF Prepared
  <2>2. CASE voice.session # 0
    <3>1. (voice'.intent # "none" \/ voice'.preview # {}) => Dead(voice.session)
      BY <1>1, <1>2, <2>2 DEF VoiceMoves, Prepared
    <3>2. Dead(voice.session) => DeadAfter(voice'.session) BY <1>1, <1>2, <2>2, StaysDead
    <3> QED BY <3>1, <3>2 DEF Prepared, Dead, DeadAfter
  <2> QED BY <2>1, <2>2
<1>3. CASE voice'.intent = "none" /\ voice'.preview = {} BY <1>3 DEF Prepared
<1> QED BY <1>1, <1>2, <1>3 DEF VoiceMoves

(* and the edits after their microphone.                                    *)
LEMMA EditedStep ==
    ASSUME VoiceTypeOK, VoiceTypeOK', Fields, Named, CommandInv, VoiceMoves, DeadStays,
           PanelStep \/ UNCHANGED turn
    PROVE  Edited'
<1> DEFINE Fine(s) == s # 0 => s <= voice'.session /\ DeadAfter(s)
<1>0. /\ TurnTypes /\ voice.session \in Session \cup {0} /\ voice'.session \in Nat
      /\ voice.session \in Nat /\ voice'.session >= voice.session
      /\ \A w \in Session : w \in Nat /\ w # 0
  BY SessionNumber, VoiceNumber DEF VoiceTypeOK, Fields, VoiceMoves
<1>1. \A t \in Turn : turn[t].session \in Session \cup {0} BY <1>0 DEF TurnTypes, TurnType
<1>2. \A t \in Turn : Fine(turn[t].session)
  <2>1. \A w \in Session : w <= voice.session /\ Dead(w) => w <= voice'.session /\ DeadAfter(w)
    BY <1>0, StaysDead
  <2> QED BY <1>1, <2>1 DEF CommandInv, Edited
<1>3. Dead(voice.session) => Fine(voice.session) BY <1>0, StaysDead
<1> HIDE DEF Fine
<1>4. Fine(0) BY DEF Fine
<1>5. ASSUME \A t \in Turn : Fine(turn'[t].session) PROVE Edited'
  BY <1>5 DEF Fine, Edited, Dead, DeadAfter
<1>6. ASSUME NEW t \in Turn, \A u \in Turn \ {t} : turn'[u] = turn[u], Fine(turn'[t].session)
      PROVE  Edited'
  BY <1>2, <1>5, <1>6
<1>7. ASSUME UNCHANGED turn PROVE Edited' BY <1>2, <1>5, <1>7
<1>8. ASSUME NEW t \in Turn, NEW p, BeginAt(t, p) \/ AskAt(t, p) PROVE Edited'
  <2>1. (\A u \in Turn \ {t} : turn'[u] = turn[u]) /\ turn'[t].session = turn[t].session
    BY <1>0, <1>8, BeginAtFields, AskAtFields
  <2> QED BY <1>2, <1>6, <2>1
<1>9. ASSUME NEW t \in Turn,
             \/ \E s \in Session \cup {0}, b \in BOOLEAN : SubmitText(t, s, b)
             \/ PushQuestion(t) \/ SettleAnswer(t)
      PROVE Edited'
  BY <1>0, <1>2, <1>6, <1>9, CallFields
<1>10. ASSUME NEW t \in Turn, NEW p, NEW b, EditsWith(t, p, voice.session, b),
              voice.preview # {} \/ voice.intent = "Edit"
       PROVE Edited'
  <2>1. turn'[t].session = voice.session /\ \A u \in Turn \ {t} : turn'[u] = turn[u]
    BY <1>0, <1>10, EditFields
  <2>2. voice.session # 0 => Dead(voice.session) BY <1>10 DEF CommandInv, Prepared
  <2> QED BY <1>3, <1>4, <1>6, <2>1, <2>2
<1>11. ASSUME NEW t \in Turn, NEW p, NEW s, NEW b, EditsWith(t, p, s, b), Fine(s) PROVE Edited'
  BY <1>0, <1>6, <1>11, EditFields
<1>12. ASSUME NEW t \in Turn, EditPreview(t) PROVE Edited'
  <2>1. CASE AskAt(t, "fail") BY <1>8, <2>1
  <2>2. CASE \E p \in {"revise", "generate"} :
                EditsWith(t, p, voice.session, FALSE) /\ (voice.preview # {} \/ voice.intent = "Edit")
    BY <1>10, <2>2
  <2>3. CASE /\ SessionLeft /\ voice' = NewVoice(NextSession, "Processing", FALSE)
             /\ EditsWith(t, "generate", NextSession, TRUE)
    <3>1. NextSession \in Session /\ NextSession > voice.session BY <2>3, EditSession DEF Fields
    <3>2. UNCHANGED <<captureVars, teardown, hostVars, start, end>>
      BY <1>12 DEF EditPreview, taskVars
    <3>3. PICK n \in Session : n = NextSession BY <3>1
    <3>4. CommandAt(n) BY DEF CommandInv
    <3>5. Dead(n)' BY <2>3, <3>1, <3>2, <3>3, <3>4, EditBegins
    <3>6. voice'.session = n BY <2>3, <3>3 DEF NewVoice
    <3>7. Fine(n) BY <1>0, <3>5, <3>6 DEF Fine, Dead, DeadAfter
    <3>8. EditsWith(t, "generate", n, TRUE) BY <2>3, <3>3
    <3> QED BY <3>7, <3>8, <1>11
  <2>4. \/ AskAt(t, "fail")
        \/ \E p \in {"revise", "generate"} :
              EditsWith(t, p, voice.session, FALSE) /\ (voice.preview # {} \/ voice.intent = "Edit")
        \/ /\ SessionLeft /\ voice' = NewVoice(NextSession, "Processing", FALSE)
           /\ EditsWith(t, "generate", NextSession, TRUE)
    BY <1>12 DEF EditPreview
  <2> QED BY <2>1, <2>2, <2>3, <2>4
<1>13. ASSUME NEW t \in Turn, Revised(t) PROVE Edited'
  <2>1. AskAt(t, "fail") \/ (voice.preview # {} /\ EditsWith(t, "bind", voice.session, FALSE))
    BY <1>13 DEF Revised
  <2> QED BY <1>8, <1>10, <2>1
<1>14. ASSUME NEW t \in Turn, AskReleases(t) PROVE Edited'
  BY <1>0, <1>4, <1>6, <1>14, ReleaseFields
<1>15. ASSUME NEW t \in Turn, BeginRecording(t) \/ BeginStep(t) PROVE Edited'
  BY <1>8, <1>15, BeginMoves DEF BeginRecording
<1>16. ASSUME NEW t \in Turn, AskStep(t) \/ FinishRecording(t) PROVE Edited'
  <2>1. CASE Plain(t) \/ FinishRecording(t) BY <1>8, <2>1, AskMoves DEF FinishRecording
  <2> QED BY <1>9, <1>12, <1>13, <1>14, <1>16, <2>1 DEF AskStep, Plain
<1>17. ASSUME NEW t \in Turn, TypeQuestion(t) PROVE Edited' BY <1>9, <1>17 DEF TypeQuestion
<1>18. ASSUME NEW s \in Session, RouteStep(s) PROVE Edited'
  BY <1>7, <1>9, <1>18, PanelTurnFrame DEF RouteStep
<1> QED
  BY <1>7, <1>15, <1>16, <1>17, <1>18, PanelTurnFrame, CloseNumbers DEF PanelStep

(* CommandInv holds initially                                               *)
LEMMA CommandInit == QaInit => CommandInv
<1> SUFFICES ASSUME QaInit PROVE CommandInv OBVIOUS
<1>1. /\ voice.session = 0 /\ voice.phase = "Idle" /\ voice.control = FALSE
      /\ target = 0 /\ slot = 0 /\ lease = 0 /\ revoked = {}
      /\ \A s \in Session : mic[s] = "none" /\ teardown[s] = "no" /\ start[s] = "idle" /\ end[s] = "idle"
  BY Numbers DEF QaInit, VoiceInit, CaptureInit, NewVoice
<1>2. \A t \in Turn : turn[t].session = 0 BY DEF QaInit, NoTurn
<1>3. ASSUME NEW s \in Session PROVE CommandAt(s)
  <2>1. s # 0 BY SessionNumber
  <2> QED BY <1>1, <2>1 DEF CommandAt, CommandShape, CommandOwned, Current, Late
<1> QED BY <1>1, <1>2, <1>3 DEF CommandInv, Prepared, Edited

(* and in every step.                                                       *)
LEMMA CommandInvStep ==
    ASSUME TypeInv, TypeInv', OneMicrophone, CommandInv, [QaNext]_allVars
    PROVE  CommandInv'
<1>0. VoiceTypeOK /\ Fields /\ ConfirmInv /\ Named BY TypeParts DEF Fields, ConfirmInv
<1>1. VoiceTypeOK' BY DEF TypeInv, QaTypeOK
<1>2. PanelStep \/ (CommandStep /\ UNCHANGED qaVars) \/ UNCHANGED allVars BY DEF QaNext
<1>3. PanelStep \/ CommandStep \/ UNCHANGED voiceVars BY <1>2 DEF allVars
<1>4. \A u \in Session : CommandAt(u)' /\ (u <= voice.session /\ Dead(u) => Dead(u)')
  BY <1>0, <1>1, <1>3, CommandKeeps
<1>5. DeadStays BY <1>4 DEF DeadStays
<1>6. VoiceMoves
  <2>1. CASE UNCHANGED allVars BY <2>1 DEF allVars, voiceVars, VoiceMoves
  <2> QED BY <1>0, <1>2, <2>1, CommandMoves, PanelMoves
<1>7. PanelStep \/ UNCHANGED turn BY <1>2 DEF allVars, qaVars
<1>8. Prepared' BY <1>0, <1>1, <1>5, <1>6, PreparedStep DEF CommandInv
<1>9. Edited' BY <1>0, <1>1, <1>5, <1>6, <1>7, EditedStep
<1> QED BY <1>4, <1>8, <1>9 DEF CommandInv

----------------------------------------------------------------------------
(* It leaves nothing behind when every task has returned.                   *)
LEMMA CommandsLeave ==
    ASSUME TypeInv, CommandInv
    PROVE  NoCommandLeft
<1> SUFFICES ASSUME VoiceQuiet, NEW s \in Session
             PROVE  IF Current(s, "Recording")
                    THEN lease = s /\ s \notin revoked /\ (mic[s] = "ready" => slot = s)
                    ELSE /\ mic[s] \in {"none", "ended"} /\ slot # s
                         /\ lease = s => s \in revoked \/ Current(s, "AwaitingIntent")
                                         \/ Current(s, "Processing")
  BY DEF NoCommandLeft
<1>1. /\ start[s] \in {"idle", "done"} /\ end[s] \in {"idle", "asked", "done"}
      /\ teardown[s] = "no" /\ mic[s] # "closing"
  BY DEF VoiceQuiet
<1>2. CommandShape(s) /\ CommandOwned(s) BY DEF CommandInv, CommandAt
<1>3. mic[s] \in {"none", "held", "ready", "finishing", "closing", "ended"}
  BY TypeParts, Numbers DEF VoiceTypeOK, CaptureTypeOK, MicState
<1>4. CASE Current(s, "Recording") BY <1>1, <1>2, <1>4 DEF CommandShape
<1>5. CASE ~Current(s, "Recording")
  <2>1. ~Opening(s) BY <1>1, <1>5 DEF Opening, Current
  <2>2. mic[s] # "held" /\ mic[s] # "finishing" BY <1>1, <1>2 DEF CommandShape
  <2>3. mic[s] # "ready" BY <1>1, <1>2, <2>1 DEF CommandShape, CommandOwned
  <2>4. slot # s BY <1>2, <2>2, <2>3 DEF CommandShape
  <2>5. lease = s => s \in revoked \/ Current(s, "AwaitingIntent") \/ Current(s, "Processing")
    BY <1>1, <1>2, <1>5 DEF CommandOwned, Leading, Current
  <2> QED BY <1>1, <1>3, <1>5, <2>2, <2>3, <2>4, <2>5
<1> QED BY <1>4, <1>5

(* Nothing of a question or of a command is left behind. For a command: once *)
(* its tasks have returned, a session that has ended has its microphone     *)
(* closed, its place in the host's slot and its lease given back, whichever *)
(* of the cancel, the fault, the early stop and the late device won; and an *)
(* open microphone is the recording session's and reachable from the slot.  *)
THEOREM NothingIsLeftBehind == QaSpec => []NothingLeftBehind
<1> DEFINE Inv == TypeInv /\ OneMicrophone /\ PanelInv /\ CommandInv
<1>1. QaInit => Inv
  <2>1. QaInit => OneMicrophone BY DEF QaInit, VoiceInit, CaptureInit, OneMicrophone, Holding
  <2> QED BY <2>1, TypeInit, PanelInit, CommandInit
<1>2. Inv /\ [QaNext]_allVars => Inv'
  <2> SUFFICES ASSUME Inv, [QaNext]_allVars PROVE Inv' OBVIOUS
  <2>1. TypeInv' BY TypeStep
  <2>2. OneMicrophone' BY MicrophoneStep
  <2>3. PanelInv' BY PanelInvStep
  <2>4. CommandInv' BY <2>1, CommandInvStep
  <2> QED BY <2>1, <2>2, <2>3, <2>4
<1>3. Inv => NothingLeftBehind BY NoneLeft, CommandsLeave DEF NothingLeftBehind
<1> QED BY <1>1, <1>2, <1>3, PTL DEF QaSpec
=============================================================================
