--------------------------- MODULE QaEditProofs -----------------------------
(***************************************************************************)
(* Proofs about the texts that selection voice inserts, with the panel and *)
(* by commands: which are inserted, and where. They build on the types and *)
(* invariants of QaServiceProofs.                                          *)
(*                                                                         *)
(* A cancelled command is not inserted because of ApplyInv: a confirmation *)
(* under way is the one the service applies, or its host is told of the    *)
(* end before the teardown is over (Disowned); for this a command past its *)
(* microphone has its host (Controlled), and no turn binds the target of a *)
(* session somebody is about to insert (Binding). A target is kept because *)
(* of TargetInv: whoever is about to forget one has ended its session      *)
(* (Cleared, Applied), and the turn that binds one binds that of the       *)
(* preview on offer (Bound, OneMaker). Serves says what a step may do to   *)
(* the service; Tasks, Revises, Turns, Advances, Confirms, Confirmed,      *)
(* Targets and ForgetsOnly, what it may do to the tasks, the turns, the    *)
(* confirmations and the target.                                           *)
(***************************************************************************)
EXTENDS QaServiceProofs

----------------------------------------------------------------------------
(* Somebody is about to insert the text of session s.                       *)
Confirming(s) == \E i \in Id : apply[i].pc = "insert" /\ apply[i].session = s

(* The phases before a preview.                                             *)
Working == {"Recording", "Processing", "AwaitingIntent"}

(* The end of command s has its microphone.                                 *)
Heard == Late \cup {"await"}

(* Session s belongs to a command that is past its microphone and goes on.  *)
InHand(s) ==
    /\ start[s] # "idle"
    /\ \/ voice.phase \in {"AwaitingIntent", "Preview", "Applying"}
       \/ voice.phase = "Processing" /\ (voice.intent # "none" \/ end[s] \in Heard)

(* A command that goes on has its host: a cancellation will reach it.       *)
Governed == voice.session # 0 /\ InHand(voice.session) => voice.control

Controlled ==
    /\ Governed
    /\ voice.session # 0 =>
          /\ voice.phase \notin {"Cancelled", "Failed"} => teardown[voice.session] = "no"
          /\ voice.phase = "Recording" => voice.intent = "none"

(* A session for which a turn generates text has no command, or an intent.  *)
Generating ==
    \A t \in Turn :
        turn[t].ask = "generate" /\ turn[t].session = voice.session /\ voice.session # 0 =>
            start[voice.session] = "idle" \/ voice.intent # "none"

(* Only a conversation has edits.                                           *)
Addressed ==
    /\ QaActive => qa.conversation # 0
    /\ \A t \in Turn : turn[t].ask \in Revising => turn[t].owner # 0

(* A turn binds the target of a preview nobody is about to insert.          *)
Binding ==
    \A t \in Turn : turn[t].ask = "bind" =>
        /\ turn[t].session # 0 /\ ~Confirming(turn[t].session)
        /\ voice.session = turn[t].session =>
              /\ voice.phase \notin Working
              /\ voice.phase \in {"Preview", "Applying"} => turn[t].owner \in voice.preview

(* A confirmed text of a command that the service no longer applies has its *)
(* host informed, or no target any more.                                    *)
Disowned ==
    \A s \in Session : Confirming(s) /\ start[s] # "idle" =>
        start[s] = "done" /\ (Current(s, "Applying") \/ teardown[s] = "control" \/ target # s)

----------------------------------------------------------------------------
(* What a step may do to the tasks of session s.                            *)
Tasks(s) ==
    /\ start[s] = "idle" <=> start'[s] = "idle"
    /\ start[s] = "done" => start'[s] = "done"
    /\ end'[s] \in Heard => end[s] \in Heard

LEMMA KeptTasks ==
    ASSUME NEW s \in Session, Kept(s)
    PROVE  Tasks(s)
BY DEF Kept, Tasks, Heard, Late

(* A session that has begun does not begin again.                           *)
LEMMA CommandTasksGo ==
    ASSUME VoiceTypeOK, ConfirmInv, CommandInv, CommandStep, NEW u \in Session, u <= voice.session
    PROVE  Tasks(u) \/ TakeCapture(u)
<1> DEFINE Goal == Tasks(u) \/ TakeCapture(u)
<1>0. /\ u \in Nat /\ voice.session \in Nat /\ \A s \in Session : CommandAt(s)
  BY SessionNumber, VoiceNumber DEF VoiceTypeOK, CommandInv
<1>1. ASSUME Kept(u) PROVE Goal BY <1>1, KeptTasks
<1>2. ASSUME NEW s \in Session, Begin(s) PROVE Goal
  <2>1. s # u BY <1>0, <1>2, BeginOwn
  <2>2. start'[u] = start[u] /\ UNCHANGED end BY <1>2, <2>1, StartFields DEF Begin
  <2> QED BY <2>2 DEF Tasks
<1>3. ASSUME NEW s \in Session, StartStep(s) PROVE Goal
  <2>1. UNCHANGED end /\ start[s] \notin {"idle", "done"} /\ \E p \in StartPc \ {"idle"} : StartAt(s, p)
    BY <1>3 DEF StartStep, SetTarget, HoldResources, Bind, Opens, OpenFails, Install, Discarded,
       StartFailed, StartClears, StartPc
  <2>2. CASE s = u BY <2>1, <2>2, StartFields DEF Tasks
  <2>3. CASE s # u
    <3>1. start'[u] = start[u] BY <2>1, <2>3, StartFields
    <3> QED BY <2>1, <3>1 DEF Tasks
  <2> QED BY <2>2, <2>3
<1>4. ASSUME NEW s \in Session, NEW p, EndAt(s, p), UNCHANGED start,
             s # u \/ p \notin Heard \/ end[s] \in Heard
      PROVE Goal
  <2>1. end'[s] = p /\ \A w \in Session \ {s} : end'[w] = end[w] BY <1>4, StartFields
  <2> QED BY <1>4, <2>1 DEF Tasks
<1>5. ASSUME NEW s \in Session, MarkProcessing(s) \/ EndFailed(s) \/ EndClears(s) PROVE Goal
  <2>1. UNCHANGED start /\ \E p \in {"take", "clear", "done"} : EndAt(s, p)
    BY <1>5 DEF MarkProcessing, EndFailed, EndClears
  <2> QED BY <1>4, <2>1 DEF Heard, Late
<1>6. ASSUME NEW s \in Session, Transcribed(s) PROVE Goal
  <2>1. UNCHANGED start /\ end[s] = "await" /\ \E p : EndAt(s, p) BY <1>6 DEF Transcribed
  <2> QED BY <1>4, <2>1 DEF Heard
<1>7. ASSUME NEW s \in Session, TakeCapture(s) PROVE Goal
  <2>1. UNCHANGED start /\ \E p : EndAt(s, p) BY <1>7 DEF TakeCapture
  <2> QED BY <1>4, <1>7, <2>1
<1>8. ASSUME NEW s \in Session, LateStep(s) PROVE Goal BY <1>0, <1>1, <1>8, LateKeeps
<1>9. ASSUME \/ UserCancels \/ \E s \in Session : RecordingFault(s)
             \/ \E i \in Id : CaptureCloses(i) \/ FindTarget(i) \/ Insert(i) \/ Report(i)
      PROVE Goal
  BY <1>1, <1>9, FreeKeeps
<1>10. ASSUME NEW s \in Session, TearDown(s) PROVE Goal BY <1>10 DEF TearDown, taskVars, Tasks
<1> HIDE DEF Goal
<1>11. Goal
  BY <1>2, <1>3, <1>5, <1>6, <1>7, <1>8, <1>9, <1>10 DEF CommandStep, EndStep, LateStep
<1> QED BY <1>11 DEF Goal

LEMMA PanelTasksGo ==
    ASSUME VoiceTypeOK, Fields, Named, CommandInv, PanelStep, NEW u \in Session, u <= voice.session
    PROVE  Tasks(u)
<1>1. \A t \in Turn : EditPreview(t) /\ ~UNCHANGED voice => u # NextSession
  <2>1. u \in Nat /\ voice.session \in Nat BY SessionNumber, VoiceNumber DEF VoiceTypeOK
  <2>2. ASSUME NEW t \in Turn, EditPreview(t), ~UNCHANGED voice PROVE u # NextSession
    <3>1. SessionLeft BY <2>2 DEF EditPreview
    <3>2. NextSession \in Session /\ NextSession > voice.session BY <3>1, EditSession DEF Fields
    <3> QED BY <2>1, <3>2, SessionNumber
  <2> QED BY <2>2
<1>2. Kept(u) BY <1>1, PanelKeeps
<1> QED BY <1>2, KeptTasks

----------------------------------------------------------------------------
(* What a step does to the service: it releases an ended session,           *)
Torn == UNCHANGED voice /\ \E w \in Session : TearDown(w)

(* ends the session it has,                                                 *)
Ends ==
    /\ voice.session \in Session /\ voice'.session = voice.session
    /\ voice'.phase \in {"Cancelled", "Failed"}
    /\ voice'.intent = voice.intent /\ voice'.preview \subseteq voice.preview
    /\ teardown' = Ending(voice.session)

(* begins one,                                                              *)
Starts ==
    /\ voice.phase \in Resting /\ voice'.session \in Session /\ voice'.session > voice.session
    /\ voice'.phase \in Working /\ voice'.intent = "none" /\ voice'.preview = {}
    /\ start'[voice'.session] \in {"idle", "target"} /\ end'[voice'.session] = "idle"
    /\ UNCHANGED teardown

(* (a turn of the panel makes the preview of its conversation, a command    *)
(* one without a conversation)                                              *)
Makes(t) == turn[t].ask = "generate" /\ AskAt(t, "bind") /\ voice'.preview = {turn[t].owner}

Previews ==
    \/ /\ voice'.preview \subseteq voice.preview \cup {0}
       /\ voice.phase \in Working /\ voice'.phase \in {"Preview", "Applying"} =>
             start[voice.session] # "idle"
    \/ \E t \in Turn : Makes(t)

(* or goes on with the one it has.                                          *)
GoesOn ==
    /\ voice'.session = voice.session /\ UNCHANGED teardown
    /\ voice.phase \notin {"Cancelled", "Failed"}
    /\ voice.intent # "none" => voice'.intent # "none"
    /\ voice'.phase \in Working => voice.phase \in Working
    /\ voice'.phase = "Recording" => voice.phase = "Recording" /\ voice'.intent = voice.intent
    /\ voice'.phase \in {"Preview", "Applying"} =>
          \/ voice.phase \in Working
          \/ voice.phase \in {"Preview", "Applying"} /\ voice'.preview = voice.preview
    /\ voice.phase = "Applying" => voice'.phase = "Applying" \/ ~Confirming(voice.session)'
    /\ Previews

Serves ==
    /\ UNCHANGED <<voice, teardown>> \/ Torn \/ Ends \/ Starts \/ GoesOn
    /\ Governed'

(* The session in hand is the same,                                         *)
LEMMA GovernedFrame ==
    ASSUME Governed, voice'.session = voice.session, voice'.control = voice.control,
           voice.session # 0 /\ InHand(voice.session)' => InHand(voice.session)
    PROVE  Governed'
BY DEF Governed

(* or its service does nothing.                                             *)
LEMMA GovernedStill ==
    ASSUME VoiceTypeOK, Governed, UNCHANGED voice, voice.session \in Session => Tasks(voice.session)
    PROVE  Governed'
<1>1. voice.session # 0 => voice.session \in Session BY VoiceNumber DEF VoiceTypeOK
<1> QED BY <1>1, GovernedFrame DEF InHand, Tasks

(* A cancellation ends the session it names.                                *)
LEMMA CancelServes ==
    ASSUME VoiceTypeOK, NEW w, CancelVoice(w) \/ ClearPreview(w), ~UNCHANGED <<voice, teardown>>,
           voice.session # 0
    PROVE  Serves
<1>0. voice \in VoiceState BY DEF VoiceTypeOK
<1>1. CancelVoice(voice.session) BY DEF CancelVoice, ClearPreview
<1>2. /\ voice'.session = voice.session /\ voice'.phase = "Cancelled"
      /\ voice'.intent = voice.intent /\ teardown' = Ending(voice.session) /\ voice'.preview = {}
  BY <1>0, <1>1 DEF CancelVoice, VoiceState
<1>3. voice.session \in Session BY <1>0, VoiceNumber
<1>4. Ends BY <1>2, <1>3 DEF Ends
<1>5. Governed' BY <1>2 DEF Governed, InHand
<1> QED BY <1>4, <1>5 DEF Serves

(* A preview is confirmed.                                                  *)
LEMMA ConfirmServes ==
    ASSUME VoiceTypeOK, Controlled, NEW i, NEW o, BeginApply(i, o), UNCHANGED <<teardown, start>>
    PROVE  Serves
<1>1. /\ voice'.session = voice.session /\ voice.phase = "Preview" /\ voice'.phase = "Applying"
      /\ voice'.intent = voice.intent /\ voice'.preview = voice.preview
      /\ voice'.control = voice.control
  BY DEF BeginApply, Applyable, VoiceTypeOK, VoiceState
<1>2. GoesOn BY <1>1 DEF GoesOn, Previews, Working
<1>3. Governed' BY <1>1, GovernedFrame DEF InHand, Controlled
<1> QED BY <1>2, <1>3 DEF Serves

(* A command past its microphone goes on.                                   *)
LEMMA LateServes ==
    ASSUME VoiceTypeOK, Controlled, NEW s \in Session, CommandAt(s), end[s] \in Late,
           voice.session = s, voice.phase \in {"Processing", "AwaitingIntent"},
           voice'.session = s, voice'.phase \in {"Processing", "AwaitingIntent", "Preview"},
           voice.intent # "none" => voice'.intent # "none",
           voice'.control = voice.control, voice'.preview \subseteq voice.preview \cup {0},
           UNCHANGED teardown
    PROVE  Serves
<1>2. s # 0 /\ start[s] = "done" /\ end[s] \in Heard
  BY SessionNumber DEF CommandAt, CommandShape, Heard
<1>1. GoesOn BY <1>2 DEF GoesOn, Previews, Working
<1>3. voice.control BY <1>2 DEF Controlled, Governed, InHand
<1>4. Governed' BY <1>3 DEF Governed
<1> QED BY <1>1, <1>4 DEF Serves

(* How the steps of the commands                                            *)
LEMMA ServesCommand ==
    ASSUME VoiceTypeOK, ConfirmInv, CommandInv, Controlled, CommandStep
    PROVE  Serves
<1>0. /\ voice \in VoiceState /\ Governed /\ \A s \in Session : CommandAt(s)
      /\ voice.session \in Nat /\ (voice.session # 0 => voice.session \in Session)
  BY VoiceNumber DEF VoiceTypeOK, CommandInv, Controlled
<1>1. ASSUME UNCHANGED <<voice, teardown>>, ~TakeCapture(voice.session) PROVE Serves
  <2>1. voice.session \in Session => Tasks(voice.session)
    BY <1>0, <1>1, CommandTasksGo
  <2> QED BY <1>1, <2>1, GovernedStill DEF Serves, Controlled
<1>2. ASSUME NEW s \in Session, TakeCapture(s) PROVE Serves
  <2>0. UNCHANGED <<voice, teardown>> BY <1>2 DEF TakeCapture
  <2>1. CASE ~TakeCapture(voice.session) BY <1>1, <2>0, <2>1
  <2>2. CASE TakeCapture(voice.session) /\ s = voice.session
    <3>0. /\ s # 0 /\ UNCHANGED start /\ CommandShape(s) /\ CommandOwned(s)
      BY <1>0, <1>2, SessionNumber DEF TakeCapture, CommandAt
    <3>1. CASE EndAt(s, "await") /\ slot = s /\ mic[s] = "ready"
      <4>1. Opening(s) BY <3>0, <3>1 DEF CommandOwned
      <4>2. start[s] # "idle" /\ (voice.phase = "Processing" => teardown[s] = "no")
        BY <2>2, <3>0, <3>1 DEF CommandShape, Controlled
      <4>3. voice.phase = "Processing" => voice.control BY <4>1, <4>2 DEF Opening
      <4>4. Governed'
        BY <1>0, <2>0, <2>2, <3>0, <4>3 DEF Governed, InHand
      <4> QED BY <2>0, <4>4 DEF Serves
    <3>2. CASE EndAt(s, "fail")
      <4>1. end'[s] = "fail" BY <3>2, StartFields
      <4>2. Tasks(s) BY <3>0, <4>1 DEF Tasks, Heard, Late
      <4> QED BY <1>0, <2>0, <2>2, <4>2, GovernedStill DEF Serves
    <3> QED BY <1>2, <3>1, <3>2 DEF TakeCapture
  <2>3. CASE TakeCapture(voice.session) /\ s # voice.session
    <3>1. Tasks(voice.session) \/ voice.session \notin Session
      <4>1. UNCHANGED start /\ \E p : EndAt(s, p) BY <1>2 DEF TakeCapture
      <4>2. voice.session \in Session => end'[voice.session] = end[voice.session]
        BY <2>3, <4>1, StartFields
      <4> QED BY <4>1, <4>2 DEF Tasks
    <3> QED BY <1>0, <2>0, <3>1, GovernedStill DEF Serves
  <2> QED BY <2>1, <2>2, <2>3
<1>3. ASSUME NEW s \in Session, Begin(s) PROVE Serves
  <2>1. /\ voice'.session = s /\ voice'.phase = "Recording" /\ voice'.intent = "none"
        /\ voice'.preview = {} /\ voice.phase \in Resting /\ UNCHANGED <<teardown, end>>
    BY <1>3 DEF Begin, NewVoice
  <2>2. s > voice.session BY <1>0, <1>3, BeginOwn
  <2>3. Governed' BY <2>1 DEF Governed, InHand
  <2>4. start'[s] = "target" /\ end'[s] = "idle"
    BY <1>0, <1>3, <2>1, <2>2, StartFields DEF Begin, CommandAt, CommandShape
  <2> QED BY <2>1, <2>2, <2>3, <2>4 DEF Serves, Starts, Working
<1>4. ASSUME UNCHANGED <<voice, teardown>> PROVE Serves
  <2>1. CASE ~TakeCapture(voice.session) BY <1>1, <1>4, <2>1
  <2>2. CASE TakeCapture(voice.session) /\ voice.session \in Session BY <1>2, <2>2
  <2>3. CASE voice.session \notin Session BY <1>0, <1>4, <2>3, GovernedStill DEF Serves
  <2> QED BY <2>1, <2>2, <2>3
<1>5. ASSUME NEW w, w # 0, CancelVoice(w) PROVE Serves
  <2>1. CASE UNCHANGED <<voice, teardown>> BY <1>4, <2>1
  <2>2. CASE ~UNCHANGED <<voice, teardown>>
    <3>1. voice.session = w BY <1>5, <2>2 DEF CancelVoice
    <3> QED BY <1>5, <2>2, <3>1, CancelServes
  <2> QED BY <2>1, <2>2
<1>6. ASSUME NEW s \in Session, StartStep(s) PROVE Serves
  <2>1. CASE StartFailed(s) BY <1>5, <2>1, SessionNumber DEF StartFailed
  <2>2. CASE Bind(s)
    <3>1. UNCHANGED teardown BY <2>2 DEF Bind
    <3>2. CASE UNCHANGED voice BY <1>4, <3>1, <3>2
    <3>3. CASE Current(s, "Recording") /\ voice' = [voice EXCEPT !.control = TRUE]
      <4>1. /\ voice'.session = voice.session /\ voice'.phase = "Recording"
            /\ voice.phase = "Recording" /\ voice'.intent = voice.intent /\ voice'.control = TRUE
            /\ voice'.preview = voice.preview
        BY <1>0, <3>3 DEF Current, VoiceState
      <4>2. GoesOn BY <3>1, <4>1 DEF GoesOn, Previews, Working
      <4>3. Governed' BY <4>1 DEF Governed
      <4> QED BY <4>2, <4>3 DEF Serves
    <3> QED BY <2>2, <3>2, <3>3 DEF Bind
  <2>3. CASE ~StartFailed(s) /\ ~Bind(s)
    BY <1>4, <1>6, <2>3 DEF StartStep, SetTarget, HoldResources, Opens, OpenFails, Install,
       Discarded, StartClears
  <2> QED BY <2>1, <2>2, <2>3
<1>7. ASSUME NEW s \in Session, MarkProcessing(s) PROVE Serves
  <2>1. /\ voice.session = s /\ voice'.session = s /\ voice.phase = "Recording"
        /\ voice'.phase = "Processing" /\ voice'.intent = voice.intent /\ UNCHANGED teardown
        /\ voice'.preview = voice.preview /\ EndAt(s, "take")
    BY <1>0, <1>7 DEF MarkProcessing, Current, VoiceState
  <2>2. s # 0 /\ voice.intent = "none" /\ end'[s] = "take"
    BY <2>1, SessionNumber, StartFields DEF Controlled
  <2>3. GoesOn BY <2>1, <2>2 DEF GoesOn, Previews, Working
  <2>4. Governed' BY <2>1, <2>2 DEF Governed, InHand, Heard, Late
  <2> QED BY <2>3, <2>4 DEF Serves
<1>8. ASSUME NEW s \in Session, RecordingFault(s) PROVE Serves
  <2>1. /\ voice.session = s /\ voice'.session = s /\ voice'.phase = "Failed"
        /\ voice'.intent = voice.intent /\ voice'.preview = voice.preview
        /\ teardown' = Ending(s)
    BY <1>0, <1>8 DEF RecordingFault, Current, VoiceState
  <2>2. Governed' BY <2>1 DEF Governed, InHand
  <2> QED BY <2>1, <2>2 DEF Serves, Ends
<1>9. ASSUME NEW s \in Session, Resolve(s) \/ Confirm(s) \/ Generated(s) PROVE Serves
  <2>0. UNCHANGED teardown /\ end[s] \in Late
    BY <1>9 DEF Resolve, Confirm, Generated, Late, EndPc
  <2>1. CASE UNCHANGED voice BY <1>4, <2>0, <2>1
  <2>2. CASE ~UNCHANGED voice
    <3>1. /\ voice.session = s /\ voice.phase \in {"Processing", "AwaitingIntent"}
          /\ voice'.session = s /\ voice'.phase \in {"Processing", "AwaitingIntent", "Preview"}
          /\ voice'.control = voice.control
      BY <1>0, <1>9, <2>2 DEF Resolve, Confirm, Generated, SetPreview, Current, VoiceState
    <3>2. voice.intent # "none" => voice'.intent # "none"
      BY <1>0, <1>9, <2>2
      DEF Resolve, Confirm, Generated, SetPreview, VoiceState, Intent, Coerced
    <3>3. voice'.preview \subseteq voice.preview \cup {0}
      BY <1>0, <1>9, <2>2 DEF Resolve, Confirm, Generated, SetPreview, VoiceState
    <3> QED BY <1>0, <2>0, <3>1, <3>2, <3>3, LateServes
  <2> QED BY <2>1, <2>2
<1>10. ASSUME NEW s \in Session, ConfirmDirect(s) PROVE Serves
  <2>1. UNCHANGED <<teardown, start>> BY <1>10 DEF ConfirmDirect
  <2> QED BY <1>4, <1>10, <2>1, ConfirmServes DEF ConfirmDirect
<1>11. ASSUME NEW s \in Session, EndStep(s) PROVE Serves
  <2>1. CASE EndFailed(s) BY <1>5, <2>1, SessionNumber DEF EndFailed
  <2>2. CASE Transcribed(s) \/ Route(s) \/ EndClears(s) \/ DirectApplied(s)
    BY <1>4, <2>2 DEF Transcribed, Route, EndClears, DirectApplied
  <2> QED BY <1>2, <1>9, <1>10, <1>11, <2>1, <2>2 DEF EndStep
<1>12. ASSUME NEW i \in Id, CaptureCloses(i) \/ FindTarget(i) \/ Insert(i) PROVE Serves
  BY <1>4, <1>12 DEF CaptureCloses, FindTarget, Insert
<1>13. ASSUME NEW i \in Id, Report(i) PROVE Serves
  <2>0. UNCHANGED <<teardown, start, end>> BY <1>13 DEF Report
  <2>1. CASE UNCHANGED voice BY <1>4, <2>0, <2>1
  <2>2. CASE ~UNCHANGED voice
    <3>1. voice.ticket = i /\ voice.session = apply[i].session BY <1>13, <2>2 DEF Report
    <3>2. TicketOpen BY <3>1, Numbers DEF ConfirmInv, Pending
    <3>3. voice.phase = "Applying"
          /\ \A j \in Id \ {i} : apply[j].session = voice.session => apply[j].pc # "insert"
      BY <3>1, <3>2 DEF TicketOpen, Unapplied
    <3>4. /\ voice'.session = voice.session /\ voice'.phase \in {"Completed", "Preview"}
          /\ voice'.intent = voice.intent /\ voice'.control = voice.control
          /\ voice'.phase = "Preview" => voice'.preview = voice.preview
          /\ voice'.preview \subseteq voice.preview
      BY <1>0, <1>13, <2>2 DEF Report, VoiceState
    <3>5. ~Confirming(voice.session)'
      <4>1. /\ apply'[i].pc # "insert"
            /\ \A j \in Id \ {i} : apply'[j] = apply[j]
        BY <1>13 DEF Report, ApplyAt, VoiceTypeOK, Confirmation
      <4> QED BY <3>3, <3>4, <4>1 DEF Confirming
    <3>6. GoesOn BY <2>0, <3>3, <3>4, <3>5 DEF GoesOn, Previews, Working
    <3>7. Governed' BY <1>0, <2>0, <3>3, <3>4, GovernedFrame DEF InHand
    <3> QED BY <3>6, <3>7 DEF Serves
  <2> QED BY <2>1, <2>2
<1>14. ASSUME NEW s \in Session, TearDown(s) PROVE Serves
  <2>1. UNCHANGED <<voice, taskVars>> BY <1>14 DEF TearDown
  <2>2. Governed' BY <1>0, <2>1, GovernedFrame DEF InHand, taskVars
  <2> QED BY <1>14, <2>1, <2>2 DEF Serves, Torn
<1>15. ASSUME UserCancels PROVE Serves
  BY <1>5, <1>15 DEF UserCancels, ConfirmInv, Named
<1> QED
  BY <1>3, <1>6, <1>7, <1>8, <1>9, <1>11, <1>12, <1>13, <1>14, <1>15 DEF CommandStep

(* and those of the panel do.                                               *)
LEMMA ServesPanel ==
    ASSUME VoiceTypeOK, Fields, ConfirmInv, Created, CommandInv, Controlled, Generating, PanelStep
    PROVE  Serves
<1>0. /\ voice \in VoiceState /\ Governed /\ \A s \in Session : CommandAt(s)
      /\ voice.session \in Nat /\ (voice.session # 0 => voice.session \in Session) /\ Named
  BY VoiceNumber DEF VoiceTypeOK, CommandInv, Controlled, ConfirmInv
<1>t. voice.session \in Session => Tasks(voice.session) BY <1>0, PanelTasksGo
<1>1. ASSUME UNCHANGED <<voice, teardown>> PROVE Serves
  BY <1>0, <1>t, <1>1, GovernedStill DEF Serves
<1>2. ASSUME UNCHANGED commandVars PROVE Serves BY <1>1, <1>2 DEF commandVars
<1>3. ASSUME NEW o, ClearPreview(o) PROVE Serves
  <2>1. CASE UNCHANGED <<voice, teardown>> BY <1>1, <2>1
  <2>2. CASE ~UNCHANGED <<voice, teardown>>
    <3>1. voice.session # 0 BY <1>0, <1>3, <2>2 DEF ClearPreview, Named
    <3> QED BY <1>3, <2>2, <3>1, CancelServes
  <2> QED BY <2>1, <2>2
<1>4. ASSUME NEW t \in Turn, EditPreview(t) PROVE Serves
  <2>0. UNCHANGED <<teardown, start, end>> BY <1>4 DEF EditPreview, taskVars
  <2>1. CASE UNCHANGED voice BY <1>1, <2>0, <2>1
  <2>2. CASE ~UNCHANGED voice
    <3>1. /\ voice' = NewVoice(NextSession, "Processing", FALSE) /\ SessionLeft
          /\ voice.phase \in Resting
      BY <1>4, <2>2 DEF EditPreview
    <3>2. PICK n \in Session : n = NextSession /\ n > voice.session
      BY <3>1, EditSession DEF Fields
    <3>3. /\ voice'.session = n /\ voice'.phase = "Processing" /\ voice'.intent = "none"
          /\ voice'.preview = {}
      BY <3>1, <3>2 DEF NewVoice
    <3>4. start[n] = "idle" /\ end[n] = "idle" BY <1>0, <3>2 DEF CommandAt, CommandShape
    <3>5. Governed' BY <2>0, <3>3, <3>4 DEF Governed, InHand
    <3>6. Starts BY <2>0, <3>1, <3>2, <3>3, <3>4 DEF Starts, Working
    <3> QED BY <3>5, <3>6 DEF Serves
  <2> QED BY <2>1, <2>2
<1>5. ASSUME NEW t \in Turn, EditGenerated(t) PROVE Serves
  <2>0. UNCHANGED <<start, end>> /\ turn[t].ask = "generate"
    BY <1>5 DEF EditGenerated, taskVars
  <2>1. CASE /\ SetPreview(turn[t].session, turn[t].owner) /\ AskAt(t, "bind")
             /\ UNCHANGED teardown
    <3>1. /\ voice.session = turn[t].session /\ voice.phase = "Processing"
          /\ voice'.session = voice.session /\ voice'.phase = "Preview"
          /\ voice'.intent = voice.intent /\ voice'.control = voice.control
          /\ voice'.preview = {turn[t].owner}
      BY <1>0, <2>1 DEF SetPreview, Current, VoiceState
    <3>5. Makes(t) BY <2>0, <2>1, <3>1 DEF Makes
    <3>2. GoesOn BY <2>1, <3>1, <3>5 DEF GoesOn, Previews, Working
    <3>3. voice.session # 0 => start[voice.session] = "idle" \/ voice.intent # "none"
      BY <2>0, <3>1 DEF Generating
    <3>4. Governed' BY <1>0, <2>0, <3>1, <3>3 DEF Governed, InHand
    <3> QED BY <3>2, <3>4 DEF Serves
  <2>2. CASE turn[t].created /\ CancelVoice(turn[t].session)
    <3>1. CASE UNCHANGED <<voice, teardown>> BY <1>1, <3>1
    <3>2. CASE ~UNCHANGED <<voice, teardown>>
      <4>1. voice.session = turn[t].session BY <2>2, <3>2 DEF CancelVoice
      <4>2. voice.session # 0 BY <2>2, <4>1 DEF Created
      <4> QED BY <2>2, <3>2, <4>2, CancelServes
    <3> QED BY <3>1, <3>2
  <2>3. CASE UNCHANGED <<voice, teardown>> BY <1>1, <2>3
  <2> QED BY <1>5, <2>1, <2>2, <2>3 DEF EditGenerated
<1>6. ASSUME NEW t \in Turn, AskStep(t) PROVE Serves
  <2>1. CASE AskClears(t) BY <1>1, <1>3, <2>1 DEF AskClears
  <2>2. CASE BindTarget(t) BY <1>1, <2>2 DEF BindTarget
  <2> QED BY <1>2, <1>4, <1>5, <1>6, <2>1, <2>2, PanelCommandFrame DEF AskStep
<1>7. ASSUME NEW t \in Turn, ConfirmEdit(t) PROVE Serves
  <2>1. UNCHANGED <<teardown, start>> /\ BeginApply(t, qa.conversation) BY <1>7 DEF ConfirmEdit
  <2> QED BY <2>1, ConfirmServes
<1>8. ASSUME NEW t \in Turn, EditApplied(t) PROVE Serves BY <1>1, <1>8 DEF EditApplied
<1>9. ASSUME NEW c \in Close, CloseClearsPreview(c) PROVE Serves
  BY <1>1, <1>3, <1>9 DEF CloseClearsPreview
<1>10. ASSUME NEW s \in Session, RouteStep(s) PROVE Serves
  <2>0. UNCHANGED teardown
    BY <1>10 DEF RouteStep, RouteShows, RouteSetsMode, RouteAsks, RouteReturns
  <2>1. CASE UNCHANGED voice BY <1>1, <2>0, <2>1
  <2>2. CASE CompleteVoice(s)
    <3>1. /\ voice'.session = voice.session /\ voice'.phase = "Completed"
          /\ voice.phase \notin Resting \cup {"Applying"} /\ voice'.intent = voice.intent
          /\ voice'.preview = {}
      BY <1>0, <2>2 DEF CompleteVoice, VoiceState
    <3>2. GoesOn BY <2>0, <3>1 DEF GoesOn, Previews, Working, Resting
    <3>3. Governed' BY <3>1 DEF Governed, InHand
    <3> QED BY <3>2, <3>3 DEF Serves
  <2> QED
    BY <1>10, <2>1, <2>2 DEF RouteStep, RouteShows, RouteSetsMode, RouteAsks, RouteReturns
<1> QED
  BY <1>2, <1>6, <1>7, <1>8, <1>9, <1>10, PanelCommandFrame, CloseNumbers DEF PanelStep, CloseStep

----------------------------------------------------------------------------
(* How a turn comes to make a preview: it asks on the panel,                *)
Pushes(t) ==
    /\ Asking(t) /\ turn'[t].ask = "edit" /\ turn'[t].owner = qa.conversation

(* revises the preview of its conversation or generates a new one,          *)
Edits(t) ==
    /\ EditPreview(t) /\ turn[t].ask = "edit" /\ turn'[t].ask \in {"revise", "generate"}
    /\ turn'[t].owner = turn[t].owner
    /\ turn'[t].ask = "generate" =>
          \/ UNCHANGED voice /\ turn'[t].session = voice.session /\ voice.intent = "Edit"
          \/ /\ SessionLeft /\ voice' = NewVoice(NextSession, "Processing", FALSE)
             /\ turn'[t].session = NextSession

(* and shows it.                                                            *)
Shows(t) ==
    /\ turn[t].ask \in {"revise", "generate"} /\ turn'[t].ask = "bind"
    /\ turn'[t].owner = turn[t].owner /\ UNCHANGED apply
    /\ voice'.phase = "Preview" /\ turn'[t].session = voice.session
    /\ turn[t].owner \in voice'.preview /\ voice'.session = voice.session
    /\ voice.phase \in {"Processing", "Preview"}

Revises(t) ==
    \/ turn'[t].ask \notin Revising
    \/ /\ turn'[t].ask = turn[t].ask /\ turn'[t].owner = turn[t].owner
       /\ turn'[t].session = turn[t].session
    \/ Pushes(t) \/ Edits(t) \/ Shows(t)

LEMMA TurnRevises ==
    ASSUME VoiceTypeOK, Fields, PanelStep, NEW u \in Turn
    PROVE  Revises(u)
<1>0. TurnTypes /\ voice \in VoiceState BY DEF Fields, VoiceTypeOK
<1>1. ASSUME turn'[u] = turn[u] PROVE Revises(u) BY <1>1 DEF Revises
<1>2. ASSUME turn'[u].ask \notin Revising PROVE Revises(u) BY <1>2 DEF Revises
<1>3. ASSUME NEW t \in Turn, NEW p, BeginAt(t, p) PROVE Revises(u)
  <2>1. /\ turn'[t].ask = turn[t].ask /\ turn'[t].owner = turn[t].owner
        /\ turn'[t].session = turn[t].session /\ \A w \in Turn \ {t} : turn'[w] = turn[w]
    BY <1>0, <1>3, BeginAtFields
  <2> QED BY <1>1, <2>1 DEF Revises
<1>4. ASSUME NEW t \in Turn, NEW p, AskAt(t, p), p \notin Revising PROVE Revises(u)
  <2>1. turn'[t].ask = p /\ \A w \in Turn \ {t} : turn'[w] = turn[w]
    BY <1>0, <1>4, AskAtFields
  <2> QED BY <1>1, <1>2, <1>4, <2>1
<1>5. ASSUME NEW t \in Turn, NEW s, NEW b, SubmitText(t, s, b) PROVE Revises(u)
  <2>1. turn'[t].ask = "show" /\ \A w \in Turn \ {t} : turn'[w] = turn[w]
    BY <1>0, <1>5 DEF SubmitText, TurnTypes, TurnType
  <2>2. "show" \notin Revising BY DEF Revising
  <2> QED BY <1>1, <1>2, <2>1, <2>2
<1>6. ASSUME NEW t \in Turn, SettleAnswer(t) PROVE Revises(u)
  <2>1. turn'[t].ask = "release" /\ \A w \in Turn \ {t} : turn'[w] = turn[w]
    BY <1>0, <1>6 DEF SettleAnswer, AskAt, TurnTypes, TurnType
  <2>2. "release" \notin Revising BY DEF Revising
  <2> QED BY <1>1, <1>2, <2>1, <2>2
<1>7. ASSUME NEW t \in Turn, AskReleases(t) PROVE Revises(u)
  <2>1. turn'[t].ask = "done" /\ \A w \in Turn \ {t} : turn'[w] = turn[w]
    BY <1>0, <1>7, ReleaseFields
  <2>2. "done" \notin Revising BY DEF Revising
  <2> QED BY <1>1, <1>2, <2>1, <2>2
<1>8. ASSUME NEW t \in Turn, PushQuestion(t) PROVE Revises(u)
  <2>1. CASE AskAt(t, "release") BY <1>4, <2>1 DEF Revising
  <2>2. CASE /\ Asking(t)
             /\ turn' = [turn EXCEPT ![t].ask = IF qa.editing THEN "edit" ELSE "answer",
                                     ![t].owner = qa.conversation, ![t].editing = qa.editing]
    <3>1. /\ turn'[t].ask = (IF qa.editing THEN "edit" ELSE "answer")
          /\ turn'[t].owner = qa.conversation /\ \A w \in Turn \ {t} : turn'[w] = turn[w]
      BY <1>0, <2>2 DEF TurnTypes, TurnType
    <3>2. CASE u = t /\ qa.editing BY <2>2, <3>1, <3>2 DEF Revises, Pushes
    <3>3. CASE u = t /\ ~qa.editing
      <4>1. turn'[u].ask = "answer" BY <3>1, <3>3
      <4> QED BY <4>1 DEF Revises, Revising
    <3> QED BY <1>1, <3>1, <3>2, <3>3
  <2> QED BY <1>8, <2>1, <2>2 DEF PushQuestion
<1>9. ASSUME NEW t \in Turn, NEW p, NEW s, NEW b, EditsWith(t, p, s, b)
      PROVE  /\ turn'[t].ask = p /\ turn'[t].session = s /\ turn'[t].owner = turn[t].owner
             /\ \A w \in Turn \ {t} : turn'[w] = turn[w]
  BY <1>0, <1>9, EditFields
<1>10. ASSUME NEW t \in Turn, EditPreview(t) PROVE Revises(u)
  <2>0. turn[t].ask = "edit" BY <1>10 DEF EditPreview
  <2>1. CASE AskAt(t, "fail") BY <1>4, <2>1 DEF Revising
  <2>2. CASE \E b : EditsWith(t, "revise", voice.session, b)
    <3>1. /\ turn'[t].ask = "revise" /\ turn'[t].owner = turn[t].owner
          /\ \A w \in Turn \ {t} : turn'[w] = turn[w]
      BY <1>9, <2>2
    <3>2. Edits(t) BY <1>10, <2>0, <3>1 DEF Edits
    <3> QED BY <1>1, <3>1, <3>2 DEF Revises
  <2>3. CASE /\ UNCHANGED voice /\ voice.intent = "Edit"
             /\ \E b : EditsWith(t, "generate", voice.session, b)
    <3>1. /\ turn'[t].ask = "generate" /\ turn'[t].owner = turn[t].owner
          /\ turn'[t].session = voice.session /\ \A w \in Turn \ {t} : turn'[w] = turn[w]
      BY <1>9, <2>3
    <3>2. Edits(t) BY <1>10, <2>0, <2>3, <3>1 DEF Edits
    <3> QED BY <1>1, <3>1, <3>2 DEF Revises
  <2>4. CASE /\ SessionLeft /\ voice' = NewVoice(NextSession, "Processing", FALSE)
             /\ \E b : EditsWith(t, "generate", NextSession, b)
    <3>1. /\ turn'[t].ask = "generate" /\ turn'[t].owner = turn[t].owner
          /\ turn'[t].session = NextSession /\ \A w \in Turn \ {t} : turn'[w] = turn[w]
      BY <1>9, <2>4
    <3>2. Edits(t) BY <1>10, <2>0, <2>4, <3>1 DEF Edits
    <3> QED BY <1>1, <3>1, <3>2 DEF Revises
  <2> QED BY <1>10, <2>1, <2>2, <2>3, <2>4 DEF EditPreview
<1>11. ASSUME NEW t \in Turn, Revised(t) PROVE Revises(u)
  <2>1. CASE AskAt(t, "fail") BY <1>4, <2>1 DEF Revising
  <2>2. CASE /\ voice.phase = "Preview" /\ turn[t].owner \in voice.preview
             /\ \E b : EditsWith(t, "bind", voice.session, b)
    <3>1. /\ turn'[t].ask = "bind" /\ turn'[t].owner = turn[t].owner
          /\ turn'[t].session = voice.session /\ \A w \in Turn \ {t} : turn'[w] = turn[w]
      BY <1>9, <2>2
    <3>2. turn[t].ask = "revise" /\ UNCHANGED <<voice, apply>>
      BY <1>11 DEF Revised, voiceVars, taskVars
    <3>3. Shows(t) BY <2>2, <3>1, <3>2 DEF Shows
    <3> QED BY <1>1, <3>1, <3>3 DEF Revises
  <2> QED BY <1>11, <2>1, <2>2 DEF Revised
<1>12. ASSUME NEW t \in Turn, EditGenerated(t) PROVE Revises(u)
  <2>1. CASE AskAt(t, "fail") BY <1>4, <2>1 DEF Revising
  <2>2. CASE SetPreview(turn[t].session, turn[t].owner) /\ AskAt(t, "bind")
    <3>1. /\ turn'[t].ask = "bind" /\ turn'[t].owner = turn[t].owner
          /\ turn'[t].session = turn[t].session /\ \A w \in Turn \ {t} : turn'[w] = turn[w]
      BY <1>0, <2>2, AskAtFields
    <3>2. turn[t].ask = "generate" /\ UNCHANGED apply BY <1>12 DEF EditGenerated, taskVars
    <3>3. /\ voice.session = turn[t].session /\ voice.phase = "Processing"
          /\ voice'.session = voice.session /\ voice'.phase = "Preview"
          /\ voice'.preview = {turn[t].owner}
      BY <1>0, <2>2 DEF SetPreview, Current, VoiceState
    <3>4. Shows(t) BY <3>1, <3>2, <3>3 DEF Shows
    <3> QED BY <1>1, <3>1, <3>4 DEF Revises
  <2> QED BY <1>12, <2>1, <2>2 DEF EditGenerated
<1>13. ASSUME NEW t \in Turn,
              \/ StopMicrophone(t) \/ QuestionHeard(t) \/ ShowQuestion(t) \/ Prepare(t)
              \/ ContextCaptured(t) \/ CheckCurrent(t) \/ Answered(t) \/ BindTarget(t)
              \/ CompleteRuntime(t) \/ AskFails(t) \/ AskSweeps(t) \/ AskClears(t)
              \/ FinishRecording(t)
       PROVE  Revises(u)
  <2>1. \E p : AskAt(t, p) /\ p \notin Revising
    BY <1>13
    DEF StopMicrophone, QuestionHeard, ShowQuestion, Prepare, ContextCaptured, CheckCurrent, Answered,
        BindTarget, CompleteRuntime, AskFails, AskSweeps, AskClears, FinishRecording, AfterCancel,
        Revising
  <2> QED BY <1>4, <2>1
<1>14. ASSUME NEW t \in Turn, BeginRecording(t) \/ BeginStep(t) PROVE Revises(u)
  BY <1>3, <1>14, BeginMoves DEF BeginRecording
<1>15. ASSUME NEW t \in Turn, AskStep(t) PROVE Revises(u)
  BY <1>6, <1>7, <1>8, <1>10, <1>11, <1>12, <1>13, <1>15 DEF AskStep
<1>16. ASSUME NEW t \in Turn, TypeQuestion(t) PROVE Revises(u) BY <1>5, <1>16 DEF TypeQuestion
<1>17. ASSUME UNCHANGED turn PROVE Revises(u) BY <1>1, <1>17
<1>18. ASSUME NEW s \in Session, RouteStep(s) PROVE Revises(u)
  BY <1>5, <1>17, <1>18, PanelTurnFrame DEF RouteStep
<1> QED
  BY <1>13, <1>14, <1>15, <1>16, <1>17, <1>18, PanelTurnFrame, CloseNumbers DEF PanelStep

----------------------------------------------------------------------------
(* The turn on the panel has a conversation.                                *)
LEMMA ConversationStep ==
    ASSUME Fields, ShownInv, PanelStep, QaActive => qa.conversation # 0
    PROVE  QaActive' => qa'.conversation # 0
<1> DEFINE Goal == QaActive' => qa'.conversation # 0
<1>0. /\ PanelTypes /\ qa \in Snapshot /\ previous.phase \notin {"Recording", "Thinking"}
      /\ 0 \notin Turn
  BY Numbers DEF Fields, PanelTypes, ShownInv
<1>1. ASSUME UNCHANGED qa PROVE Goal BY <1>1 DEF QaActive
<1>2. ASSUME NEW t \in Turn, FailIfCurrent(t) PROVE Goal
  <2>1. qa' = qa \/ qa'.phase = "Failed" BY <1>0, <1>2 DEF FailIfCurrent, Snapshot
  <2> QED BY <1>1, <2>1 DEF QaActive
<1>3. ASSUME NEW t \in Turn, NEW p, NEW from \in Snapshot, ClaimTurn(t, p, from) PROVE Goal
  <2>1. qa' = NewTurn(t, p, from) BY <1>3 DEF ClaimTurn
  <2>2. qa'.conversation \in {t, from.conversation} \ {0}
    BY <1>0, <2>1 DEF NewTurn, Snapshot
  <2> QED BY <2>2
<1>4. ASSUME NEW t \in Turn, NEW p, TakeBack(t, p) PROVE Goal
  <2>1. qa' = qa \/ qa' = previous BY <1>4 DEF TakeBack
  <2> QED BY <1>0, <1>1, <2>1 DEF QaActive
<1>5. ASSUME NEW t \in Turn, FinishRecording(t) PROVE Goal
  <2>1. QaActive /\ qa'.conversation = qa.conversation
    BY <1>0, <1>5 DEF FinishRecording, RecordingQuestion, QaActive, Snapshot
  <2> QED BY <2>1
<1>6. ASSUME NEW t \in Turn, PushQuestion(t) \/ SettleAnswer(t) PROVE Goal
  <2>1. CASE qa' = qa BY <1>1, <2>1
  <2>2. CASE qa' # qa
    <3>1. QaActive /\ qa'.conversation = qa.conversation
      BY <1>0, <1>6, <2>2 DEF PushQuestion, SettleAnswer, Asking, QaActive, Snapshot
    <3> QED BY <3>1
  <2> QED BY <2>1, <2>2
<1>7. ASSUME NEW c, NEW b, NEW r, ClaimClose(c, b, r) PROVE Goal
  <2>1. qa'.phase \in {"Idle", "Cancelled"} BY <1>0, <1>7 DEF ClaimClose, Snapshot
  <2> QED BY <2>1 DEF QaActive
<1>8. ASSUME NEW c \in Close, CloseStep(c) PROVE Goal
  <2>1. qa' = qa \/ qa' = DefaultSnapshot
    BY <1>8 DEF CloseStep, CloseHides, CloseCancelsRuntime, CloseClearsPreview, panelVars
  <2> QED BY <1>1, <2>1 DEF DefaultSnapshot, QaActive
<1>9. ASSUME NEW b, SetEditInstructionMode(b) PROVE Goal
  <2>1. ~QaActive /\ qa'.phase = qa.phase BY <1>0, <1>9 DEF SetEditInstructionMode, Snapshot
  <2> QED BY <2>1 DEF QaActive
<1>10. ASSUME NEW t \in Turn, BeginRecording(t) PROVE Goal
  BY <1>0, <1>3, <1>10, DefaultTyped DEF BeginRecording
<1>11. ASSUME NEW t \in Turn, BeginStep(t) \/ FaultStep(t) PROVE Goal
  BY <1>1, <1>2, <1>4, <1>11
  DEF BeginStep, FaultStep, ShowRecording, Register, SelectionCaptured, QaOpens, QaInstalls, Arm,
      QaDiscarded, BeginFails, BeginSweeps, FaultStarts, FaultFails, FaultSweeps, panelVars
<1>12. ASSUME NEW t \in Turn, NEW s, NEW b, SubmitText(t, s, b) PROVE Goal
  BY <1>0, <1>3, <1>12 DEF SubmitText
<1>13. ASSUME NEW t \in Turn, AskStep(t) PROVE Goal
  <2>1. CASE ShowQuestion(t) BY <1>1, <1>4, <2>1 DEF ShowQuestion
  <2>2. CASE AskFails(t) BY <1>2, <2>2 DEF AskFails
  <2>3. CASE ~ShowQuestion(t) /\ ~AskFails(t) /\ ~PushQuestion(t) /\ ~SettleAnswer(t)
    BY <1>1, <1>13, <2>3
    DEF AskStep, StopMicrophone, QuestionHeard, Prepare, ContextCaptured, CheckCurrent, Answered,
        EditPreview, Revised, EditGenerated, BindTarget, CompleteRuntime, AskSweeps, AskClears,
        AskReleases, panelVars
  <2> QED BY <1>6, <2>1, <2>2, <2>3
<1>14. ASSUME NEW t \in Turn, ConfirmEdit(t) \/ EditApplied(t) \/ AppliedEditCloses(t) PROVE Goal
  BY <1>1, <1>7, <1>14 DEF ConfirmEdit, EditApplied, AppliedEditCloses, qaVars, panelVars
<1>15. ASSUME NEW c \in UserClose, UserCloses(c) PROVE Goal BY <1>7, <1>15 DEF UserCloses
<1>16. ASSUME Show \/ ToggleEditMode PROVE Goal BY <1>1, <1>9, <1>16 DEF Show, ToggleEditMode
<1>17. ASSUME NEW s \in Session, RouteStep(s) PROVE Goal
  BY <1>1, <1>9, <1>12, <1>17
  DEF RouteStep, RouteShows, RouteSetsMode, RouteAsks, RouteReturns, qaVars, panelVars
<1>18. ASSUME NEW t \in Turn, TypeQuestion(t) PROVE Goal BY <1>12, <1>18 DEF TypeQuestion
<1> HIDE DEF Goal
<1>19. Goal
  BY <1>5, <1>8, <1>10, <1>11, <1>13, <1>14, <1>15, <1>16, <1>17, <1>18 DEF PanelStep
<1> QED BY <1>19 DEF Goal

LEMMA AddressedStep ==
    ASSUME VoiceTypeOK, Fields, ShownInv, Addressed, PanelStep
    PROVE  Addressed'
<1>1. QaActive' => qa'.conversation # 0 BY ConversationStep DEF Addressed
<1>2. ASSUME NEW t \in Turn, turn'[t].ask \in Revising PROVE turn'[t].owner # 0
  <2>1. Revises(t) BY TurnRevises
  <2>2. CASE Pushes(t) BY <2>2 DEF Pushes, Addressed, Asking, QaActive
  <2>3. CASE Edits(t) BY <2>3 DEF Edits, Addressed, Revising
  <2>4. CASE Shows(t) BY <2>4 DEF Shows, Addressed, Revising
  <2> QED BY <1>2, <2>1, <2>2, <2>3, <2>4 DEF Revises, Addressed
<1> QED BY <1>1, <1>2 DEF Addressed

----------------------------------------------------------------------------
(* The session of the service is never an earlier one.                      *)
LEMMA ServesForward ==
    ASSUME VoiceTypeOK, Serves
    PROVE  /\ voice.session \in Nat
           /\ \/ voice'.session = voice.session /\ ~Starts
              \/ Starts /\ voice'.session \in Session /\ voice'.session > voice.session
<1>1. voice.session \in Nat BY VoiceNumber DEF VoiceTypeOK
<1>2. Starts => voice'.session # voice.session BY <1>1, SessionNumber DEF Starts
<1> QED BY <1>1, <1>2 DEF Serves, Torn, Ends, Starts, GoesOn

(* A command that goes on is not torn down.                                 *)
LEMMA ControlledStep ==
    ASSUME VoiceTypeOK, CommandInv, Controlled, Serves
    PROVE  Controlled'
<1>0. /\ voice.session \in Nat /\ (voice.session # 0 => voice.session \in Session) /\ Governed'
      /\ \A s \in Session : CommandAt(s)
  BY VoiceNumber DEF VoiceTypeOK, CommandInv, Serves
<1> DEFINE Goal == voice'.session # 0 =>
          /\ voice'.phase \notin {"Cancelled", "Failed"} => teardown'[voice'.session] = "no"
          /\ voice'.phase = "Recording" => voice'.intent = "none"
<1>1. CASE UNCHANGED <<voice, teardown>>
  <2>1. Goal BY <1>1 DEF Controlled
  <2> QED BY <1>0, <2>1 DEF Controlled
<1>2. CASE Torn
  <2>1. PICK w \in Session : TearDown(w) BY <1>2 DEF Torn
  <2>2. UNCHANGED voice /\ \A s \in Session : teardown'[s] \in {"no", teardown[s]}
    BY <2>1 DEF TearDown, VoiceTypeOK
  <2>3. Goal BY <1>0, <2>2 DEF Controlled
  <2> QED BY <1>0, <2>3 DEF Controlled
<1>3. CASE Ends
  <2>1. Goal BY <1>3 DEF Ends
  <2> QED BY <1>0, <2>1 DEF Controlled
<1>4. CASE Starts
  <2>1. PICK n \in Session : voice'.session = n /\ n > voice.session /\ voice'.intent = "none"
    BY <1>4 DEF Starts
  <2>2. teardown[n] = "no" /\ UNCHANGED teardown
    BY <1>0, <1>4, <2>1 DEF Starts, CommandAt, CommandShape
  <2>3. Goal BY <2>1, <2>2
  <2> QED BY <1>0, <2>3 DEF Controlled
<1>5. CASE GoesOn
  <2>1. Goal BY <1>5 DEF GoesOn, Controlled
  <2> QED BY <1>0, <2>1 DEF Controlled
<1> QED BY <1>1, <1>2, <1>3, <1>4, <1>5 DEF Serves

(* What a step leaves of the tasks and of the turns.                        *)
Passes ==
    /\ \A u \in Session : u <= voice.session => Tasks(u) \/ TakeCapture(u)
    /\ \A t \in Turn : Revises(t)

(* A turn generates for a session without a command, or with an intent.     *)
LEMMA GeneratingStep ==
    ASSUME VoiceTypeOK, Fields, CommandInv, Generating, Serves, Passes
    PROVE  Generating'
<1>0. /\ voice.session \in Nat /\ \A s \in Session : CommandAt(s) /\ s \in Nat /\ s # 0
  BY SessionNumber, ServesForward DEF CommandInv
<1> SUFFICES ASSUME NEW t \in Turn, turn'[t].ask = "generate", turn'[t].session = voice'.session,
                    voice'.session # 0
             PROVE  start'[voice'.session] = "idle" \/ voice'.intent # "none"
  BY DEF Generating
<1>1. Revises(t) /\ "generate" \in Revising BY DEF Passes, Revising
<1>2. CASE turn'[t].ask = turn[t].ask /\ turn'[t].session = turn[t].session
  <2>1. turn[t].session # 0 /\ turn[t].session \in Session
    BY <1>2 DEF Fields, TurnTypes, TurnType
  <2>2. turn[t].session <= voice.session BY <2>1 DEF CommandInv, Edited
  <2>3. voice'.session = voice.session /\ ~Starts BY <1>0, <1>2, <2>1, <2>2, ServesForward
  <2>4. start[voice.session] = "idle" \/ voice.intent # "none"
    BY <1>2, <2>3 DEF Generating
  <2>5. voice.intent # "none" => voice'.intent # "none"
    BY <2>3 DEF Serves, Torn, Ends, GoesOn
  <2>6. start[voice.session] = "idle" => start'[voice.session] = "idle"
    BY <1>0, <1>2, <2>1, <2>2, <2>3 DEF Passes, Tasks, TakeCapture
  <2> QED BY <2>3, <2>4, <2>5, <2>6
<1>3. CASE Edits(t)
  <2>1. CASE UNCHANGED voice /\ voice.intent = "Edit" BY <2>1
  <2>2. CASE SessionLeft /\ voice' = NewVoice(NextSession, "Processing", FALSE)
    <3>1. PICK n \in Session : n = NextSession /\ n > voice.session
      BY <2>2, EditSession DEF Fields
    <3>2. voice'.session = n BY <2>2, <3>1 DEF NewVoice
    <3>3. start[n] = "idle" BY <1>0, <3>1 DEF CommandAt, CommandShape
    <3>4. UNCHANGED start BY <1>3 DEF Edits, EditPreview, taskVars
    <3> QED BY <3>2, <3>3, <3>4
  <2> QED BY <1>3, <2>1, <2>2 DEF Edits
<1> QED BY <1>1, <1>2, <1>3 DEF Revises, Pushes, Shows

----------------------------------------------------------------------------
(* The preview of the current session is confirmed,                         *)
Begins(s) ==
    /\ s = voice.session /\ UNCHANGED start
    /\ \E i \in Id, o \in {0, qa.conversation} :
          BeginApply(i, o) /\ (o # 0 => qa.phase = "Completed" /\ UNCHANGED turn)

(* which is how an insertion comes about.                                   *)
Confirms == \A s \in Session : Confirming(s)' => Confirming(s) \/ Begins(s)

LEMMA ConfirmingFrame == UNCHANGED apply => Confirms
BY DEF Confirms, Confirming

LEMMA ConfirmingLess ==
    ASSUME VoiceTypeOK, NEW i \in Id, NEW p, p # "insert", ApplyAt(i, p)
    PROVE  Confirms
<1>1. apply'[i].pc = p /\ \A j \in Id \ {i} : apply'[j] = apply[j]
  BY DEF ApplyAt, VoiceTypeOK, Confirmation
<1> QED BY <1>1 DEF Confirms, Confirming

LEMMA ConfirmingMore ==
    ASSUME VoiceTypeOK, NEW i \in Id, NEW o \in {0, qa.conversation}, BeginApply(i, o),
           UNCHANGED start, o # 0 => qa.phase = "Completed" /\ UNCHANGED turn
    PROVE  Confirms
<1>1. apply' = [apply EXCEPT ![i] = [pc |-> "insert", session |-> voice.session]] BY DEF BeginApply
<1>2. apply'[i].session = voice.session /\ \A j \in Id \ {i} : apply'[j] = apply[j]
  BY <1>1 DEF VoiceTypeOK
<1>3. Begins(voice.session) BY DEF Begins
<1> QED BY <1>2, <1>3 DEF Confirms, Confirming

LEMMA ConfirmingCommand ==
    ASSUME VoiceTypeOK, CommandStep, UNCHANGED turn
    PROVE  Confirms
<1>1. ASSUME NEW i \in Id, FindTarget(i) \/ Insert(i) \/ Report(i) PROVE Confirms
  <2>1. \E p : p # "insert" /\ ApplyAt(i, p) BY <1>1 DEF FindTarget, Insert, Report
  <2> QED BY <2>1, ConfirmingLess
<1>2. ASSUME NEW s \in Session, ConfirmDirect(s) PROVE Confirms
  <2>1. CASE UNCHANGED apply BY <2>1, ConfirmingFrame
  <2>2. CASE BeginApply(s, 0) /\ UNCHANGED start
    BY <2>2, Numbers, ConfirmingMore
  <2> QED BY <1>2, <2>1, <2>2 DEF ConfirmDirect
<1>3. ASSUME NEW s \in Session, DirectApplied(s) PROVE Confirms
  BY <1>3, Numbers, ConfirmingLess DEF DirectApplied
<1>4. ASSUME NEW s \in Session, EndStep(s) PROVE Confirms
  BY <1>2, <1>3, <1>4, ConfirmingFrame
  DEF EndStep, TakeCapture, Transcribed, Resolve, Route, Generated, EndFailed, EndClears
<1>5. ASSUME NEW s \in Session,
             Begin(s) \/ StartStep(s) \/ MarkProcessing(s) \/ Confirm(s) \/ RecordingFault(s) \/ TearDown(s)
      PROVE  Confirms
  BY <1>5, ConfirmingFrame
  DEF Begin, StartStep, SetTarget, HoldResources, Bind, Opens, OpenFails, Install, Discarded,
      StartFailed, StartClears, MarkProcessing, Confirm, RecordingFault, TearDown, taskVars
<1>6. ASSUME UserCancels \/ \E i \in Id : CaptureCloses(i) PROVE Confirms
  BY <1>6, ConfirmingFrame DEF UserCancels, CaptureCloses, taskVars
<1> QED BY <1>1, <1>4, <1>5, <1>6 DEF CommandStep

LEMMA ConfirmingPanel ==
    ASSUME VoiceTypeOK, PanelStep
    PROVE  Confirms
<1>0. UNCHANGED commandVars => UNCHANGED apply BY DEF commandVars, taskVars
<1>1. ASSUME NEW t \in Turn, ConfirmEdit(t) PROVE Confirms
  <2>1. /\ BeginApply(t, qa.conversation) /\ UNCHANGED <<start, turn>> /\ qa.phase = "Completed"
    BY <1>1 DEF ConfirmEdit, qaVars
  <2> QED BY <2>1, Numbers, ConfirmingMore
<1>2. ASSUME NEW t \in Turn, EditApplied(t) PROVE Confirms
  BY <1>2, Numbers, ConfirmingLess DEF EditApplied
<1>3. ASSUME NEW t \in Turn, AskStep(t) PROVE Confirms
  BY <1>0, <1>3, ConfirmingFrame, PanelCommandFrame
  DEF AskStep, EditPreview, EditGenerated, BindTarget, AskClears, taskVars
<1>4. ASSUME NEW c \in Close, CloseStep(c) PROVE Confirms
  BY <1>0, <1>4, ConfirmingFrame, PanelCommandFrame DEF CloseStep, CloseClearsPreview, taskVars
<1>5. ASSUME NEW s \in Session, RouteStep(s) PROVE Confirms
  BY <1>5, ConfirmingFrame DEF RouteStep, RouteShows, RouteSetsMode, RouteAsks, RouteReturns
<1> QED
  BY <1>0, <1>1, <1>2, <1>3, <1>4, <1>5, ConfirmingFrame, PanelCommandFrame, CloseNumbers
  DEF PanelStep

----------------------------------------------------------------------------
(* A target is set by the start of its command or bound by a turn.          *)
Targets ==
    \A s \in Session : target' = s /\ target # s =>
        start[s] = "target" \/ \E t \in Turn : turn[t].ask = "bind" /\ turn[t].session = s

LEMMA TargetsFrame == target' \in {target, 0} => Targets
BY SessionNumber DEF Targets

LEMMA TargetsCommand ==
    ASSUME CommandStep
    PROVE  Targets
<1>1. ASSUME NEW s \in Session, SetTarget(s) PROVE Targets BY <1>1 DEF SetTarget, Targets
<1>2. ASSUME NEW s \in Session, StartStep(s) PROVE Targets
  BY <1>1, <1>2, TargetsFrame
  DEF StartStep, HoldResources, Bind, Opens, OpenFails, Install, Discarded,
      StartFailed, StartClears, hostVars
<1>3. ASSUME NEW s \in Session, EndStep(s) PROVE Targets
  BY <1>3, TargetsFrame
  DEF EndStep, TakeCapture, Transcribed, Resolve, Route, Generated, EndFailed, EndClears,
      ConfirmDirect, DirectApplied, hostVars
<1>4. ASSUME NEW s \in Session,
             Begin(s) \/ MarkProcessing(s) \/ Confirm(s) \/ RecordingFault(s) \/ TearDown(s)
      PROVE  Targets
  BY <1>4, TargetsFrame
  DEF Begin, MarkProcessing, Confirm, RecordingFault, TearDown, HostForgets, hostVars
<1>5. ASSUME UserCancels \/ \E i \in Id : CaptureCloses(i) \/ FindTarget(i) \/ Insert(i) \/ Report(i)
      PROVE  Targets
  BY <1>5, TargetsFrame DEF UserCancels, CaptureCloses, FindTarget, Insert, Report, hostVars
<1> QED BY <1>2, <1>3, <1>4, <1>5 DEF CommandStep

LEMMA TargetsPanel ==
    ASSUME PanelStep
    PROVE  Targets
<1>0. UNCHANGED commandVars => UNCHANGED target BY DEF commandVars, hostVars
<1>1. ASSUME NEW t \in Turn, BindTarget(t) PROVE Targets
  BY <1>1, TargetsFrame DEF BindTarget, Targets
<1>2. ASSUME NEW t \in Turn, AskStep(t) PROVE Targets
  BY <1>0, <1>1, <1>2, TargetsFrame, PanelCommandFrame
  DEF AskStep, EditPreview, EditGenerated, AskClears, hostVars
<1>3. ASSUME NEW t \in Turn, ConfirmEdit(t) \/ EditApplied(t) PROVE Targets
  BY <1>3, TargetsFrame DEF ConfirmEdit, EditApplied, hostVars
<1>4. ASSUME NEW c \in Close, CloseStep(c) PROVE Targets
  BY <1>0, <1>4, TargetsFrame, PanelCommandFrame DEF CloseStep, CloseClearsPreview, hostVars
<1>5. ASSUME NEW s \in Session, RouteStep(s) PROVE Targets
  BY <1>5, TargetsFrame DEF RouteStep, RouteShows, RouteSetsMode, RouteAsks, RouteReturns, hostVars
<1> QED
  BY <1>0, <1>2, <1>3, <1>4, <1>5, TargetsFrame, PanelCommandFrame, CloseNumbers DEF PanelStep

----------------------------------------------------------------------------
(* The turn that binds a target is the turn that asks: its preview cannot   *)
(* be confirmed yet.                                                        *)
LEMMA BoundIsAsked ==
    ASSUME VoiceTypeOK, OwnerInv, Addressed, Binding, NEW t \in Turn, turn[t].ask = "bind",
           turn'[t].ask = "bind", turn'[t].owner = turn[t].owner, Begins(turn[t].session)
    PROVE  FALSE
<1>1. PICK i \in Id, o \in {0, qa.conversation} :
         BeginApply(i, o) /\ (o # 0 => qa.phase = "Completed" /\ UNCHANGED turn)
  BY DEF Begins
<1>2. voice.session = turn[t].session /\ voice.phase = "Preview" /\ voice.preview = {o}
  BY <1>1 DEF Begins, BeginApply, Applyable
<1>3. turn[t].owner \in voice.preview BY <1>2 DEF Binding
<1>4. "bind" \in Revising BY DEF Revising
<1>5. turn[t].owner # 0 /\ turn[t].owner = o BY <1>2, <1>3, <1>4 DEF Addressed
<1>6. Making(t) /\ o = qa.conversation /\ qa.phase = "Completed" BY <1>1, <1>4, <1>5 DEF Making
<1>7. Asking(t) BY <1>5, <1>6 DEF OwnerInv
<1> QED BY <1>6, <1>7 DEF Asking

(* A turn binds the target of a preview nobody is about to insert.          *)
LEMMA BindingStep ==
    ASSUME VoiceTypeOK, Fields, ConfirmInv, CommandInv, OwnerInv, Addressed, Binding, Serves, Passes,
           Confirms
    PROVE  Binding'
<1>0. /\ voice.session \in Nat /\ (voice.session # 0 => voice.session \in Session)
      /\ \A s \in Session : s \in Nat /\ s # 0
  BY SessionNumber, VoiceNumber DEF VoiceTypeOK
<1> DEFINE Goal(t) ==
        /\ turn'[t].session # 0
        /\ \A i \in Id : ~(apply'[i].pc = "insert" /\ apply'[i].session = turn'[t].session)
        /\ voice'.session = turn'[t].session =>
              /\ voice'.phase \notin Working
              /\ voice'.phase \in {"Preview", "Applying"} => turn'[t].owner \in voice'.preview
<1>1. ASSUME NEW t \in Turn, turn'[t].ask = "bind" PROVE Goal(t)
  <2>1. Revises(t) /\ "bind" \in Revising BY DEF Passes, Revising
  <2>2. CASE /\ turn[t].ask = "bind" /\ turn'[t].owner = turn[t].owner
             /\ turn'[t].session = turn[t].session
    <3>0. PICK s \in Session : s = turn[t].session
      BY <2>2 DEF Binding, Fields, TurnTypes, TurnType
    <3>1. s # 0 /\ s <= voice.session BY <1>0, <3>0 DEF CommandInv, Edited
    <3>2. ~Confirming(s) BY <2>2, <3>0 DEF Binding
    <3>3. ~Begins(s) BY <1>1, <2>2, <3>0, BoundIsAsked
    <3>4. ~Confirming(s)' BY <3>2, <3>3 DEF Confirms
    <3>5. ASSUME voice'.session = s
          PROVE  /\ voice'.phase \notin Working
                 /\ voice'.phase \in {"Preview", "Applying"} => turn[t].owner \in voice'.preview
      <4>1. voice.session = s /\ ~Starts BY <1>0, <3>1, <3>5, ServesForward
      <4>2. /\ voice.phase \notin Working
            /\ voice.phase \in {"Preview", "Applying"} => turn[t].owner \in voice.preview
        BY <2>2, <3>0, <4>1 DEF Binding
      <4>3. CASE UNCHANGED voice BY <4>2, <4>3
      <4>4. CASE Ends BY <4>4 DEF Ends, Working
      <4>5. CASE GoesOn BY <4>2, <4>5 DEF GoesOn
      <4> QED BY <4>1, <4>3, <4>4, <4>5 DEF Serves, Torn
    <3>6. \A i \in Id : ~(apply'[i].pc = "insert" /\ apply'[i].session = s)
      BY <3>4 DEF Confirming
    <3> QED BY <2>2, <3>0, <3>1, <3>5, <3>6
  <2>3. CASE Shows(t)
    <3>1. /\ turn'[t].owner = turn[t].owner /\ UNCHANGED apply /\ voice'.phase = "Preview"
          /\ turn'[t].session = voice.session /\ turn[t].owner \in voice'.preview
          /\ voice.phase \in {"Processing", "Preview"}
      BY <2>3 DEF Shows
    <3>2. voice.session # 0 BY <3>1 DEF ConfirmInv, Named
    <3>3. Untouched(voice.session) BY <3>1 DEF ConfirmInv, Pending, Unconfirmed
    <3>4. \A i \in Id : ~(apply'[i].pc = "insert" /\ apply'[i].session = voice.session)
      BY <3>1, <3>3 DEF Untouched, Unapplied
    <3> QED BY <3>1, <3>2, <3>4 DEF Working
  <2> QED BY <1>1, <2>1, <2>2, <2>3 DEF Revises, Pushes, Edits
<1> HIDE DEF Goal
<1>2. \A t \in Turn : turn'[t].ask = "bind" => Goal(t) BY <1>1
<1> QED BY <1>2 DEF Goal, Binding, Confirming

----------------------------------------------------------------------------
(* What a confirmation has once its preview was confirmed.                  *)
Owned(s) == Current(s, "Applying") \/ teardown[s] = "control" \/ target # s

(* A new confirmation is applied by the service,                            *)
LEMMA DisownedNew ==
    ASSUME VoiceTypeOK, CommandInv, NEW s \in Session, Begins(s), start'[s] # "idle"
    PROVE  start'[s] = "done" /\ Current(s, "Applying")'
<1>1. PICK i \in Id, o \in {0, qa.conversation} : BeginApply(i, o) BY DEF Begins
<1>2. s = voice.session /\ UNCHANGED start /\ s # 0 BY SessionNumber DEF Begins
<1>3. voice.preview # {} BY <1>1 DEF BeginApply, Applyable
<1>4. Dead(s) BY <1>2, <1>3 DEF CommandInv, Prepared
<1>5. voice'.session = s /\ voice'.phase = "Applying"
  BY <1>1, <1>2 DEF BeginApply, VoiceTypeOK, VoiceState
<1> QED BY <1>2, <1>4, <1>5 DEF Dead, Current

(* and one under way still is, or its host knows, or has no target.         *)
LEMMA DisownedOld ==
    ASSUME VoiceTypeOK, ConfirmInv, CommandInv, Controlled, Binding, Serves, Passes, Targets,
           NEW s \in Session, Confirming(s), Confirming(s)', start[s] = "done", Owned(s)
    PROVE  Owned(s)'
<1>0. s \in Nat /\ s # 0 /\ teardown \in [Session -> {"no", "plain", "control"}] /\ voice.session \in Nat
  BY SessionNumber, ServesForward DEF VoiceTypeOK
<1>1. CASE Current(s, "Applying")
  <2>1. InHand(s) /\ s = voice.session BY <1>1 DEF InHand, Current
  <2>2. voice.control BY <1>0, <2>1 DEF Controlled, Governed
  <2>3. CASE UNCHANGED voice BY <1>1, <2>3 DEF Owned, Current
  <2>4. CASE Ends
    <3>1. teardown'[s] = "control" BY <1>0, <2>1, <2>2, <2>4 DEF Ends, Ending
    <3> QED BY <3>1 DEF Owned
  <2>5. CASE Starts BY <1>1, <2>5 DEF Starts, Current, Resting
  <2>6. CASE GoesOn BY <1>1, <2>1, <2>6 DEF GoesOn, Owned, Current
  <2> QED BY <2>3, <2>4, <2>5, <2>6 DEF Serves, Torn
<1>2. CASE teardown[s] = "control"
  <2>1. CASE UNCHANGED teardown BY <1>2, <2>1 DEF Owned
  <2>2. CASE Ends
    <3>1. teardown'[s] = "control" BY <1>0, <1>2, <2>2 DEF Ends, Ending
    <3> QED BY <3>1 DEF Owned
  <2>3. CASE Torn
    <3>1. PICK w \in Session : TearDown(w) BY <2>3 DEF Torn
    <3>2. CASE w = s
      <4>1. HostForgets(s) BY <1>2, <3>1, <3>2 DEF TearDown
      <4>2. target' # s BY <1>0, <4>1 DEF HostForgets
      <4> QED BY <4>2 DEF Owned
    <3>3. CASE w # s
      <4>1. teardown'[s] = "control" BY <1>0, <1>2, <3>1, <3>3 DEF TearDown
      <4> QED BY <4>1 DEF Owned
    <3> QED BY <3>2, <3>3
  <2> QED BY <2>1, <2>2, <2>3 DEF Serves, Starts, GoesOn
<1>3. CASE target # s
  <2>1. \A t \in Turn : turn[t].ask = "bind" => turn[t].session # s BY DEF Binding
  <2>2. target' # s BY <1>3, <2>1 DEF Targets
  <2> QED BY <2>2 DEF Owned
<1> QED BY <1>1, <1>2, <1>3 DEF Owned

LEMMA DisownedStep ==
    ASSUME VoiceTypeOK, ConfirmInv, CommandInv, Controlled, Binding, Disowned, Serves, Passes, Targets,
           Confirms
    PROVE  Disowned'
<1>1. ASSUME NEW s \in Session, Confirming(s)', start'[s] # "idle"
      PROVE  start'[s] = "done" /\ Owned(s)'
  <2>1. CASE Begins(s)
    <3>1. start'[s] = "done" /\ Current(s, "Applying")' BY <1>1, <2>1, DisownedNew
    <3> QED BY <3>1 DEF Owned
  <2>2. CASE Confirming(s)
    <3>0. s \in Nat /\ voice.session \in Nat BY SessionNumber, ServesForward
    <3>1. ~(s > voice.session)
      BY <2>2 DEF ConfirmInv, Pending, Untouched, Confirming, Unapplied
    <3>2. Tasks(s) \/ TakeCapture(s) BY <3>0, <3>1 DEF Passes
    <3>3. /\ start[s] = "idle" => start'[s] = "idle"
          /\ start[s] = "done" => start'[s] = "done"
      BY <3>2 DEF Tasks, TakeCapture
    <3>4. start[s] = "done" /\ Owned(s) BY <1>1, <2>2, <3>3 DEF Disowned, Owned
    <3> QED BY <1>1, <2>2, <3>3, <3>4, DisownedOld
  <2> QED BY <1>1, <2>1, <2>2 DEF Confirms
<1> QED BY <1>1 DEF Disowned, Owned

----------------------------------------------------------------------------
(* What the service, the turns and the insertions are to each other.        *)
ApplyInv == Addressed /\ Controlled /\ Generating /\ Binding /\ Disowned

LEMMA ApplyInit == QaInit => ApplyInv
<1> SUFFICES ASSUME QaInit PROVE ApplyInv OBVIOUS
<1>1. /\ voice.session = 0 /\ voice.phase = "Idle" /\ qa.phase = "Idle"
      /\ \A t \in Turn : turn[t].ask = "idle"
      /\ \A i \in Id : apply[i].pc = "no"
  BY DEF QaInit, VoiceInit, NewVoice, DefaultSnapshot, NoTurn
<1>2. Addressed BY <1>1 DEF Addressed, QaActive, Revising
<1>3. Controlled BY <1>1 DEF Controlled, Governed
<1> QED BY <1>1, <1>2, <1>3 DEF ApplyInv, Generating, Binding, Disowned, Confirming

(* Nothing happens to them.                                                 *)
LEMMA ApplyFrame ==
    ASSUME ApplyInv, UNCHANGED allVars
    PROVE  ApplyInv'
<1>1. UNCHANGED <<voice, teardown, target, start, end, apply, qa, turn>>
  BY DEF allVars, voiceVars, hostVars, taskVars, qaVars, panelVars
<1>2. Addressed' BY <1>1 DEF ApplyInv, Addressed, QaActive
<1>3. Controlled' BY <1>1 DEF ApplyInv, Controlled, Governed, InHand
<1>4. Generating' BY <1>1 DEF ApplyInv, Generating
<1>5. Binding' BY <1>1 DEF ApplyInv, Binding, Confirming
<1>6. Disowned' BY <1>1 DEF ApplyInv, Disowned, Confirming, Current
<1> QED BY <1>2, <1>3, <1>4, <1>5, <1>6 DEF ApplyInv

LEMMA ApplyInvStep ==
    ASSUME TypeInv, PanelInv, CommandInv, ApplyInv, [QaNext]_allVars
    PROVE  ApplyInv'
<1>0. /\ VoiceTypeOK /\ Fields /\ ConfirmInv /\ Named /\ Created
      /\ ShownInv /\ OwnerInv
      /\ Addressed /\ Controlled /\ Generating /\ Binding /\ Disowned
  BY TypeParts DEF Fields, ConfirmInv, PanelInv, ApplyInv
<1>1. CASE PanelStep
  <2>1. Serves BY <1>0, <1>1, ServesPanel
  <2>2. Passes BY <1>0, <1>1, PanelTasksGo, TurnRevises DEF Passes
  <2>3. Confirms /\ Targets BY <1>0, <1>1, ConfirmingPanel, TargetsPanel
  <2>4. Addressed' BY <1>0, <1>1, AddressedStep
  <2> QED
    BY <1>0, <2>1, <2>2, <2>3, <2>4, ControlledStep, GeneratingStep, BindingStep, DisownedStep
    DEF ApplyInv
<1>2. CASE CommandStep /\ UNCHANGED qaVars
  <2>0. UNCHANGED turn /\ UNCHANGED qa BY <1>2 DEF qaVars, panelVars
  <2>1. Serves BY <1>0, <1>2, ServesCommand
  <2>2. \A t \in Turn : Revises(t) BY <2>0 DEF Revises
  <2>3. Passes BY <1>0, <1>2, <2>2, CommandTasksGo DEF Passes
  <2>4. Confirms /\ Targets BY <1>0, <1>2, <2>0, ConfirmingCommand, TargetsCommand
  <2>5. Addressed' BY <1>0, <2>0 DEF Addressed, QaActive
  <2> QED
    BY <1>0, <2>1, <2>3, <2>4, <2>5, ControlledStep, GeneratingStep, BindingStep, DisownedStep
    DEF ApplyInv
<1>3. CASE UNCHANGED allVars BY <1>3, ApplyFrame
<1> QED BY <1>1, <1>2, <1>3 DEF QaNext

----------------------------------------------------------------------------
(* Where a turn that shows a preview is until it is settled.                *)
Settling == {"bind", "fail", "sweep", "closing", "clear"}

(* A turn that edits, edits for the conversation of its own question: two   *)
(* turns never make a preview of the same one.                              *)
OneMaker ==
    /\ \A t \in Turn : turn[t].ask \in Revising => turn[t].editing
    /\ \A t, u \in Turn : Making(t) /\ Making(u) /\ turn[t].owner = turn[u].owner => t = u

(* A turn that binds the target of the preview on offer names its session.  *)
Bound ==
    \A t \in Turn : turn[t].ask = "bind" /\ turn[t].owner \in voice.preview =>
        turn[t].session = voice.session

(* A turn was routed from a command.                                        *)
Routed ==
    \A t \in Turn : turn[t].command # 0 =>
        turn[t].command \in Session /\ start[turn[t].command] # "idle"

(* A session whose task is about to forget its target has ended,            *)
Cleared ==
    \A s \in Session : "clear" \in {start[s], end[s]} =>
        ~(voice.session = s /\ voice.phase \notin Resting)

(* and so has one whose text was applied.                                   *)
Applied ==
    \A i \in Id : apply[i].pc # "no" =>
        /\ apply[i].session <= voice.session
        /\ apply[i].pc = "ok" /\ apply[i].session = voice.session => voice.phase \in Resting

TargetInv == OneMaker /\ Bound /\ Routed /\ Cleared /\ Applied

----------------------------------------------------------------------------
(* What a step may do to the conversation and the command of turn t: a turn *)
(* that settles goes on, is done with its target or takes its preview back. *)
Settles(t) ==
    \/ /\ turn'[t].ask \in Settling /\ turn'[t].owner = turn[t].owner
       /\ turn'[t].editing = turn[t].editing
    \/ BindTarget(t) /\ AskAt(t, "complete")
    \/ AskClears(t)

Turns(t) ==
    /\ \/ turn'[t].command \in {0, turn[t].command}
       \/ turn'[t].command \in Session /\ end[turn'[t].command] \in Late
    /\ turn'[t].ask \in Revising =>
          turn'[t].editing \/ (turn[t].ask \in Revising /\ turn'[t].editing = turn[t].editing)
    /\ turn[t].ask \in Settling => Settles(t)

LEMMA TurnsFrame ==
    ASSUME NEW u \in Turn, turn'[u].ask = turn[u].ask, turn'[u].owner = turn[u].owner,
           turn'[u].editing = turn[u].editing, turn'[u].command = turn[u].command
    PROVE  Turns(u)
BY DEF Turns, Settles

LEMMA TurnTurns ==
    ASSUME VoiceTypeOK, Fields, ShownInv, PanelStep, NEW u \in Turn
    PROVE  Turns(u)
<1>0. TurnTypes BY DEF Fields
<1>1. ASSUME turn'[u] = turn[u] PROVE Turns(u) BY <1>1, TurnsFrame
<1>2. ASSUME NEW t \in Turn, NEW p, BeginAt(t, p) PROVE Turns(u)
  <2>1. /\ turn'[t].ask = turn[t].ask /\ turn'[t].owner = turn[t].owner
        /\ turn'[t].editing = turn[t].editing /\ turn'[t].command = turn[t].command
        /\ \A w \in Turn \ {t} : turn'[w] = turn[w]
    BY <1>0, <1>2, BeginAtFields
  <2> QED BY <1>1, <2>1, TurnsFrame
<1>3. ASSUME NEW t \in Turn, NEW p, AskAt(t, p), p \in Revising => turn[t].ask \in Revising,
             turn[t].ask \in Settling =>
                p \in Settling \/ AskClears(t) \/ (BindTarget(t) /\ p = "complete")
      PROVE  Turns(u)
  <2>1. /\ turn'[t].ask = p /\ turn'[t].owner = turn[t].owner
        /\ turn'[t].editing = turn[t].editing /\ turn'[t].command = turn[t].command
        /\ \A w \in Turn \ {t} : turn'[w] = turn[w]
    BY <1>0, <1>3, AskAtFields
  <2>2. turn[t].ask \in Settling => Settles(t) BY <1>3, <2>1 DEF Settles
  <2>3. Turns(t) BY <1>3, <2>1, <2>2 DEF Turns
  <2> QED BY <1>1, <2>1, <2>3
<1>4. ASSUME NEW t \in Turn, NEW s, NEW b, SubmitText(t, s, b),
             s = 0 \/ (s \in Session /\ end[s] \in Late)
      PROVE  Turns(u)
  <2>1. /\ turn'[t].ask = "show" /\ turn'[t].command = s
        /\ \A w \in Turn \ {t} : turn'[w] = turn[w]
    BY <1>0, <1>4 DEF SubmitText, TurnTypes, TurnType
  <2>2. ~(t <= lastTurn)
    BY <1>4, OwnerNumbers DEF SubmitText, ClaimTurn
  <2>3. turn[t].ask = "idle" BY <2>2 DEF ShownInv, Begun
  <2>4. Turns(t) BY <1>4, <2>1, <2>3 DEF Turns, Settling, Revising
  <2> QED BY <1>1, <2>1, <2>4
<1>5. ASSUME NEW t \in Turn, SettleAnswer(t) PROVE Turns(u)
  <2>1. /\ turn[t].ask = "settle" /\ turn'[t].ask = "release" /\ turn'[t].command = turn[t].command
        /\ \A w \in Turn \ {t} : turn'[w] = turn[w]
    BY <1>0, <1>5 DEF SettleAnswer, AskAt, TurnTypes, TurnType
  <2>2. Turns(t) BY <2>1 DEF Turns, Settling, Revising
  <2> QED BY <1>1, <2>1, <2>2
<1>6. ASSUME NEW t \in Turn, AskReleases(t) PROVE Turns(u)
  <2>1. /\ turn[t].ask = "release" /\ turn'[t].ask = "done" /\ turn'[t].command = turn[t].command
        /\ \A w \in Turn \ {t} : turn'[w] = turn[w]
    BY <1>0, <1>6 DEF AskReleases, TurnTypes, TurnType
  <2>2. Turns(t) BY <2>1 DEF Turns, Settling, Revising
  <2> QED BY <1>1, <2>1, <2>2
<1>7. ASSUME NEW t \in Turn, PushQuestion(t) PROVE Turns(u)
  <2>0. turn[t].ask = "push" BY <1>7 DEF PushQuestion
  <2>1. CASE AskAt(t, "release") BY <1>3, <2>0, <2>1 DEF Revising, Settling
  <2>2. CASE turn' = [turn EXCEPT ![t].ask = IF qa.editing THEN "edit" ELSE "answer",
                                  ![t].owner = qa.conversation, ![t].editing = qa.editing]
    <3>1. /\ turn'[t].ask = (IF qa.editing THEN "edit" ELSE "answer")
          /\ turn'[t].editing = qa.editing /\ turn'[t].command = turn[t].command
          /\ \A w \in Turn \ {t} : turn'[w] = turn[w]
      BY <1>0, <2>2 DEF TurnTypes, TurnType
    <3>2. Turns(t) BY <2>0, <3>1 DEF Turns, Settling, Revising
    <3> QED BY <1>1, <3>1, <3>2
  <2> QED BY <1>7, <2>1, <2>2 DEF PushQuestion
<1>8. ASSUME NEW t \in Turn, NEW p, NEW s, NEW b, EditsWith(t, p, s, b),
             turn[t].ask \in {"edit", "revise"}
      PROVE  Turns(u)
  <2>1. /\ turn'[t].editing = turn[t].editing /\ turn'[t].command = turn[t].command
        /\ \A w \in Turn \ {t} : turn'[w] = turn[w]
    BY <1>0, <1>8 DEF EditsWith, TurnTypes, TurnType
  <2>2. Turns(t) BY <1>8, <2>1 DEF Turns, Settling, Revising
  <2> QED BY <1>1, <2>1, <2>2
<1>9. ASSUME NEW t \in Turn, EditPreview(t) \/ Revised(t) PROVE Turns(u)
  <2>1. turn[t].ask \in {"edit", "revise"} BY <1>9 DEF EditPreview, Revised
  <2>2. AskAt(t, "fail") \/ \E p, s, b : EditsWith(t, p, s, b)
    BY <1>9 DEF EditPreview, Revised
  <2>3. CASE AskAt(t, "fail") BY <1>3, <2>1, <2>3 DEF Revising, Settling
  <2> QED BY <1>8, <2>1, <2>2, <2>3
<1>10. ASSUME NEW t \in Turn, EditGenerated(t) PROVE Turns(u)
  <2>1. turn[t].ask = "generate" /\ \E p \in {"bind", "fail"} : AskAt(t, p)
    BY <1>10 DEF EditGenerated
  <2> QED BY <1>3, <2>1 DEF Revising, Settling
<1>11. ASSUME NEW t \in Turn, FinishRecording(t) PROVE Turns(u)
  <2>1. AskAt(t, "finish") /\ turn[t].ask = "idle" BY <1>11 DEF FinishRecording, ShownInv
  <2> QED BY <1>3, <2>1 DEF Revising, Settling
<1>12. ASSUME NEW t \in Turn,
              \/ StopMicrophone(t) \/ QuestionHeard(t) \/ ShowQuestion(t) \/ Prepare(t)
              \/ ContextCaptured(t) \/ CheckCurrent(t) \/ Answered(t) \/ CompleteRuntime(t)
       PROVE  Turns(u)
  <2>1. turn[t].ask \notin Settling
    BY <1>12 DEF StopMicrophone, QuestionHeard, ShowQuestion, Prepare, ContextCaptured, CheckCurrent,
       Answered, CompleteRuntime, Settling
  <2>2. \E p : AskAt(t, p) /\ p \notin Revising
    BY <1>12 DEF StopMicrophone, QuestionHeard, ShowQuestion, Prepare, ContextCaptured, CheckCurrent,
       Answered, CompleteRuntime, Revising
  <2> QED BY <1>3, <2>1, <2>2
<1>13. ASSUME NEW t \in Turn, AskFails(t) \/ AskSweeps(t) PROVE Turns(u)
  <2>1. \E p \in {"sweep", "closing", "clear"} : AskAt(t, p)
    BY <1>13 DEF AskFails, AskSweeps, AfterCancel
  <2> QED BY <1>3, <2>1 DEF Revising, Settling
<1>14. ASSUME NEW t \in Turn, AskClears(t) PROVE Turns(u)
  <2>1. AskAt(t, "release") BY <1>14 DEF AskClears
  <2> QED BY <1>3, <1>14, <2>1 DEF Revising
<1>15. ASSUME NEW t \in Turn, BindTarget(t) PROVE Turns(u)
  <2>1. \E p \in {"complete", "fail"} : AskAt(t, p) BY <1>15 DEF BindTarget
  <2> QED BY <1>3, <1>15, <2>1 DEF Revising, Settling
<1>16. ASSUME NEW t \in Turn, AskStep(t) PROVE Turns(u)
  BY <1>5, <1>6, <1>7, <1>9, <1>10, <1>12, <1>13, <1>14, <1>15, <1>16 DEF AskStep
<1>17. ASSUME NEW t \in Turn, BeginRecording(t) \/ BeginStep(t) PROVE Turns(u)
  BY <1>2, <1>17, BeginMoves DEF BeginRecording
<1>18. ASSUME NEW t \in Turn, TypeQuestion(t) PROVE Turns(u) BY <1>4, <1>18 DEF TypeQuestion
<1>19. ASSUME UNCHANGED turn PROVE Turns(u) BY <1>1, <1>19
<1>20. ASSUME NEW s \in Session, RouteStep(s) PROVE Turns(u)
  <2>1. RouteAsks(s) => end[s] \in Late BY DEF RouteAsks, Late, EndPc
  <2> QED BY <1>4, <1>19, <1>20, <2>1, PanelTurnFrame DEF RouteStep
<1> QED
  BY <1>11, <1>16, <1>17, <1>18, <1>19, <1>20, PanelTurnFrame, CloseNumbers DEF PanelStep

----------------------------------------------------------------------------
(* What a step may do to the tasks of command s.                            *)
Untargeted == {"idle", "target", "fail"}

Advances(s) ==
    /\ start[s] \in Untargeted /\ start'[s] \notin Untargeted => SetTarget(s) \/ CancelVoice(s)
    /\ "clear" \in {start'[s], end'[s]} =>
          "clear" \in {start[s], end[s]} \/ CancelVoice(s) \/ CompleteVoice(s)

LEMMA AdvancesCommand ==
    ASSUME VoiceTypeOK, CommandStep, NEW u \in Session
    PROVE  Advances(u)
<1>1. ASSUME NEW s \in Session, NEW p, StartAt(s, p), UNCHANGED end,
             start[s] \in Untargeted => p \in Untargeted \/ SetTarget(s) \/ CancelVoice(s),
             p = "clear" => CancelVoice(s)
      PROVE  Advances(u)
  <2>1. start'[s] = p /\ \A w \in Session \ {s} : start'[w] = start[w] BY <1>1, StartFields
  <2>2. CASE u = s BY <1>1, <2>1, <2>2 DEF Advances
  <2>3. CASE u # s BY <1>1, <2>1, <2>3 DEF Advances
  <2> QED BY <2>2, <2>3
<1>2. ASSUME NEW s \in Session, NEW p, EndAt(s, p), UNCHANGED start, p = "clear" => CancelVoice(s)
      PROVE  Advances(u)
  <2>1. end'[s] = p /\ \A w \in Session \ {s} : end'[w] = end[w] BY <1>2, StartFields
  <2>2. CASE u = s BY <1>2, <2>1, <2>2 DEF Advances
  <2>3. CASE u # s BY <1>2, <2>1, <2>3 DEF Advances
  <2> QED BY <2>2, <2>3
<1>3. ASSUME UNCHANGED <<start, end>> PROVE Advances(u) BY <1>3 DEF Advances
<1>4. ASSUME NEW s \in Session, Begin(s) PROVE Advances(u)
  BY <1>1, <1>4 DEF Begin, Untargeted
<1>5. ASSUME NEW s \in Session, StartStep(s) PROVE Advances(u)
  <2>1. CASE SetTarget(s) \/ StartFailed(s)
    <3>1. UNCHANGED end /\ (StartAt(s, "hold") \/ (StartAt(s, "clear") /\ CancelVoice(s)))
      BY <2>1 DEF SetTarget, StartFailed
    <3>2. SetTarget(s) \/ CancelVoice(s) BY <2>1 DEF StartFailed
    <3> QED BY <1>1, <3>1, <3>2
  <2>2. CASE ~SetTarget(s) /\ ~StartFailed(s)
    <3>1. UNCHANGED end /\ start[s] \notin Untargeted /\ \E p : StartAt(s, p) /\ p # "clear"
      BY <1>5, <2>2 DEF StartStep, HoldResources, Bind, Opens, OpenFails, Install, Discarded,
         StartClears, Untargeted
    <3> QED BY <1>1, <3>1
  <2> QED BY <2>1, <2>2
<1>6. ASSUME NEW s \in Session, EndStep(s) \/ MarkProcessing(s) \/ Confirm(s) PROVE Advances(u)
  <2>1. CASE EndFailed(s) BY <1>2, <2>1 DEF EndFailed
  <2>2. CASE Resolve(s)
    <3>1. UNCHANGED start /\ (EndAt(s, "asked") \/ EndAt(s, "route") \/ EndAt(s, "fail"))
      BY <2>2 DEF Resolve
    <3> QED BY <1>2, <3>1
  <2>3. CASE Route(s)
    <3>1. /\ UNCHANGED start
          /\ \/ EndAt(s, "fail") \/ EndAt(s, "question") \/ EndAt(s, "converse")
             \/ EndAt(s, "generate")
      BY <2>3 DEF Route
    <3> QED BY <1>2, <3>1
  <2>4. CASE DirectApplied(s) \/ ConfirmDirect(s) \/ EndClears(s)
    <3>1. UNCHANGED start /\ (EndAt(s, "done") \/ EndAt(s, "fail") \/ EndAt(s, "applying"))
      BY <2>4 DEF DirectApplied, ConfirmDirect, EndClears
    <3> QED BY <1>2, <3>1
  <2>5. CASE TakeCapture(s) \/ Transcribed(s) \/ Generated(s) \/ MarkProcessing(s) \/ Confirm(s)
    <3>1. /\ UNCHANGED start
          /\ \/ EndAt(s, "await") \/ EndAt(s, "fail") \/ EndAt(s, "process") \/ EndAt(s, "apply")
             \/ EndAt(s, "take") \/ EndAt(s, "route")
      BY <2>5 DEF TakeCapture, Transcribed, Generated, MarkProcessing, Confirm
    <3> QED BY <1>2, <3>1
  <2> QED BY <1>6, <2>1, <2>2, <2>3, <2>4, <2>5 DEF EndStep
<1>7. ASSUME \/ UserCancels \/ \E s \in Session : RecordingFault(s) \/ TearDown(s)
             \/ \E i \in Id : CaptureCloses(i) \/ FindTarget(i) \/ Insert(i) \/ Report(i)
      PROVE  Advances(u)
  BY <1>3, <1>7
  DEF UserCancels, RecordingFault, TearDown, CaptureCloses, FindTarget, Insert, Report, taskVars
<1> QED BY <1>4, <1>5, <1>6, <1>7 DEF CommandStep

LEMMA AdvancesPanel ==
    ASSUME VoiceTypeOK, PanelStep, NEW u \in Session
    PROVE  Advances(u)
<1>0. UNCHANGED commandVars => UNCHANGED <<start, end>> BY DEF commandVars, taskVars
<1>1. ASSUME UNCHANGED <<start, end>> PROVE Advances(u) BY <1>1 DEF Advances
<1>2. ASSUME NEW t \in Turn, AskStep(t) \/ ConfirmEdit(t) \/ EditApplied(t) PROVE Advances(u)
  BY <1>0, <1>1, <1>2, PanelCommandFrame
  DEF AskStep, EditPreview, EditGenerated, BindTarget, AskClears, ConfirmEdit, EditApplied, taskVars
<1>3. ASSUME NEW c \in Close, CloseStep(c) PROVE Advances(u)
  BY <1>0, <1>1, <1>3, PanelCommandFrame DEF CloseStep, CloseClearsPreview, taskVars
<1>4. ASSUME NEW s \in Session, RouteStep(s) PROVE Advances(u)
  <2>1. UNCHANGED start /\ \E p : EndAt(s, p) /\ (p = "clear" => CompleteVoice(s))
    BY <1>4 DEF RouteStep, RouteShows, RouteSetsMode, RouteAsks, RouteReturns
  <2>2. PICK p : EndAt(s, p) /\ (p = "clear" => CompleteVoice(s)) BY <2>1
  <2>3. end'[s] = p /\ \A w \in Session \ {s} : end'[w] = end[w] BY <2>2, StartFields
  <2>4. CASE u = s BY <2>1, <2>2, <2>3, <2>4 DEF Advances
  <2>5. CASE u # s BY <2>1, <2>3, <2>5 DEF Advances
  <2> QED BY <2>4, <2>5
<1> QED BY <1>0, <1>1, <1>2, <1>3, <1>4, PanelCommandFrame, CloseNumbers DEF PanelStep

----------------------------------------------------------------------------
(* Nobody but these forgets a target: the host of a cancelled session, a    *)
(* start that comes too late, a task that has ended its session, and an     *)
(* insertion that was reported.                                             *)
Forgotten(s) ==
    \/ teardown[s] = "control" \/ start'[s] = "fail" \/ "clear" \in {start[s], end[s]}
    \/ \E i \in Id : apply[i].pc = "ok" /\ apply[i].session = s

ForgetsOnly == \A s \in Session : target = s /\ target' = 0 => Forgotten(s)

LEMMA ForgetsFrame == UNCHANGED target => ForgetsOnly
BY SessionNumber DEF ForgetsOnly

LEMMA ForgetsOne ==
    ASSUME NEW s, target' = (IF target = s THEN 0 ELSE target), Forgotten(s)
    PROVE  ForgetsOnly
BY SessionNumber DEF ForgetsOnly

LEMMA ForgetsCommand ==
    ASSUME VoiceTypeOK, CommandStep
    PROVE  ForgetsOnly
<1>1. ASSUME NEW s \in Session, SetTarget(s) PROVE ForgetsOnly
  BY <1>1, SessionNumber DEF SetTarget, ForgetsOnly
<1>2. ASSUME NEW s \in Session, Bind(s) PROVE ForgetsOnly
  <2>1. CASE UNCHANGED target BY <2>1, ForgetsFrame
  <2>2. CASE target' = (IF target = s THEN 0 ELSE target) /\ StartAt(s, "fail")
    <3>1. start'[s] = "fail" BY <2>2, StartFields
    <3>2. Forgotten(s) BY <3>1 DEF Forgotten
    <3> QED BY <2>2, <3>2, ForgetsOne
  <2> QED BY <1>2, <2>1, <2>2 DEF Bind, hostVars
<1>3. ASSUME NEW s \in Session, StartClears(s) \/ EndClears(s) PROVE ForgetsOnly
  <2>1. target' = (IF target = s THEN 0 ELSE target) BY <1>3 DEF StartClears, EndClears
  <2>2. Forgotten(s) BY <1>3 DEF StartClears, EndClears, Forgotten
  <2> QED BY <2>1, <2>2, ForgetsOne
<1>4. ASSUME NEW s \in Session, TearDown(s) PROVE ForgetsOnly
  <2>1. CASE UNCHANGED target BY <2>1, ForgetsFrame
  <2>2. CASE teardown[s] = "control" /\ HostForgets(s)
    <3>1. target' = (IF target = s THEN 0 ELSE target) BY <2>2 DEF HostForgets
    <3>2. Forgotten(s) BY <2>2 DEF Forgotten
    <3> QED BY <3>1, <3>2, ForgetsOne
  <2> QED BY <1>4, <2>1, <2>2 DEF TearDown
<1>5. ASSUME NEW s \in Session, DirectApplied(s) PROVE ForgetsOnly
  <2>1. CASE UNCHANGED target BY <2>1, ForgetsFrame
  <2>2. CASE apply[s].pc = "ok" /\ target' = (IF target = apply[s].session THEN 0 ELSE target)
    <3>1. s \in Id BY Numbers
    <3>2. Forgotten(apply[s].session) BY <2>2, <3>1 DEF Forgotten
    <3> QED BY <2>2, <3>2, ForgetsOne
  <2> QED BY <1>5, <2>1, <2>2 DEF DirectApplied
<1>6. ASSUME NEW s \in Session, StartStep(s) PROVE ForgetsOnly
  BY <1>1, <1>2, <1>3, <1>6, ForgetsFrame
  DEF StartStep, HoldResources, Opens, OpenFails, Install, Discarded, StartFailed, hostVars
<1>7. ASSUME NEW s \in Session, EndStep(s) PROVE ForgetsOnly
  BY <1>3, <1>5, <1>7, ForgetsFrame
  DEF EndStep, TakeCapture, Transcribed, Resolve, Route, Generated, EndFailed, ConfirmDirect, hostVars
<1>8. ASSUME NEW s \in Session, Begin(s) \/ MarkProcessing(s) \/ Confirm(s) \/ RecordingFault(s)
      PROVE  ForgetsOnly
  BY <1>8, ForgetsFrame DEF Begin, MarkProcessing, Confirm, RecordingFault, hostVars
<1>9. ASSUME UserCancels \/ \E i \in Id : CaptureCloses(i) \/ FindTarget(i) \/ Insert(i) \/ Report(i)
      PROVE  ForgetsOnly
  BY <1>9, ForgetsFrame DEF UserCancels, CaptureCloses, FindTarget, Insert, Report, hostVars
<1> QED BY <1>4, <1>6, <1>7, <1>8, <1>9 DEF CommandStep

LEMMA ForgetsPanel ==
    ASSUME PanelStep, Binding
    PROVE  ForgetsOnly
<1>0. UNCHANGED commandVars => UNCHANGED target BY DEF commandVars, hostVars
<1>1. ASSUME NEW t \in Turn, BindTarget(t) PROVE ForgetsOnly
  <2>1. turn[t].session # 0 BY <1>1 DEF BindTarget, Binding
  <2> QED BY <1>1, <2>1, ForgetsFrame DEF BindTarget, ForgetsOnly
<1>2. ASSUME NEW t \in Turn, EditApplied(t) PROVE ForgetsOnly
  <2>1. CASE UNCHANGED target BY <2>1, ForgetsFrame
  <2>2. CASE apply[t].pc = "ok" /\ target' = (IF target = apply[t].session THEN 0 ELSE target)
    <3>1. t \in Id BY Numbers
    <3>2. Forgotten(apply[t].session) BY <2>2, <3>1 DEF Forgotten
    <3> QED BY <2>2, <3>2, ForgetsOne
  <2> QED BY <1>2, <2>1, <2>2 DEF EditApplied
<1>3. ASSUME NEW t \in Turn, AskStep(t) \/ ConfirmEdit(t) PROVE ForgetsOnly
  BY <1>0, <1>1, <1>3, ForgetsFrame, PanelCommandFrame
  DEF AskStep, EditPreview, EditGenerated, AskClears, ConfirmEdit, hostVars
<1>4. ASSUME NEW c \in Close, CloseStep(c) PROVE ForgetsOnly
  BY <1>0, <1>4, ForgetsFrame, PanelCommandFrame DEF CloseStep, CloseClearsPreview, hostVars
<1>5. ASSUME NEW s \in Session, RouteStep(s) PROVE ForgetsOnly
  BY <1>5, ForgetsFrame DEF RouteStep, RouteShows, RouteSetsMode, RouteAsks, RouteReturns, hostVars
<1> QED
  BY <1>0, <1>2, <1>3, <1>4, <1>5, ForgetsFrame, PanelCommandFrame, CloseNumbers DEF PanelStep

----------------------------------------------------------------------------
(* What a step may do to a confirmation: it is one of the session in hand,  *)
(* or goes on, is applied only when that completes the session, and aims    *)
(* only with the target of its session.                                     *)
Confirmed(i) ==
    /\ apply'[i].pc = "aimed" => apply'[i] = apply[i] \/ FindTarget(i)
    /\ \/ apply'[i].pc = "no" \/ apply'[i] = apply[i]
       \/ apply'[i].pc = "insert" /\ apply'[i].session = voice.session
       \/ /\ apply[i].pc # "no" /\ apply'[i].session = apply[i].session
          /\ apply'[i].pc = "ok" => voice'.phase = "Completed"

LEMMA ConfirmedFrame ==
    ASSUME VoiceTypeOK, NEW i \in Id, NEW j \in Id,
           \/ UNCHANGED apply
           \/ \E p : /\ ApplyAt(i, p) /\ (p = "aimed" => FindTarget(i))
                     /\ p = "no" \/ (apply[i].pc # "no" /\ (p = "ok" => voice'.phase = "Completed"))
           \/ \E o : BeginApply(i, o)
    PROVE  Confirmed(j)
<1>1. CASE UNCHANGED apply BY <1>1 DEF Confirmed
<1>2. ASSUME NEW p, ApplyAt(i, p), p = "aimed" => FindTarget(i),
             p = "no" \/ (apply[i].pc # "no" /\ (p = "ok" => voice'.phase = "Completed"))
      PROVE  Confirmed(j)
  <2>1. /\ apply'[i].pc = p /\ apply'[i].session = apply[i].session
        /\ \A k \in Id \ {i} : apply'[k] = apply[k]
    BY <1>2 DEF ApplyAt, VoiceTypeOK, Confirmation
  <2> QED BY <1>2, <2>1 DEF Confirmed
<1>3. ASSUME NEW o, BeginApply(i, o) PROVE Confirmed(j)
  <2>1. /\ apply'[i].pc = "insert" /\ apply'[i].session = voice.session
        /\ \A k \in Id \ {i} : apply'[k] = apply[k]
    BY <1>3 DEF BeginApply, VoiceTypeOK
  <2> QED BY <2>1 DEF Confirmed
<1> QED BY <1>1, <1>2, <1>3

LEMMA ConfirmedCommand ==
    ASSUME VoiceTypeOK, CommandStep, NEW j \in Id
    PROVE  Confirmed(j)
<1>0. UNCHANGED apply => Confirmed(j) BY DEF Confirmed
<1>1. ASSUME NEW i \in Id, FindTarget(i) \/ Insert(i) PROVE Confirmed(j)
  <2>1. CASE FindTarget(i)
    <3>1. apply[i].pc = "insert" /\ \E p \in {"aimed", "failed"} : ApplyAt(i, p)
      BY <2>1 DEF FindTarget
    <3> QED BY <2>1, <3>1, ConfirmedFrame
  <2>2. CASE Insert(i) BY <2>2, ConfirmedFrame DEF Insert
  <2> QED BY <1>1, <2>1, <2>2
<1>2. ASSUME NEW i \in Id, Report(i) PROVE Confirmed(j)
  <2>1. CASE ApplyAt(i, "error") BY <1>2, <2>1, ConfirmedFrame DEF Report
  <2>2. CASE ~ApplyAt(i, "error")
    <3>1. /\ ApplyAt(i, "ok") /\ apply[i].pc = "applied"
          /\ voice' = [voice EXCEPT !.ticket = 0, !.phase = "Completed", !.preview = {}]
      BY <1>2, <2>2 DEF Report
    <3>2. voice'.phase = "Completed" BY <3>1 DEF VoiceTypeOK, VoiceState
    <3> QED BY <3>1, <3>2, ConfirmedFrame
  <2> QED BY <2>1, <2>2
<1>3. ASSUME NEW s \in Session, EndStep(s) PROVE Confirmed(j)
  <2>1. s \in Id BY Numbers
  <2>2. CASE ConfirmDirect(s) BY <1>0, <2>1, <2>2, ConfirmedFrame DEF ConfirmDirect
  <2>3. CASE DirectApplied(s) BY <2>1, <2>3, ConfirmedFrame DEF DirectApplied
  <2> QED
    BY <1>0, <1>3, <2>2, <2>3
    DEF EndStep, TakeCapture, Transcribed, Resolve, Route, Generated, EndFailed, EndClears
<1>4. ASSUME NEW s \in Session,
             Begin(s) \/ StartStep(s) \/ MarkProcessing(s) \/ Confirm(s) \/ RecordingFault(s) \/ TearDown(s)
      PROVE  Confirmed(j)
  BY <1>0, <1>4
  DEF Begin, StartStep, SetTarget, HoldResources, Bind, Opens, OpenFails, Install, Discarded,
      StartFailed, StartClears, MarkProcessing, Confirm, RecordingFault, TearDown, taskVars
<1>5. ASSUME UserCancels \/ \E i \in Id : CaptureCloses(i) PROVE Confirmed(j)
  BY <1>0, <1>5 DEF UserCancels, CaptureCloses, taskVars
<1> QED BY <1>1, <1>2, <1>3, <1>4, <1>5 DEF CommandStep

LEMMA ConfirmedPanel ==
    ASSUME VoiceTypeOK, PanelStep, NEW j \in Id
    PROVE  Confirmed(j)
<1>0. UNCHANGED apply => Confirmed(j) BY DEF Confirmed
<1>1. UNCHANGED commandVars => UNCHANGED apply BY DEF commandVars, taskVars
<1>2. ASSUME NEW t \in Turn, ConfirmEdit(t) \/ EditApplied(t) PROVE Confirmed(j)
  <2>1. t \in Id BY Numbers
  <2>2. CASE ConfirmEdit(t) BY <2>1, <2>2, ConfirmedFrame DEF ConfirmEdit
  <2>3. CASE EditApplied(t) BY <2>1, <2>3, ConfirmedFrame DEF EditApplied
  <2> QED BY <1>2, <2>2, <2>3
<1>3. ASSUME NEW t \in Turn, AskStep(t) PROVE Confirmed(j)
  BY <1>0, <1>1, <1>3, PanelCommandFrame
  DEF AskStep, EditPreview, EditGenerated, BindTarget, AskClears, taskVars
<1>4. ASSUME NEW c \in Close, CloseStep(c) PROVE Confirmed(j)
  BY <1>0, <1>1, <1>4, PanelCommandFrame DEF CloseStep, CloseClearsPreview, taskVars
<1>5. ASSUME NEW s \in Session, RouteStep(s) PROVE Confirmed(j)
  BY <1>0, <1>5 DEF RouteStep, RouteShows, RouteSetsMode, RouteAsks, RouteReturns
<1> QED
  BY <1>0, <1>1, <1>2, <1>3, <1>4, <1>5, PanelCommandFrame, CloseNumbers DEF PanelStep

(* A confirmation does not find the target of a command cancelled before.   *)
LEMMA FindsUncancelled ==
    ASSUME TypeInv, ApplyInv, [QaNext]_allVars, NEW i \in Id,
           apply[i].pc = "insert", apply'[i].pc = "aimed", start[apply[i].session] # "idle"
    PROVE  LET s == apply[i].session IN ~(Current(s, "Cancelled") /\ teardown[s] = "no")
<1>1. VoiceTypeOK /\ Named BY TypeParts DEF ConfirmInv
<1>2. Confirmed(i)
  <2>1. CASE UNCHANGED allVars BY <2>1 DEF allVars, voiceVars, taskVars, Confirmed
  <2> QED BY <1>1, <2>1, ConfirmedCommand, ConfirmedPanel DEF QaNext
<1>3. FindTarget(i) BY <1>2 DEF Confirmed
<1>4. target = apply[i].session /\ apply[i].session \in Session
  BY <1>1, <1>3 DEF FindTarget, ApplyAt, VoiceTypeOK, Confirmation, Named
<1>5. Confirming(apply[i].session) BY DEF Confirming
<1>6. Current(apply[i].session, "Applying") \/ teardown[apply[i].session] = "control"
  BY <1>4, <1>5 DEF ApplyInv, Disowned
<1> QED BY <1>6 DEF Current

----------------------------------------------------------------------------
(* A session that has ended is not taken up again.                          *)
LEMMA RestingStays ==
    ASSUME VoiceTypeOK', Serves, ~Starts, voice.phase \in Resting
    PROVE  voice'.phase \in Resting
<1>1. voice'.phase \in Resting \cup Working \cup {"Preview", "Applying"}
  BY DEF VoiceTypeOK, VoiceState, VoicePhase, Working
<1>2. voice.phase \notin Working \cup {"Preview", "Applying"} BY DEF Resting, Working
<1>3. CASE UNCHANGED voice BY <1>3
<1>4. CASE Ends BY <1>4 DEF Ends, Resting
<1>5. CASE GoesOn BY <1>1, <1>2, <1>5 DEF GoesOn
<1> QED BY <1>3, <1>4, <1>5 DEF Serves, Torn

(* A turn that makes a preview made it already, or asks on the panel.       *)
LEMMA MakersStep ==
    ASSUME NEW t \in Turn, Revises(t), Making(t)'
    PROVE  \/ Making(t) /\ turn'[t].owner = turn[t].owner
           \/ Asking(t) /\ turn'[t].owner = qa.conversation
<1>1. turn'[t].ask \in Revising /\ turn'[t].owner # 0 BY DEF Making
<1>2. CASE Pushes(t) BY <1>2 DEF Pushes
<1>3. CASE ~Pushes(t)
  <2>1. turn'[t].owner = turn[t].owner /\ turn[t].ask \in Revising
    BY <1>1, <1>3 DEF Revises, Edits, Shows, Revising
  <2> QED BY <1>1, <2>1 DEF Making
<1> QED BY <1>2, <1>3

LEMMA OneMakerStep ==
    ASSUME OwnerInv, OneMaker, \A t \in Turn : Revises(t) /\ Turns(t)
    PROVE  OneMaker'
<1>1. ASSUME NEW t \in Turn, turn'[t].ask \in Revising PROVE turn'[t].editing
  BY <1>1 DEF OneMaker, Turns
<1>2. ASSUME NEW t \in Turn, NEW u \in Turn, Making(t)', Making(u)', turn'[t].owner = turn'[u].owner
      PROVE  t = u
  <2>1. \/ Making(t) /\ turn'[t].owner = turn[t].owner
        \/ Asking(t) /\ turn'[t].owner = qa.conversation
    BY <1>2, MakersStep
  <2>2. \/ Making(u) /\ turn'[u].owner = turn[u].owner
        \/ Asking(u) /\ turn'[u].owner = qa.conversation
    BY <1>2, MakersStep
  <2>3. \A w \in Turn : Making(w) /\ turn[w].owner = qa.conversation => Asking(w)
    BY DEF OwnerInv
  <2>4. Asking(t) /\ Asking(u) => t = u BY DEF Asking
  <2> QED BY <1>2, <2>1, <2>2, <2>3, <2>4 DEF OneMaker
<1> QED BY <1>1, <1>2 DEF OneMaker

LEMMA BoundStep ==
    ASSUME VoiceTypeOK, Addressed, OneMaker, Bound, Serves, \A t \in Turn : Revises(t)
    PROVE  Bound'
<1> SUFFICES ASSUME NEW t \in Turn, turn'[t].ask = "bind", turn'[t].owner \in voice'.preview
             PROVE  turn'[t].session = voice'.session
  BY DEF Bound
<1>0. "bind" \in Revising /\ "generate" \in Revising BY DEF Revising
<1>1. ~Starts BY DEF Starts
<1>2. voice'.session = voice.session BY <1>1, ServesForward
<1>3. CASE Shows(t) BY <1>2, <1>3 DEF Shows
<1>4. CASE /\ turn[t].ask = "bind" /\ turn'[t].owner = turn[t].owner
           /\ turn'[t].session = turn[t].session
  <2>1. turn[t].owner # 0 BY <1>0, <1>4 DEF Addressed
  <2>2. turn[t].owner \in voice.preview \/ \E u \in Turn : Makes(u)
    BY <1>1, <1>4, <2>1 DEF Serves, Torn, Ends, GoesOn, Previews
  <2>3. ASSUME NEW u \in Turn, Makes(u) PROVE FALSE
    <3>1. turn[u].ask = "generate" /\ turn[u].owner = turn[t].owner BY <1>4, <2>3 DEF Makes
    <3>2. Making(u) /\ Making(t) BY <1>0, <1>4, <2>1, <3>1 DEF Making
    <3>3. u = t BY <3>1, <3>2 DEF OneMaker
    <3> QED BY <1>4, <3>1, <3>3
  <2> QED BY <1>2, <1>4, <2>2, <2>3 DEF Bound
<1> QED BY <1>0, <1>3, <1>4 DEF Revises, Pushes, Edits

(* A command that has begun stays begun.                                    *)
LEMMA BegunStays ==
    ASSUME VoiceTypeOK, CommandInv, Passes, NEW s \in Session, start[s] # "idle"
    PROVE  start'[s] # "idle"
<1>1. s \in Nat /\ voice.session \in Nat BY SessionNumber, VoiceNumber DEF VoiceTypeOK
<1>2. ~(s > voice.session) BY DEF CommandInv, CommandAt, CommandShape
<1> QED BY <1>1, <1>2 DEF Passes, Tasks, TakeCapture

LEMMA RoutedStep ==
    ASSUME VoiceTypeOK, CommandInv, Routed, Passes, \A t \in Turn : Turns(t)
    PROVE  Routed'
<1> SUFFICES ASSUME NEW t \in Turn, turn'[t].command # 0
             PROVE  turn'[t].command \in Session /\ start'[turn'[t].command] # "idle"
  BY DEF Routed
<1>1. CASE turn'[t].command = turn[t].command BY <1>1, BegunStays DEF Routed
<1>2. CASE turn'[t].command \in Session /\ end[turn'[t].command] \in Late
  <2>1. start[turn'[t].command] # "idle" BY <1>2 DEF CommandInv, CommandAt, CommandShape
  <2> QED BY <1>2, <2>1, BegunStays
<1> QED BY <1>1, <1>2 DEF Turns

LEMMA ClearedStep ==
    ASSUME VoiceTypeOK, VoiceTypeOK', CommandInv, Cleared, Serves, \A s \in Session : Advances(s)
    PROVE  Cleared'
<1> SUFFICES ASSUME NEW s \in Session, "clear" \in {start'[s], end'[s]}, voice'.session = s
             PROVE  voice'.phase \in Resting
  BY DEF Cleared
<1>0. s \in Nat /\ voice.session \in Nat BY SessionNumber, VoiceNumber DEF VoiceTypeOK
<1>1. CASE "clear" \in {start[s], end[s]}
  <2>1. ~(s > voice.session) BY <1>1 DEF CommandInv, CommandAt, CommandShape
  <2>2. voice.session = s /\ ~Starts BY <1>0, <2>1, ServesForward
  <2> QED BY <1>1, <2>2, RestingStays DEF Cleared
<1>2. CASE CancelVoice(s)
  <2>1. voice.session = s BY <1>2 DEF CancelVoice
  <2> QED BY <1>2, <2>1 DEF CancelVoice, Resting, VoiceTypeOK, VoiceState
<1>3. CASE CompleteVoice(s) BY <1>3 DEF CompleteVoice, Resting, VoiceTypeOK, VoiceState
<1> QED BY <1>1, <1>2, <1>3 DEF Advances

LEMMA AppliedStep ==
    ASSUME VoiceTypeOK, VoiceTypeOK', Named', Applied, Serves, \A i \in Id : Confirmed(i)
    PROVE  Applied'
<1> SUFFICES ASSUME NEW i \in Id, apply'[i].pc # "no"
             PROVE  /\ apply'[i].session <= voice'.session
                    /\ apply'[i].pc = "ok" /\ apply'[i].session = voice'.session =>
                          voice'.phase \in Resting
  BY DEF Applied
<1>0. voice.session \in Nat /\ voice'.session \in Nat BY VoiceNumber DEF VoiceTypeOK
<1>1. \/ voice'.session = voice.session /\ ~Starts
      \/ voice'.session > voice.session
  BY ServesForward
<1>2. PICK n \in Nat : n = apply'[i].session BY SessionNumber DEF Named
<1>3. CASE apply[i].pc # "no" /\ apply'[i].session = apply[i].session
  <2>1. n <= voice.session BY <1>2, <1>3 DEF Applied
  <2>2. apply'[i].pc = "ok" => apply[i].pc = "ok" \/ voice'.phase = "Completed"
    BY <1>3 DEF Confirmed
  <2>3. apply[i].pc = "ok" /\ n = voice'.session => voice'.phase \in Resting
    BY <1>0, <1>1, <1>2, <1>3, <2>1, RestingStays DEF Applied
  <2> QED BY <1>0, <1>1, <1>2, <2>1, <2>2, <2>3 DEF Resting
<1>4. CASE apply'[i].pc = "insert" /\ apply'[i].session = voice.session
  BY <1>0, <1>1, <1>4
<1> QED BY <1>3, <1>4 DEF Confirmed

----------------------------------------------------------------------------
LEMMA TargetInit == QaInit => TargetInv
<1> SUFFICES ASSUME QaInit PROVE TargetInv OBVIOUS
<1>1. /\ \A t \in Turn : turn[t].ask = "idle" /\ turn[t].command = 0
      /\ \A i \in Id : apply[i].pc = "no"
      /\ \A s \in Session : start[s] = "idle" /\ end[s] = "idle"
  BY DEF QaInit, VoiceInit, NoTurn
<1> QED BY <1>1 DEF TargetInv, OneMaker, Making, Revising, Bound, Routed, Cleared, Applied

LEMMA TargetFrame ==
    ASSUME TargetInv, UNCHANGED allVars
    PROVE  TargetInv'
<1>1. UNCHANGED <<voice, start, end, apply, turn>>
  BY DEF allVars, voiceVars, taskVars, qaVars
<1> QED BY <1>1 DEF TargetInv, OneMaker, Making, Bound, Routed, Cleared, Applied

(* How a step treats the service, its tasks, the turns and the target.      *)
Treats ==
    /\ Serves /\ Passes /\ Targets /\ ForgetsOnly
    /\ \A t \in Turn : Turns(t)
    /\ \A s \in Session : Advances(s)
    /\ \A i \in Id : Confirmed(i)

LEMMA TreatsStep ==
    ASSUME TypeInv, PanelInv, CommandInv, ApplyInv, QaNext
    PROVE  Treats
<1>0. /\ VoiceTypeOK /\ Fields /\ ConfirmInv /\ Named /\ Created /\ ShownInv
      /\ Controlled /\ Generating /\ Binding
  BY TypeParts DEF Fields, ConfirmInv, PanelInv, ApplyInv
<1>1. CASE PanelStep
  <2>1. Serves BY <1>0, <1>1, ServesPanel
  <2>2. Passes BY <1>0, <1>1, PanelTasksGo, TurnRevises DEF Passes
  <2>3. Targets /\ ForgetsOnly BY <1>0, <1>1, TargetsPanel, ForgetsPanel
  <2>4. \A t \in Turn : Turns(t) BY <1>0, <1>1, TurnTurns
  <2>5. \A s \in Session : Advances(s) BY <1>0, <1>1, AdvancesPanel
  <2>6. \A i \in Id : Confirmed(i) BY <1>0, <1>1, ConfirmedPanel
  <2> QED BY <2>1, <2>2, <2>3, <2>4, <2>5, <2>6 DEF Treats
<1>2. CASE CommandStep /\ UNCHANGED qaVars
  <2>0. UNCHANGED turn BY <1>2 DEF qaVars
  <2>1. Serves BY <1>0, <1>2, ServesCommand
  <2>2. \A t \in Turn : Revises(t) /\ Turns(t) BY <2>0, TurnsFrame DEF Revises
  <2>3. Passes BY <1>0, <1>2, <2>2, CommandTasksGo DEF Passes
  <2>4. Targets /\ ForgetsOnly BY <1>0, <1>2, TargetsCommand, ForgetsCommand
  <2>5. \A s \in Session : Advances(s) BY <1>0, <1>2, AdvancesCommand
  <2>6. \A i \in Id : Confirmed(i) BY <1>0, <1>2, ConfirmedCommand
  <2> QED BY <2>1, <2>2, <2>3, <2>4, <2>5, <2>6 DEF Treats
<1> QED BY <1>1, <1>2 DEF QaNext

LEMMA TargetInvStep ==
    ASSUME TypeInv, TypeInv', PanelInv, CommandInv, ApplyInv, TargetInv, [QaNext]_allVars
    PROVE  TargetInv'
<1>0. /\ VoiceTypeOK /\ VoiceTypeOK' /\ Named' /\ OwnerInv /\ Addressed
      /\ OneMaker /\ Bound /\ Routed /\ Cleared /\ Applied
  BY TypeParts DEF TypeInv, QaTypeOK, ConfirmInv, PanelInv, ApplyInv, TargetInv
<1>1. CASE QaNext
  <2>1. Treats BY <1>1, TreatsStep
  <2>2. Serves /\ Passes /\ \A t \in Turn : Revises(t) /\ Turns(t)
    BY <2>1 DEF Treats, Passes
  <2>3. OneMaker' BY <1>0, <2>2, OneMakerStep
  <2>4. Bound' BY <1>0, <2>2, BoundStep
  <2>5. Routed' BY <1>0, <2>2, RoutedStep
  <2>6. Cleared' BY <1>0, <2>1, ClearedStep DEF Treats
  <2>7. Applied' BY <1>0, <2>1, AppliedStep DEF Treats
  <2> QED BY <2>3, <2>4, <2>5, <2>6, <2>7 DEF TargetInv
<1>2. CASE UNCHANGED allVars BY <1>2, TargetFrame
<1> QED BY <1>1, <1>2

----------------------------------------------------------------------------
(* A session targeted after a step without a target was so before, or has   *)
(* its target set by the step.                                              *)
LEMMA TargetedBefore ==
    ASSUME TypeInv, TypeInv', CommandInv, ApplyInv, TargetInv, Treats, TargetLost'
    PROVE  Targeted /\ voice'.session = voice.session /\ voice.session \in Session
<1>0. /\ VoiceTypeOK /\ VoiceTypeOK' /\ Named' /\ Addressed /\ OneMaker /\ Bound /\ Routed
      /\ Serves /\ Passes
  BY TypeParts DEF TypeInv, QaTypeOK, ConfirmInv, ApplyInv, TargetInv, Treats
<1>1. /\ voice'.phase \notin Resting /\ target' # voice'.session
      /\ \/ start'[voice'.session] \notin Untargeted
         \/ /\ start'[voice'.session] = "idle" /\ voice'.phase \in {"Preview", "Applying"}
            /\ \A t \in Turn : ~Unsettled(t)'
  BY DEF TargetLost, Targeted, Untargeted
<1>2. voice'.session \in Session
  <2>1. voice'.session # 0 BY <1>0, <1>1 DEF Named, Resting
  <2> QED BY <1>0, <2>1, VoiceNumber DEF VoiceTypeOK
<1>3. ~Starts
  BY <1>1 DEF Starts, Untargeted, Working
<1>4. PICK n \in Session : n = voice.session /\ n = voice'.session
  BY <1>0, <1>2, <1>3, ServesForward
<1>5. voice.phase \notin Resting BY <1>0, <1>1, <1>3, RestingStays
<1>6. ~CancelVoice(n) /\ ~SetTarget(n)
  <2>1. ASSUME CancelVoice(n) PROVE FALSE
    BY <1>0, <1>1, <1>4, <2>1 DEF CancelVoice, Resting, VoiceTypeOK, VoiceState
  <2>2. ASSUME SetTarget(n) PROVE FALSE BY <1>1, <1>4, <2>2 DEF SetTarget
  <2> QED BY <2>1, <2>2
<1>7. CASE start'[n] \notin Untargeted
  <2>1. start[n] \notin Untargeted BY <1>6, <1>7 DEF Treats, Advances
  <2> QED BY <1>4, <1>5, <2>1 DEF Targeted, Untargeted
<1>8. CASE /\ start'[n] = "idle" /\ voice'.phase \in {"Preview", "Applying"}
           /\ \A t \in Turn : ~Unsettled(t)'
  <2>1. start[n] = "idle" BY <1>0, <1>4, <1>8, BegunStays
  <2>2. ASSUME NEW t \in Turn, Makes(t) PROVE FALSE
    <3>1. turn'[t].ask = "bind" /\ turn'[t].owner = turn[t].owner /\ turn[t].ask = "generate"
      BY <1>0, <2>2, TypeParts, AskAtFields DEF Makes
    <3>2. turn'[t].editing /\ turn[t].owner # 0
      BY <1>0, <3>1 DEF Treats, Turns, OneMaker, Addressed, Revising
    <3>3. Unsettled(t)' BY <2>2, <3>1, <3>2 DEF Unsettled, Makes
    <3> QED BY <1>8, <3>3
  <2>3. voice.phase \in {"Preview", "Applying"} /\ voice'.preview = voice.preview
    <3>1. CASE UNCHANGED voice BY <1>8, <3>1
    <3>2. CASE Ends BY <1>8, <3>2 DEF Ends
    <3>3. CASE GoesOn BY <1>4, <1>8, <2>1, <2>2, <3>3 DEF GoesOn, Previews
    <3> QED BY <1>0, <1>3, <3>1, <3>2, <3>3 DEF Serves, Torn
  <2>4. ASSUME NEW t \in Turn, Unsettled(t) PROVE FALSE
    <3>1. /\ turn[t].editing /\ turn[t].owner \in voice.preview /\ turn[t].owner # 0
          /\ turn[t].ask \in Settling
      BY <2>4 DEF Unsettled, Settling
    <3>2. CASE /\ turn'[t].ask \in Settling /\ turn'[t].owner = turn[t].owner
               /\ turn'[t].editing = turn[t].editing
      <4>1. Unsettled(t)' BY <2>3, <3>1, <3>2 DEF Unsettled, Settling
      <4> QED BY <1>8, <4>1
    <3>3. CASE AskClears(t)
      <4>1. CancelVoice(n) BY <1>4, <3>1, <3>3 DEF AskClears, ClearPreview
      <4> QED BY <1>6, <4>1
    <3>4. CASE BindTarget(t) /\ AskAt(t, "complete")
      <4>1. turn[t].session = n BY <1>0, <1>4, <3>1, <3>4 DEF Bound, BindTarget
      <4>2. turn'[t].ask = "complete" BY <1>0, <3>4, TypeParts, AskAtFields
      <4>3. target' = turn[t].session \/ turn[t].command = turn[t].session
        <5>1. ASSUME AskAt(t, "fail") PROVE FALSE
          <6>1. turn'[t].ask = "fail" BY <5>1, TypeParts, AskAtFields
          <6> QED BY <4>2, <6>1
        <5> QED BY <3>4, <5>1 DEF BindTarget
      <4>4. turn[t].command # n BY <1>0, <1>4, <2>1, SessionNumber DEF Routed
      <4> QED BY <1>1, <1>4, <4>1, <4>3, <4>4
    <3> QED BY <3>1, <3>2, <3>3, <3>4 DEF Treats, Turns, Settles
  <2> QED BY <1>4, <1>5, <2>1, <2>3, <2>4 DEF Targeted
<1> QED BY <1>1, <1>4, <1>7, <1>8

(* What it loses it loses to another.                                       *)
LEMMA LosesToAnother ==
    ASSUME TypeInv, TypeInv', CommandInv, ApplyInv, TargetInv, Treats, TargetLost'
    PROVE  TargetLost \/ \E s \in Session : Overtaken(s)
<1>0. /\ VoiceTypeOK /\ VoiceTypeOK' /\ Controlled /\ Cleared /\ Applied /\ Targets /\ ForgetsOnly
  BY TypeParts DEF TypeInv, QaTypeOK, ApplyInv, TargetInv, Treats
<1>1. Targeted /\ voice'.session = voice.session BY TargetedBefore
<1>2. PICK n \in Session : n = voice.session BY TargetedBefore
<1>3. voice.phase \notin Resting BY <1>1 DEF Targeted
<1>4. CASE target # n BY <1>1, <1>2, <1>4 DEF TargetLost
<1>5. CASE target = n
  <2>1. target' # n /\ start'[n] # "fail"
    BY <1>1, <1>2 DEF TargetLost, Targeted
  <2>2. ~Forgotten(n)
    <3>1. teardown[n] # "control"
      BY <1>0, <1>2, <1>3, SessionNumber DEF Controlled, Resting
    <3>2. "clear" \notin {start[n], end[n]} BY <1>0, <1>2, <1>3 DEF Cleared
    <3>3. \A i \in Id : ~(apply[i].pc = "ok" /\ apply[i].session = n)
      BY <1>0, <1>2, <1>3 DEF Applied
    <3> QED BY <2>1, <3>1, <3>2, <3>3 DEF Forgotten
  <2>3. target' # 0 BY <1>0, <1>5, <2>2 DEF ForgetsOnly
  <2>4. PICK s \in Session : s = target' BY <1>0, <2>3 DEF VoiceTypeOK
  <2>5. Overtaken(s) BY <1>0, <1>2, <1>5, <2>1, <2>4 DEF Targets, Overtaken
  <2> QED BY <2>5
<1> QED BY <1>4, <1>5

----------------------------------------------------------------------------
(* All of it is inductive.                                                  *)
QaInv == TypeInv /\ OneMicrophone /\ PanelInv /\ CommandInv /\ ApplyInv /\ TargetInv

LEMMA QaInvariant == QaSpec => []QaInv
<1>1. QaInit => QaInv
  <2>1. QaInit => OneMicrophone BY DEF QaInit, VoiceInit, CaptureInit, OneMicrophone, Holding
  <2> QED BY <2>1, TypeInit, PanelInit, CommandInit, ApplyInit, TargetInit DEF QaInv
<1>2. QaInv /\ [QaNext]_allVars => QaInv'
  <2> SUFFICES ASSUME QaInv, [QaNext]_allVars PROVE QaInv' OBVIOUS
  <2> USE DEF QaInv
  <2>1. TypeInv' BY TypeStep
  <2>2. OneMicrophone' BY MicrophoneStep
  <2>3. PanelInv' BY PanelInvStep
  <2>4. CommandInv' BY <2>1, CommandInvStep
  <2>5. ApplyInv' BY ApplyInvStep
  <2>6. TargetInv' BY <2>1, TargetInvStep
  <2> QED BY <2>1, <2>2, <2>3, <2>4, <2>5, <2>6
<1> QED BY <1>1, <1>2, PTL DEF QaSpec

(* Once the cancellation of a command has taken effect no confirmation of   *)
(* its text finds a target any more. One that found it before goes on to    *)
(* insert: it looks only once.                                              *)
THEOREM CancelledStaysOut == QaSpec => CancelledFindsNoTarget
<1>1. QaInv /\ [QaNext]_allVars =>
         [\A i \in Id :
             LET s == apply[i].session
             IN  apply[i].pc = "insert" /\ apply'[i].pc = "aimed" /\ start[s] # "idle" =>
                     ~(Current(s, "Cancelled") /\ teardown[s] = "no")]_voiceVars
  BY FindsUncancelled DEF QaInv
<1> QED BY <1>1, QaInvariant, PTL DEF QaSpec, CancelledFindsNoTarget

(* A text on offer can be inserted: the target captured for its session is  *)
(* kept until the session ends, also after an insertion that failed, after  *)
(* a revision and for a command answered by the panel. Nothing forgets it;  *)
(* only a late task of another session puts its own in its place.           *)
THEOREM TargetsAreKept == QaSpec => TargetIsKept
<1>1. QaInv /\ QaInv' /\ [QaNext]_allVars =>
         [TargetLost' => TargetLost \/ \E s \in Session : Overtaken(s)]_allVars
  <2> SUFFICES ASSUME QaInv, QaInv', QaNext, TargetLost'
               PROVE  TargetLost \/ \E s \in Session : Overtaken(s)
    OBVIOUS
  <2> USE DEF QaInv
  <2>1. Treats BY TreatsStep
  <2> QED BY <2>1, LosesToAnother
<1> QED BY <1>1, QaInvariant, PTL DEF QaSpec, TargetIsKept
=============================================================================
