------------------------- MODULE TranscriptionProofs -------------------------
(***************************************************************************)
(* The safety of Transcription for every length of a recording and every   *)
(* number of attempts. The inductive invariant Inv is the type invariant   *)
(* and one part per property: who may be given audio (AttachInv, RetryInv),*)
(* what a start that comes late finds (LateInv), what a cancellation has   *)
(* in its hands (ReachInv), where each chunk is (OrderInv) and who ends a  *)
(* recognizer (LeftInv).                                                   *)
(*                                                                         *)
(* A part is proved by a frame lemma that names the few actions that touch *)
(* its variables, and by those actions.                                    *)
(***************************************************************************)
EXTENDS Transcription, SequenceTheorems, TLAPS

(* Where a start has not begun to attach.                                   *)
Early == {"idle", "build", "open", "store", "prepare", "attach"}

(* Where a task is inside cancel_transcription_once.                        *)
InRelease == {"letgo", "close", "join", "asleep"}

(* A finish follows a start that succeeded; a start that has not come to    *)
(* its attachment has attached nothing, and one that releases goes on to    *)
(* its failure.                                                             *)
AttachTasks ==
    /\ pc["finish"] # "idle" => pc["start"] = "ok"
    /\ pc["start"] \in Early => attach.pc = "none"
    /\ pc["start"] \in InRelease => then["start"] = "end"

(* What the state of the buffer says of its attachment.                     *)
AttachBuffer ==
    /\ attach.pc = "none" => buffer.state \in {"buffering", "cancelled"}
    /\ attach.pc \in {"check", "start", "look", "feed"}
           => buffer.state \in {"attaching", "cancelled"}
    /\ attach.pc = "ok" => buffer.state \in {"direct", "cancelled"}
    /\ attach.pc = "error" => buffer.state \in {"attaching", "failed", "cancelled"}

(* Only an attached recognizer is fed a chunk of its own or asked.          *)
AttachUse ==
    /\ audio.feeding # 0 => attach.pc = "ok"
    /\ call \in {"ask", "answer"} => attach.pc = "ok"

(* Who is attached, and to what.                                            *)
AttachInv == AttachTasks /\ AttachBuffer /\ AttachUse

(* An attempt that has not been given the recording yet.                    *)
Fresh(p) ==
    p > attempt \/ (p = attempt /\ pc["finish"] \in {"backoff", "restart", "register", "feed"})

(* Where finish can be in a retry, and where a release takes it.            *)
RetryControl ==
    /\ attempt # 0 =>
        /\ pc["finish"] \in {"backoff", "restart", "register", "feed", "answer", "again",
                             "end", "error", "transcribed", "ok"} \cup InRelease
        /\ pc["finish"] \in InRelease => then["finish"] \in {"end", "again"}
    /\ pc["finish"] \in {"backoff", "restart", "register", "feed", "answer", "again"} => attempt # 0
    /\ pc["finish"] \in InRelease /\ then["finish"] = "again" => attempt \in 1..(Attempts - 1)
    /\ pc["finish"] = "again" => attempt < Attempts
    /\ pc["finish"] \in InRelease => then["finish"] \in {"end", "again", "local", "transcribed"}

(* An attempt that is to be given the recording has been given nothing.     *)
RetryInv ==
    /\ RetryControl
    /\ \A p \in Retry : Fresh(p) => fed[p] = <<>> /\ p \notin asked

(* What a late start finds: the buffer stays cancelled, the attempt stays   *)
(* where it will be cancelled, and neither was fed or asked. A late standby *)
(* may be both, in a session that is cancelled and yields no text.          *)
LateInv ==
    /\ Local \in late => Flagged("cancelled") /\ pc["finish"] # "ok"
    /\ Cloud \in late => Cancelled /\ attach.pc \in {"look", "error"} /\ fed[Cloud] = <<>>
    /\ attach.pc \in {"none", "check", "start"} => fed[Cloud] = <<>>
    /\ Cloud \in asked => attach.pc = "ok"
    /\ \A p \in Retry \cap late : /\ p = attempt /\ Flagged("cancelled")
                                  /\ pc["finish"] \in {"register", "end", "error"}
                                  /\ fed[p] = <<>> /\ p \notin asked

(* Where a cancellation is, and who has forgotten a session it does not     *)
(* find.                                                                    *)
ReachCancel ==
    /\ pc["cancel"] \in {"idle", "called"} <=> ~Flagged("cancelled") /\ pc["cancel"] # "returned"
    /\ pc["cancel"] # "idle" => pc["start"] # "idle"
    /\ ~registered => \/ pc["start"] \in {"idle", "error"} \/ pc["finish"] \in {"ok", "error"}
                      \/ pc["cancel"] = "returned" /\ Flagged("cancelled")
    /\ pc["cancel"] = "returned" =>
        Flagged("cancelled") \/ pc["start"] = "error" \/ pc["finish"] \in {"ok", "error"}

(* What a cancellation has taken is what the session still stores, because  *)
(* a cancelled session stores nothing new; a buffer it has passed is        *)
(* cancelled.                                                               *)
ReachTarget ==
    /\ transcription \in {None, Cloud} \cup Retry
    /\ attempt = 0 => transcription \in {None, Cloud}
    /\ pc["start"] \in {"open", "store", "prepare", "attach", "attached", "check", "ok"}
           => transcription # None
    /\ pc["cancel"] \in {"stop", "drop", "letgo", "close", "remove"}
           => target["cancel"] = transcription
    /\ pc["cancel"] = "drop" => transcription = Cloud
    /\ pc["cancel"] \in InRelease => transcription \in Retry
    /\ pc["cancel"] \in InRelease \cup {"stop"} => then["cancel"] = "remove"
    /\ pc["cancel"] \notin {"join", "asleep"}
    /\ pc["cancel"] = "remove" \/ (pc["cancel"] = "returned" /\ Flagged("cancelled"))
           => (transcription = Cloud => Cancelled)

(* A cancelled recognizer is not live, nor is the attempt a cancellation    *)
(* has passed: the flags that shield it were lowered when it was            *)
(* registered.                                                              *)
ReachState ==
    /\ attach.pc = "ok" /\ Cancelled => state[Cloud] # "live"
    /\ pc["finish"] \in {"feed", "answer"} =>
        /\ transcription = attempt
        /\ ~Flagged("finished")
        /\ Flagged("once") => pc["cancel"] \in {"close", "remove", "returned"}
        /\ pc["cancel"] \in {"remove", "returned"} => state[attempt] # "live"

(* What a cancellation reaches.                                             *)
ReachInv == ReachCancel /\ ReachTarget /\ ReachState

(* The chunks of s follow one another, from the one after k.                *)
Counted(s, k) == \A i \in 1..Len(s) : s[i] = k + i

(* Nothing is asked before the recorder is closed, and a closed recorder    *)
(* has no chunk on its way.                                                 *)
OrderRecorder ==
    /\ recording = "closed" => audio.feeding = 0
    /\ pc["finish"] \notin {"idle", "take", "stop", "error"} => recording = "closed"
    /\ asked # {} \/ call # "none" => recording = "closed"
    /\ pc["finish"] \in {"idle", "take", "stop", "stopped"}
           => asked = {} /\ call = "none" /\ standby = "off"

(* All but the cloud recognizer are given the recording when they are       *)
(* asked.                                                                   *)
OrderReplay ==
    /\ \A p \in Provider \ {Cloud} : fed[p] = IF p \in asked THEN Recording ELSE <<>>
    /\ standby = "prepare" => Local \notin asked

(* f was fed, a is in the attachment, which is at p, s in the buffer, which *)
(* is in state b, n chunks were spoken and c is on its way.                 *)
CloudOrder(f, p, a, b, s, n, c) ==
    /\ Counted(f, 0) /\ Len(f) <= n
    /\ p = "none" => a = <<>>
    /\ p \in {"none", "check", "start", "look", "feed"} =>
           Counted(a, Len(f)) /\ Len(f) + Len(a) <= n
    /\ b \in {"buffering", "attaching"} /\ p # "error" =>
           Counted(s, Len(f) + Len(a)) /\ Len(f) + Len(a) + Len(s) = n
    /\ b = "direct" => n = Len(f) + (IF c = 0 THEN 0 ELSE 1)
    /\ c # 0 => c = Len(f) + 1 /\ n = c

(* What was fed, what the attachment carries and what the buffer holds is   *)
(* the recording, in this order, for as long as the buffer takes audio.     *)
OrderCloud ==
    CloudOrder(fed[Cloud], attach.pc, attach.pcm, buffer.state, buffer.pcm, audio.spoken,
               audio.feeding)

(* The recognizer has the whole recording from the moment it is asked.      *)
OrderAsked ==
    (call = "attach" /\ attach.pc = "ok") \/ call \in {"ask", "answer"} \/ Cloud \in asked
        => Len(fed[Cloud]) = audio.spoken

(* Where the audio is.                                                      *)
OrderInv == OrderRecorder /\ OrderReplay /\ OrderCloud /\ OrderAsked

(* The buffered recognizer will not be live again.                          *)
CloudDone == Cancelled \/ (Attached /\ state[Cloud] # "live")

(* Nothing releases the transcription of the session any more.              *)
Shielded == Flagged("once") \/ Flagged("finished")

(* A start that fails has cancelled the buffer, and nothing of a session is *)
(* released while its start goes on; the recording is there to be taken     *)
(* unless the session was cancelled.                                        *)
LeftStart ==
    /\ pc["start"] \in {"join", "asleep", "end", "error"} => Cancelled
    /\ pc["start"] \in InRelease => target["start"] = Cloud
    /\ Shielded => pc["start"] \in {"close", "join", "asleep", "end", "error", "ok"}
    /\ (pc["start"] \in {"prepare", "attach", "attached", "check", "ok"}
         /\ pc["finish"] \in {"idle", "take"})
           => recording = "stored" \/ Flagged("cancelled")

(* finish gives the buffered recognizer up only when that is done, and an   *)
(* error leaves it to a cancellation that is on its way.                    *)
LeftFinish ==
    /\ pc["finish"] # "returned"
    /\ (pc["start"] = "ok" /\ Shielded)
           => pc["finish"] \notin {"idle", "take", "stop", "stopped", "race"}
    /\ (pc["finish"] = "letgo" /\ attempt = 0) => ~Shielded
    /\ pc["finish"] \in {"letgo", "close"} => target["finish"] = attempt
    /\ attempt # 0 => CloudDone
    /\ pc["finish"] \in {"transcribed", "spare", "local", "backoff", "restart", "register",
                         "feed", "answer", "again", "end", "ok", "join", "asleep"} => CloudDone
    /\ (pc["finish"] = "race" /\ call \in {"text", "empty"}) => CloudDone
    /\ pc["finish"] = "error" =>
           CloudDone \/ Flagged("cancelled") \/ (pc["cancel"] = "called" /\ registered)

(* Who has returned and left the session registered is followed by a        *)
(* cancellation.                                                            *)
LeftRegistry ==
    /\ pc["cancel"] \notin {"ok", "error"}
    /\ registered =>
        /\ pc["start"] \notin {"idle", "error"}
        /\ pc["finish"] # "ok"
        /\ pc["cancel"] # "returned"
        /\ pc["finish"] = "error" => pc["cancel"] # "idle"

(* A recognizer is live only behind an attachment that may use it.          *)
LeftCloud == attach.pc \in {"none", "check", "start", "error"} => state[Cloud] # "live"

(* A local recognizer is live while finish waits for the standby, and       *)
(* finish gets back to that.                                                *)
LeftLocal ==
    /\ state[Local] = "live" => standby = "answer"
    /\ standby # "off" =>
           \/ pc["finish"] \in {"race", "spare", "local"}
           \/ pc["finish"] \in InRelease /\ then["finish"] = "local"

(* The attempt of which nobody is in charge any more was released before    *)
(* the next one starts.                                                     *)
LeftShield ==
    /\ pc["finish"] = "close" => Flagged("once")
    /\ pc["finish"] \in {"close", "join", "asleep", "again", "backoff", "restart", "register"}
           => transcription \notin Retry \/ Shielded
    /\ pc["cancel"] = "close" => pc["finish"] \notin {"restart", "register"}

(* Only the current attempt is live, and finish or cancel is about to end   *)
(* it.                                                                      *)
LeftRetry ==
    \A p \in Retry : state[p] = "live" =>
        /\ p = attempt
        /\ pc["finish"] \in {"register", "feed", "answer", "letgo", "close"}
           \/ pc["cancel"] = "close"
        /\ pc["cancel"] = "close" => transcription = attempt
        /\ pc["finish"] \notin {"again", "backoff", "restart"}
        /\ pc["finish"] \in InRelease => then["finish"] = "end"
        /\ pc["finish"] = "letgo" =>
               /\ transcription = attempt
               /\ ~Flagged("finished")
               /\ Flagged("once") => pc["cancel"] = "close"
               /\ pc["cancel"] \notin {"remove", "returned"}

(* Who ends each recognizer.                                                *)
LeftInv ==
    /\ LeftStart /\ LeftFinish /\ LeftRegistry /\ LeftCloud /\ LeftLocal
    /\ LeftShield /\ LeftRetry

----------------------------------------------------------------------------
(* Which steps can change what.                                             *)

(* The buffer and the attachment.                                           *)
LEMMA BufferFrame ==
    ASSUME [Next]_vars
    PROVE  \/ UNCHANGED bufferVars
           \/ Speaking \/ StartBuild \/ StartAttach \/ FinishStopped \/ CancelDrop
           \/ StandbyAnswered \/ (\E t \in Task : Close(t))
           \/ (AttachStep \/ AttachStarted) /\ Outside
<1>. USE DEF Task, vars, outer, allButState, sessionVars, taskVars, raceVars, PcOnly, Outside,
             bufferVars
<1>1. ASSUME StartStep \/ StartBegin \/ StartOpen \/ StartPrepare,
             ~StartBuild, ~StartAttach, ~\E t \in Task : Close(t)
      PROVE  UNCHANGED bufferVars
    BY <1>1 DEF StartStep, StartBegin, StartOpen, StartPrepare, StartStore, StartAttached,
                StartCheck, StartUndo, StartStop, ReleaseStep, LetGo, Join, Woken
<1>2. ASSUME FinishStep \/ FinishBegin, ~FinishStopped, ~\E t \in Task : Close(t)
      PROVE  UNCHANGED bufferVars
    BY <1>2 DEF FinishStep, FinishBegin, FinishTake, FinishStop, CallWait, CallAttached,
                CallAsk, CallSettled, LocalSkipped, FinishTranscribed, Backoff, Register,
                Replay, Again, ReleaseStep, LetGo, Join, Woken
<1>3. ASSUME CancelStep \/ CancelCalled, ~CancelDrop, ~\E t \in Task : Close(t)
      PROVE  UNCHANGED bufferVars
    BY <1>3 DEF CancelStep, CancelCalled, CancelBegin, CancelTake, CancelStop, CancelRemove,
                ReleaseStep, LetGo, Join, Woken
<1>4. ASSUME \/ CallAnswered \/ Restarted \/ RetryAnswered \/ StandbyStarted \/ StandbyFailed
             \/ FeedDirect \/ UNCHANGED vars \/ \E t \in Task : EndsInError(t)
      PROVE  UNCHANGED bufferVars
    BY <1>4 DEF CallAnswered, Restarted, RetryAnswered, StandbyStarted, StandbyFailed,
                FeedDirect, EndsInError
<1>. QED
    BY <1>1, <1>2, <1>3, <1>4 DEF Next, TaskStep, ProviderStep

(* What was recorded, and what the recognizers were given.                  *)
LEMMA AudioFrame ==
    ASSUME [Next]_vars
    PROVE  /\ \/ UNCHANGED audio
              \/ Speaking
              \/ FeedDirect /\ Outside
           /\ \/ UNCHANGED <<fed, asked>>
              \/ CallAsk \/ Replay \/ StandbyStarted
              \/ (FeedDirect \/ AttachFeed) /\ Outside
           /\ \/ UNCHANGED late
              \/ Restarted \/ StandbyStarted
              \/ AttachStarted /\ Outside
<1>. USE DEF Task, vars, outer, allButState, sessionVars, taskVars, raceVars, PcOnly, Outside,
             bufferVars, providerVars
<1>1. ASSUME StartStep \/ StartBegin \/ StartOpen \/ StartPrepare
      PROVE  UNCHANGED <<audio, fed, asked, late>>
    BY <1>1 DEF StartStep, StartBegin, StartBuild, StartOpen, StartPrepare, StartStore,
                StartAttach, StartAttached, StartCheck, StartUndo, StartStop, ReleaseStep,
                LetGo, Close, Join, Woken
<1>2. ASSUME FinishStep \/ FinishBegin, ~CallAsk, ~Replay
      PROVE  UNCHANGED <<audio, fed, asked, late>>
    BY <1>2 DEF FinishStep, FinishBegin, FinishTake, FinishStop, FinishStopped, CallWait,
                CallAttached, CallSettled, LocalSkipped, FinishTranscribed, Backoff, Register,
                Again, ReleaseStep, LetGo, Close, Join, Woken
<1>3. ASSUME CancelStep \/ CancelCalled
      PROVE  UNCHANGED <<audio, fed, asked, late>>
    BY <1>3 DEF CancelStep, CancelCalled, CancelBegin, CancelTake, CancelStop, CancelDrop,
                CancelRemove, ReleaseStep, LetGo, Close, Join, Woken
<1>4. ASSUME \/ CallAnswered \/ RetryAnswered \/ StandbyFailed \/ StandbyAnswered
             \/ AttachCheck \/ AttachLook \/ UNCHANGED vars \/ \E t \in Task : EndsInError(t)
      PROVE  UNCHANGED <<audio, fed, asked, late>>
    BY <1>4 DEF CallAnswered, RetryAnswered, StandbyFailed, StandbyAnswered, AttachCheck,
                AttachLook, EndsInError
<1>5. ASSUME CallAsk \/ Replay \/ StandbyStarted
      PROVE  UNCHANGED audio /\ (StandbyStarted \/ UNCHANGED late)
    BY <1>5 DEF CallAsk, Replay, StandbyStarted
<1>6. ASSUME Restarted
      PROVE  UNCHANGED <<audio, fed, asked>>
    BY <1>6 DEF Restarted
<1>7. ASSUME Speaking
      PROVE  UNCHANGED <<fed, asked, late>>
    BY <1>7, Zenon DEF Speaking, Speak
<1>8. ASSUME AttachFeed \/ AttachStarted \/ FeedDirect
      PROVE  /\ ~FeedDirect => UNCHANGED audio
             /\ AttachStarted => UNCHANGED <<fed, asked>>
             /\ ~AttachStarted => UNCHANGED late
  <2>1. CASE AttachFeed
    BY <2>1 DEF AttachFeed, AttachStarted
  <2>2. CASE AttachStarted
    BY <2>2, Zenon DEF AttachStarted
  <2>3. CASE FeedDirect
    BY <2>3 DEF FeedDirect, AttachStarted
  <2>. QED
    BY <1>8, <2>1, <2>2, <2>3
<1>. HIDE DEF vars, outer, allButState, sessionVars, taskVars, raceVars, PcOnly, Outside,
              bufferVars, providerVars
<1>9. UNCHANGED vars => UNCHANGED <<audio, fed, asked, late>>
    BY DEF vars, outer, providerVars
<1>10. CASE TaskStep
  <2>1. CASE StartStep \/ FinishStep \/ CancelStep
    BY <2>1, <1>1, <1>2, <1>3, <1>5
  <2>2. CASE \E t \in {"start", "finish"} : EndsInError(t)
    BY <2>2, <1>4
  <2>3. CASE (AttachStep \/ FeedDirect) /\ Outside
    BY <2>3, <1>4, <1>8 DEF AttachStep
  <2>. QED
    BY <1>10, <2>1, <2>2, <2>3 DEF TaskStep
<1>11. CASE ProviderStep
    BY <1>11, <1>1, <1>4, <1>5, <1>6, <1>8 DEF ProviderStep
<1>. QED
    BY <1>1, <1>2, <1>3, <1>4, <1>5, <1>7, <1>9, <1>10, <1>11 DEF Next

----------------------------------------------------------------------------
(* Types.                                                                   *)

(* The type of the buffer.                                                  *)
BufferType == [state : {"buffering", "attaching", "direct", "failed", "cancelled"},
               pcm : Seq(Chunks)]

(* The type of the attachment.                                              *)
AttachType == [pc : AttachPc, owner : {"none", "start", "spawned", "finish"}, pcm : Seq(Chunks)]

(* Buffers are updated to buffers.                                          *)
LEMMA BufferForms ==
    ASSUME NEW b \in BufferType, NEW s \in Seq(Chunks),
           NEW x \in {"buffering", "attaching", "direct", "failed", "cancelled"}
    PROVE  /\ [state |-> x, pcm |-> s] \in BufferType /\ b.pcm \in Seq(Chunks)
           /\ [b EXCEPT !.state = x] \in BufferType /\ [b EXCEPT !.pcm = s] \in BufferType
    BY DEF BufferType

(* Attachments are updated to attachments.                                  *)
LEMMA AttachForms ==
    ASSUME NEW a \in AttachType, NEW s \in Seq(Chunks), NEW x \in AttachPc
    PROVE  /\ [a EXCEPT !.pc = x] \in AttachType
           /\ [a EXCEPT !.pc = x, !.pcm = s] \in AttachType
    BY DEF AttachType

(* A new attachment has the type of one.                                    *)
LEMMA AttachBegun ==
    ASSUME NEW s \in Seq(Chunks), NEW o \in {"none", "start", "spawned", "finish"}
    PROVE  [pc |-> "check", owner |-> o, pcm |-> s] \in AttachType
    BY DEF AttachType, AttachPc

(* Every step keeps the types of the buffer and of the attachment.          *)
LEMMA BufferTyped ==
    ASSUME TypeOK, [Next]_vars
    PROVE  buffer' \in BufferType /\ attach' \in AttachType
<1>1. buffer \in BufferType /\ attach \in AttachType /\ audio.spoken \in 0..MaxChunks
    BY DEF TypeOK, BufferTypeOK, BufferType, AttachType
<1>2. <<>> \in Seq(Chunks) /\ buffer.pcm \in Seq(Chunks)
    BY <1>1 DEF BufferType
<1>. USE DEF bufferVars
<1>3. CASE Speaking
  <2>. DEFINE chunk == audio.spoken + 1
  <2>1. chunk \in Chunks /\ UNCHANGED attach
    BY <1>3, Zenon DEF Speaking, Speak
  <2>2. buffer' = buffer \/ buffer' = [buffer EXCEPT !.pcm = Append(buffer.pcm, chunk)]
    BY <1>3, Zenon DEF Speaking, Speak
  <2>3. Append(buffer.pcm, chunk) \in Seq(Chunks)
    BY <2>1, <1>2
  <2>. QED
    BY <2>1, <2>2, <2>3, <1>1, BufferForms
<1>4. CASE StartBuild \/ CancelDrop \/ \E t \in Task : Close(t)
    BY <1>1, <1>2, <1>4, BufferForms DEF StartBuild, CancelDrop, Close, TakeCancelState
<1>5. CASE StartAttach
    BY <1>1, <1>2, <1>5, BufferForms, AttachBegun DEF StartAttach, BeginAttach
<1>6. CASE FinishStopped
    BY <1>1, <1>2, <1>6, BufferForms, AttachBegun DEF FinishStopped, Transcribe, BeginAttach
<1>7. CASE StandbyAnswered
    BY <1>1, <1>2, <1>7, AttachForms DEF StandbyAnswered, DropAttach, AttachEnds, AttachPc
<1>8. CASE AttachCheck
    BY <1>1, <1>2, <1>8, AttachForms DEF AttachCheck, AttachEnds, AttachPc
<1>9. CASE AttachStarted
    BY <1>1, <1>2, <1>9, BufferForms, AttachForms DEF AttachStarted, AttachEnds, AttachPc
<1>10. CASE AttachLook
  <2>1. \/ buffer' = buffer
        \/ buffer' = [buffer EXCEPT !.pcm = <<>>] \/ buffer' = [buffer EXCEPT !.state = "direct"]
    BY <1>10, Zenon DEF AttachLook
  <2>2. \/ \E x \in AttachPc : attach' = [attach EXCEPT !.pc = x]
        \/ \E x \in AttachPc : attach' = [attach EXCEPT !.pc = x, !.pcm = buffer.pcm]
    BY <1>10 DEF AttachLook, AttachEnds, AttachPc
  <2>3. buffer' \in BufferType
    BY <1>1, <1>2, <2>1, BufferForms
  <2>4. attach' \in AttachType
    BY <1>1, <1>2, <2>2, AttachForms
  <2>. QED
    BY <2>3, <2>4
<1>11. CASE AttachFeed
    BY <1>1, <1>2, <1>11, AttachForms DEF AttachFeed, AttachPc
<1>. QED
    BY BufferFrame, <1>1, <1>3, <1>4, <1>5, <1>6, <1>7, <1>8, <1>9, <1>10, <1>11
       DEF AttachStep

(* The type of the audio.                                                   *)
AudioType == [spoken : 0..MaxChunks, heard : BOOLEAN, feeding : 0..MaxChunks]

(* Every step keeps the type of the audio.                                  *)
LEMMA AudioTyped ==
    ASSUME TypeOK, [Next]_vars
    PROVE  audio' \in AudioType
<1>1. audio \in AudioType
    BY DEF TypeOK, BufferTypeOK, AudioType
<1>2. CASE Speaking
  <2>. DEFINE chunk == audio.spoken + 1
              next(sound) == [spoken |-> chunk, heard |-> audio.heard \/ sound,
                              feeding |-> IF buffer.state = "direct" THEN chunk ELSE 0]
  <2>1. PICK sound \in BOOLEAN : chunk \in Chunks /\ audio' = next(sound)
    BY <1>2, Zenon DEF Speaking, Speak
  <2>2. (audio.heard \/ sound) \in BOOLEAN
    BY <1>1
  <2>3. chunk \in 0..MaxChunks /\ (IF buffer.state = "direct" THEN chunk ELSE 0) \in 0..MaxChunks
    BY <2>1, BoundsAssumption DEF Chunks
  <2>. HIDE DEF chunk
  <2>. QED
    BY <2>1, <2>2, <2>3, Zenon DEF AudioType
<1>3. CASE FeedDirect
  <2>1. audio' = [audio EXCEPT !.feeding = 0]
    BY <1>3 DEF FeedDirect
  <2>. QED
    BY <1>1, <2>1, BoundsAssumption DEF AudioType
<1>. QED
    BY AudioFrame, <1>1, <1>2, <1>3

(* Every step keeps the types of the Notify.                                *)
LEMMA WaitersTyped ==
    ASSUME TypeOK, [Next]_vars
    PROVE  asleep' \in SUBSET Task /\ permit' \in BOOLEAN
<1>1. asleep \in SUBSET Task /\ permit \in BOOLEAN
    BY DEF TypeOK, BufferTypeOK, Task
<1>2. UNCHANGED waiterVars => asleep' \in SUBSET Task /\ permit' \in BOOLEAN
    BY <1>1 DEF waiterVars
<1>3. ASSUME NEW t \in Task, Notified(t)
      PROVE  asleep' \in SUBSET Task /\ permit' \in BOOLEAN
    BY <1>1, <1>3 DEF Notified
<1>4. Notify => asleep' \in SUBSET Task /\ permit' \in BOOLEAN
    BY DEF Notify
<1>. USE DEF vars, outer, allButState, PcOnly
<1>5. ASSUME NEW t \in Task, ReleaseStep(t)
      PROVE  asleep' \in SUBSET Task /\ permit' \in BOOLEAN
  <2>1. CASE Join(t)
    BY <2>1, <1>3 DEF Join
  <2>2. CASE LetGo(t) \/ Close(t) \/ Woken(t)
    BY <2>2, <1>2 DEF LetGo, Close, Woken
  <2>. QED
    BY <1>5, <2>1, <2>2 DEF ReleaseStep
<1>6. CASE StartStep \/ StartBegin \/ StartOpen \/ StartPrepare
    BY <1>6, <1>2, <1>5 DEF StartStep, StartBegin, StartBuild, StartOpen, StartPrepare,
        StartStore, StartAttach, StartAttached, StartCheck, StartUndo, StartStop, Task
<1>7. CASE FinishStep \/ FinishBegin
    BY <1>7, <1>2, <1>3, <1>5 DEF FinishStep, FinishBegin, FinishTake, FinishStop,
        FinishStopped, CallWait, CallAttached, CallAsk, CallSettled, LocalSkipped,
        FinishTranscribed, Backoff, Register, Replay, Again, Task
<1>8. CASE CancelStep \/ CancelCalled
    BY <1>8, <1>2, <1>5 DEF CancelStep, CancelCalled, CancelBegin, CancelTake, CancelStop,
        CancelDrop, CancelRemove, Task
<1>9. CASE CallAnswered \/ Restarted \/ RetryAnswered \/ StandbyStarted \/ StandbyFailed
    BY <1>9, <1>2 DEF CallAnswered, Restarted, RetryAnswered, StandbyStarted, StandbyFailed
<1>10. CASE StandbyAnswered
    BY <1>10, <1>1, <1>4 DEF StandbyAnswered, DropAttach, AttachEnds, waiterVars
<1>11. CASE AttachCheck \/ AttachStarted \/ AttachLook \/ AttachFeed
    BY <1>11, <1>2, <1>4 DEF AttachCheck, AttachStarted, AttachLook, AttachFeed, AttachEnds
<1>12. CASE Speaking \/ FeedDirect \/ \E t \in Task : EndsInError(t)
    BY <1>12, <1>2 DEF Speaking, Speak, FeedDirect, EndsInError
<1>. QED
    BY <1>2, <1>6, <1>7, <1>8, <1>9, <1>10, <1>11, <1>12
       DEF Next, TaskStep, ProviderStep, AttachStep, Task

(* The type of the states of the providers.                                 *)
StateType == [Provider -> {"none", "live", "finished", "cancelled"}]

(* Every step keeps the type of the states of the providers.                *)
LEMMA StateTyped ==
    ASSUME TypeOK, [Next]_vars
    PROVE  state' \in StateType
<1>1. state \in StateType
    BY DEF TypeOK, BufferTypeOK, StateType
<1>2. ASSUME NEW p, NEW how \in {"finished", "cancelled"}, Ends(p, how)
      PROVE  state' \in StateType
    BY <1>1, <1>2 DEF Ends, StateType
<1>3. ASSUME NEW p, NEW isLate, Started(p, isLate)
      PROVE  state' \in StateType
    BY <1>1, <1>3 DEF Started, StateType
<1>4. TakeCancelState => state' \in StateType
    BY <1>1, <1>2 DEF TakeCancelState
<1>5. state' = state => state' \in StateType
    BY <1>1
<1>. USE DEF vars, outer, allButState, PcOnly, providerVars
<1>6. ASSUME NEW t \in Task, ReleaseStep(t) \/ EndsInError(t)
      PROVE  state' \in StateType
    BY <1>6, <1>2, <1>4, <1>5 DEF ReleaseStep, LetGo, Close, Join, Woken, EndsInError
<1>7. CASE StartStep \/ StartBegin \/ StartOpen \/ StartPrepare
    BY <1>7, <1>4, <1>5, <1>6 DEF StartStep, StartBegin, StartBuild, StartOpen, StartPrepare,
        StartStore, StartAttach, StartAttached, StartCheck, StartUndo, StartStop, Task
<1>8. CASE FinishStep \/ FinishBegin
  <2>1. CASE \/ FinishBegin \/ FinishTake \/ FinishStop \/ FinishStopped \/ CallWait
             \/ CallAttached \/ CallAsk \/ FinishTranscribed \/ Backoff \/ Replay \/ Again
    BY <2>1, <1>5 DEF FinishBegin, FinishTake, FinishStop, FinishStopped, CallWait,
        CallAttached, CallAsk, FinishTranscribed, Backoff, Replay, Again
  <2>2. CASE CallSettled \/ LocalSkipped \/ Register
    BY <2>2, <1>2, <1>5 DEF CallSettled, LocalSkipped, Register, Abandon
  <2>. QED
    BY <1>8, <1>6, <2>1, <2>2 DEF FinishStep, Task
<1>9. CASE CancelStep \/ CancelCalled
    BY <1>9, <1>4, <1>5, <1>6 DEF CancelStep, CancelCalled, CancelBegin, CancelTake,
        CancelStop, CancelDrop, CancelRemove, Task
<1>10. CASE CallAnswered \/ RetryAnswered \/ StandbyFailed \/ StandbyAnswered
    BY <1>10, <1>2, <1>5 DEF CallAnswered, RetryAnswered, StandbyFailed, StandbyAnswered
<1>11. CASE Restarted \/ StandbyStarted \/ AttachStarted
    BY <1>11, <1>3, <1>5 DEF Restarted, StandbyStarted, AttachStarted
<1>12. CASE Speaking \/ FeedDirect \/ AttachCheck \/ AttachLook \/ AttachFeed
    BY <1>12, <1>2, <1>5 DEF Speaking, Speak, FeedDirect, AttachCheck, AttachLook, AttachFeed
<1>. QED
    BY <1>5, <1>6, <1>7, <1>8, <1>9, <1>10, <1>11, <1>12
       DEF Next, TaskStep, ProviderStep, AttachStep, Task

(* The whole recording is a sequence of chunks.                             *)
LEMMA RecordingTyped ==
    ASSUME TypeOK
    PROVE  /\ Recording \in Seq(Chunks) /\ Len(Recording) = audio.spoken
           /\ \A i \in 1..audio.spoken : Recording[i] = i
<1>1. audio.spoken \in 0..MaxChunks /\ audio.spoken \in Nat
    BY BoundsAssumption DEF TypeOK, BufferTypeOK
<1>2. Recording \in [1..audio.spoken -> Chunks]
    BY <1>1, BoundsAssumption DEF Recording, Chunks
<1>3. Recording \in Seq(Chunks)
    BY <1>1, <1>2, SeqDef
<1>4. DOMAIN Recording = 1..Len(Recording) /\ Len(Recording) \in Nat
    BY <1>3, LenProperties
<1>5. 1..Len(Recording) = 1..audio.spoken
    BY <1>2, <1>4
<1>6. Len(Recording) = audio.spoken
  <2>1. Len(Recording) \in 1..Len(Recording) \/ Len(Recording) = 0
    BY <1>4
  <2>2. audio.spoken \in 1..audio.spoken \/ audio.spoken = 0
    BY <1>1
  <2>. QED
    BY <1>1, <1>4, <1>5, <2>1, <2>2
<1>. QED
    BY <1>3, <1>6 DEF Recording

(* Every step keeps the types of what the providers were given.             *)
LEMMA FedTyped ==
    ASSUME TypeOK, RetryInv, [Next]_vars
    PROVE  /\ fed' \in [Provider -> Seq(Chunks)]
           /\ asked' \in SUBSET Provider /\ late' \in SUBSET Provider
<1>1. /\ fed \in [Provider -> Seq(Chunks)]
      /\ asked \in SUBSET Provider /\ late \in SUBSET Provider
      /\ attach.pcm \in Seq(Chunks) /\ audio.feeding \in 0..MaxChunks
    BY DEF TypeOK, BufferTypeOK
<1>2. ASSUME NEW p \in Provider, NEW s \in Seq(Chunks), Feed(p, s)
      PROVE  fed' \in [Provider -> Seq(Chunks)]
    BY <1>1, <1>2 DEF Feed
<1>3. pc["finish"] \in {"restart", "register", "feed"} => attempt \in Provider
    BY DEF RetryInv, RetryControl, TypeOK, Provider, Retry
<1>4. {Cloud, Local} \subseteq Provider
    BY DEF Provider
<1>5. UNCHANGED fed \/ fed' \in [Provider -> Seq(Chunks)]
  <2>1. CASE Replay
    BY <2>1, <1>2, <1>3, RecordingTyped DEF Replay
  <2>2. CASE StandbyStarted
    BY <2>2, <1>2, <1>4, RecordingTyped DEF StandbyStarted
  <2>3. CASE FeedDirect
    <3>1. <<audio.feeding>> \in Seq(Chunks) /\ Feed(Cloud, <<audio.feeding>>)
      BY <2>3, <1>1 DEF FeedDirect, Chunks
    <3>. QED
      BY <3>1, <1>2, <1>4
  <2>4. CASE AttachFeed
    BY <2>4, <1>1, <1>2, <1>4 DEF AttachFeed
  <2>5. CASE CallAsk
    BY <2>5 DEF CallAsk
  <2>. QED
    BY AudioFrame, <2>1, <2>2, <2>3, <2>4, <2>5
<1>6. UNCHANGED asked \/ asked' \in SUBSET Provider
  <2>1. CASE Replay \/ StandbyStarted \/ CallAsk
    BY <2>1, <1>1, <1>3, <1>4 DEF Replay, StandbyStarted, CallAsk
  <2>2. CASE FeedDirect \/ AttachFeed
    BY <2>2 DEF FeedDirect, AttachFeed
  <2>. QED
    BY AudioFrame, <2>1, <2>2
<1>7. UNCHANGED late \/ late' \in SUBSET Provider
  <2>1. CASE Restarted
    BY <2>1, <1>1, <1>3 DEF Restarted, Started
  <2>2. CASE AttachStarted \/ StandbyStarted
    BY <2>2, <1>1, <1>4 DEF AttachStarted, StandbyStarted, Started
  <2>. QED
    BY AudioFrame, <2>1, <2>2
<1>. QED
    BY <1>1, <1>5, <1>6, <1>7

(* The type of the record of the session.                                   *)
SessionType(f, r, rec, tr, b) ==
    /\ f \in SUBSET {"cancelled", "once", "finished"}
    /\ r \in BOOLEAN /\ b \in BOOLEAN
    /\ rec \in {"none", "opening", "opened", "stored", "taken", "closed"}
    /\ tr \in Provider \cup {None}

(* Every step keeps the type of the record of the session, and its set-up.  *)
LEMMA SessionTyped ==
    ASSUME TypeOK, RetryInv, [Next]_vars
    PROVE  SessionType(flags, registered, recording, transcription, buffered)' /\ setup' = setup
<1>. DEFINE Goal == SessionType(flags, registered, recording, transcription, buffered)'
                    /\ setup' = setup
<1>1. SessionType(flags, registered, recording, transcription, buffered)
    BY DEF TypeOK, SessionType
<1>2. pc["finish"] = "register" => attempt \in Provider
    BY DEF RetryInv, RetryControl, TypeOK, Provider, Retry
<1>3. Cloud \in Provider
    BY DEF Provider
<1>4. UNCHANGED <<setup, flags, registered, recording, transcription, buffered>> => Goal
    BY <1>1 DEF SessionType
<1>. USE DEF vars, outer, sessionVars, allButState, PcOnly, Outside
<1>5. ASSUME NEW t \in Task, ReleaseStep(t) \/ EndsInError(t)
      PROVE  Goal
    BY <1>1, <1>5 DEF ReleaseStep, LetGo, Close, Join, Woken, EndsInError, Forget, Raise,
        SessionType
<1>6. CASE StartStep \/ StartBegin \/ StartOpen \/ StartPrepare
  <2>1. CASE \/ StartBegin \/ StartOpen \/ StartPrepare \/ StartStore \/ StartAttach
             \/ StartAttached \/ StartCheck \/ StartUndo \/ StartStop
    BY <2>1, <1>1 DEF StartBegin, StartOpen, StartPrepare, StartStore, StartAttach,
        StartAttached, StartCheck, StartUndo, StartStop, Stops, SessionType
  <2>2. CASE StartBuild
    BY <2>2, <1>1, <1>3 DEF StartBuild, Forget, SessionType
  <2>. QED
    BY <1>6, <1>5, <2>1, <2>2 DEF StartStep, Task
<1>7. CASE FinishStep \/ FinishBegin
  <2>1. CASE \/ FinishStopped \/ CallWait \/ CallAttached \/ CallAsk \/ LocalSkipped \/ Backoff
             \/ Replay \/ Again
    BY <2>1, <1>4 DEF FinishStopped, CallWait, CallAttached, CallAsk, LocalSkipped, Backoff,
        Replay, Again
  <2>2. CASE FinishBegin \/ FinishTake \/ FinishStop \/ FinishTranscribed
    BY <2>2, <1>1 DEF FinishBegin, FinishTake, FinishStop, FinishTranscribed, Forget, Stops,
        SessionType
  <2>3. CASE Register \/ CallSettled
    BY <2>3, <1>1, <1>2 DEF Register, CallSettled, Raise, SessionType
  <2>. QED
    BY <1>7, <1>5, <2>1, <2>2, <2>3 DEF FinishStep, Task
<1>8. CASE CancelStep \/ CancelCalled
  <2>1. CASE CancelCalled \/ CancelBegin \/ CancelTake \/ CancelStop \/ CancelDrop \/ CancelRemove
    BY <2>1, <1>1 DEF CancelCalled, CancelBegin, CancelTake, CancelStop, CancelDrop,
        CancelRemove, Forget, Stops, Raise, SessionType
  <2>. QED
    BY <1>8, <1>5, <2>1 DEF CancelStep, Task
<1>9. CASE ProviderStep
  <2>1. CASE RetryAnswered
    BY <2>1, <1>1 DEF RetryAnswered, Raise, SessionType
  <2>2. CASE \/ CallAnswered \/ Restarted \/ StandbyStarted \/ StandbyAnswered \/ StandbyFailed
    BY <2>2, <1>4 DEF CallAnswered, Restarted, StandbyStarted, StandbyAnswered, StandbyFailed
  <2>3. CASE Outside
    BY <2>3, <1>4
  <2>. QED
    BY <1>9, <1>6, <2>1, <2>2, <2>3 DEF ProviderStep
<1>10. Outside \/ UNCHANGED vars => Goal
    BY <1>4
<1>. QED
    BY <1>5, <1>6, <1>7, <1>8, <1>9, <1>10 DEF Next, TaskStep, Speaking, Task

(* The types of the tasks.                                                  *)
TaskTypeOK ==
    /\ pc \in [Task -> Pc] /\ then \in [Task -> Pc]
    /\ target \in [Task -> Provider \cup {None}]

(* A task goes to a point of the program.                                   *)
LEMMA AtTyped ==
    ASSUME pc \in [Task -> Pc], NEW t \in Task, NEW p \in Pc, At(t, p)
    PROVE  pc' \in [Task -> Pc]
    BY DEF At

(* The start of a release keeps the types of the tasks.                     *)
LEMMA ReleaseTyped ==
    ASSUME TaskTypeOK, NEW t \in Task, NEW p \in Provider \cup {None}, NEW next \in Pc,
           Release(t, p, next)
    PROVE  TaskTypeOK'
<1>1. pc' \in [Task -> Pc]
    BY AtTyped DEF Release, TaskTypeOK, Pc, Returned
<1>2. then' \in [Task -> Pc] /\ target' \in [Task -> Provider \cup {None}]
    BY DEF Release, TaskTypeOK
<1>. QED
    BY <1>1, <1>2 DEF TaskTypeOK

(* Every step keeps the types of the tasks.                                 *)
LEMMA TasksTyped ==
    ASSUME TypeOK, RetryInv, [Next]_vars
    PROVE  TaskTypeOK'
<1>1. TaskTypeOK
    BY DEF TypeOK, TaskTypeOK
<1>2. pc["finish"] \in {"feed", "answer"} => attempt \in Provider \cup {None}
    BY DEF RetryInv, RetryControl, TypeOK, Provider, Retry
<1>3. Cloud \in Provider \cup {None} /\ transcription \in Provider \cup {None}
    BY DEF Provider, TypeOK
<1>4. UNCHANGED taskVars => TaskTypeOK'
    BY <1>1 DEF taskVars, TaskTypeOK
<1>14. ASSUME NEW t \in Task, NEW p \in Pc, At(t, p)
      PROVE  pc' \in [Task -> Pc]
    BY <1>1, <1>14, AtTyped DEF TaskTypeOK
<1>15. pc' \in [Task -> Pc] /\ UNCHANGED <<then, target>> => TaskTypeOK'
    BY <1>1 DEF TaskTypeOK
<1>5. ASSUME NEW t \in Task, NEW p \in Pc, At(t, p), UNCHANGED <<then, target>>
      PROVE  TaskTypeOK'
    BY <1>1, <1>5, AtTyped DEF TaskTypeOK
<1>6. ASSUME NEW t \in Task, NEW next \in Pc, Release(t, Cloud, next)
      PROVE  TaskTypeOK'
    BY <1>1, <1>3, <1>6, ReleaseTyped
<1>7. {"start", "finish", "cancel"} = Task
    BY DEF Task
<1>. USE DEF PcOnly
<1>8. ASSUME NEW t \in Task, ReleaseStep(t) \/ EndsInError(t)
      PROVE  TaskTypeOK'
  <2>1. then[t] \in Pc
    BY <1>1 DEF TaskTypeOK
  <2>2. pc' \in [Task -> Pc]
    BY <1>8, <1>14, <2>1 DEF ReleaseStep, LetGo, Close, Join, Woken, EndsInError, Forget, Pc, Returned
  <2>3. UNCHANGED <<then, target>>
    BY <1>8 DEF ReleaseStep, LetGo, Close, Join, Woken, EndsInError
  <2>. QED
    BY <1>15, <2>2, <2>3
<1>9. CASE StartStep \/ StartBegin \/ StartOpen \/ StartPrepare
  <2>1. CASE \/ StartBegin \/ StartPrepare \/ StartBuild \/ StartStore \/ StartAttach
             \/ StartAttached \/ StartCheck
    <3>1. UNCHANGED <<then, target>>
      BY <2>1 DEF StartBegin, StartPrepare, StartBuild, StartStore, StartAttach, StartAttached,
          StartCheck
    <3>2. pc' \in [Task -> Pc]
      BY <2>1, <1>7, <1>14 DEF StartBegin, StartPrepare, StartBuild, StartStore, StartAttach, StartAttached,
          StartCheck, Forget, Pc, Returned
    <3>. QED
      BY <1>15, <3>1, <3>2
  <2>2. CASE StartOpen \/ StartUndo \/ StartStop
    <3>1. \/ \E p \in Pc : At("start", p) /\ UNCHANGED <<then, target>>
          \/ Release("start", Cloud, "end")
      BY <2>2 DEF StartOpen, StartUndo, StartStop, Pc, Returned
    <3>2. "end" \in Pc
      BY DEF Pc, Returned
    <3>. QED
      BY <1>5, <1>6, <1>7, <3>1, <3>2
  <2>. QED
    BY <1>7, <1>8, <1>9, <2>1, <2>2 DEF StartStep
<1>10. CASE FinishStep \/ FinishBegin
  <2>1. CASE FinishBegin \/ FinishTake \/ FinishStop \/ FinishTranscribed \/ Backoff \/ Register
    <3>1. UNCHANGED <<then, target>>
      BY <2>1 DEF FinishBegin, FinishTake, FinishStop, FinishTranscribed, Backoff, Register
    <3>2. pc' \in [Task -> Pc]
      BY <2>1, <1>7, <1>14 DEF FinishBegin, FinishTake, FinishStop, FinishTranscribed, Backoff, Register,
          Forget, Pc, Returned
    <3>. QED
      BY <1>15, <3>1, <3>2
  <2>2. CASE LocalSkipped \/ Again
    <3>1. UNCHANGED <<then, target>>
      BY <2>2 DEF LocalSkipped, Again
    <3>2. pc' \in [Task -> Pc]
      BY <2>2, <1>7, <1>14 DEF LocalSkipped, Again, AfterLocal, NextAttempt, Pc, Returned
    <3>. QED
      BY <1>15, <3>1, <3>2
  <2>3. CASE CallWait \/ CallAttached \/ CallAsk
    BY <2>3, <1>4 DEF CallWait, CallAttached, CallAsk
  <2>4. CASE FinishStopped \/ CallSettled
    <3>1. {"end", "error", "race", "transcribed", "spare", "local"} \subseteq Pc
      BY DEF Pc, Returned
    <3>. QED
      BY <2>4, <1>5, <1>6, <1>7, <3>1 DEF FinishStopped, CallSettled
  <2>5. CASE Replay
    <3>1. attempt \in Provider \cup {None} /\ "end" \in Pc /\ "answer" \in Pc
      BY <2>5, <1>2 DEF Replay, Pc, Returned
    <3>2. \/ At("finish", "answer") /\ UNCHANGED <<then, target>>
          \/ Release("finish", attempt, "end")
      BY <2>5 DEF Replay
    <3>. QED
      BY <1>1, <1>5, <1>7, <3>1, <3>2, ReleaseTyped
  <2>. QED
    BY <1>7, <1>8, <1>10, <2>1, <2>2, <2>3, <2>4, <2>5 DEF FinishStep
<1>11. CASE CancelStep \/ CancelCalled
  <2>1. CASE \/ CancelCalled \/ CancelBegin \/ CancelStop \/ CancelDrop \/ CancelRemove
    <3>1. UNCHANGED <<then, target>>
      BY <2>1 DEF CancelCalled, CancelBegin, CancelStop, CancelDrop, CancelRemove
    <3>2. pc' \in [Task -> Pc]
      BY <2>1, <1>7, <1>14 DEF CancelCalled, CancelBegin, CancelStop, CancelDrop, CancelRemove, Forget,
          ReleaseOf, Pc, Returned
    <3>. QED
      BY <1>15, <3>1, <3>2
  <2>2. CASE CancelTake
    <3>1. "remove" \in Pc
      BY DEF Pc, Returned
    <3>2. pc' \in [Task -> Pc]
      BY <2>2, <1>7, <1>14 DEF CancelTake, ReleaseOf, Pc, Returned
    <3>4. then' \in [Task -> Pc] /\ target' \in [Task -> Provider \cup {None}]
      BY <2>2, <1>1, <1>3, <3>1 DEF CancelTake, TaskTypeOK
    <3>. QED
      BY <3>2, <3>4 DEF TaskTypeOK
  <2>. QED
    BY <1>7, <1>8, <1>11, <2>1, <2>2 DEF CancelStep
<1>12. CASE ProviderStep
  <2>1. CASE CallAnswered \/ StandbyStarted
    BY <2>1, <1>4 DEF CallAnswered, StandbyStarted
  <2>2. CASE Restarted \/ StandbyFailed
    <3>1. UNCHANGED <<then, target>>
      BY <2>2 DEF Restarted, StandbyFailed
    <3>2. UNCHANGED pc \/ \E p \in Pc : At("finish", p)
      BY <2>2 DEF Restarted, StandbyFailed, AfterLocal, NextAttempt, Pc, Returned
    <3>. QED
      BY <1>4, <1>5, <1>7, <3>1, <3>2 DEF taskVars
  <2>3. CASE RetryAnswered
    <3>1. attempt \in Provider \cup {None}
      BY <2>3, <1>2 DEF RetryAnswered
    <3>2. \/ At("finish", "transcribed") /\ UNCHANGED <<then, target>>
          \/ \E next \in {"end", "again"} : Release("finish", attempt, next)
      BY <2>3 DEF RetryAnswered
    <3>3. {"transcribed", "end", "again"} \subseteq Pc
      BY DEF Pc, Returned
    <3>. QED
      BY <1>1, <1>5, <1>7, <3>1, <3>2, <3>3, ReleaseTyped
  <2>4. CASE StandbyAnswered
    <3>1. "transcribed" \in Pc
      BY DEF Pc, Returned
    <3>2. \/ Release("finish", Cloud, "transcribed")
          \/ At("finish", "transcribed") /\ UNCHANGED <<then, target>>
      BY <2>4 DEF StandbyAnswered
    <3>. QED
      BY <1>5, <1>6, <1>7, <3>1, <3>2
  <2>5. CASE Outside
    BY <2>5, <1>4 DEF Outside
  <2>. QED
    BY <1>9, <1>12, <2>1, <2>2, <2>3, <2>4, <2>5 DEF ProviderStep
<1>13. Outside \/ UNCHANGED vars => TaskTypeOK'
    BY <1>4 DEF Outside, vars
<1>. QED
    BY <1>7, <1>8, <1>9, <1>10, <1>11, <1>12, <1>13 DEF Next, TaskStep, Speaking

(* The type of what finish remembers.                                       *)
RaceType(c, v, a, s) ==
    /\ c \in Result \cup {"none", "wait", "asleep", "attach", "ask", "answer", "dropped"}
    /\ v \in [cancelled : BOOLEAN, retry : BOOLEAN]
    /\ a \in 0..Attempts
    /\ s \in {"off", "prepare", "answer"}

(* Every step keeps the type of what finish remembers.                      *)
LEMMA RaceTyped ==
    ASSUME TypeOK, RetryInv, [Next]_vars
    PROVE  RaceType(call, verdict, attempt, standby)'
<1>. DEFINE Goal == RaceType(call, verdict, attempt, standby)'
<1>1. RaceType(call, verdict, attempt, standby) /\ Attempts \in Nat \ {0}
    BY BoundsAssumption DEF TypeOK, RaceType
<1>2. UNCHANGED raceVars => Goal
    BY <1>1 DEF raceVars, RaceType
<1>. USE DEF PcOnly
<1>3. ASSUME NEW t \in Task, ReleaseStep(t) \/ EndsInError(t)
      PROVE  Goal
    BY <1>2, <1>3 DEF ReleaseStep, LetGo, Close, Join, Woken, EndsInError, raceVars
<1>4. CASE StartStep \/ StartBegin \/ StartOpen \/ StartPrepare
    BY <1>4, <1>2, <1>3 DEF StartStep, StartBegin, StartOpen, StartPrepare, StartBuild,
        StartStore, StartAttach, StartAttached, StartCheck, StartUndo, StartStop, Task, raceVars
<1>5. CASE FinishStep \/ FinishBegin
  <2>1. CASE \/ FinishBegin \/ FinishTake \/ FinishStop \/ FinishTranscribed \/ Backoff
             \/ Register \/ Replay
    BY <2>1, <1>2 DEF FinishBegin, FinishTake, FinishStop, FinishTranscribed, Backoff,
        Register, Replay, raceVars
  <2>2. CASE FinishStopped \/ CallWait \/ CallAttached \/ CallAsk
    BY <2>2, <1>1 DEF FinishStopped, Transcribe, CallWait, CallAttached, CallAsk, RaceType,
        Result, raceVars
  <2>3. CASE CallSettled
    <3>1. UNCHANGED <<call, attempt>> /\ (UNCHANGED standby \/ standby' = "off")
      BY <2>3 DEF CallSettled, Abandon
    <3>2. UNCHANGED verdict \/ \E read \in BOOLEAN :
              verdict' = [cancelled |-> Flagged("cancelled"),
                          retry |-> /\ read /\ ~Flagged("cancelled") /\ call = "lost"
                                    /\ setup.archive /\ audio.spoken > 0]
      BY <2>3, Zenon DEF CallSettled
    <3>3. setup.archive \in BOOLEAN /\ Flagged("cancelled") \in BOOLEAN
      BY DEF TypeOK, Flagged
    <3>5. ASSUME NEW a \in BOOLEAN, NEW b \in BOOLEAN
          PROVE  [cancelled |-> a, retry |-> b] \in [cancelled : BOOLEAN, retry : BOOLEAN]
      OBVIOUS
    <3>6. UNCHANGED verdict \/ \E a, b \in BOOLEAN : verdict' = [cancelled |-> a, retry |-> b]
      BY <3>2, <3>3, Zenon
    <3>4. verdict' \in [cancelled : BOOLEAN, retry : BOOLEAN]
      BY <1>1, <3>5, <3>6 DEF RaceType
    <3>. QED
      BY <1>1, <3>1, <3>4 DEF RaceType
  <2>4. CASE LocalSkipped \/ Again
    <3>1. UNCHANGED <<call, verdict>> /\ (UNCHANGED standby \/ standby' = "off")
      BY <2>4 DEF LocalSkipped, Again, Abandon
    <3>2. attempt' \in 0..Attempts
      BY <2>4, <1>1 DEF LocalSkipped, Again, AfterLocal, NextAttempt, RaceType, RetryInv, RetryControl
    <3>. QED
      BY <1>1, <3>1, <3>2 DEF RaceType
  <2>. QED
    BY <1>3, <1>5, <2>1, <2>2, <2>3, <2>4 DEF FinishStep, Task
<1>6. CASE CancelStep \/ CancelCalled
    BY <1>6, <1>2, <1>3 DEF CancelStep, CancelCalled, CancelBegin, CancelTake, CancelStop,
        CancelDrop, CancelRemove, Task, raceVars
<1>7. CASE ProviderStep
  <2>1. CASE RetryAnswered \/ Outside
    BY <2>1, <1>2 DEF RetryAnswered, Outside
  <2>2. CASE CallAnswered \/ StandbyStarted \/ StandbyAnswered
    BY <2>2, <1>1 DEF CallAnswered, StandbyStarted, StandbyAnswered, RaceType
  <2>3. CASE Restarted \/ StandbyFailed
    <3>1. UNCHANGED <<call, verdict>> /\ (UNCHANGED standby \/ standby' = "off")
      BY <2>3 DEF Restarted, StandbyFailed
    <3>2. attempt' \in 0..Attempts
      BY <2>3, <1>1 DEF Restarted, StandbyFailed, AfterLocal, NextAttempt, RaceType
    <3>. QED
      BY <1>1, <3>1, <3>2 DEF RaceType
  <2>. QED
    BY <1>4, <1>7, <2>1, <2>2, <2>3 DEF ProviderStep
<1>8. Outside \/ UNCHANGED vars => Goal
    BY <1>2 DEF Outside, vars
<1>. QED
    BY <1>3, <1>4, <1>5, <1>6, <1>7, <1>8 DEF Next, TaskStep, Speaking, Task

(* Every step keeps the type invariant; the number of an attempt needs      *)
(* RetryInv.                                                                *)
LEMMA TypeStep ==
    ASSUME TypeOK, RetryInv, [Next]_vars
    PROVE  TypeOK'
<1>1. /\ buffer' \in BufferType /\ attach' \in AttachType /\ audio' \in AudioType
      /\ asleep' \in SUBSET Task /\ permit' \in BOOLEAN /\ state' \in StateType
    BY BufferTyped, AudioTyped, WaitersTyped, StateTyped
<1>2. BufferTypeOK'
    BY <1>1, FedTyped DEF BufferTypeOK, BufferType, AttachType, AudioType, StateType, Task
<1>3. /\ SessionType(flags, registered, recording, transcription, buffered)'
      /\ RaceType(call, verdict, attempt, standby)' /\ TaskTypeOK' /\ setup' = setup
    BY SessionTyped, RaceTyped, TasksTyped
<1>. QED
    BY <1>2, <1>3 DEF TypeOK, SessionType, RaceType, TaskTypeOK

(* The steps of start.                                                      *)
StartMoves == StartBegin \/ StartStep \/ StartOpen \/ StartPrepare \/ EndsInError("start")

(* The steps of finish, with those that wait for a recognizer.              *)
FinishMoves ==
    \/ FinishBegin \/ FinishStep \/ EndsInError("finish") \/ Restarted \/ RetryAnswered
    \/ StandbyAnswered \/ StandbyFailed

(* The steps of cancel.                                                     *)
CancelMoves == CancelCalled \/ CancelStep

(* The task t does not move.                                                *)
Still(t) == pc'[t] = pc[t] /\ then'[t] = then[t] /\ target'[t] = target[t]

(* A task that moves leaves the others where they are.                      *)
LEMMA OthersStill ==
    ASSUME TaskTypeOK, NEW t \in Task, NEW u \in Task, t # u, NEW p
    PROVE  /\ At(t, p) => pc'[u] = pc[u]
           /\ At(t, p) /\ UNCHANGED <<then, target>> => Still(u)
           /\ \A next, provider : Release(t, provider, next) => Still(u)
    BY DEF TaskTypeOK, At, Release, Still

(* A task moves by its own actions only, and the start and the cancellation  *)
(* leave the race and the retries alone.                                     *)
LEMMA TaskFrame ==
    ASSUME TypeOK, [Next]_vars
    PROVE  /\ StartMoves \/ Still("start")
           /\ FinishMoves \/ Still("finish")
           /\ CancelMoves \/ Still("cancel")
           /\ FinishMoves \/ UNCHANGED <<verdict, attempt>>
           /\ FinishMoves \/ CallAnswered \/ StandbyStarted \/ UNCHANGED <<call, standby>>
<1>1. TaskTypeOK /\ Task = {"start", "finish", "cancel"}
    BY DEF TypeOK, TaskTypeOK, Task
<1>2. UNCHANGED taskVars => \A t \in Task : Still(t)
    BY DEF taskVars, Still
<1>. USE DEF PcOnly
<1>3. ASSUME NEW t \in Task, NEW u \in Task, t # u, ReleaseStep(t) \/ EndsInError(t)
      PROVE  Still(u) /\ UNCHANGED raceVars
  <2>1. UNCHANGED <<then, target, raceVars>> /\ \E p : At(t, p)
    BY <1>3 DEF ReleaseStep, LetGo, Close, Join, Woken, EndsInError, Forget, At
  <2>. QED
    BY <1>1, <1>3, <2>1, OthersStill
<1>4. ASSUME StartMoves, NEW u \in {"finish", "cancel"}
      PROVE  Still(u) /\ UNCHANGED raceVars
  <2>. u \in Task /\ "start" \in Task /\ u # "start"
    BY <1>1
  <2>1. CASE \/ StartBegin \/ StartPrepare \/ StartBuild \/ StartStore \/ StartAttach
             \/ StartAttached \/ StartCheck
    <3>1. UNCHANGED <<then, target, raceVars>> /\ \E p : At("start", p)
      BY <2>1 DEF StartBegin, StartPrepare, StartBuild, StartStore, StartAttach, StartAttached,
          StartCheck, Forget, At
    <3>. QED
      BY <1>1, <3>1, OthersStill
  <2>2. CASE StartOpen \/ StartUndo \/ StartStop
    <3>1. UNCHANGED raceVars
      BY <2>2 DEF StartOpen, StartUndo, StartStop
    <3>2. Still(u)
      BY <2>2, <1>1, OthersStill DEF StartOpen, StartUndo, StartStop
    <3>. QED
      BY <3>1, <3>2
  <2>. QED
    BY <1>3, <1>4, <2>1, <2>2 DEF StartMoves, StartStep
<1>5. ASSUME FinishMoves, NEW u \in {"start", "cancel"}
      PROVE  Still(u)
  <2>. u \in Task /\ "finish" \in Task /\ u # "finish"
    BY <1>1
  <2>1. CASE \/ FinishBegin \/ FinishTake \/ FinishStop \/ FinishTranscribed \/ Backoff
             \/ Register \/ LocalSkipped \/ Again
    <3>1. UNCHANGED <<then, target>> /\ \E p : At("finish", p)
      BY <2>1 DEF FinishBegin, FinishTake, FinishStop, FinishTranscribed, Backoff, Register,
          LocalSkipped, Again, AfterLocal, NextAttempt, Forget, At
    <3>. QED
      BY <1>1, <3>1, OthersStill
  <2>2. CASE CallWait \/ CallAttached \/ CallAsk
    BY <2>2, <1>2 DEF CallWait, CallAttached, CallAsk
  <2>3. CASE FinishStopped \/ CallSettled \/ Replay
    BY <2>3, <1>1, <1>2, OthersStill DEF FinishStopped, CallSettled, Replay
  <2>4. CASE Restarted \/ StandbyFailed
    <3>1. UNCHANGED <<then, target>> /\ (UNCHANGED pc \/ \E p : At("finish", p))
      BY <2>4 DEF Restarted, StandbyFailed, AfterLocal, NextAttempt, At
    <3>. QED
      BY <1>1, <1>2, <3>1, OthersStill DEF taskVars
  <2>5. CASE RetryAnswered \/ StandbyAnswered
    BY <2>5, <1>1, OthersStill DEF RetryAnswered, StandbyAnswered
  <2>. QED
    BY <1>3, <1>5, <2>1, <2>2, <2>3, <2>4, <2>5 DEF FinishMoves, FinishStep
<1>6. ASSUME CancelMoves, NEW u \in {"start", "finish"}
      PROVE  Still(u) /\ UNCHANGED raceVars
  <2>. u \in Task /\ "cancel" \in Task /\ u # "cancel"
    BY <1>1
  <2>1. CASE CancelCalled \/ CancelBegin \/ CancelStop \/ CancelDrop \/ CancelRemove
    <3>1. UNCHANGED <<then, target, raceVars>> /\ \E p : At("cancel", p)
      BY <2>1 DEF CancelCalled, CancelBegin, CancelStop, CancelDrop, CancelRemove, Forget, At
    <3>. QED
      BY <1>1, <3>1, OthersStill
  <2>2. CASE CancelTake
    BY <2>2, <1>1 DEF CancelTake, At, TaskTypeOK, Still
  <2>. QED
    BY <1>3, <1>6, <2>1, <2>2 DEF CancelMoves, CancelStep
<1>7. CallAnswered \/ StandbyStarted
      => (\A t \in Task : Still(t)) /\ UNCHANGED <<verdict, attempt>>
    BY <1>2 DEF CallAnswered, StandbyStarted
<1>8. Outside \/ UNCHANGED vars => (\A t \in Task : Still(t)) /\ UNCHANGED raceVars
    BY <1>2 DEF Outside, vars
<1>. QED
    BY <1>1, <1>4, <1>5, <1>6, <1>7, <1>8 DEF Next, TaskStep, ProviderStep, Speaking, StartMoves,
       FinishMoves, CancelMoves, raceVars

(* Every step keeps RetryControl.                                           *)
LEMMA RetryControlStep ==
    ASSUME TypeOK, RetryControl, [Next]_vars
    PROVE  RetryControl'
<1>1. /\ pc \in [Task -> Pc] /\ then \in [Task -> Pc] /\ "finish" \in Task
      /\ attempt \in 0..Attempts /\ Attempts \in Nat \ {0}
    BY BoundsAssumption DEF TypeOK, Task
<1>. DEFINE Old == RetryControl
            Moved(p) == pc'["finish"] = p /\ then'["finish"] = then["finish"]
<1>2. ASSUME NEW p, At("finish", p), UNCHANGED then
      PROVE  Moved(p)
    BY <1>1, <1>2 DEF At
<1>3. ASSUME NEW next, NEW provider, Release("finish", provider, next)
      PROVE  pc'["finish"] = "letgo" /\ then'["finish"] = next
    BY <1>1, <1>3 DEF Release, At
<1>4. CASE Still("finish") /\ UNCHANGED attempt
    BY <1>4 DEF Still, RetryControl
<1>. USE DEF PcOnly
<1>5. CASE ReleaseStep("finish") \/ EndsInError("finish")
  <2>1. UNCHANGED <<then, attempt>> /\ Attempts' = Attempts
    BY <1>5 DEF ReleaseStep, LetGo, Close, Join, Woken, EndsInError, raceVars
  <2>2. \/ pc["finish"] \in InRelease /\ (pc'["finish"] = then["finish"] \/ pc'["finish"] \in InRelease)
        \/ pc["finish"] = "end" /\ pc'["finish"] = "error"
    BY <1>1, <1>2, <1>5, <2>1 DEF ReleaseStep, LetGo, Close, Join, Woken, EndsInError, Forget,
       InRelease, At
  <2>. QED
    BY <1>1, <2>1, <2>2 DEF RetryControl, InRelease
<1>6. CASE \/ FinishBegin \/ FinishTake \/ FinishStop \/ FinishTranscribed \/ Backoff \/ Register
  <2>1. UNCHANGED <<then, attempt>>
    BY <1>6 DEF FinishBegin, FinishTake, FinishStop, FinishTranscribed, Backoff, Register, raceVars
  <2>2. \/ /\ pc["finish"] \in {"idle", "take", "stop"}
           /\ pc'["finish"] \in {"take", "stop", "stopped", "error"}
        \/ pc["finish"] = "transcribed" /\ pc'["finish"] \in {"ok", "error"}
        \/ pc["finish"] = "backoff" /\ pc'["finish"] \in {"end", "restart"}
        \/ pc["finish"] = "register" /\ pc'["finish"] \in {"end", "feed"}
    BY <1>1, <1>2, <1>6, <2>1 DEF FinishBegin, FinishTake, FinishStop, FinishTranscribed, Backoff,
       Register, Forget
  <2>. QED
    BY <1>1, <2>1, <2>2 DEF RetryControl, InRelease
<1>7. CASE LocalSkipped \/ StandbyFailed
  <2>1. UNCHANGED then
    BY <1>7 DEF LocalSkipped, StandbyFailed
  <2>2. \/ UNCHANGED <<pc, attempt>>
        \/ pc["finish"] = "spare" /\ pc'["finish"] = "transcribed" /\ UNCHANGED attempt
        \/ pc["finish"] = "local" /\ pc'["finish"] = "backoff" /\ attempt' = 1
        \/ pc["finish"] = "local" /\ pc'["finish"] = "end" /\ UNCHANGED attempt
    BY <1>1, <1>2, <1>7, <2>1 DEF LocalSkipped, StandbyFailed, AfterLocal
  <2>. QED
    BY <1>1, <2>1, <2>2 DEF RetryControl, InRelease
<1>8. CASE Again \/ Restarted
  <2>1. UNCHANGED then
    BY <1>8 DEF Again, Restarted
  <2>2. \/ /\ pc["finish"] \in {"again", "restart"} /\ attempt < Attempts
           /\ pc'["finish"] = "backoff" /\ attempt' = attempt + 1
        \/ pc["finish"] = "restart" /\ pc'["finish"] \in {"register", "end"} /\ UNCHANGED attempt
    BY <1>1, <1>2, <1>8, <2>1 DEF Again, Restarted, NextAttempt, RetryControl
  <2>. QED
    BY <1>1, <2>1, <2>2 DEF RetryControl, InRelease
<1>9. CASE FinishStopped \/ CallSettled
  <2>1. UNCHANGED attempt
    BY <1>9 DEF FinishStopped, CallSettled
  <2>2. pc["finish"] \in {"stopped", "race"}
    BY <1>9 DEF FinishStopped, CallSettled
  <2>3. \/ pc'["finish"] \in {"error", "race", "transcribed", "spare"}
        \/ pc'["finish"] = "letgo" /\ then'["finish"] \in {"end", "local"}
    BY <1>2, <1>3, <1>9 DEF FinishStopped, CallSettled
  <2>. QED
    BY <1>1, <2>1, <2>2, <2>3 DEF RetryControl, InRelease
<1>10. CASE Replay \/ RetryAnswered
  <2>1. UNCHANGED attempt /\ pc["finish"] \in {"feed", "answer"}
    BY <1>10 DEF Replay, RetryAnswered, raceVars
  <2>2. \/ pc'["finish"] \in {"answer", "transcribed"}
        \/ pc'["finish"] = "letgo" /\ then'["finish"] = "end"
        \/ pc'["finish"] = "letgo" /\ then'["finish"] = "again" /\ attempt < Attempts
    BY <1>2, <1>3, <1>10 DEF Replay, RetryAnswered
  <2>. QED
    BY <1>1, <2>1, <2>2 DEF RetryControl, InRelease
<1>11. CASE StandbyAnswered
  <2>1. UNCHANGED attempt /\ pc["finish"] \in {"race", "spare", "local"}
    BY <1>11 DEF StandbyAnswered, Polled
  <2>2. \/ pc'["finish"] = "transcribed"
        \/ pc'["finish"] = "letgo" /\ then'["finish"] = "transcribed"
    BY <1>2, <1>3, <1>11 DEF StandbyAnswered
  <2>. QED
    BY <1>1, <2>1, <2>2 DEF RetryControl, InRelease
<1>12. CASE CallWait \/ CallAttached \/ CallAsk
    BY <1>12 DEF CallWait, CallAttached, CallAsk, RetryControl, taskVars
<1>. QED
    BY TaskFrame, <1>4, <1>5, <1>6, <1>7, <1>8, <1>9, <1>10, <1>11, <1>12
       DEF FinishMoves, FinishStep

(* The attempts are neither the buffered recognizer nor the local one.      *)
LEMMA RetryDistinct == \A p \in Retry : p # Cloud /\ p # Local
    BY BoundsAssumption DEF Retry, Cloud, Local

(* No attempt becomes fresh again.                                          *)
LEMMA FreshStep ==
    ASSUME TypeOK, RetryControl, [Next]_vars, NEW p \in Retry, Fresh(p)'
    PROVE  (Fresh(p) /\ ~Replay) \/ p > attempt
<1>1. /\ pc \in [Task -> Pc] /\ "finish" \in Task
      /\ attempt \in 0..Attempts /\ Attempts \in Nat \ {0} /\ p \in 1..Attempts
    BY BoundsAssumption DEF TypeOK, Task, Retry
<1>2. ASSUME NEW q, At("finish", q)
      PROVE  pc'["finish"] = q
    BY <1>1, <1>2 DEF At
<1>3. CASE ~Replay /\ Still("finish") /\ UNCHANGED attempt
    BY <1>3, Fresh(p)' DEF Still, Fresh
<1>. USE DEF PcOnly
<1>4. CASE ReleaseStep("finish") \/ EndsInError("finish")
  <2>1. UNCHANGED attempt
    BY <1>4 DEF ReleaseStep, LetGo, Close, Join, Woken, EndsInError, raceVars
  <2>2. pc'["finish"] \notin {"backoff", "restart", "register", "feed"}
    BY <1>2, <1>4 DEF ReleaseStep, LetGo, Close, Join, Woken, EndsInError, Forget, RetryControl,
       InRelease
  <2>. QED
    BY <2>1, <2>2, Fresh(p)' DEF Fresh
<1>5. CASE \/ FinishBegin \/ FinishTake \/ FinishStop \/ FinishTranscribed \/ FinishStopped
           \/ CallSettled \/ Replay \/ RetryAnswered \/ StandbyAnswered
  <2>1. UNCHANGED attempt
    BY <1>5 DEF FinishBegin, FinishTake, FinishStop, FinishTranscribed, FinishStopped,
       CallSettled, Replay, RetryAnswered, StandbyAnswered, raceVars
  <2>2. pc'["finish"] \notin {"backoff", "restart", "register", "feed"}
    BY <1>2, <1>5 DEF FinishBegin, FinishTake, FinishStop, FinishTranscribed, FinishStopped,
       CallSettled, Replay, RetryAnswered, StandbyAnswered, Forget, Release, Polled
  <2>. QED
    BY <2>1, <2>2, Fresh(p)' DEF Fresh
<1>6. CASE Backoff \/ Register \/ CallWait \/ CallAttached \/ CallAsk
  <2>1. UNCHANGED attempt
    BY <1>6 DEF Backoff, Register, CallWait, CallAttached, CallAsk, raceVars
  <2>2. \/ pc["finish"] \in {"backoff", "register"}
        \/ pc["finish"] = "race" /\ UNCHANGED pc
    BY <1>6 DEF Backoff, Register, CallWait, CallAttached, CallAsk, taskVars
  <2>3. ~Replay
    BY <2>2 DEF Replay
  <2>. QED
    BY <2>1, <2>2, <2>3, Fresh(p)' DEF Fresh
<1>7. CASE LocalSkipped \/ StandbyFailed
  <2>1. \/ attempt = 0
        \/ UNCHANGED attempt /\ (UNCHANGED pc \/ pc'["finish"] = "transcribed")
    BY <1>2, <1>7 DEF LocalSkipped, StandbyFailed, AfterLocal, RetryControl, InRelease
  <2>2. ~Replay
    BY <1>7 DEF Replay, LocalSkipped, StandbyFailed, Polled
  <2>. QED
    BY <1>1, <2>1, <2>2, Fresh(p)' DEF Fresh
<1>8. CASE Again \/ Restarted
  <2>1. \/ attempt' = attempt + 1
        \/ UNCHANGED attempt /\ pc["finish"] = "restart"
    BY <1>8 DEF Again, Restarted, NextAttempt
  <2>2. ~Replay
    BY <1>8 DEF Replay, Again, Restarted
  <2>. QED
    BY <1>1, <2>1, <2>2, Fresh(p)' DEF Fresh
<1>. QED
    BY TaskFrame, <1>3, <1>4, <1>5, <1>6, <1>7, <1>8 DEF FinishMoves, FinishStep

(* Every step keeps RetryInv: what is fed is not fresh afterwards.          *)
LEMMA RetryStep ==
    ASSUME TypeOK, RetryInv, [Next]_vars
    PROVE  RetryInv'
<1>1. RetryControl'
    BY RetryControlStep DEF RetryInv
<1>2. ASSUME NEW p \in Retry, Fresh(p)'
      PROVE  fed'[p] = <<>> /\ p \notin asked'
  <2>1. (Fresh(p) /\ ~Replay) \/ p > attempt
    BY <1>2, FreshStep DEF RetryInv
  <2>2. fed[p] = <<>> /\ p \notin asked
    BY <2>1 DEF RetryInv, Fresh
  <2>3. p # Cloud /\ p # Local
    BY RetryDistinct
  <2>4. ASSUME NEW q, NEW s, Feed(q, s), q # p
        PROVE  fed'[p] = fed[p]
    BY <2>4 DEF Feed, TypeOK, BufferTypeOK, Provider
  <2>5. CASE UNCHANGED <<fed, asked>>
    BY <2>2, <2>5
  <2>6. CASE CallAsk
    BY <2>2, <2>3, <2>6 DEF CallAsk
  <2>7. CASE Replay
    <3>1. p # attempt
      BY <2>1, <2>7 DEF TypeOK, Retry
    <3>2. CASE Flagged("cancelled")
      BY <2>2, <2>7, <3>2 DEF Replay
    <3>3. CASE ~Flagged("cancelled")
      BY <2>2, <2>4, <2>7, <3>1, <3>3 DEF Replay
    <3>. QED
      BY <3>2, <3>3
  <2>8. CASE StandbyStarted
    BY <2>2, <2>3, <2>4, <2>8 DEF StandbyStarted
  <2>9. CASE FeedDirect \/ AttachFeed
    BY <2>2, <2>3, <2>4, <2>9 DEF FeedDirect, AttachFeed
  <2>. QED
    BY AudioFrame, <2>5, <2>6, <2>7, <2>8, <2>9
<1>. QED
    BY <1>1, <1>2 DEF RetryInv

(* Where a start begins and ends.                                           *)
LEMMA AttachTasksStep ==
    ASSUME TypeOK, AttachInv, [Next]_vars
    PROVE  AttachTasks'
<1>1. /\ pc \in [Task -> Pc] /\ then \in [Task -> Pc] /\ "start" \in Task /\ "finish" \in Task
    BY DEF TypeOK, Task
<1>2. ASSUME NEW p, At("start", p)
      PROVE  pc'["start"] = p
    BY <1>1, <1>2 DEF At
<1>3. ASSUME NEW next, NEW provider, Release("start", provider, next)
      PROVE  pc'["start"] = "letgo" /\ then'["start"] = next
    BY <1>1, <1>3 DEF Release, At
<1>. USE DEF PcOnly
<1>4. ASSUME StartMoves
      PROVE  /\ pc["start"] \notin {"ok", "error"}
             /\ pc'["start"] \in Early => pc["start"] \in Early
             /\ pc'["start"] \in InRelease => then'["start"] = "end"
  <2>1. CASE \/ StartBegin \/ StartPrepare \/ StartBuild \/ StartStore \/ StartAttach
             \/ StartAttached \/ StartCheck \/ EndsInError("start")
    <3>1. pc["start"] \in Early \cup {"attached", "check", "end"}
      BY <2>1 DEF StartBegin, StartPrepare, StartBuild, StartStore, StartAttach, StartAttached,
         StartCheck, EndsInError, Early
    <3>2. pc["start"] \in Early \/ pc'["start"] \notin Early
      BY <1>2, <2>1 DEF StartBegin, StartPrepare, StartBuild, StartStore, StartAttach,
         StartAttached, StartCheck, EndsInError, Forget, Early
    <3>3. pc'["start"] \notin InRelease
      BY <1>2, <2>1 DEF StartBegin, StartPrepare, StartBuild, StartStore, StartAttach,
         StartAttached, StartCheck, EndsInError, Forget, InRelease
    <3>. QED
      BY <3>1, <3>2, <3>3 DEF Early
  <2>2. CASE StartOpen \/ StartUndo \/ StartStop
    BY <1>2, <1>3, <2>2 DEF StartOpen, StartUndo, StartStop, Early, InRelease
  <2>3. CASE ReleaseStep("start")
    <3>1. UNCHANGED then /\ pc["start"] \in InRelease
      BY <2>3 DEF ReleaseStep, LetGo, Close, Join, Woken, InRelease
    <3>2. pc'["start"] \in InRelease \/ pc'["start"] = then["start"]
      BY <1>2, <2>3 DEF ReleaseStep, LetGo, Close, Join, Woken, InRelease
    <3>. QED
      BY <3>1, <3>2 DEF AttachInv, AttachTasks, Early, InRelease
  <2>. QED
    BY <1>4, <2>1, <2>2, <2>3 DEF StartMoves, StartStep
<1>5. FinishMoves => pc["finish"] # "idle" \/ pc["start"] = "ok"
    BY DEF FinishMoves, FinishStep, FinishBegin, FinishTake, FinishStop, FinishStopped, CallWait,
       CallAttached, CallAsk, CallSettled, LocalSkipped, FinishTranscribed, Backoff, Register,
       Replay, Again, ReleaseStep, LetGo, Close, Join, Woken, EndsInError, Restarted,
       RetryAnswered, StandbyAnswered, StandbyFailed, Polled
<1>6. pc'["finish"] # "idle" => pc'["start"] = "ok"
    BY TaskFrame, <1>4, <1>5 DEF Still, AttachInv, AttachTasks
<1>7. pc'["start"] \in Early => pc["start"] \in Early
    BY TaskFrame, <1>4 DEF Still
<1>8. pc'["start"] \in InRelease => then'["start"] = "end"
    BY TaskFrame, <1>4 DEF Still, AttachInv, AttachTasks
<1>9. ASSUME pc'["start"] \in Early
      PROVE  attach'.pc = "none"
  <2>1. pc["start"] \in Early /\ attach.pc = "none" /\ pc["finish"] = "idle"
    BY <1>7, <1>9 DEF AttachInv, AttachTasks, Early
  <2>2. CASE UNCHANGED attach
    BY <2>1, <2>2
  <2>3. CASE StartAttach
    BY <1>2, <1>9, <2>3 DEF StartAttach, Early
  <2>4. CASE FinishStopped \/ StandbyAnswered
    BY <2>1, <2>4 DEF FinishStopped, StandbyAnswered, Polled
  <2>5. CASE AttachStep \/ AttachStarted
    BY <2>1, <2>5 DEF AttachStep, AttachCheck, AttachLook, AttachFeed, AttachStarted
  <2>6. Speaking \/ StartBuild \/ CancelDrop \/ (\E t \in Task : Close(t)) => UNCHANGED attach
    BY Zenon DEF Speaking, Speak, StartBuild, CancelDrop, Close
  <2>. QED
    BY BufferFrame, <2>2, <2>3, <2>4, <2>5, <2>6 DEF bufferVars
<1>. QED
    BY <1>6, <1>8, <1>9 DEF AttachTasks

(* Every step keeps AttachBuffer; an attachment that is over stays so, a    *)
(* buffer that is cancelled too.                                            *)
LEMMA AttachBufferStep ==
    ASSUME TypeOK, AttachInv, [Next]_vars
    PROVE  /\ AttachBuffer' /\ (attach.pc \in {"ok", "error"} => attach'.pc = attach.pc)
           /\ Cancelled => Cancelled'
           /\ attach.pc \in {"look", "feed"} => attach'.pc \in {"look", "feed", "ok", "error"}
<1>. DEFINE Goal == /\ AttachBuffer' /\ (attach.pc \in {"ok", "error"} => attach'.pc = attach.pc)
                    /\ Cancelled => Cancelled'
                    /\ attach.pc \in {"look", "feed"} =>
                           attach'.pc \in {"look", "feed", "ok", "error"}
<1>1. /\ buffer \in BufferType /\ attach \in AttachType
      /\ buffer.state \in {"buffering", "attaching", "direct", "failed", "cancelled"}
      /\ attach.pc \in AttachPc
    BY DEF TypeOK, BufferTypeOK, BufferType, AttachType
<1>2. AttachBuffer /\ AttachTasks
    BY DEF AttachInv
<1>3. ASSUME attach'.pc = attach.pc,
             buffer'.state = buffer.state \/ buffer'.state = "cancelled"
      PROVE  Goal
    BY <1>1, <1>2, <1>3 DEF AttachBuffer, AttachPc, Cancelled
<1>4. UNCHANGED bufferVars => Goal
    BY <1>3 DEF bufferVars
<1>5. CASE Speaking
  <2>1. UNCHANGED attach
        /\ (buffer' = buffer \/ \E s : buffer' = [buffer EXCEPT !.pcm = s])
    BY <1>5, Zenon DEF Speaking, Speak
  <2>2. buffer'.state = buffer.state
    BY <1>1, <2>1 DEF BufferType
  <2>. QED
    BY <1>3, <2>1, <2>2
<1>6. CASE StartBuild \/ CancelDrop \/ \E t \in Task : Close(t)
  <2>1. UNCHANGED attach
    BY <1>6 DEF StartBuild, CancelDrop, Close
  <2>2. UNCHANGED buffer \/ buffer'.state = "cancelled"
    BY <1>6 DEF StartBuild, CancelDrop, Close, TakeCancelState
  <2>. QED
    BY <1>3, <2>1, <2>2
<1>7. ASSUME NEW owner, BeginAttach(owner), attach.pc = "none", ~Cancelled
      PROVE  Goal
    BY <1>1, <1>2, <1>7 DEF BeginAttach, AttachBuffer, Cancelled
<1>8. CASE StartAttach
  <2>1. attach.pc = "none"
    BY <1>2, <1>8 DEF StartAttach, AttachTasks, Early
  <2>. QED
    BY <1>4, <1>7, <1>8, <2>1 DEF StartAttach
<1>9. CASE FinishStopped
  <2>1. UNCHANGED bufferVars \/ (buffer.state = "buffering" /\ BeginAttach("finish"))
    BY <1>9 DEF FinishStopped, Transcribe
  <2>2. buffer.state = "buffering" => attach.pc = "none" /\ ~Cancelled
    BY <1>1, <1>2 DEF AttachBuffer, AttachPc, Cancelled
  <2>. QED
    BY <1>4, <1>7, <2>1, <2>2
<1>10. ASSUME NEW x \in AttachPc, NEW s, \/ attach' = [attach EXCEPT !.pc = x]
                                         \/ attach' = [attach EXCEPT !.pc = x, !.pcm = s]
       PROVE  attach'.pc = x
    BY <1>1, <1>10 DEF AttachType
<1>11. CASE StandbyAnswered
  <2>1. UNCHANGED buffer
        /\ (UNCHANGED attach \/ (attach.pc = "start" /\ attach' = [attach EXCEPT !.pc = "error"]))
    BY <1>11 DEF StandbyAnswered, DropAttach, AttachEnds
  <2>2. attach'.pc = attach.pc \/ (attach.pc = "start" /\ attach'.pc = "error")
    BY <1>10, <2>1 DEF AttachPc
  <2>. QED
    BY <1>1, <1>2, <2>1, <2>2 DEF AttachBuffer, Cancelled
<1>12. CASE AttachCheck
  <2>1. UNCHANGED buffer /\ attach.pc = "check"
    BY <1>12 DEF AttachCheck
  <2>2. (Cancelled /\ attach'.pc = "error") \/ attach'.pc = "start"
    BY <1>10, <1>12 DEF AttachCheck, AttachEnds, AttachPc
  <2>. QED
    BY <1>1, <1>2, <2>1, <2>2 DEF AttachBuffer, Cancelled
<1>13. CASE AttachStarted
  <2>1. \/ UNCHANGED buffer /\ attach'.pc = "look"
        \/ attach'.pc = "error" /\ buffer' = IF Cancelled THEN buffer
                                             ELSE [state |-> "failed", pcm |-> <<>>]
    BY <1>10, <1>13 DEF AttachStarted, AttachEnds, AttachPc
  <2>2. attach.pc = "start"
    BY <1>13 DEF AttachStarted
  <2>. QED
    BY <1>1, <1>2, <2>1, <2>2 DEF AttachBuffer, Cancelled
<1>14. CASE AttachLook
  <2>1. attach.pc = "look"
    BY <1>14 DEF AttachLook
  <2>2. \/ Cancelled /\ UNCHANGED buffer /\ attach'.pc = "error"
        \/ ~Cancelled /\ UNCHANGED buffer /\ attach'.pc = "feed"
        \/ ~Cancelled /\ buffer' = [buffer EXCEPT !.pcm = <<>>] /\ attach'.pc = "feed"
        \/ ~Cancelled /\ buffer' = [buffer EXCEPT !.state = "direct"] /\ attach'.pc = "ok"
    BY <1>10, <1>14 DEF AttachLook, AttachEnds, AttachPc
  <2>3. \/ Cancelled /\ UNCHANGED buffer /\ attach'.pc = "error"
        \/ ~Cancelled /\ buffer'.state = buffer.state /\ attach'.pc = "feed"
        \/ ~Cancelled /\ buffer'.state = "direct" /\ attach'.pc = "ok"
    BY <1>1, <2>2 DEF BufferType
  <2>. QED
    BY <1>1, <1>2, <2>1, <2>3 DEF AttachBuffer, Cancelled
<1>15. CASE AttachFeed
  <2>1. UNCHANGED buffer /\ attach.pc = "feed"
    BY <1>15 DEF AttachFeed
  <2>2. attach'.pc = "look"
    BY <1>10, <1>15 DEF AttachFeed, AttachPc
  <2>. QED
    BY <1>1, <1>2, <2>1, <2>2 DEF AttachBuffer, Cancelled
<1>. QED
    BY BufferFrame, <1>4, <1>5, <1>6, <1>8, <1>9, <1>11, <1>12, <1>13, <1>14, <1>15 DEF AttachStep

(* Every step keeps AttachInv.                                              *)
LEMMA AttachInvStep ==
    ASSUME TypeOK, AttachInv, [Next]_vars
    PROVE  AttachInv'
<1>1. attach.pc = "ok" => attach'.pc = "ok"
    BY AttachBufferStep
<1>2. buffer.state = "direct" => attach.pc = "ok"
    BY DEF AttachInv, AttachBuffer, TypeOK, BufferTypeOK, AttachPc
<1>3. audio'.feeding # 0 => attach.pc = "ok"
  <2>1. CASE UNCHANGED audio
    BY <2>1 DEF AttachInv, AttachUse
  <2>2. CASE Speaking
    BY <1>2, <2>2 DEF Speaking, Speak
  <2>3. CASE FeedDirect
    BY <2>3 DEF FeedDirect, AttachInv, AttachUse
  <2>. QED
    BY AudioFrame, <2>1, <2>2, <2>3
<1>4. call' \in {"ask", "answer"} => attach.pc = "ok"
  <2>1. CASE UNCHANGED call
    BY <2>1 DEF AttachInv, AttachUse
  <2>2. CASE FinishStopped
    <3>1. call' \in {"ask", "answer"} => UNCHANGED call \/ buffer.state = "direct"
      BY <2>2 DEF FinishStopped, Transcribe
    <3>. QED
      BY <1>2, <2>1, <3>1
  <2>3. CASE CallAttached \/ CallAsk
    BY <1>2, <2>3 DEF CallAttached, CallAsk, AttachInv, AttachUse
  <2>4. CASE CallWait \/ CallAnswered \/ StandbyAnswered
    BY <2>1, <2>4 DEF CallWait, CallAnswered, StandbyAnswered, Result
  <2>5. \/ FinishBegin \/ FinishTake \/ FinishStop \/ CallSettled \/ LocalSkipped
        \/ FinishTranscribed \/ Backoff \/ Register \/ Replay \/ Again \/ ReleaseStep("finish")
        \/ EndsInError("finish") \/ Restarted \/ RetryAnswered \/ StandbyFailed \/ StandbyStarted
        => UNCHANGED call
    BY DEF FinishBegin, FinishTake, FinishStop, CallSettled, LocalSkipped, FinishTranscribed,
       Backoff, Register, Replay, Again, ReleaseStep, LetGo, Close, Join, Woken, EndsInError,
       Restarted, RetryAnswered, StandbyFailed, StandbyStarted, PcOnly, raceVars
  <2>. QED
    BY TaskFrame, <2>1, <2>2, <2>3, <2>4, <2>5 DEF FinishMoves, FinishStep
<1>. QED
    BY <1>1, <1>3, <1>4, AttachTasksStep, AttachBufferStep DEF AttachInv, AttachUse

(* What a session stores, and when it does not.                             *)
LEMMA SessionFrame ==
    ASSUME TypeOK, [Next]_vars
    PROVE  /\ \/ UNCHANGED transcription
              \/ StartBuild /\ ~Flagged("cancelled") /\ transcription' = Cloud
              \/ Register /\ ~Flagged("cancelled") /\ transcription' = attempt
           /\ \/ UNCHANGED registered
              \/ registered' = TRUE
              \/ pc'["start"] = "error" \/ pc'["finish"] \in {"ok", "error"} \/ CancelRemove
           /\ CancelBegin \/ Flagged("cancelled")' = Flagged("cancelled")
<1>1. pc \in [Task -> Pc] /\ Task = {"start", "finish", "cancel"}
    BY DEF TypeOK, Task
<1>2. ASSUME NEW t \in Task, NEW p, At(t, p)
      PROVE  pc'[t] = p
    BY <1>1, <1>2 DEF At
<1>. DEFINE Same == Flagged("cancelled")' = Flagged("cancelled")
            Kept == UNCHANGED <<registered, transcription>>
<1>3. /\ UNCHANGED flags => Same
      /\ Raise("finished") => Same
      /\ Raise("once") => Same
    BY DEF Flagged, Raise
<1>. HIDE DEF Same
<1>. USE DEF PcOnly, sessionVars
<1>4. ASSUME NEW t \in Task, ReleaseStep(t)
      PROVE  Same /\ Kept
    BY <1>3, <1>4 DEF ReleaseStep, LetGo, Close, Join, Woken
<1>5. ASSUME NEW t \in {"start", "finish"}, EndsInError(t)
      PROVE  Same /\ UNCHANGED transcription
             /\ (pc'["start"] = "error" \/ pc'["finish"] \in {"ok", "error"})
    BY <1>1, <1>2, <1>3, <1>5 DEF EndsInError, Forget
<1>6. ASSUME StartBegin \/ StartOpen \/ StartPrepare \/ StartStep
      PROVE  /\ Same
             /\ \/ UNCHANGED transcription
                \/ StartBuild /\ ~Flagged("cancelled") /\ transcription' = Cloud
             /\ UNCHANGED registered \/ registered' = TRUE \/ pc'["start"] = "error"
  <2>1. CASE \/ StartOpen \/ StartPrepare \/ StartStore \/ StartAttach \/ StartAttached
             \/ StartCheck \/ StartUndo \/ StartStop
    BY <1>3, <2>1 DEF StartOpen, StartPrepare, StartStore, StartAttach, StartAttached,
       StartCheck, StartUndo, StartStop
  <2>2. CASE StartBegin
    BY <1>3, <2>2 DEF StartBegin
  <2>3. CASE StartBuild
    BY <1>1, <1>2, <1>3, <2>3 DEF StartBuild, Forget
  <2>. QED
    BY <1>1, <1>4, <1>6, <2>1, <2>2, <2>3 DEF StartStep
<1>7. ASSUME FinishBegin \/ FinishStep \/ Restarted \/ RetryAnswered \/ StandbyAnswered \/ StandbyFailed
      PROVE  /\ Same
             /\ \/ UNCHANGED transcription
                \/ Register /\ ~Flagged("cancelled") /\ transcription' = attempt
             /\ UNCHANGED registered \/ pc'["finish"] \in {"ok", "error"}
  <2>1. CASE \/ FinishTake \/ FinishStop \/ FinishStopped \/ CallWait \/ CallAttached \/ CallAsk
             \/ LocalSkipped \/ Backoff \/ Replay \/ Again \/ Restarted \/ StandbyAnswered
             \/ StandbyFailed \/ CallSettled \/ RetryAnswered
    BY <1>3, <2>1 DEF FinishTake, FinishStop, FinishStopped, CallWait, CallAttached, CallAsk,
       LocalSkipped, Backoff, Replay, Again, Restarted, StandbyAnswered, StandbyFailed,
       CallSettled, RetryAnswered
  <2>2. CASE FinishBegin \/ FinishTranscribed
    BY <1>1, <1>2, <1>3, <2>2 DEF FinishBegin, FinishTranscribed, Forget
  <2>3. CASE Register
    <3>1. Same
      BY <1>3, <2>3 DEF Register, Flagged, Same
    <3>. QED
      BY <2>3, <3>1 DEF Register
  <2>. QED
    BY <1>1, <1>4, <1>7, <2>1, <2>2, <2>3 DEF FinishStep
<1>8. ASSUME CancelMoves, ~CancelBegin
      PROVE  Same /\ UNCHANGED transcription /\ (UNCHANGED registered \/ CancelRemove)
    BY <1>1, <1>3, <1>4, <1>8 DEF CancelMoves, CancelStep, CancelCalled, CancelTake, CancelStop,
       CancelDrop, CancelRemove
<1>9. CancelBegin => Kept
    BY DEF CancelBegin
<1>10. CallAnswered \/ StandbyStarted \/ Outside \/ UNCHANGED vars => Same /\ Kept
    BY <1>3 DEF CallAnswered, StandbyStarted, Outside, vars
<1>. QED
    BY <1>1, <1>5, <1>6, <1>7, <1>8, <1>9, <1>10 DEF Next, TaskStep, ProviderStep, Speaking,
       CancelMoves, Same

(* Nothing forgets a cancellation.                                          *)
LEMMA CancelKept ==
    ASSUME TypeOK, [Next]_vars
    PROVE  Flagged("cancelled") => Flagged("cancelled")'
<1>1. CancelBegin => (Flagged("cancelled") => Flagged("cancelled")')
    BY DEF CancelBegin, Flagged, Raise
<1>. QED
    BY <1>1, SessionFrame

(* A cancelled attempt is never taken up again.                             *)
LEMMA LateRests ==
    ASSUME TypeOK, [Next]_vars, Flagged("cancelled"),
           pc["finish"] \in {"register", "end", "error"}
    PROVE  UNCHANGED attempt /\ pc'["finish"] \in {"register", "end", "error"}
<1>1. pc \in [Task -> Pc] /\ "finish" \in Task
    BY DEF TypeOK, Task
<1>2. CASE Register \/ EndsInError("finish")
  <2>1. UNCHANGED attempt
    BY <1>2 DEF Register, EndsInError, raceVars
  <2>2. At("finish", "end") \/ At("finish", "error")
    BY <1>2 DEF Register, EndsInError, Forget
  <2>. QED
    BY <1>1, <2>1, <2>2 DEF At
<1>3. ~FinishMoves \/ Register \/ EndsInError("finish")
    BY DEF FinishMoves, FinishStep, FinishBegin, FinishTake, FinishStop, FinishStopped, CallWait,
       CallAttached, CallAsk, CallSettled, LocalSkipped, FinishTranscribed, Backoff, Replay,
       Again, ReleaseStep, LetGo, Close, Join, Woken, Restarted, RetryAnswered,
       StandbyAnswered, StandbyFailed, Polled
<1>. QED
    BY <1>2, <1>3, TaskFrame DEF Still

(* Once it is cancelled, finish does not end well any more.                 *)
LEMMA CancelledIsNotOk ==
    ASSUME TypeOK, RetryInv, [Next]_vars, Flagged("cancelled"), pc["finish"] # "ok"
    PROVE  pc'["finish"] # "ok"
<1>1. pc \in [Task -> Pc] /\ "finish" \in Task
    BY DEF TypeOK, Task
<1>2. ASSUME NEW p, At("finish", p), p # "ok"
      PROVE  pc'["finish"] # "ok"
    BY <1>1, <1>2 DEF At
<1>3. CASE ReleaseStep("finish")
  <2>1. pc["finish"] \in InRelease => then["finish"] # "ok"
    BY DEF RetryInv, RetryControl
  <2>2. pc["finish"] \in InRelease /\ \E p \in {"close", "join", "asleep", then["finish"]} : At("finish", p)
    BY <1>3 DEF ReleaseStep, LetGo, Close, Join, Woken, InRelease
  <2>. QED
    BY <1>2, <2>1, <2>2
<1>4. CASE FinishBegin \/ FinishTake \/ FinishStop \/ FinishStopped \/ LocalSkipped \/ FinishTranscribed
    BY <1>2, <1>4 DEF FinishBegin, FinishTake, FinishStop, FinishStopped, LocalSkipped,
       AfterLocal, FinishTranscribed, Forget, Release
<1>5. CASE CallWait \/ CallAttached \/ CallAsk
    BY <1>5 DEF CallWait, CallAttached, CallAsk, taskVars
<1>6. CASE CallSettled \/ StandbyAnswered \/ StandbyFailed
  <2>1. UNCHANGED pc \/ \E p \in {"transcribed", "spare", "letgo", "backoff", "end"} : At("finish", p)
    BY <1>6 DEF CallSettled, StandbyAnswered, StandbyFailed, AfterLocal, Release
  <2>. QED
    BY <1>2, <2>1
<1>7. CASE Backoff \/ Replay \/ Again \/ Register \/ EndsInError("finish") \/ Restarted \/ RetryAnswered
    BY <1>2, <1>7 DEF Backoff, Replay, Again, Register, EndsInError, Restarted, RetryAnswered,
       NextAttempt, Forget, Release
<1>8. CASE ~FinishMoves
    BY <1>8, TaskFrame DEF Still
<1>. QED
    BY <1>3, <1>4, <1>5, <1>6, <1>7, <1>8 DEF FinishMoves, FinishStep

(* Every step keeps LateInv.                                                *)
LEMMA LateStep ==
    ASSUME TypeOK, AttachInv, RetryInv, LateInv, [Next]_vars
    PROVE  LateInv'
<1>1. /\ pc \in [Task -> Pc] /\ "finish" \in Task /\ attempt \in 0..Attempts
      /\ fed \in [Provider -> Seq(Chunks)] /\ late \in SUBSET Provider
      /\ Cloud \in Provider /\ Retry \subseteq Provider
    BY DEF TypeOK, BufferTypeOK, Task, Provider
<1>2. Cloud # Local /\ Local \notin Retry /\ Cloud \notin Retry
    BY BoundsAssumption, RetryDistinct DEF Cloud, Local
<1>3. ASSUME NEW q \in Provider, NEW s, Feed(q, s)
      PROVE  /\ \A p \in Provider \ {q} : fed'[p] = fed[p]
    BY <1>1, <1>3 DEF Feed
<1>4. ASSUME NEW p, At("finish", p)
      PROVE  pc'["finish"] = p
    BY <1>1, <1>4 DEF At
<1>5. attempt \in Retry \/ attempt = 0
    BY <1>1, BoundsAssumption DEF Retry
<1>6. pc["finish"] \in {"restart", "feed"} => attempt \in Retry
    BY <1>5 DEF RetryInv, RetryControl
<1>7. \/ UNCHANGED late
      \/ late' = late \cup {Cloud} /\ AttachStarted /\ Cancelled
      \/ late' = late \cup {attempt} /\ Restarted
      \/ late' = late \cup {Local} /\ StandbyStarted /\ Flagged("cancelled")
  <2>1. AttachStarted => UNCHANGED late \/ (late' = late \cup {Cloud} /\ Cancelled)
    BY DEF AttachStarted, Started
  <2>2. Restarted => UNCHANGED late \/ late' = late \cup {attempt}
    BY DEF Restarted, Started
  <2>3. StandbyStarted => UNCHANGED late \/ (late' = late \cup {Local} /\ Flagged("cancelled"))
    BY DEF StandbyStarted, Started
  <2>. QED
    BY <2>1, <2>2, <2>3, AudioFrame
<1>8. Local \in late' => Flagged("cancelled")' /\ pc'["finish"] # "ok"
  <2>1. Local \in late' => Flagged("cancelled") /\ pc["finish"] # "ok"
    <3>1. StandbyStarted => pc["finish"] # "ok"
      BY DEF StandbyStarted, Polled
    <3>. QED
      BY <1>2, <1>6, <1>7, <3>1 DEF LateInv, Restarted
  <2>. QED
    BY <2>1, CancelKept, CancelledIsNotOk
<1>9. attach'.pc \in {"none", "check", "start"} => attach.pc \in {"none", "check", "start"}
    BY AttachBufferStep DEF TypeOK, BufferTypeOK, AttachPc
<1>10. attach.pc \in {"look", "error"} /\ Cancelled => attach'.pc \in {"look", "error"}
  <2>1. CASE UNCHANGED attach
    BY <2>1
  <2>2. CASE StartAttach \/ FinishStopped
    BY <2>1, <2>2 DEF StartAttach, FinishStopped, Transcribe, Cancelled, bufferVars
  <2>3. CASE StandbyAnswered
    BY <2>1, <2>3 DEF StandbyAnswered, DropAttach
  <2>4. CASE AttachCheck \/ AttachStarted \/ AttachFeed
    BY <2>4 DEF AttachCheck, AttachStarted, AttachFeed
  <2>5. CASE AttachLook
    <3>1. Cancelled => attach' = [attach EXCEPT !.pc = "error"]
      BY <2>5 DEF AttachLook, AttachEnds
    <3>2. attach \in AttachType
      BY DEF TypeOK, BufferTypeOK, AttachType
    <3>. QED
      BY <3>1, <3>2 DEF AttachType
  <2>6. Speaking \/ StartBuild \/ CancelDrop \/ (\E t \in Task : Close(t)) => UNCHANGED attach
    BY Zenon DEF Speaking, Speak, StartBuild, CancelDrop, Close
  <2>. QED
    BY BufferFrame, <2>1, <2>2, <2>3, <2>4, <2>5, <2>6 DEF bufferVars, AttachStep
<1>11. attach.pc \in {"none", "check", "start"} \/ (attach.pc \in {"look", "error"} /\ Cloud \in late)
       => fed'[Cloud] = fed[Cloud]
  <2>1. CASE UNCHANGED fed
    BY <2>1
  <2>2. CASE CallAsk
    BY <2>2 DEF CallAsk
  <2>3. CASE Replay
    <3>1. UNCHANGED fed \/ Feed(attempt, Recording)
      BY <2>3 DEF Replay
    <3>2. attempt \in Retry
      BY <1>6, <2>3 DEF Replay
    <3>. QED
      BY <1>1, <1>2, <1>3, <3>1, <3>2
  <2>4. CASE StandbyStarted
    BY <1>1, <1>2, <1>3, <2>4 DEF StandbyStarted, Provider
  <2>5. CASE FeedDirect \/ AttachFeed
    BY <2>5 DEF FeedDirect, AttachFeed, AttachInv, AttachUse
  <2>. QED
    BY AudioFrame, <2>1, <2>2, <2>3, <2>4, <2>5
<1>12. ASSUME Cloud \in late'
       PROVE  Cancelled' /\ attach'.pc \in {"look", "error"} /\ fed'[Cloud] = <<>>
  <2>1. CASE Cloud \in late
    BY <1>10, <1>11, <2>1, AttachBufferStep DEF LateInv
  <2>2. CASE Cloud \notin late
    <3>1. AttachStarted /\ Cancelled /\ late' # late
      BY <1>2, <1>6, <1>7, <1>12, <2>2 DEF Restarted
    <3>2. attach' = [attach EXCEPT !.pc = "look"]
      BY <3>1 DEF AttachStarted
    <3>3. attach \in AttachType
      BY DEF TypeOK, BufferTypeOK, AttachType
    <3>4. attach'.pc = "look"
      BY <3>2, <3>3 DEF AttachType
    <3>5. fed'[Cloud] = <<>>
      BY <1>11, <3>1 DEF AttachStarted, LateInv
    <3>. QED
      BY <3>1, <3>4, <3>5, AttachBufferStep
  <2>. QED
    BY <2>1, <2>2
<1>13. Cloud \in asked' => attach'.pc = "ok"
  <2>1. Cloud \in asked' => attach.pc = "ok"
    <3>1. CASE UNCHANGED asked
      BY <3>1 DEF LateInv
    <3>2. CASE CallAsk
      BY <3>2 DEF CallAsk, AttachInv, AttachUse
    <3>3. CASE Replay
      BY <1>2, <1>6, <3>3 DEF Replay, LateInv
    <3>4. CASE StandbyStarted
      BY <1>2, <3>4 DEF StandbyStarted, LateInv
    <3>5. CASE FeedDirect \/ AttachFeed
      BY <3>5 DEF FeedDirect, AttachFeed, LateInv
    <3>. QED
      BY AudioFrame, <3>1, <3>2, <3>3, <3>4, <3>5
  <2>. QED
    BY <2>1, AttachBufferStep
<1>14. Flagged("cancelled") => Flagged("cancelled")'
    BY CancelKept
<1>15. ASSUME NEW p \in Retry, p \in late'
       PROVE  /\ p = attempt' /\ Flagged("cancelled")'
              /\ pc'["finish"] \in {"register", "end", "error"}
              /\ fed'[p] = <<>> /\ p \notin asked'
  <2>1. CASE p \in late
    <3>1. /\ p = attempt /\ Flagged("cancelled") /\ pc["finish"] \in {"register", "end", "error"}
          /\ fed[p] = <<>> /\ p \notin asked
      BY <2>1 DEF LateInv
    <3>2. UNCHANGED attempt /\ pc'["finish"] \in {"register", "end", "error"}
      BY <3>1, LateRests
    <3>3. fed'[p] = <<>> /\ p \notin asked'
      <4>1. CASE UNCHANGED <<fed, asked>>
        BY <3>1, <4>1
      <4>2. CASE CallAsk \/ Replay
        BY <3>1, <4>2 DEF CallAsk, Replay
      <4>3. CASE StandbyStarted
        BY <3>1, <4>3 DEF StandbyStarted, Polled
      <4>4. CASE FeedDirect \/ AttachFeed
        BY <1>1, <1>2, <1>3, <3>1, <4>4 DEF FeedDirect, AttachFeed
      <4>. QED
        BY AudioFrame, <4>1, <4>2, <4>3, <4>4
    <3>. QED
      BY <1>14, <3>1, <3>2, <3>3
  <2>2. CASE p \notin late
    <3>1. Restarted /\ p = attempt /\ late' # late
      BY <1>2, <1>7, <1>15, <2>2
    <3>2. /\ Started(attempt, Flagged("cancelled")) /\ At("finish", "register")
          /\ UNCHANGED <<attempt, fed, asked, flags>>
      BY <3>1 DEF Restarted, sessionVars
    <3>3. Flagged("cancelled")
      BY <3>1, <3>2 DEF Started
    <3>4. pc["finish"] = "restart"
      BY <3>1 DEF Restarted
    <3>5. fed[p] = <<>> /\ p \notin asked
      BY <3>1, <3>4 DEF RetryInv, Fresh
    <3>. QED
      BY <1>4, <1>14, <3>1, <3>2, <3>3, <3>5
  <2>. QED
    BY <2>1, <2>2
<1>16. attach'.pc \in {"none", "check", "start"} => fed'[Cloud] = <<>>
    BY <1>9, <1>11 DEF LateInv
<1>. QED
    BY <1>8, <1>12, <1>13, <1>15, <1>16 DEF LateInv

(* Whose start makes a provider live.                                       *)
LEMMA LiveFrame ==
    ASSUME TypeOK, [Next]_vars, NEW p \in Provider, state'[p] = "live"
    PROVE  \/ state[p] = "live"
           \/ p = Cloud /\ AttachStarted
           \/ p = attempt /\ Restarted
           \/ p = Local /\ StandbyStarted
<1>1. state \in [Provider -> {"none", "live", "finished", "cancelled"}]
    BY DEF TypeOK, BufferTypeOK
<1>. DEFINE Old == state[p] = "live"
<1>2. ASSUME NEW q, NEW how \in {"finished", "cancelled"}, Ends(q, how)
      PROVE  Old
    BY <1>1, <1>2, state'[p] = "live" DEF Ends
<1>3. ASSUME NEW q, NEW isLate, Started(q, isLate), q # p
      PROVE  Old
    BY <1>1, <1>3, state'[p] = "live" DEF Started
<1>4. TakeCancelState => Old
    BY <1>2, state'[p] = "live" DEF TakeCancelState
<1>5. state' = state => Old
    BY state'[p] = "live"
<1>. HIDE DEF Old
<1>. USE DEF vars, outer, allButState, PcOnly, providerVars
<1>6. ASSUME NEW t \in Task, ReleaseStep(t) \/ EndsInError(t)
      PROVE  Old
    BY <1>6, <1>2, <1>4, <1>5 DEF ReleaseStep, LetGo, Close, Join, Woken, EndsInError
<1>7. CASE StartStep \/ StartBegin \/ StartOpen \/ StartPrepare
  <2>1. Old
    BY <1>7, <1>4, <1>5, <1>6 DEF StartStep, StartBegin, StartBuild, StartOpen, StartPrepare,
        StartStore, StartAttach, StartAttached, StartCheck, StartUndo, StartStop, Task
  <2>. QED
    BY <2>1 DEF Old
<1>8. CASE FinishStep \/ FinishBegin
  <2>1. CASE \/ FinishBegin \/ FinishTake \/ FinishStop \/ FinishStopped \/ CallWait
             \/ CallAttached \/ CallAsk \/ FinishTranscribed \/ Backoff \/ Replay \/ Again
    BY <2>1, <1>5 DEF FinishBegin, FinishTake, FinishStop, FinishStopped, CallWait,
        CallAttached, CallAsk, FinishTranscribed, Backoff, Replay, Again, Old
  <2>2. CASE CallSettled \/ LocalSkipped \/ Register
    <3>1. Old
      BY <2>2, <1>2, <1>5 DEF CallSettled, LocalSkipped, Register, Abandon
    <3>. QED
      BY <3>1 DEF Old
  <2>. QED
    BY <1>8, <1>6, <2>1, <2>2 DEF FinishStep, Task, Old
<1>9. CASE CancelStep \/ CancelCalled
  <2>1. Old
    BY <1>9, <1>4, <1>5, <1>6 DEF CancelStep, CancelCalled, CancelBegin, CancelTake,
        CancelStop, CancelDrop, CancelRemove, Task
  <2>. QED
    BY <2>1 DEF Old
<1>10. CASE CallAnswered \/ RetryAnswered \/ StandbyFailed \/ StandbyAnswered
  <2>1. Old
    BY <1>10, <1>2, <1>5 DEF CallAnswered, RetryAnswered, StandbyFailed, StandbyAnswered
  <2>. QED
    BY <2>1 DEF Old
<1>11. CASE Restarted \/ StandbyStarted \/ AttachStarted
    BY <1>11, <1>3, <1>5 DEF Restarted, StandbyStarted, AttachStarted, Old
<1>12. CASE Speaking \/ FeedDirect \/ AttachCheck \/ AttachLook \/ AttachFeed
  <2>1. Old
    BY <1>12, <1>2, <1>5 DEF Speaking, Speak, FeedDirect, AttachCheck, AttachLook, AttachFeed
  <2>. QED
    BY <2>1 DEF Old
<1>. QED
    BY <1>5, <1>6, <1>7, <1>8, <1>9, <1>10, <1>11, <1>12
       DEF Next, TaskStep, ProviderStep, AttachStep, Task, Old

(* A start that has returned has no step.                                   *)
LEMMA StartOver ==
    ASSUME pc["start"] \in {"ok", "error"}
    PROVE  ~StartMoves
    BY DEF StartMoves, StartStep, StartBegin, StartPrepare, StartBuild, StartStore, StartAttach,
       StartAttached, StartCheck, StartOpen, StartUndo, StartStop, EndsInError, ReleaseStep,
       LetGo, Close, Join, Woken

(* A call that has returned does not go on.                                 *)
LEMMA ReturnedStays ==
    ASSUME TypeOK, AttachInv, [Next]_vars
    PROVE  /\ pc["start"] \in {"ok", "error"} => pc'["start"] = pc["start"]
           /\ pc["start"] # "idle" => pc'["start"] # "idle"
           /\ pc["start"] = "idle" /\ pc'["start"] # "idle" => registered'
           /\ pc["finish"] \in {"ok", "error"} => pc'["finish"] = pc["finish"]
           /\ pc["cancel"] = "returned" => pc'["cancel"] = "returned"
<1>1. /\ pc \in [Task -> Pc] /\ then \in [Task -> Pc] /\ "start" \in Task
    BY DEF TypeOK, Task
<1>2. ASSUME NEW p, At("start", p)
      PROVE  pc'["start"] = p
    BY <1>1, <1>2 DEF At
<1>3. ASSUME StartMoves
      PROVE  /\ pc["start"] \notin {"ok", "error"} /\ pc'["start"] # "idle"
             /\ pc["start"] = "idle" => registered'
  <2>1. CASE \/ StartBegin \/ StartPrepare \/ StartBuild \/ StartStore \/ StartAttach
             \/ StartAttached \/ StartCheck \/ EndsInError("start")
    BY <1>2, <2>1 DEF StartBegin, StartPrepare, StartBuild, StartStore, StartAttach,
       StartAttached, StartCheck, EndsInError, Forget
  <2>2. CASE StartOpen \/ StartUndo \/ StartStop
    BY <1>2, <2>2 DEF StartOpen, StartUndo, StartStop, Release
  <2>3. CASE ReleaseStep("start")
    <3>1. pc["start"] \in InRelease /\ then["start"] = "end"
      BY <2>3 DEF ReleaseStep, LetGo, Close, Join, Woken, InRelease, AttachInv, AttachTasks
    <3>2. pc'["start"] \in InRelease \/ pc'["start"] = then["start"]
      BY <1>2, <2>3 DEF ReleaseStep, LetGo, Close, Join, Woken, InRelease
    <3>. QED
      BY <3>1, <3>2 DEF InRelease
  <2>. QED
    BY <1>3, <2>1, <2>2, <2>3 DEF StartMoves, StartStep
<1>4. FinishMoves => pc["finish"] \notin {"ok", "error"}
    BY DEF FinishMoves, FinishStep, FinishBegin, FinishTake, FinishStop, FinishStopped, CallWait,
       CallAttached, CallAsk, CallSettled, LocalSkipped, FinishTranscribed, Backoff, Register,
       Replay, Again, ReleaseStep, LetGo, Close, Join, Woken, EndsInError, Restarted,
       RetryAnswered, StandbyAnswered, StandbyFailed, Polled
<1>5. CancelMoves => pc["cancel"] # "returned"
    BY DEF CancelMoves, CancelStep, CancelCalled, CancelBegin, CancelTake, CancelStop, CancelDrop,
       CancelRemove, ReleaseStep, LetGo, Close, Join, Woken
<1>. QED
    BY TaskFrame, <1>3, <1>4, <1>5 DEF Still

(* The steps of a cancellation.                                             *)
LEMMA CancelGoes ==
    ASSUME TypeOK, ReachTarget, CancelMoves
    PROVE  /\ UNCHANGED <<transcription, attempt>>
           /\ pc'["start"] = pc["start"] /\ pc'["finish"] = pc["finish"]
           /\ \/ /\ pc["cancel"] = "idle" /\ pc'["cancel"] = "called"
                 /\ pc["start"] # "idle" /\ UNCHANGED flags
              \/ /\ pc["cancel"] = "called" /\ pc'["cancel"] = "take"
                 /\ registered /\ Raise("cancelled")
              \/ /\ pc["cancel"] = "called" /\ pc'["cancel"] = "returned"
                 /\ ~registered /\ UNCHANGED flags
              \/ /\ pc["cancel"] \in {"take", "stop"} /\ target'["cancel"] = transcription
                 /\ \/ pc["cancel"] = "take" /\ pc'["cancel"] = "stop"
                    \/ pc'["cancel"] = ReleaseOf(transcription)
                 /\ then'["cancel"] = "remove"
                 /\ UNCHANGED flags
              \/ /\ pc["cancel"] = "drop" /\ pc'["cancel"] = "remove" /\ TakeCancelState
                 /\ UNCHANGED <<flags, target, then>>
              \/ /\ pc["cancel"] = "letgo" /\ pc'["cancel"] = "remove"
                 /\ Flagged("finished") \/ Flagged("once")
                 /\ UNCHANGED <<flags, target, then>>
              \/ /\ pc["cancel"] = "letgo" /\ pc'["cancel"] = "close"
                 /\ Raise("once") /\ UNCHANGED <<target, then>>
              \/ /\ pc["cancel"] = "close" /\ pc'["cancel"] = "remove"
                 /\ Ends(transcription, "cancelled") /\ UNCHANGED <<flags, target, then>>
              \/ /\ pc["cancel"] = "remove" /\ pc'["cancel"] = "returned"
                 /\ UNCHANGED <<flags, target, then>>
<1>1. /\ pc \in [Task -> Pc] /\ then \in [Task -> Pc] /\ target \in [Task -> Provider \cup {None}]
      /\ Task = {"start", "finish", "cancel"}
    BY DEF TypeOK, Task
<1>2. ASSUME NEW p, At("cancel", p)
      PROVE  pc'["cancel"] = p /\ pc'["start"] = pc["start"] /\ pc'["finish"] = pc["finish"]
    BY <1>1, <1>2 DEF At
<1>. USE DEF PcOnly, sessionVars, raceVars
<1>3. CASE CancelCalled
    BY <1>2, <1>3 DEF CancelCalled
<1>4. CASE CancelBegin
    BY <1>2, <1>4 DEF CancelBegin
<1>5. CASE CancelTake
  <2>1. target'["cancel"] = transcription /\ then'["cancel"] = "remove"
    BY <1>1, <1>5 DEF CancelTake
  <2>. QED
    BY <1>2, <1>5, <2>1 DEF CancelTake
<1>6. CASE CancelStop
    BY <1>2, <1>6 DEF CancelStop, ReachTarget
<1>7. CASE CancelDrop
    BY <1>2, <1>7 DEF CancelDrop
<1>8. CASE CancelRemove
    BY <1>2, <1>8 DEF CancelRemove, Forget
<1>9. CASE LetGo("cancel")
    BY <1>2, <1>9 DEF LetGo, ReachTarget, InRelease
<1>10. CASE Close("cancel")
  <2>1. transcription \in Retry /\ target["cancel"] = transcription /\ then["cancel"] = "remove"
    BY <1>10 DEF Close, ReachTarget, InRelease
  <2>2. target["cancel"] # Cloud
    BY <2>1, RetryDistinct
  <2>. QED
    BY <1>2, <1>10, <2>1, <2>2 DEF Close
<1>11. CASE Join("cancel") \/ Woken("cancel")
    BY <1>11 DEF Join, Woken, ReachTarget
<1>. QED
    BY <1>3, <1>4, <1>5, <1>6, <1>7, <1>8, <1>9, <1>10, <1>11 DEF CancelMoves, CancelStep,
       ReleaseStep

(* Every step keeps ReachCancel.                                            *)
LEMMA ReachCancelStep ==
    ASSUME TypeOK, AttachInv, ReachInv, [Next]_vars
    PROVE  ReachCancel'
<1>1. ReachCancel /\ ReachTarget
    BY DEF ReachInv
<1>2. CASE CancelMoves
  <2>1. CancelBegin \/ Flagged("cancelled")' = Flagged("cancelled")
    BY SessionFrame
  <2>2. CancelBegin => pc["cancel"] = "called"
    BY DEF CancelBegin
  <2>3. /\ Raise("cancelled") => Flagged("cancelled")'
        /\ UNCHANGED flags => Flagged("cancelled")' = Flagged("cancelled")
    BY DEF Raise, Flagged
  <2>4. ReleaseOf(transcription) \in {"remove", "drop", "letgo"}
    BY DEF ReleaseOf
  <2>5. UNCHANGED registered \/ CancelRemove
    BY <1>2 DEF CancelMoves, CancelStep, CancelCalled, CancelBegin, CancelTake, CancelStop,
       CancelDrop, CancelRemove, ReleaseStep, LetGo, Close, Join, Woken, PcOnly, sessionVars
  <2>6. CancelRemove => pc["cancel"] = "remove"
    BY DEF CancelRemove
  <2>. QED
    BY <1>1, <1>2, <2>1, <2>2, <2>3, <2>4, <2>5, <2>6, CancelGoes DEF ReachCancel
<1>3. CASE ~CancelMoves
  <2>1. pc'["cancel"] = pc["cancel"] /\ Flagged("cancelled")' = Flagged("cancelled")
    BY <1>3, TaskFrame, SessionFrame DEF Still, CancelMoves, CancelStep
  <2>2. \/ UNCHANGED registered
        \/ registered' = TRUE
        \/ pc'["start"] = "error" \/ pc'["finish"] \in {"ok", "error"}
    BY <1>3, SessionFrame DEF CancelMoves, CancelStep
  <2>. QED
    BY <1>1, <2>1, <2>2, ReturnedStays DEF ReachCancel
<1>. QED
    BY <1>2, <1>3

(* The kinds of targets are distinct.                                       *)
LEMMA Targets == None \notin Retry /\ None # Cloud /\ None # Local /\ Cloud # Local
    BY BoundsAssumption DEF None, Retry, Cloud, Local

(* Every step keeps ReachTarget.                                            *)
LEMMA ReachTargetStep ==
    ASSUME TypeOK, AttachInv, RetryInv, ReachInv, [Next]_vars
    PROVE  ReachTarget'
<1>1. ReachCancel /\ ReachTarget /\ RetryControl
    BY DEF ReachInv, RetryInv
<1>2. /\ pc \in [Task -> Pc] /\ "start" \in Task /\ attempt \in 0..Attempts
      /\ attempt = 0 \/ attempt \in Retry
    BY BoundsAssumption DEF TypeOK, Task, Retry
<1>. USE Targets
<1>3. \/ UNCHANGED transcription
      \/ StartBuild /\ ~Flagged("cancelled") /\ transcription' = Cloud
      \/ Register /\ ~Flagged("cancelled") /\ transcription' = attempt /\ attempt \in Retry
  <2>1. Register => attempt \in Retry
    BY <1>1, <1>2 DEF Register, RetryControl
  <2>. QED
    BY <2>1, SessionFrame
<1>4. /\ transcription' \in {None, Cloud} \cup Retry
      /\ transcription # None => transcription' # None
    BY <1>1, <1>3 DEF ReachTarget
<1>5. attempt' = 0 => transcription' \in {None, Cloud}
  <2>1. attempt' = 0 => attempt = 0
    <3>1. FinishMoves => attempt' \in {attempt, attempt + 1, 1}
      BY DEF FinishMoves, FinishStep, FinishBegin, FinishTake, FinishStop, FinishStopped, CallWait,
         CallAttached, CallAsk, CallSettled, LocalSkipped, FinishTranscribed, Backoff, Register,
         Replay, Again, ReleaseStep, LetGo, Close, Join, Woken, EndsInError, Restarted,
         RetryAnswered, StandbyAnswered, StandbyFailed, AfterLocal, NextAttempt, PcOnly, raceVars
    <3>. QED
      BY <1>2, <3>1, TaskFrame
  <2>2. Register => attempt # 0
    BY <1>1 DEF Register, RetryControl
  <2>. QED
    BY <1>1, <1>3, <2>1, <2>2 DEF ReachTarget
<1>6. ASSUME pc'["start"] \in {"open", "store", "prepare", "attach", "attached", "check", "ok"}
      PROVE  transcription' # None
  <2>1. CASE pc["start"] \in {"open", "store", "prepare", "attach", "attached", "check", "ok"}
    BY <1>1, <1>4, <2>1 DEF ReachTarget
  <2>2. CASE pc["start"] \notin {"open", "store", "prepare", "attach", "attached", "check", "ok"}
    <3>1. StartMoves
      BY <1>6, <2>2, TaskFrame DEF Still
    <3>2. ASSUME NEW p, At("start", p)
          PROVE  pc'["start"] = p
      BY <1>2, <3>2 DEF At
    <3>3. ~StartOpen /\ ~StartPrepare /\ ~StartStore /\ ~StartAttach /\ ~StartAttached /\ ~StartCheck
      BY <2>2 DEF StartOpen, StartPrepare, StartStore, StartAttach, StartAttached, StartCheck
    <3>4. ~StartBegin /\ ~StartUndo /\ ~StartStop /\ ~EndsInError("start")
      BY <1>6, <3>2 DEF StartBegin, StartUndo, StartStop, EndsInError, Forget, Release
    <3>5. ~ReleaseStep("start")
      <4>1. ReleaseStep("start") => pc["start"] \in InRelease
        BY DEF ReleaseStep, LetGo, Close, Join, Woken, InRelease
      <4>2. ReleaseStep("start") => pc'["start"] \in InRelease \/ pc'["start"] = then["start"]
        BY <3>2 DEF ReleaseStep, LetGo, Close, Join, Woken, InRelease
      <4>. QED
        BY <1>6, <4>1, <4>2 DEF AttachInv, AttachTasks, InRelease
    <3>6. StartBuild
      BY <3>1, <3>3, <3>4, <3>5 DEF StartMoves, StartStep
    <3>7. Flagged("cancelled") => pc'["start"] = "error"
      BY <3>2, <3>6 DEF StartBuild, Forget
    <3>. QED
      BY <1>6, <3>6, <3>7 DEF StartBuild
  <2>. QED
    BY <2>1, <2>2
<1>7. Cancelled => Cancelled'
    BY AttachBufferStep
<1>8. TakeCancelState => Cancelled'
    BY DEF TakeCancelState, Cancelled
<1>. DEFINE Part ==
         /\ pc'["cancel"] \in {"stop", "drop", "letgo", "close", "remove"}
                => target'["cancel"] = transcription'
         /\ pc'["cancel"] = "drop" => transcription' = Cloud
         /\ pc'["cancel"] \in InRelease => transcription' \in Retry
         /\ pc'["cancel"] \in InRelease \cup {"stop"} => then'["cancel"] = "remove"
         /\ pc'["cancel"] \notin {"join", "asleep"}
         /\ pc'["cancel"] = "remove" \/ (pc'["cancel"] = "returned" /\ Flagged("cancelled")')
                => (transcription' = Cloud => Cancelled')
<1>9. CASE ~CancelMoves
  <2>1. Still("cancel") /\ Flagged("cancelled")' = Flagged("cancelled")
    BY <1>9, TaskFrame, SessionFrame DEF CancelMoves, CancelStep
  <2>2. pc["cancel"] \notin {"idle", "called"} => Flagged("cancelled") \/ pc["cancel"] = "returned"
    BY <1>1 DEF ReachCancel
  <2>3. Flagged("cancelled") => UNCHANGED transcription
    BY <1>3
  <2>4. Part
    BY <1>1, <1>7, <2>1, <2>2, <2>3 DEF Still, ReachTarget, InRelease
  <2>. QED
    BY <1>4, <1>5, <1>6, <2>4 DEF ReachTarget
<1>10. CASE CancelMoves
  <2>1. UNCHANGED transcription
    BY <1>1, <1>10, CancelGoes
  <2>2. /\ ReleaseOf(transcription) = "drop" => transcription = Cloud
        /\ ReleaseOf(transcription) = "remove" => transcription = None
        /\ ReleaseOf(transcription) = "letgo" => transcription \in Retry
        /\ ReleaseOf(transcription) \in {"drop", "remove", "letgo"}
    BY <1>1 DEF ReleaseOf, ReachTarget
  <2>3. ReachTarget
    BY <1>1
  <2>4. pc'["cancel"] \in {"stop", "drop", "letgo", "close", "remove"}
        => target'["cancel"] = transcription'
    BY <1>10, <2>1, <2>3, CancelGoes DEF ReachTarget
  <2>5. pc'["cancel"] = "drop" => transcription' = Cloud
    BY <1>10, <2>1, <2>2, <2>3, CancelGoes
  <2>6. pc'["cancel"] \in InRelease => transcription' \in Retry
    BY <1>10, <2>1, <2>2, <2>3, CancelGoes DEF ReachTarget, InRelease
  <2>7. pc'["cancel"] \in InRelease \cup {"stop"} => then'["cancel"] = "remove"
    BY <1>10, <2>2, <2>3, CancelGoes DEF ReachTarget, InRelease
  <2>8. pc'["cancel"] \notin {"join", "asleep"}
    BY <1>10, <2>2, <2>3, CancelGoes
  <2>9. pc'["cancel"] = "remove" => (transcription' = Cloud => Cancelled')
    BY <1>8, <1>10, <2>1, <2>2, <2>3, CancelGoes, RetryDistinct DEF ReachTarget, InRelease
  <2>10. ASSUME pc'["cancel"] = "returned", Flagged("cancelled")'
         PROVE  transcription' = Cloud => Cancelled'
    <3>1. pc["cancel"] = "remove" \/ (pc["cancel"] = "called" /\ UNCHANGED flags)
      BY <1>10, <2>2, <2>3, <2>10, CancelGoes
    <3>2. pc["cancel"] = "called" => ~Flagged("cancelled")
      BY <1>1 DEF ReachCancel
    <3>. QED
      BY <1>7, <2>1, <2>3, <2>10, <3>1, <3>2 DEF ReachTarget, Flagged
  <2>. QED
    BY <1>4, <1>5, <1>6, <2>4, <2>5, <2>6, <2>7, <2>8, <2>9, <2>10 DEF ReachTarget
<1>. QED
    BY <1>9, <1>10

(* How a buffer gets cancelled, and when a recognizer is attached.           *)
LEMMA BufferCancelled ==
    ASSUME TypeOK, AttachInv, [Next]_vars
    PROVE  /\ Cancelled' => Cancelled \/ TakeCancelState
           /\ attach'.pc = "ok" => attach.pc = "ok" \/ ~Cancelled'
<1>1. buffer \in BufferType /\ attach \in AttachType /\ AttachTasks
    BY DEF TypeOK, BufferTypeOK, BufferType, AttachType, AttachInv
<1>2. CASE UNCHANGED bufferVars
    BY <1>2 DEF bufferVars, Cancelled
<1>3. CASE Speaking
  <2>1. UNCHANGED attach
        /\ (buffer' = buffer \/ \E s : buffer' = [buffer EXCEPT !.pcm = s])
    BY <1>3, Zenon DEF Speaking, Speak
  <2>. QED
    BY <1>1, <2>1 DEF BufferType, Cancelled
<1>4. CASE StartBuild \/ CancelDrop \/ \E t \in Task : Close(t)
    BY <1>4 DEF StartBuild, CancelDrop, Close, Cancelled
<1>5. CASE StartAttach \/ FinishStopped
    BY <1>5 DEF StartAttach, FinishStopped, Transcribe, BeginAttach, Cancelled, bufferVars
<1>6. ASSUME NEW x \in AttachPc, NEW s, \/ attach' = [attach EXCEPT !.pc = x]
                                        \/ attach' = [attach EXCEPT !.pc = x, !.pcm = s]
      PROVE  attach'.pc = x
    BY <1>1, <1>6 DEF AttachType
<1>7. CASE StandbyAnswered
    BY <1>6, <1>7 DEF StandbyAnswered, DropAttach, AttachEnds, AttachPc, Cancelled
<1>8. CASE AttachCheck \/ AttachFeed
    BY <1>6, <1>8 DEF AttachCheck, AttachFeed, AttachEnds, AttachPc, Cancelled
<1>9. CASE AttachStarted
  <2>1. attach'.pc \in {"look", "error"}
    BY <1>6, <1>9 DEF AttachStarted, AttachEnds, AttachPc
  <2>2. Cancelled' => Cancelled
    BY <1>9 DEF AttachStarted, Cancelled
  <2>. QED
    BY <2>1, <2>2
<1>10. CASE AttachLook
  <2>1. \/ Cancelled /\ UNCHANGED buffer /\ attach'.pc = "error"
        \/ ~Cancelled /\ UNCHANGED buffer /\ attach'.pc = "feed"
        \/ ~Cancelled /\ buffer' = [buffer EXCEPT !.pcm = <<>>] /\ attach'.pc = "feed"
        \/ ~Cancelled /\ buffer' = [buffer EXCEPT !.state = "direct"] /\ attach'.pc = "ok"
    BY <1>6, <1>10 DEF AttachLook, AttachEnds, AttachPc
  <2>. QED
    BY <1>1, <2>1 DEF BufferType, Cancelled
<1>. QED
    BY BufferFrame, <1>2, <1>3, <1>4, <1>5, <1>7, <1>8, <1>9, <1>10 DEF AttachStep

(* Every step keeps ReachState.                                             *)
LEMMA ReachStateStep ==
    ASSUME TypeOK, AttachInv, RetryInv, ReachInv, [Next]_vars
    PROVE  ReachState'
<1>1. ReachCancel /\ ReachTarget /\ ReachState /\ RetryControl /\ AttachTasks
    BY DEF ReachInv, RetryInv, AttachInv
<1>2. /\ pc \in [Task -> Pc] /\ Task = {"start", "finish", "cancel"} /\ attempt \in 0..Attempts
      /\ attempt = 0 \/ attempt \in Retry
      /\ state \in [Provider -> {"none", "live", "finished", "cancelled"}]
      /\ Cloud \in Provider /\ Retry \subseteq Provider
    BY BoundsAssumption DEF TypeOK, BufferTypeOK, Task, Retry, Provider
<1>. USE Targets, RetryDistinct
<1>3. ASSUME NEW p \in Provider, NEW how \in {"finished", "cancelled"}, Ends(p, how)
      PROVE  state'[p] # "live"
    BY <1>2, <1>3 DEF Ends
<1>4. ASSUME attach'.pc = "ok", Cancelled', state'[Cloud] = "live"
      PROVE  FALSE
  <2>1. attach.pc = "ok"
    BY <1>4, BufferCancelled
  <2>2. ~AttachStarted
    BY <2>1 DEF AttachStarted
  <2>3. Restarted => attempt # Cloud
    BY <1>1, <1>2 DEF Restarted, RetryControl
  <2>4. state[Cloud] = "live"
    BY <1>2, <1>4, <2>2, <2>3, LiveFrame
  <2>5. ~Cancelled /\ TakeCancelState
    BY <1>1, <1>4, <2>1, <2>4, BufferCancelled DEF ReachState
  <2>6. buffer.state = "direct"
    BY <2>1, <2>5 DEF AttachInv, AttachBuffer, Cancelled
  <2>. QED
    BY <1>2, <1>3, <1>4, <2>5, <2>6 DEF TakeCancelState
<1>5. ASSUME NEW p, At("finish", p)
      PROVE  pc'["finish"] = p /\ pc'["cancel"] = pc["cancel"]
    BY <1>2, <1>5 DEF At
<1>6. ASSUME pc'["finish"] \in {"feed", "answer"}
      PROVE  /\ transcription' = attempt'
             /\ ~Flagged("finished")'
             /\ Flagged("once")' => pc'["cancel"] \in {"close", "remove", "returned"}
             /\ pc'["cancel"] \in {"remove", "returned"} => state'[attempt'] # "live"
  <2>1. CASE Register
    <3>1. ~Flagged("cancelled") /\ pc["finish"] = "register"
      BY <1>5, <1>6, <2>1 DEF Register
    <3>2. pc["start"] = "ok"
      BY <1>1, <3>1 DEF AttachTasks
    <3>3. pc["cancel"] \in {"idle", "called"}
      BY <1>1, <3>1, <3>2 DEF ReachCancel
    <3>4. /\ transcription' = attempt /\ UNCHANGED attempt /\ pc'["cancel"] = pc["cancel"]
          /\ flags' = flags \ {"once", "finished"}
      BY <1>5, <2>1, <3>1 DEF Register, raceVars
    <3>. QED
      BY <3>3, <3>4 DEF Flagged
  <2>2. CASE ~Register
    <3>1. ASSUME FinishMoves
          PROVE  Replay /\ UNCHANGED <<attempt, flags>> /\ pc'["cancel"] = pc["cancel"]
      <4>1. ReleaseStep("finish") => pc'["finish"] \notin {"feed", "answer"}
        BY <1>1, <1>5 DEF ReleaseStep, LetGo, Close, Join, Woken, RetryControl, InRelease
      <4>2. \/ FinishBegin \/ FinishTake \/ FinishStop \/ FinishStopped \/ CallSettled
            \/ LocalSkipped \/ FinishTranscribed \/ Backoff \/ Again \/ EndsInError("finish")
            \/ Restarted \/ RetryAnswered \/ StandbyAnswered \/ StandbyFailed
            => pc'["finish"] \notin {"feed", "answer"}
        BY <1>5 DEF FinishBegin, FinishTake, FinishStop, FinishStopped, CallSettled,
           LocalSkipped, FinishTranscribed, Backoff, Again, EndsInError, Restarted,
           RetryAnswered, StandbyAnswered, StandbyFailed, AfterLocal, NextAttempt, Forget,
           Release, Polled
      <4>3. CallWait \/ CallAttached \/ CallAsk => pc'["finish"] \notin {"feed", "answer"}
        BY DEF CallWait, CallAttached, CallAsk, taskVars
      <4>4. Replay
        BY <1>6, <2>2, <3>1, <4>1, <4>2, <4>3 DEF FinishMoves, FinishStep
      <4>. QED
        BY <1>5, <4>4 DEF Replay, sessionVars, raceVars, Release
    <3>2. /\ pc["finish"] \in {"feed", "answer"} /\ UNCHANGED attempt /\ attempt \in Retry
          /\ pc["start"] = "ok"
      <4>1. pc["finish"] \in {"feed", "answer"} /\ UNCHANGED attempt
        BY <1>6, <3>1, TaskFrame DEF Still, Replay
      <4>. QED
        BY <1>1, <1>2, <4>1 DEF RetryControl, AttachTasks
    <3>3. /\ transcription = attempt /\ ~Flagged("finished")
          /\ Flagged("once") => pc["cancel"] \in {"close", "remove", "returned"}
          /\ pc["cancel"] \in {"remove", "returned"} => state[attempt] # "live"
      BY <1>1, <3>2 DEF ReachState
    <3>4. ~StartMoves
      BY <3>2, StartOver
    <3>5. UNCHANGED transcription
      BY <2>2, <3>4, SessionFrame DEF StartMoves, StartStep
    <3>6. state'[attempt] = "live" => state[attempt] = "live"
      BY <1>2, <3>2, LiveFrame DEF Restarted
    <3>7. CASE ~CancelMoves
      <4>1. UNCHANGED flags
        <5>1. FinishMoves => UNCHANGED flags
          BY <3>1
        <5>2. CallAnswered \/ StandbyStarted \/ Outside \/ UNCHANGED vars => UNCHANGED flags
          BY DEF CallAnswered, StandbyStarted, Outside, vars, sessionVars
        <5>. QED
          BY <3>4, <3>7, <5>1, <5>2 DEF Next, TaskStep, ProviderStep, Speaking, StartMoves,
             FinishMoves, CancelMoves
      <4>2. pc'["cancel"] = pc["cancel"]
        BY <3>7, TaskFrame DEF Still
      <4>. QED
        BY <3>2, <3>3, <3>5, <3>6, <4>1, <4>2 DEF Flagged
    <3>8. CASE CancelMoves
      <4>1. registered \/ pc["cancel"] # "called"
        BY <1>1, <3>2 DEF ReachCancel
      <4>2. transcription \in Retry /\ ReleaseOf(transcription) = "letgo"
        BY <3>2, <3>3 DEF ReleaseOf
      <4>3. pc["cancel"] # "drop"
        BY <1>1, <4>2 DEF ReachTarget
      <4>4. Ends(transcription, "cancelled") => state'[attempt] # "live"
        BY <1>2, <1>3, <3>2, <3>3
      <4>. QED
        BY <1>1, <3>2, <3>3, <3>5, <3>6, <3>8, <4>1, <4>2, <4>3, <4>4, CancelGoes
           DEF Flagged, Raise
    <3>. QED
      BY <3>7, <3>8
  <2>. QED
    BY <2>1, <2>2
<1>. QED
    BY <1>4, <1>6 DEF ReachState

(* Every step keeps ReachInv.                                               *)
LEMMA ReachStep ==
    ASSUME TypeOK, AttachInv, RetryInv, ReachInv, [Next]_vars
    PROVE  ReachInv'
    BY ReachCancelStep, ReachTargetStep, ReachStateStep DEF ReachInv

(* ReachInv says that no recognizer finish waits for has escaped a          *)
(* cancellation that has returned.                                          *)
LEMMA Reaches ==
    ASSUME TypeOK, AttachInv, RetryInv, ReachInv
    PROVE  CancelReachesProvider
<1>1. ASSUME pc["cancel"] = "returned", pc["finish"] = "race", call = "answer"
      PROVE  state[Cloud] # "live"
  <2>1. pc["start"] = "ok" /\ attach.pc = "ok"
    BY <1>1 DEF AttachInv, AttachTasks, AttachUse
  <2>2. attempt = 0
    BY <1>1 DEF RetryInv, RetryControl, InRelease
  <2>3. transcription = Cloud
    BY <2>1, <2>2 DEF ReachInv, ReachTarget
  <2>4. Cancelled
    BY <1>1, <2>1, <2>3 DEF ReachInv, ReachTarget, ReachCancel
  <2>. QED
    BY <2>1, <2>4 DEF ReachInv, ReachState
<1>2. ASSUME pc["cancel"] = "returned", pc["finish"] = "answer"
      PROVE  state[attempt] # "live"
    BY <1>2 DEF ReachInv, ReachState
<1>. QED
    BY <1>1, <1>2 DEF CancelReachesProvider

----------------------------------------------------------------------------
(* Counted audio.                                                           *)

(* Counted audio with the chunk that comes next is counted.                 *)
LEMMA CountedAppend ==
    ASSUME NEW s \in Seq(Chunks), NEW k \in Nat, Counted(s, k), NEW x \in Chunks, x = k + Len(s) + 1
    PROVE  Counted(Append(s, x), k) /\ Len(Append(s, x)) = Len(s) + 1
           /\ Append(s, x) \in Seq(Chunks)
<1>1. Append(s, x) \in Seq(Chunks) /\ Len(Append(s, x)) = Len(s) + 1
    OBVIOUS
<1>2. ASSUME NEW i \in 1..(Len(s) + 1)
      PROVE  Append(s, x)[i] = k + i
  <2>1. CASE i = Len(s) + 1
    BY <2>1
  <2>2. CASE i \in 1..Len(s)
    BY <2>2 DEF Counted
  <2>. QED
    BY <2>1, <2>2
<1>. QED
    BY <1>1, <1>2 DEF Counted

(* Counted audio followed by the audio that comes next is counted.          *)
LEMMA CountedConcat ==
    ASSUME NEW s \in Seq(Chunks), NEW t \in Seq(Chunks), NEW k \in Nat,
           Counted(s, k), Counted(t, k + Len(s))
    PROVE  Counted(s \o t, k) /\ Len(s \o t) = Len(s) + Len(t) /\ s \o t \in Seq(Chunks)
<1>1. s \o t \in Seq(Chunks) /\ Len(s \o t) = Len(s) + Len(t)
    OBVIOUS
<1>2. ASSUME NEW i \in 1..(Len(s) + Len(t))
      PROVE  (s \o t)[i] = k + i
  <2>1. CASE i \in 1..Len(s)
    BY <2>1 DEF Counted
  <2>2. CASE i \notin 1..Len(s)
    <3>1. i - Len(s) \in 1..Len(t) /\ (s \o t)[i] = t[i - Len(s)]
      BY <2>2
    <3>2. t[i - Len(s)] = k + Len(s) + (i - Len(s))
      BY <3>1 DEF Counted
    <3>. QED
      BY <3>1, <3>2
  <2>. QED
    BY <2>1, <2>2
<1>. QED
    BY <1>1, <1>2 DEF Counted

(* No audio is counted from anywhere.                                       *)
LEMMA CountedEmpty == \A k \in Nat : Counted(<<>>, k)
    BY DEF Counted

(* The moves of the audio between the recorder, the buffer, the attachment   *)
(* and the recognizer: f was fed, a is in the attachment, s in the buffer, n *)
(* chunks were spoken and c is on its way.                                   *)
AudioAt(f, p, a, b, s, n, c) ==
    /\ f \in Seq(Chunks) /\ a \in Seq(Chunks) /\ s \in Seq(Chunks)
    /\ n \in 0..MaxChunks /\ c \in 0..MaxChunks /\ p \in AttachPc
    /\ CloudOrder(f, p, a, b, s, n, c)

(* The moves of the audio that is there.                                    *)
LEMMA OrderMoves ==
    ASSUME NEW f, NEW p, NEW a, NEW b, NEW s, NEW n, NEW c, AudioAt(f, p, a, b, s, n, c)
    PROVE  /\ \A t \in Seq(Chunks) : CloudOrder(f, p, a, "cancelled", t, n, c)
           /\ \A t \in Seq(Chunks) : CloudOrder(f, p, a, "failed", t, n, c)
           /\ b \in {"attaching", "failed", "cancelled"} => CloudOrder(f, "error", a, b, s, n, c)
           /\ p \in {"check", "start", "look", "feed"} =>
                  \A q \in {"check", "start", "look", "feed"} : CloudOrder(f, q, a, b, s, n, c)
           /\ p = "none" /\ b = "buffering" => CloudOrder(f, "check", s, "attaching", <<>>, n, c)
           /\ p = "look" /\ a = <<>> /\ b = "attaching" =>
                  CloudOrder(f, "feed", s, b, <<>>, n, c)
           /\ p = "look" /\ a = <<>> /\ s = <<>> /\ b = "attaching" /\ c = 0 =>
                  CloudOrder(f, "ok", a, "direct", s, n, c) /\ Len(f) = n
<1>1. /\ Len(f) \in Nat /\ Len(a) \in Nat /\ Len(s) \in Nat /\ n \in Nat /\ c \in Nat
      /\ Len(<<>>) = 0 /\ f \in Seq(Chunks) /\ a \in Seq(Chunks) /\ s \in Seq(Chunks)
      /\ CloudOrder(f, p, a, b, s, n, c) /\ p \in AttachPc
    BY BoundsAssumption DEF AudioAt
<1>2. \A k \in Nat : Counted(<<>>, k)
    BY CountedEmpty
<1>3. \A t \in Seq(Chunks) : CloudOrder(f, p, a, "cancelled", t, n, c)
    BY <1>1 DEF CloudOrder
<1>4. \A t \in Seq(Chunks) : CloudOrder(f, p, a, "failed", t, n, c)
    BY <1>1 DEF CloudOrder
<1>5. b \in {"attaching", "failed", "cancelled"} => CloudOrder(f, "error", a, b, s, n, c)
    BY <1>1 DEF CloudOrder
<1>6. p \in {"check", "start", "look", "feed"} =>
          \A q \in {"check", "start", "look", "feed"} : CloudOrder(f, q, a, b, s, n, c)
    BY <1>1 DEF CloudOrder
<1>7. p = "none" /\ b = "buffering" => CloudOrder(f, "check", s, "attaching", <<>>, n, c)
    BY <1>1, <1>2 DEF CloudOrder
<1>8. p = "look" /\ a = <<>> /\ b = "attaching" => CloudOrder(f, "feed", s, b, <<>>, n, c)
    BY <1>1, <1>2 DEF CloudOrder
<1>9. p = "look" /\ a = <<>> /\ s = <<>> /\ b = "attaching" /\ c = 0 =>
          CloudOrder(f, "ok", a, "direct", s, n, c) /\ Len(f) = n
    BY <1>1 DEF CloudOrder
<1>. QED
    BY <1>3, <1>4, <1>5, <1>6, <1>7, <1>8, <1>9

(* The audio that is spoken.                                                *)
LEMMA OrderSpoken ==
    ASSUME NEW f, NEW p, NEW a, NEW b, NEW s, NEW n, AudioAt(f, p, a, b, s, n, 0), n + 1 \in Chunks
    PROVE  /\ b \in {"buffering", "attaching"} => CloudOrder(f, p, a, b, Append(s, n + 1), n + 1, 0)
           /\ b \in {"failed", "cancelled"} => CloudOrder(f, p, a, b, s, n + 1, 0)
           /\ b = "direct" => CloudOrder(f, p, a, b, s, n + 1, n + 1)
<1>1. /\ Len(f) \in Nat /\ Len(a) \in Nat /\ Len(s) \in Nat /\ n \in Nat
      /\ f \in Seq(Chunks) /\ a \in Seq(Chunks) /\ s \in Seq(Chunks)
      /\ CloudOrder(f, p, a, b, s, n, 0) /\ p \in AttachPc
    BY BoundsAssumption DEF AudioAt
<1>2. ASSUME b \in {"buffering", "attaching"}
      PROVE  CloudOrder(f, p, a, b, Append(s, n + 1), n + 1, 0)
  <2>1. CASE p = "error"
    BY <1>1, <1>2, <2>1 DEF CloudOrder
  <2>2. CASE p # "error"
    <3>1. Counted(s, Len(f) + Len(a)) /\ n + 1 = Len(f) + Len(a) + Len(s) + 1
      BY <1>1, <1>2, <2>2 DEF CloudOrder
    <3>2. /\ Counted(Append(s, n + 1), Len(f) + Len(a))
          /\ Len(Append(s, n + 1)) = Len(s) + 1
      BY <1>1, <3>1, CountedAppend
    <3>. QED
      BY <1>1, <1>2, <3>1, <3>2 DEF CloudOrder
  <2>. QED
    BY <2>1, <2>2
<1>3. b \in {"failed", "cancelled"} => CloudOrder(f, p, a, b, s, n + 1, 0)
    BY <1>1 DEF CloudOrder
<1>4. b = "direct" => CloudOrder(f, p, a, b, s, n + 1, n + 1)
    BY <1>1 DEF CloudOrder
<1>. QED
    BY <1>2, <1>3, <1>4

(* The audio that is fed.                                                   *)
LEMMA OrderFed ==
    ASSUME NEW f, NEW p, NEW a, NEW b, NEW s, NEW n, NEW c, AudioAt(f, p, a, b, s, n, c)
    PROVE  /\ c # 0 /\ p = "ok" /\ b \in {"direct", "cancelled"} =>
                  CloudOrder(f \o <<c>>, p, a, b, s, n, 0)
           /\ c = 0 /\ p = "feed" /\ b \in {"attaching", "cancelled"} =>
                  CloudOrder(f \o a, "look", <<>>, b, s, n, c)
<1>1. /\ Len(f) \in Nat /\ Len(a) \in Nat /\ Len(s) \in Nat /\ n \in Nat /\ c \in Nat
      /\ f \in Seq(Chunks) /\ a \in Seq(Chunks) /\ s \in Seq(Chunks)
      /\ CloudOrder(f, p, a, b, s, n, c) /\ p \in AttachPc
    BY BoundsAssumption DEF AudioAt
<1>2. ASSUME c # 0, p = "ok", b \in {"direct", "cancelled"}
      PROVE  CloudOrder(f \o <<c>>, p, a, b, s, n, 0)
  <2>1. <<c>> \in Seq(Chunks) /\ Len(<<c>>) = 1 /\ <<c>>[1] = c
    BY <1>1, <1>2 DEF Chunks, AudioAt
  <2>2. Counted(<<c>>, Len(f)) /\ Counted(f, 0)
    BY <1>1, <1>2, <2>1 DEF CloudOrder, Counted
  <2>3. Counted(f \o <<c>>, 0) /\ Len(f \o <<c>>) = Len(f) + 1
    <3>. DEFINE t == <<c>>
    <3>1. t \in Seq(Chunks) /\ Len(t) = 1 /\ Counted(t, 0 + Len(f)) /\ 0 \in Nat
      BY <1>1, <2>1, <2>2
    <3>. HIDE DEF t
    <3>2. Counted(f \o t, 0) /\ Len(f \o t) = Len(f) + Len(t)
      BY <1>1, <2>2, <3>1, CountedConcat
    <3>. QED
      BY <3>1, <3>2 DEF t
  <2>4. n = Len(f) + 1
    BY <1>1, <1>2 DEF CloudOrder
  <2>. HIDE DEF Counted
  <2>. QED
    BY <1>1, <1>2, <2>3, <2>4 DEF CloudOrder
<1>3. ASSUME c = 0, p = "feed", b \in {"attaching", "cancelled"}
      PROVE  CloudOrder(f \o a, "look", <<>>, b, s, n, c)
  <2>1. Counted(f, 0) /\ Counted(a, Len(f)) /\ Len(f) + Len(a) <= n
    BY <1>1, <1>3 DEF CloudOrder
  <2>2. Counted(f \o a, 0) /\ Len(f \o a) = Len(f) + Len(a)
    BY <1>1, <2>1, CountedConcat
  <2>3. Counted(<<>>, Len(f \o a)) /\ Len(<<>>) = 0
    BY <1>1, <2>2, CountedEmpty
  <2>. QED
    BY <1>1, <1>3, <2>1, <2>2, <2>3 DEF CloudOrder
<1>. QED
    BY <1>2, <1>3

----------------------------------------------------------------------------
(* The recorder is closed before anything is asked.                         *)

(* Who handles the recording.                                               *)
LEMMA RecordingFrame ==
    ASSUME [Next]_vars
    PROVE  \/ UNCHANGED recording
           \/ StartBuild \/ StartOpen \/ StartStore \/ StartUndo \/ StartStop
           \/ FinishTake \/ FinishStop \/ CancelTake \/ CancelStop
<1>. USE DEF PcOnly, sessionVars, vars, outer, Outside
<1>1. ASSUME NEW t \in Task, ReleaseStep(t) \/ EndsInError(t)
      PROVE  UNCHANGED recording
    BY <1>1 DEF ReleaseStep, LetGo, Close, Join, Woken, EndsInError
<1>2. ASSUME \/ StartBegin \/ StartPrepare \/ StartAttach \/ StartAttached \/ StartCheck
             \/ CancelCalled \/ CancelBegin \/ CancelDrop \/ CancelRemove
      PROVE  UNCHANGED recording
    BY <1>2 DEF StartBegin, StartPrepare, StartAttach, StartAttached, StartCheck, CancelCalled,
       CancelBegin, CancelDrop, CancelRemove
<1>3. ASSUME \/ FinishBegin \/ FinishStopped \/ CallWait \/ CallAttached \/ CallAsk \/ CallSettled
             \/ LocalSkipped \/ FinishTranscribed \/ Backoff \/ Register \/ Replay \/ Again
      PROVE  UNCHANGED recording
    BY <1>3 DEF FinishBegin, FinishStopped, CallWait, CallAttached, CallAsk, CallSettled,
       LocalSkipped, FinishTranscribed, Backoff, Register, Replay, Again
<1>4. ASSUME \/ CallAnswered \/ Restarted \/ RetryAnswered \/ StandbyStarted \/ StandbyAnswered
             \/ StandbyFailed \/ Outside \/ UNCHANGED vars
      PROVE  UNCHANGED recording
    BY <1>4 DEF CallAnswered, Restarted, RetryAnswered, StandbyStarted, StandbyAnswered,
       StandbyFailed
<1>. QED
    BY <1>1, <1>2, <1>3, <1>4 DEF Next, TaskStep, ProviderStep, Speaking, StartStep, FinishStep,
       CancelStep, Task

(* Where finish has asked nothing yet.                                      *)
Quiet == {"idle", "take", "stop", "stopped"}

(* How finish leaves those points.                                          *)
LEMMA QuietFinish ==
    ASSUME TypeOK, RetryControl, [Next]_vars
    PROVE  /\ pc'["finish"] \in Quiet =>
                  pc["finish"] \in Quiet /\ UNCHANGED <<asked, call, standby>>
           /\ pc["finish"] \in {"idle", "take", "stop", "error"} =>
                  /\ UNCHANGED <<asked, call>>
                  /\ pc'["finish"] \in {"idle", "take", "stop", "error"} \/ FinishStop
           /\ pc["finish"] \in Quiet => UNCHANGED asked
<1>1. /\ pc \in [Task -> Pc] /\ "finish" \in Task
    BY DEF TypeOK, Task
<1>2. ASSUME NEW p, At("finish", p)
      PROVE  pc'["finish"] = p
    BY <1>1, <1>2 DEF At
<1>3. CallAsk \/ Replay \/ StandbyStarted \/ CallAnswered
      => (pc["finish"] \notin Quiet \cup {"error"} /\ UNCHANGED pc) \/ Replay
    BY DEF CallAsk, Replay, StandbyStarted, CallAnswered, Polled, taskVars, Quiet
<1>4. Replay => pc["finish"] \notin Quiet \cup {"error"} /\ pc'["finish"] \notin Quiet
    BY <1>2 DEF Replay, Release, Quiet
<1>5. FeedDirect \/ AttachFeed => UNCHANGED asked
    BY DEF FeedDirect, AttachFeed
<1>6. UNCHANGED asked
      \/ (pc["finish"] \notin Quiet \cup {"error"} /\ pc'["finish"] \notin Quiet)
    BY AudioFrame, <1>3, <1>4, <1>5
<1>7. FinishBegin \/ FinishTake \/ FinishStop
      => pc["finish"] \in Quiet /\ UNCHANGED <<call, standby>>
    BY DEF FinishBegin, FinishTake, FinishStop, Quiet, raceVars
<1>8. FinishBegin \/ FinishTake => pc'["finish"] \in {"take", "stop", "error"}
    BY <1>2 DEF FinishBegin, FinishTake, Forget
<1>9. ASSUME FinishMoves, ~FinishBegin, ~FinishTake, ~FinishStop
      PROVE  /\ pc["finish"] \notin {"idle", "take", "stop", "error"}
             /\ pc'["finish"] \notin Quiet
  <2>1. CASE \/ FinishStopped \/ CallSettled \/ LocalSkipped \/ FinishTranscribed \/ Backoff
             \/ Register \/ Replay \/ Again \/ EndsInError("finish") \/ Restarted
             \/ RetryAnswered \/ StandbyAnswered
    BY <1>2, <2>1 DEF FinishStopped, CallSettled, LocalSkipped, FinishTranscribed, Backoff,
       Register, Replay, Again, EndsInError, Restarted, RetryAnswered, StandbyAnswered,
       AfterLocal, NextAttempt, Forget, Release, Polled, Quiet
  <2>2. CASE CallWait \/ CallAttached \/ CallAsk \/ StandbyFailed
    BY <1>2, <2>2 DEF CallWait, CallAttached, CallAsk, StandbyFailed, AfterLocal, Polled, Quiet,
       taskVars
  <2>3. CASE ReleaseStep("finish")
    <3>1. pc["finish"] \in InRelease
      BY <2>3 DEF ReleaseStep, LetGo, Close, Join, Woken, InRelease
    <3>2. pc'["finish"] \in InRelease \/ pc'["finish"] = then["finish"]
      BY <1>2, <2>3 DEF ReleaseStep, LetGo, Close, Join, Woken, InRelease
    <3>. QED
      BY <3>1, <3>2 DEF RetryControl, InRelease, Quiet
  <2>. QED
    BY <1>9, <2>1, <2>2, <2>3 DEF FinishMoves, FinishStep
<1>10. ~FinishMoves => UNCHANGED <<call, standby>> \/ CallAnswered \/ StandbyStarted
    BY TaskFrame
<1>11. CASE ~FinishMoves
  <2>1. pc'["finish"] = pc["finish"]
    BY <1>11, TaskFrame DEF Still
  <2>2. ~Replay
    BY <1>11 DEF FinishMoves, FinishStep
  <2>. QED
    BY <1>3, <1>6, <1>10, <1>11, <2>1, <2>2 DEF Quiet
<1>12. CASE FinishMoves
    BY <1>6, <1>7, <1>8, <1>9, <1>12 DEF Quiet
<1>. QED
    BY <1>11, <1>12

(* Every step keeps OrderRecorder.                                          *)
LEMMA OrderRecorderStep ==
    ASSUME TypeOK, AttachInv, RetryInv, OrderRecorder, [Next]_vars
    PROVE  OrderRecorder' /\ (recording = "closed" => UNCHANGED audio)
<1>1. AttachTasks /\ RetryControl /\ audio \in AudioType
    BY DEF AttachInv, RetryInv, TypeOK, BufferTypeOK, AudioType
<1>2. recording = "closed" => UNCHANGED audio
  <2>1. Speaking => recording # "closed"
    BY DEF Speaking
  <2>2. FeedDirect => recording # "closed"
    BY DEF FeedDirect, OrderRecorder
  <2>. QED
    BY <2>1, <2>2, AudioFrame
<1>3. recording' = "closed" => audio'.feeding = 0
  <2>1. CASE UNCHANGED recording
    BY <1>2, <2>1 DEF OrderRecorder
  <2>2. CASE StartBuild \/ StartOpen \/ StartStore \/ StartUndo \/ StartStop
    BY <1>2, <2>2 DEF StartBuild, StartOpen, StartStore, StartUndo, StartStop, Stops, outer,
       OrderRecorder
  <2>3. CASE FinishTake \/ FinishStop \/ CancelTake \/ CancelStop
    BY <1>2, <2>3 DEF FinishTake, FinishStop, CancelTake, CancelStop, Stops, outer, OrderRecorder
  <2>. QED
    BY RecordingFrame, <2>1, <2>2, <2>3
<1>4. pc["finish"] # "idle" => pc["start"] = "ok"
    BY <1>1 DEF AttachTasks
<1>5. pc["start"] = "ok" => ~(StartBuild \/ StartOpen \/ StartStore \/ StartUndo \/ StartStop)
    BY DEF StartBuild, StartOpen, StartStore, StartUndo, StartStop
<1>6. pc["start"] = "ok" /\ recording = "closed" => recording' = "closed"
    BY <1>5, RecordingFrame DEF FinishTake, FinishStop, CancelTake, CancelStop, Stops
<1>7. FinishStop => recording' = "closed"
    BY DEF FinishStop, Stops
<1>8. pc'["finish"] \notin {"idle", "take", "stop", "error"} => recording' = "closed"
    BY <1>1, <1>4, <1>6, <1>7, QuietFinish DEF OrderRecorder
<1>9. asked' # {} \/ call' # "none" => recording' = "closed"
  <2>1. CASE pc["finish"] \in {"idle", "take", "stop", "error"}
    BY <1>1, <1>4, <1>6, <2>1, QuietFinish DEF OrderRecorder
  <2>2. CASE pc["finish"] \notin {"idle", "take", "stop", "error"}
    BY <1>4, <1>6, <2>2 DEF OrderRecorder
  <2>. QED
    BY <2>1, <2>2
<1>10. pc'["finish"] \in Quiet => asked' = {} /\ call' = "none" /\ standby' = "off"
    BY <1>1, QuietFinish DEF OrderRecorder, Quiet
<1>. QED
    BY <1>2, <1>3, <1>8, <1>9, <1>10 DEF OrderRecorder, Quiet

(* Every step keeps OrderReplay.                                            *)
LEMMA OrderReplayStep ==
    ASSUME TypeOK, AttachInv, RetryInv, OrderRecorder, OrderReplay, [Next]_vars
    PROVE  OrderReplay'
<1>1. /\ fed \in [Provider -> Seq(Chunks)] /\ asked \in SUBSET Provider
      /\ Cloud \in Provider /\ Local \in Provider /\ Retry \subseteq Provider
      /\ pc["finish"] = "feed" => attempt \in Retry
    BY BoundsAssumption DEF TypeOK, BufferTypeOK, Provider, Retry, RetryInv, RetryControl
<1>. USE Targets, RetryDistinct
<1>2. UNCHANGED audio => Recording' = Recording
    BY DEF Recording
<1>3. asked # {} => Recording' = Recording
    BY <1>2, OrderRecorderStep DEF OrderRecorder
<1>4. ASSUME NEW p \in Provider, NEW s, Feed(p, s)
      PROVE  /\ fed'[p] = fed[p] \o s
             /\ \A q \in Provider \ {p} : fed'[q] = fed[q]
    BY <1>1, <1>4 DEF Feed
<1>5. Recording \in Seq(Chunks) /\ <<>> \o Recording = Recording
    BY RecordingTyped
<1>6. ASSUME NEW p \in Provider \ {Cloud}
      PROVE  fed'[p] = IF p \in asked' THEN Recording' ELSE <<>>
  <2>1. fed[p] = IF p \in asked THEN Recording ELSE <<>>
    BY <1>6 DEF OrderReplay
  <2>2. CASE UNCHANGED <<fed, asked>>
    BY <1>3, <2>1, <2>2
  <2>3. CASE CallAsk
    BY <1>2, <1>6, <2>1, <2>3 DEF CallAsk
  <2>4. CASE Replay
    <3>1. CASE Flagged("cancelled")
      BY <1>3, <2>1, <2>4, <3>1 DEF Replay
    <3>2. CASE ~Flagged("cancelled")
      <4>1. Feed(attempt, Recording) /\ asked' = asked \cup {attempt} /\ UNCHANGED audio
        BY <2>4, <3>2 DEF Replay
      <4>2. attempt \in Retry /\ fed[attempt] = <<>>
        BY <1>1, <2>4 DEF Replay, RetryInv, Fresh
      <4>. QED
        BY <1>1, <1>2, <1>4, <1>5, <2>1, <4>1, <4>2
    <3>. QED
      BY <3>1, <3>2
  <2>5. CASE StandbyStarted
    <3>1. /\ Feed(Local, Recording) /\ asked' = asked \cup {Local} /\ UNCHANGED audio
          /\ standby = "prepare"
      BY <2>5 DEF StandbyStarted
    <3>2. fed[Local] = <<>>
      BY <1>1, <3>1 DEF OrderReplay
    <3>. QED
      BY <1>1, <1>2, <1>4, <1>5, <2>1, <3>1, <3>2
  <2>6. CASE FeedDirect \/ AttachFeed
    <3>1. UNCHANGED asked /\ \E s : Feed(Cloud, s)
      BY <2>6 DEF FeedDirect, AttachFeed
    <3>. QED
      BY <1>1, <1>3, <1>4, <1>6, <2>1, <3>1
  <2>. QED
    BY AudioFrame, <2>2, <2>3, <2>4, <2>5, <2>6
<1>7. standby' = "prepare" => Local \notin asked'
  <2>1. standby' = "prepare" => standby = "prepare" \/ FinishStopped
    <3>1. \/ FinishBegin \/ FinishTake \/ FinishStop \/ CallWait \/ CallAttached \/ CallAsk
          \/ CallSettled \/ LocalSkipped \/ FinishTranscribed \/ Backoff \/ Register \/ Replay
          \/ Again \/ ReleaseStep("finish") \/ EndsInError("finish")
          => UNCHANGED standby \/ standby' = "off"
      BY DEF FinishBegin, FinishTake, FinishStop, CallWait, CallAttached, CallAsk, CallSettled,
         LocalSkipped, FinishTranscribed, Backoff, Register, Replay, Again, ReleaseStep, LetGo,
         Close, Join, Woken, EndsInError, Abandon, PcOnly, raceVars
    <3>2. \/ Restarted \/ RetryAnswered \/ StandbyAnswered \/ StandbyFailed \/ CallAnswered
          \/ StandbyStarted
          => UNCHANGED standby \/ standby' # "prepare"
      BY DEF Restarted, RetryAnswered, StandbyAnswered, StandbyFailed, CallAnswered,
         StandbyStarted, raceVars
    <3>. QED
      BY TaskFrame, <3>1, <3>2 DEF FinishMoves, FinishStep
  <2>2. FinishStopped => asked' = {}
    <3>1. FinishStopped => pc["finish"] = "stopped"
      BY DEF FinishStopped
    <3>2. FinishStopped => asked = {}
      BY <3>1 DEF OrderRecorder
    <3>3. FinishStopped => UNCHANGED asked
      BY <3>1, QuietFinish DEF RetryInv, Quiet
    <3>. QED
      BY <3>2, <3>3
  <2>3. CASE standby = "prepare" /\ standby' = "prepare"
    <3>1. Local \notin asked
      BY <2>3 DEF OrderReplay
    <3>2. ~StandbyStarted
      BY <2>3 DEF StandbyStarted
    <3>3. CallAsk \/ Replay \/ FeedDirect \/ AttachFeed => Local \notin asked'
      BY <1>1, <3>1 DEF CallAsk, Replay, FeedDirect, AttachFeed
    <3>. QED
      BY AudioFrame, <3>1, <3>2, <3>3
  <2>. QED
    BY <2>1, <2>2, <2>3
<1>. QED
    BY <1>6, <1>7 DEF OrderReplay

(* Every step keeps OrderCloud.                                             *)
LEMMA OrderCloudStep ==
    ASSUME TypeOK, AttachInv, RetryInv, OrderInv, [Next]_vars
    PROVE  /\ OrderCloud'
           /\ attach.pc # "ok" /\ attach'.pc = "ok" => Len(fed'[Cloud]) = audio'.spoken
<1>. DEFINE f == fed[Cloud]
            Goal == /\ OrderCloud'
                    /\ attach.pc # "ok" /\ attach'.pc = "ok" => Len(fed'[Cloud]) = audio'.spoken
<1>1. /\ AudioAt(f, attach.pc, attach.pcm, buffer.state, buffer.pcm, audio.spoken, audio.feeding)
      /\ buffer \in BufferType /\ attach \in AttachType /\ audio \in AudioType
      /\ fed \in [Provider -> Seq(Chunks)] /\ Cloud \in Provider /\ Local \in Provider
      /\ Retry \subseteq Provider
      /\ pc["finish"] = "feed" => attempt \in Retry
      /\ buffer.state \in {"buffering", "attaching", "direct", "failed", "cancelled"}
      /\ attach.pc \in AttachPc /\ <<>> \in Seq(Chunks)
    BY BoundsAssumption DEF TypeOK, BufferTypeOK, AudioAt, BufferType, AttachType, AudioType,
       OrderInv, OrderCloud, Provider, Retry, RetryInv, RetryControl
<1>2. AttachBuffer /\ AttachTasks /\ AttachUse /\ OrderCloud
    BY DEF AttachInv, OrderInv
<1>. USE Targets, RetryDistinct
<1>3. ASSUME NEW p \in Provider, NEW s, Feed(p, s)
      PROVE  /\ fed'[p] = fed[p] \o s
             /\ \A q \in Provider \ {p} : fed'[q] = fed[q]
    BY <1>1, <1>3 DEF Feed
<1>4. ASSUME NEW x \in AttachPc, NEW s \in Seq(Chunks)
      PROVE  /\ attach' = [attach EXCEPT !.pc = x] => attach'.pc = x /\ attach'.pcm = attach.pcm
             /\ attach' = [attach EXCEPT !.pc = x, !.pcm = s] => attach'.pc = x /\ attach'.pcm = s
    BY <1>1, <1>4 DEF AttachType
<1>5. ASSUME UNCHANGED bufferVars, audio' = audio, fed'[Cloud] = fed[Cloud]
      PROVE  Goal
    BY <1>2, <1>5 DEF bufferVars, OrderCloud
<1>6. CASE Speaking
  <2>. DEFINE n == audio.spoken
  <2>1. /\ audio.feeding = 0 /\ n + 1 \in Chunks /\ UNCHANGED <<attach, fed>>
        /\ buffer' = IF buffer.state \in {"buffering", "attaching"}
                     THEN [buffer EXCEPT !.pcm = Append(buffer.pcm, n + 1)] ELSE buffer
    BY <1>6, Zenon DEF Speaking, Speak, providerVars
  <2>2. PICK heard : audio' = [spoken |-> n + 1, heard |-> heard,
                               feeding |-> IF buffer.state = "direct" THEN n + 1 ELSE 0]
    BY <1>6, Zenon DEF Speaking, Speak
  <2>3. audio'.spoken = n + 1 /\ audio'.feeding = IF buffer.state = "direct" THEN n + 1 ELSE 0
    BY <2>2
  <2>4. /\ buffer'.state = buffer.state
        /\ buffer'.pcm = IF buffer.state \in {"buffering", "attaching"}
                         THEN Append(buffer.pcm, n + 1) ELSE buffer.pcm
    BY <1>1, <2>1 DEF BufferType
  <2>5. AudioAt(f, attach.pc, attach.pcm, buffer.state, buffer.pcm, n, 0)
    BY <1>1, <2>1
  <2>6. CloudOrder(f, attach.pc, attach.pcm, buffer'.state, buffer'.pcm, audio'.spoken,
                   audio'.feeding)
    BY <1>1, <2>1, <2>3, <2>4, <2>5, OrderSpoken
  <2>. QED
    BY <2>1, <2>6 DEF OrderCloud
<1>7. CASE FeedDirect
  <2>1. /\ audio.feeding # 0 /\ attach.pc = "ok" /\ buffer.state \in {"direct", "cancelled"}
        /\ UNCHANGED bufferVars /\ Feed(Cloud, <<audio.feeding>>)
        /\ audio' = [audio EXCEPT !.feeding = 0]
    BY <1>2, <1>7 DEF FeedDirect, AttachUse, AttachBuffer
  <2>2. audio'.spoken = audio.spoken /\ audio'.feeding = 0
    BY <1>1, <2>1 DEF AudioType
  <2>3. CloudOrder(f \o <<audio.feeding>>, attach.pc, attach.pcm, buffer.state, buffer.pcm,
                   audio.spoken, 0)
    BY <1>1, <2>1, OrderFed
  <2>. QED
    BY <1>1, <1>3, <2>1, <2>2, <2>3 DEF OrderCloud, bufferVars
<1>8. CASE AttachFeed
  <2>1. /\ attach.pc = "feed" /\ audio.feeding = 0 /\ buffer.state \in {"attaching", "cancelled"}
        /\ UNCHANGED <<buffer, audio>> /\ Feed(Cloud, attach.pcm)
        /\ attach' = [attach EXCEPT !.pc = "look", !.pcm = <<>>]
    BY <1>2, <1>8 DEF AttachFeed, AttachUse, AttachBuffer
  <2>2. attach'.pc = "look" /\ attach'.pcm = <<>>
    BY <1>1, <1>4, <2>1 DEF AttachPc
  <2>3. CloudOrder(f \o attach.pcm, "look", <<>>, buffer.state, buffer.pcm, audio.spoken,
                   audio.feeding)
    BY <1>1, <2>1, OrderFed
  <2>. QED
    BY <1>1, <1>3, <2>1, <2>2, <2>3 DEF OrderCloud
<1>9. ASSUME UNCHANGED <<audio, fed, attach>>,
             \/ UNCHANGED buffer
             \/ buffer' = [state |-> "cancelled", pcm |-> <<>>]
      PROVE  Goal
  <2>1. CASE UNCHANGED buffer
    BY <1>5, <1>9, <2>1 DEF bufferVars
  <2>2. CASE buffer' = [state |-> "cancelled", pcm |-> <<>>]
    <3>1. CloudOrder(f, attach.pc, attach.pcm, "cancelled", <<>>, audio.spoken, audio.feeding)
      BY <1>1, OrderMoves
    <3>. QED
      BY <1>9, <2>2, <3>1 DEF OrderCloud
  <2>. QED
    BY <1>9, <2>1, <2>2
<1>10. CASE StartBuild \/ CancelDrop \/ \E t \in Task : Close(t)
    BY <1>9, <1>10 DEF StartBuild, CancelDrop, Close, TakeCancelState
<1>11. ASSUME NEW owner, BeginAttach(owner), attach.pc = "none", buffer.state = "buffering",
              UNCHANGED <<audio, fed>>
       PROVE  Goal
  <2>1. CloudOrder(f, "check", buffer.pcm, "attaching", <<>>, audio.spoken, audio.feeding)
    BY <1>1, <1>11, OrderMoves
  <2>2. /\ buffer'.state = "attaching" /\ buffer'.pcm = <<>>
        /\ attach'.pc = "check" /\ attach'.pcm = buffer.pcm
    BY <1>11 DEF BeginAttach
  <2>. QED
    BY <1>11, <2>1, <2>2 DEF OrderCloud
<1>12. CASE StartAttach
  <2>1. attach.pc = "none" /\ UNCHANGED <<audio, fed>>
    BY <1>2, <1>12 DEF StartAttach, AttachTasks, Early, providerVars
  <2>2. Cancelled \/ buffer.state = "buffering"
    BY <1>2, <2>1 DEF AttachBuffer, Cancelled
  <2>3. UNCHANGED bufferVars \/ (~Cancelled /\ \E owner : BeginAttach(owner))
    BY <1>12 DEF StartAttach
  <2>. QED
    BY <1>5, <1>11, <2>1, <2>2, <2>3
<1>13. CASE FinishStopped
  <2>1. UNCHANGED bufferVars \/ (buffer.state = "buffering" /\ BeginAttach("finish"))
    BY <1>13 DEF FinishStopped, Transcribe
  <2>2. buffer.state = "buffering" => attach.pc = "none"
    BY <1>1, <1>2 DEF AttachBuffer, AttachPc
  <2>3. UNCHANGED <<audio, fed>>
    BY <1>13 DEF FinishStopped, providerVars
  <2>. QED
    BY <1>5, <1>11, <2>1, <2>2, <2>3
<1>14. ASSUME UNCHANGED <<buffer, audio, fed>>, attach' = [attach EXCEPT !.pc = "error"],
              attach.pc \in {"check", "start", "look", "feed"}
       PROVE  Goal
  <2>1. buffer.state \in {"attaching", "cancelled"}
    BY <1>2, <1>14 DEF AttachBuffer
  <2>2. CloudOrder(f, "error", attach.pcm, buffer.state, buffer.pcm, audio.spoken, audio.feeding)
    BY <1>1, <2>1, OrderMoves
  <2>3. attach'.pc = "error" /\ attach'.pcm = attach.pcm
    BY <1>1, <1>4, <1>14 DEF AttachPc
  <2>. QED
    BY <1>14, <2>2, <2>3 DEF OrderCloud
<1>15. ASSUME NEW x \in {"start", "look", "feed"}, UNCHANGED <<buffer, audio, fed>>,
              attach' = [attach EXCEPT !.pc = x],
              attach.pc \in {"check", "start", "look", "feed"}
       PROVE  Goal
  <2>1. CloudOrder(f, x, attach.pcm, buffer.state, buffer.pcm, audio.spoken, audio.feeding)
    BY <1>1, <1>15, OrderMoves
  <2>2. attach'.pc = x /\ attach'.pcm = attach.pcm
    BY <1>1, <1>4, <1>15 DEF AttachPc
  <2>. QED
    BY <1>15, <2>1, <2>2 DEF OrderCloud
<1>16. CASE StandbyAnswered
  <2>1. UNCHANGED <<buffer, audio, fed>>
        /\ (UNCHANGED attach \/ (attach.pc = "start" /\ attach' = [attach EXCEPT !.pc = "error"]))
    BY <1>16 DEF StandbyAnswered, DropAttach, AttachEnds
  <2>. QED
    BY <1>9, <1>14, <2>1
<1>17. CASE AttachCheck
    BY <1>14, <1>15, <1>17 DEF AttachCheck, AttachEnds, providerVars
<1>18. CASE AttachStarted
  <2>1. UNCHANGED <<audio, fed>> /\ attach.pc = "start"
    BY <1>18 DEF AttachStarted
  <2>2. CASE UNCHANGED buffer
    <3>1. attach' = [attach EXCEPT !.pc = "look"] \/ attach' = [attach EXCEPT !.pc = "error"]
      BY <1>18 DEF AttachStarted, AttachEnds
    <3>. QED
      BY <1>14, <1>15, <2>1, <2>2, <3>1
  <2>3. CASE ~UNCHANGED buffer
    <3>1. /\ buffer' = [state |-> "failed", pcm |-> <<>>]
          /\ attach' = [attach EXCEPT !.pc = "error"]
      BY <1>18, <2>3 DEF AttachStarted, AttachEnds
    <3>2. CloudOrder(f, attach.pc, attach.pcm, "failed", <<>>, audio.spoken, audio.feeding)
      BY <1>1, OrderMoves
    <3>3. AudioAt(f, attach.pc, attach.pcm, "failed", <<>>, audio.spoken, audio.feeding)
      BY <1>1, <3>2 DEF AudioAt
    <3>4. CloudOrder(f, "error", attach.pcm, "failed", <<>>, audio.spoken, audio.feeding)
      BY <3>3, OrderMoves
    <3>5. attach'.pc = "error" /\ attach'.pcm = attach.pcm
      BY <1>1, <1>4, <3>1 DEF AttachPc
    <3>. QED
      BY <2>1, <3>1, <3>4, <3>5 DEF OrderCloud
  <2>. QED
    BY <2>2, <2>3
<1>19. CASE AttachLook
  <2>1. attach.pc = "look" /\ UNCHANGED <<audio, fed>> /\ audio.feeding = 0
    BY <1>2, <1>19 DEF AttachLook, AttachUse
  <2>2. ~Cancelled => buffer.state = "attaching"
    BY <1>2, <2>1 DEF AttachBuffer, Cancelled
  <2>3. \/ UNCHANGED buffer /\ attach' = [attach EXCEPT !.pc = "error"]
        \/ UNCHANGED buffer /\ attach' = [attach EXCEPT !.pc = "feed"]
        \/ /\ ~Cancelled /\ attach.pcm = <<>> /\ buffer' = [buffer EXCEPT !.pcm = <<>>]
           /\ attach' = [attach EXCEPT !.pc = "feed", !.pcm = buffer.pcm]
        \/ /\ ~Cancelled /\ attach.pcm = <<>> /\ buffer.pcm = <<>>
           /\ buffer' = [buffer EXCEPT !.state = "direct"]
           /\ attach' = [attach EXCEPT !.pc = "ok"]
    BY <1>19 DEF AttachLook, AttachEnds
  <2>4. CASE /\ ~Cancelled /\ attach.pcm = <<>> /\ buffer' = [buffer EXCEPT !.pcm = <<>>]
             /\ attach' = [attach EXCEPT !.pc = "feed", !.pcm = buffer.pcm]
    <3>1. CloudOrder(f, "feed", buffer.pcm, buffer.state, <<>>, audio.spoken, audio.feeding)
      BY <1>1, <2>1, <2>2, <2>4, OrderMoves
    <3>2. /\ buffer'.state = buffer.state /\ buffer'.pcm = <<>> /\ buffer.pcm \in Seq(Chunks)
      BY <1>1, <2>4 DEF BufferType
    <3>3. attach'.pc = "feed" /\ attach'.pcm = buffer.pcm
      BY <1>1, <1>4, <2>4, <3>2 DEF AttachPc
    <3>. QED
      BY <2>1, <3>1, <3>2, <3>3 DEF OrderCloud
  <2>5. CASE /\ ~Cancelled /\ attach.pcm = <<>> /\ buffer.pcm = <<>>
             /\ buffer' = [buffer EXCEPT !.state = "direct"]
             /\ attach' = [attach EXCEPT !.pc = "ok"]
    <3>1. /\ CloudOrder(f, "ok", attach.pcm, "direct", buffer.pcm, audio.spoken, audio.feeding)
          /\ Len(f) = audio.spoken
      BY <1>1, <2>1, <2>2, <2>5, OrderMoves
    <3>2. buffer'.state = "direct" /\ buffer'.pcm = buffer.pcm
      BY <1>1, <2>5 DEF BufferType
    <3>3. attach'.pc = "ok" /\ attach'.pcm = attach.pcm
      BY <1>1, <1>4, <2>5 DEF AttachPc
    <3>. QED
      BY <2>1, <3>1, <3>2, <3>3 DEF OrderCloud
  <2>. QED
    BY <1>14, <1>15, <2>1, <2>3, <2>4, <2>5
<1>20. CASE UNCHANGED bufferVars
  <2>1. CASE UNCHANGED audio
    <3>1. CASE UNCHANGED fed
      BY <1>5, <1>20, <2>1, <3>1
    <3>2. CASE CallAsk
      BY <1>5, <1>20, <2>1, <3>2 DEF CallAsk
    <3>3. CASE Replay
      <4>1. UNCHANGED fed \/ (Feed(attempt, Recording) /\ attempt \in Retry)
        BY <1>1, <3>3 DEF Replay
      <4>2. fed'[Cloud] = fed[Cloud]
        BY <1>1, <1>3, <4>1
      <4>. QED
        BY <1>5, <1>20, <2>1, <4>2
    <3>4. CASE StandbyStarted
      <4>1. fed'[Cloud] = fed[Cloud]
        BY <1>1, <1>3, <3>4 DEF StandbyStarted
      <4>. QED
        BY <1>5, <1>20, <2>1, <4>1
    <3>. QED
      BY <1>7, <1>8, <3>1, <3>2, <3>3, <3>4, AudioFrame
  <2>. QED
    BY <1>6, <1>7, <2>1, AudioFrame
<1>. QED
    BY BufferFrame, <1>6, <1>8, <1>10, <1>12, <1>13, <1>16, <1>17, <1>18, <1>19, <1>20
       DEF AttachStep

(* Every step keeps OrderAsked.                                             *)
LEMMA OrderAskedStep ==
    ASSUME TypeOK, AttachInv, RetryInv, LateInv, OrderInv, [Next]_vars
    PROVE  OrderAsked'
<1>1. /\ OrderRecorder /\ OrderAsked /\ OrderCloud
      /\ recording = "closed" => UNCHANGED audio
    BY OrderRecorderStep DEF OrderInv
<1>2. /\ fed \in [Provider -> Seq(Chunks)] /\ Cloud \in Provider /\ Local \in Provider
      /\ Retry \subseteq Provider
      /\ pc["finish"] = "feed" => attempt \in Retry
      /\ audio.spoken \in Nat /\ audio.feeding \in Nat
    BY BoundsAssumption DEF TypeOK, BufferTypeOK, Provider, Retry, RetryInv, RetryControl
<1>. USE Targets, RetryDistinct
<1>3. ASSUME recording = "closed", attach.pc = "ok", Len(fed[Cloud]) = audio.spoken
      PROVE  Len(fed'[Cloud]) = audio'.spoken
  <2>1. ASSUME NEW q \in Provider \ {Cloud}, NEW s, Feed(q, s)
        PROVE  fed'[Cloud] = fed[Cloud]
    BY <1>2, <2>1 DEF Feed
  <2>2. CASE UNCHANGED fed
    BY <1>1, <1>3, <2>2
  <2>3. CASE CallAsk \/ Replay \/ StandbyStarted
    <3>1. fed'[Cloud] = fed[Cloud]
      BY <1>2, <2>1, <2>3 DEF CallAsk, Replay, StandbyStarted
    <3>. QED
      BY <1>1, <1>3, <3>1
  <2>4. CASE FeedDirect \/ AttachFeed
    BY <1>1, <1>3, <2>4 DEF FeedDirect, AttachFeed, OrderRecorder
  <2>. QED
    BY AudioFrame, <2>2, <2>3, <2>4
<1>4. ASSUME recording = "closed", buffer.state = "direct"
      PROVE  attach.pc = "ok" /\ Len(fed[Cloud]) = audio.spoken
  <2>1. attach.pc = "ok"
    BY <1>4 DEF AttachInv, AttachBuffer, TypeOK, BufferTypeOK, AttachPc
  <2>2. audio.feeding = 0
    BY <1>1, <1>4 DEF OrderRecorder
  <2>3. audio.spoken = Len(fed[Cloud]) + 0
    BY <1>1, <1>4, <2>2 DEF OrderCloud, CloudOrder
  <2>. QED
    BY <1>2, <2>1, <2>3
<1>5. ASSUME call' \in {"ask", "answer"} \/ Cloud \in asked'
             \/ (call' = "attach" /\ attach.pc = "ok" /\ call = "attach")
      PROVE  recording = "closed" /\ attach.pc = "ok" /\ Len(fed[Cloud]) = audio.spoken
  <2>1. CASE call \in {"ask", "answer"} \/ Cloud \in asked \/ (call = "attach" /\ attach.pc = "ok")
    <3>1. recording = "closed" /\ Len(fed[Cloud]) = audio.spoken
      BY <1>1, <2>1 DEF OrderRecorder, OrderAsked
    <3>. QED
      BY <2>1, <3>1 DEF LateInv, AttachInv, AttachUse
  <2>2. CASE /\ call \notin {"ask", "answer"} /\ Cloud \notin asked
             /\ ~(call = "attach" /\ attach.pc = "ok")
    <3>1. FinishStopped => UNCHANGED asked /\ recording = "closed"
      BY <1>1, QuietFinish DEF FinishStopped, Quiet, RetryInv, OrderRecorder
    <3>2. CallAttached => UNCHANGED asked /\ recording = "closed"
      BY <1>1 DEF CallAttached, OrderRecorder, outer, providerVars
    <3>3. FinishStopped /\ call' \in {"ask", "answer"} => UNCHANGED call \/ buffer.state = "direct"
      BY DEF FinishStopped, Transcribe
    <3>4. CallAttached /\ call' \in {"ask", "answer"} => buffer.state = "direct"
      BY <2>2 DEF CallAttached
    <3>5. CASE FinishStopped \/ CallAttached
      BY <1>4, <1>5, <2>2, <3>1, <3>2, <3>3, <3>4, <3>5
    <3>6. ~CallAsk
      BY <2>2 DEF CallAsk
    <3>7. CASE ~FinishStopped /\ ~CallAttached
      <4>1. call' \notin {"ask", "answer"}
        <5>1. \/ FinishBegin \/ FinishTake \/ FinishStop \/ CallSettled \/ LocalSkipped
              \/ FinishTranscribed \/ Backoff \/ Register \/ Replay \/ Again
              \/ ReleaseStep("finish") \/ EndsInError("finish") \/ Restarted \/ RetryAnswered
              \/ StandbyFailed \/ StandbyStarted
              => UNCHANGED call
          BY DEF FinishBegin, FinishTake, FinishStop, CallSettled, LocalSkipped,
             FinishTranscribed, Backoff, Register, Replay, Again, ReleaseStep, LetGo, Close, Join,
             Woken, EndsInError, Restarted, RetryAnswered, StandbyFailed, StandbyStarted, PcOnly,
             raceVars
        <5>2. CallWait \/ CallAnswered \/ StandbyAnswered
              => UNCHANGED call \/ call' \notin {"ask", "answer"}
          BY DEF CallWait, CallAnswered, StandbyAnswered, Result
        <5>. QED
          BY TaskFrame, <2>2, <3>6, <3>7, <5>1, <5>2 DEF FinishMoves, FinishStep
      <4>2. Cloud \notin asked'
        BY <1>2, <2>2, <3>6, AudioFrame DEF Replay, StandbyStarted, FeedDirect, AttachFeed
      <4>. QED
        BY <1>5, <2>2, <4>1, <4>2
    <3>. QED
      BY <3>5, <3>7
  <2>. QED
    BY <2>1, <2>2
<1>6. ASSUME call' = "attach", attach'.pc = "ok", attach.pc = "ok", call # "attach"
      PROVE  FALSE
  <2>1. CASE FinishStopped
    <3>1. call' = "attach" => UNCHANGED call \/ (buffer.state = "buffering" /\ BeginAttach("finish"))
      BY <2>1 DEF FinishStopped, Transcribe
    <3>. QED
      BY <1>6, <3>1 DEF BeginAttach
  <2>2. CASE CallAttached \/ CallAsk \/ CallWait \/ CallAnswered \/ StandbyAnswered
    BY <1>6, <2>2 DEF CallAttached, CallAsk, CallWait, CallAnswered, StandbyAnswered, Result
  <2>3. \/ FinishBegin \/ FinishTake \/ FinishStop \/ CallSettled \/ LocalSkipped
        \/ FinishTranscribed \/ Backoff \/ Register \/ Replay \/ Again
        \/ ReleaseStep("finish") \/ EndsInError("finish") \/ Restarted \/ RetryAnswered
        \/ StandbyFailed \/ StandbyStarted
        => UNCHANGED call
    BY DEF FinishBegin, FinishTake, FinishStop, CallSettled, LocalSkipped,
       FinishTranscribed, Backoff, Register, Replay, Again, ReleaseStep, LetGo, Close, Join,
       Woken, EndsInError, Restarted, RetryAnswered, StandbyFailed, StandbyStarted, PcOnly,
       raceVars
  <2>. QED
    BY TaskFrame, <1>6, <2>1, <2>2, <2>3 DEF FinishMoves, FinishStep
<1>. QED
    BY <1>3, <1>5, <1>6, OrderCloudStep DEF OrderAsked

(* Every step keeps OrderInv.                                               *)
LEMMA OrderStep ==
    ASSUME TypeOK, AttachInv, RetryInv, LateInv, OrderInv, [Next]_vars
    PROVE  OrderInv'
    BY OrderRecorderStep, OrderReplayStep, OrderCloudStep, OrderAskedStep DEF OrderInv

----------------------------------------------------------------------------
(* The tasks, step by step.                                                 *)

(* What no task does leaves every task and the session alone.                *)
Rests ==
    /\ UNCHANGED <<sessionVars, taskVars, verdict, attempt>>
    /\ UNCHANGED <<call, standby>> \/ CallAnswered \/ StandbyStarted

(* Every step is one of a task or rests.                                    *)
LEMMA MoversFrame ==
    ASSUME [Next]_vars
    PROVE  StartMoves \/ FinishMoves \/ CancelMoves \/ Rests
<1>1. CallAnswered \/ StandbyStarted \/ Outside \/ UNCHANGED vars => Rests
    BY DEF CallAnswered, StandbyStarted, Outside, vars, raceVars, Rests
<1>. QED
    BY <1>1 DEF Next, TaskStep, ProviderStep, Speaking, StartMoves, FinishMoves, CancelMoves

(* The task t goes from p to q.                                             *)
Goes(t, p, q) == pc[t] = p /\ pc'[t] = q

(* The steps of the release of t.                                           *)
Releases(t) ==
    /\ UNCHANGED <<then, target, attempt, registered, transcription, recording, call, standby>>
    /\ \/ Goes(t, "letgo", then[t]) /\ Shielded /\ UNCHANGED flags
       \/ Goes(t, "letgo", "close") /\ ~Shielded /\ Raise("once")
       \/ /\ Goes(t, "close", then[t]) \/ Goes(t, "close", "join")
          /\ UNCHANGED flags
          /\ target[t] = Cloud => TakeCancelState
          /\ target[t] # Cloud => Ends(target[t], "cancelled") /\ Goes(t, "close", then[t])
       \/ (Goes(t, "join", "asleep") \/ Goes(t, "asleep", then[t])) /\ UNCHANGED flags

(* The actions of a release take these steps.                               *)
LEMMA ReleaseGoes ==
    ASSUME TypeOK, NEW t \in Task, ReleaseStep(t)
    PROVE  Releases(t)
<1>1. pc \in [Task -> Pc]
    BY DEF TypeOK
<1>2. ASSUME NEW p, At(t, p)
      PROVE  pc'[t] = p
    BY <1>1, <1>2 DEF At
<1>. USE DEF PcOnly, sessionVars, raceVars
<1>3. CASE LetGo(t)
    BY <1>2, <1>3 DEF LetGo, Releases, Goes, Shielded
<1>4. CASE Close(t)
    BY <1>2, <1>4 DEF Close, Releases, Goes
<1>5. CASE Join(t) \/ Woken(t)
    BY <1>2, <1>5 DEF Join, Woken, Releases, Goes
<1>. QED
    BY <1>3, <1>4, <1>5 DEF ReleaseStep

(* The steps of start.                                                      *)
StartGoing ==
    \/ Goes("start", "idle", "build") /\ registered' /\ UNCHANGED flags
    \/ /\ UNCHANGED <<flags, registered>>
       /\ \/ Goes("start", "build", "open")
          \/ Goes("start", "open", "store")
          \/ Goes("start", "store", "stop")
          \/ Goes("start", "store", "prepare") /\ recording' = "stored"
          \/ pc["start"] \in {"prepare", "attach", "attached"} /\ UNCHANGED recording
             /\ pc'["start"] \in {"attach", "attached", "check", "undo"}
          \/ pc["start"] = "check" /\ pc'["start"] \in {"undo", "ok"} /\ UNCHANGED recording
          \/ Goes("start", "undo", "stop")
          \/ pc["start"] \in {"open", "undo", "stop"} /\ pc'["start"] = "letgo"
             /\ target'["start"] = Cloud
    \/ Goes("start", "build", "error") /\ ~registered' /\ TakeCancelState /\ UNCHANGED flags
    \/ Goes("start", "end", "error") /\ ~registered' /\ UNCHANGED flags
    \/ Releases("start")

(* The actions of start take these steps.                                   *)
LEMMA StartGoes ==
    ASSUME TypeOK, StartMoves
    PROVE  /\ pc'["finish"] = pc["finish"] /\ pc'["cancel"] = pc["cancel"]
           /\ UNCHANGED <<call, attempt, standby>>
           /\ StartGoing
<1>1. /\ pc \in [Task -> Pc] /\ target \in [Task -> Provider \cup {None}]
      /\ Task = {"start", "finish", "cancel"}
    BY DEF TypeOK, Task
<1>2. ASSUME NEW p, At("start", p)
      PROVE  pc'["start"] = p /\ pc'["finish"] = pc["finish"] /\ pc'["cancel"] = pc["cancel"]
    BY <1>1, <1>2 DEF At
<1>3. ASSUME NEW next, Release("start", Cloud, next)
      PROVE  /\ pc'["start"] = "letgo" /\ target'["start"] = Cloud
             /\ pc'["finish"] = pc["finish"] /\ pc'["cancel"] = pc["cancel"]
    BY <1>1, <1>3 DEF Release, At
<1>. USE DEF PcOnly, sessionVars, raceVars
<1>4. CASE StartBegin \/ StartStore \/ StartCheck \/ EndsInError("start")
    BY <1>2, <1>4 DEF StartBegin, StartStore, StartCheck, EndsInError, Forget, StartGoing, Goes
<1>5. CASE StartBuild
    BY <1>2, <1>5 DEF StartBuild, Forget, StartGoing, Goes
<1>6. CASE StartPrepare \/ StartAttach \/ StartAttached
    BY <1>2, <1>6 DEF StartPrepare, StartAttach, StartAttached, StartGoing, Goes
<1>7. CASE StartOpen \/ StartUndo \/ StartStop
    BY <1>2, <1>3, <1>7 DEF StartOpen, StartUndo, StartStop, StartGoing, Goes
<1>8. CASE ReleaseStep("start")
  <2>1. pc'["finish"] = pc["finish"] /\ pc'["cancel"] = pc["cancel"]
    BY <1>2, <1>8 DEF ReleaseStep, LetGo, Close, Join, Woken
  <2>. QED
    BY <1>1, <1>8, <2>1, ReleaseGoes DEF StartGoing, Releases
<1>. QED
    BY <1>4, <1>5, <1>6, <1>7, <1>8 DEF StartMoves, StartStep

(* The steps of finish up to the call of the recognizer.                    *)
FinishEarly ==
    /\ UNCHANGED <<flags, attempt>>
    /\ \/ Goes("finish", "idle", "take") /\ UNCHANGED <<registered, recording, standby>>
          /\ pc["start"] = "ok"
       \/ /\ Goes("finish", "idle", "error") /\ pc["start"] = "ok" /\ UNCHANGED standby
          /\ ~registered' /\ (registered => Flagged("cancelled"))
       \/ Goes("finish", "take", "stop") /\ UNCHANGED <<registered, standby>>
       \/ Goes("finish", "take", "error") /\ recording # "stored" /\ UNCHANGED <<registered, standby>>
       \/ Goes("finish", "stop", "stopped") /\ UNCHANGED <<registered, standby>>
       \/ /\ Goes("finish", "stopped", "letgo") /\ UNCHANGED <<registered, standby>>
          /\ target'["finish"] = Cloud /\ then'["finish"] = "end"
       \/ Goes("finish", "stopped", "error") /\ Inactive /\ UNCHANGED <<registered, standby>>
       \/ Goes("finish", "stopped", "race") /\ UNCHANGED registered
          /\ call' \notin {"text", "empty"}

(* Those of the race and of what follows it.                                *)
FinishRacing ==
    \/ /\ UNCHANGED <<flags, attempt, registered>>
       /\ \/ /\ Goes("finish", "race", "race")
             /\ UNCHANGED call \/ call' \notin {"text", "empty"}
             /\ standby' = "off" \/ UNCHANGED standby
          \/ /\ Goes("finish", "race", "letgo") /\ target'["finish"] = Cloud
             /\ \/ then'["finish"] = "local" /\ UNCHANGED standby
                \/ then'["finish"] = "transcribed" /\ standby' = "off"
          \/ /\ pc["finish"] \in {"spare", "local"} /\ pc'["finish"] = "transcribed"
             /\ standby' = "off"
    \/ /\ UNCHANGED <<attempt, registered>> /\ Raise("finished")
       /\ pc["finish"] = "race" /\ call \in {"text", "empty"}
       /\ \/ pc'["finish"] = "transcribed" /\ standby' = "off"
          \/ pc'["finish"] = "spare" /\ UNCHANGED standby
    \/ /\ UNCHANGED <<flags, registered>> /\ standby' = "off"
       /\ \/ Goes("finish", "local", "end") /\ UNCHANGED attempt
          \/ Goes("finish", "local", "backoff") /\ attempt' = 1
    \/ /\ UNCHANGED <<flags, attempt, standby>>
       /\ pc["finish"] = "transcribed" /\ pc'["finish"] \in {"ok", "error"}
       /\ ~registered' \/ (UNCHANGED registered /\ Inactive /\ pc'["finish"] = "error")

(* Those of the retries.                                                    *)
FinishRetrying ==
    /\ UNCHANGED <<registered, standby>>
    /\ \/ /\ UNCHANGED <<flags, attempt>>
          /\ \/ Goes("finish", "backoff", "restart") /\ ~Flagged("cancelled")
             \/ Goes("finish", "backoff", "end") \/ Goes("finish", "restart", "end")
             \/ Goes("finish", "restart", "register")
             \/ Goes("finish", "register", "end") /\ Ends(attempt, "cancelled")
             \/ /\ Goes("finish", "feed", "letgo")
                /\ target'["finish"] = attempt /\ then'["finish"] = "end"
             \/ Goes("finish", "feed", "answer")
             \/ /\ Goes("finish", "answer", "letgo") /\ Ends(attempt, "finished")
                /\ target'["finish"] = attempt /\ then'["finish"] \in {"end", "again"}
       \/ /\ Goes("finish", "register", "feed") /\ UNCHANGED attempt /\ ~Flagged("cancelled")
          /\ flags' = flags \ {"once", "finished"}
       \/ /\ Goes("finish", "answer", "transcribed") /\ Ends(attempt, "finished")
          /\ UNCHANGED attempt /\ Raise("finished")
       \/ /\ pc["finish"] \in {"restart", "again"} /\ pc'["finish"] = "backoff"
          /\ UNCHANGED flags /\ attempt' = attempt + 1

(* The steps of finish.                                                     *)
FinishGoing ==
    \/ FinishEarly \/ FinishRacing \/ FinishRetrying \/ Releases("finish")
    \/ /\ Goes("finish", "end", "error") /\ ~registered'
       /\ UNCHANGED <<flags, attempt, standby>>

(* The actions of finish take these steps.                                  *)
LEMMA FinishGoes ==
    ASSUME TypeOK, FinishMoves
    PROVE  /\ pc'["start"] = pc["start"] /\ pc'["cancel"] = pc["cancel"]
           /\ UNCHANGED transcription \/ Register
           /\ FinishGoing
<1>. DEFINE Goal == /\ pc'["start"] = pc["start"] /\ pc'["cancel"] = pc["cancel"]
                    /\ UNCHANGED transcription \/ Register
                    /\ FinishGoing
<1>1. /\ pc \in [Task -> Pc] /\ target \in [Task -> Provider \cup {None}]
      /\ then \in [Task -> Pc] /\ Task = {"start", "finish", "cancel"}
    BY DEF TypeOK, Task
<1>2. ASSUME NEW p, At("finish", p)
      PROVE  /\ pc'["finish"] = p /\ pc'["start"] = pc["start"]
             /\ pc'["cancel"] = pc["cancel"]
    BY <1>1, <1>2 DEF At
<1>3. ASSUME NEW next, NEW provider, Release("finish", provider, next)
      PROVE  /\ pc'["finish"] = "letgo" /\ target'["finish"] = provider
             /\ then'["finish"] = next
             /\ pc'["start"] = pc["start"] /\ pc'["cancel"] = pc["cancel"]
    BY <1>1, <1>3 DEF Release, At
<1>. USE DEF PcOnly, sessionVars, raceVars, Goes
<1>4. CASE FinishBegin \/ FinishTake \/ FinishStop
  <2>1. FinishEarly
    BY <1>2, <1>4 DEF FinishBegin, FinishTake, FinishStop, Forget, FinishEarly
  <2>. QED
    BY <1>2, <1>4, <2>1 DEF FinishBegin, FinishTake, FinishStop, Forget, FinishGoing
<1>5. CASE FinishStopped
  <2>1. Transcribe => call' \notin {"text", "empty"}
    BY DEF Transcribe
  <2>2. FinishEarly
    BY <1>2, <1>3, <1>5, <2>1 DEF FinishStopped, FinishEarly
  <2>. QED
    BY <1>2, <1>3, <1>5, <2>2 DEF FinishStopped, FinishGoing
<1>6. CASE CallWait \/ CallAttached \/ CallAsk
    BY <1>6 DEF CallWait, CallAttached, CallAsk, taskVars, FinishRacing, FinishGoing
<1>7. CASE CallSettled
  <2>1. FinishRacing
    BY <1>2, <1>3, <1>7 DEF CallSettled, Abandon, FinishRacing
  <2>. QED
    BY <1>2, <1>3, <1>7, <2>1 DEF CallSettled, FinishGoing
<1>8. CASE LocalSkipped \/ StandbyFailed
  <2>1. AfterLocal => \/ pc'["finish"] = "end" /\ UNCHANGED attempt
                      \/ pc'["finish"] = "backoff" /\ attempt' = 1
    BY <1>2 DEF AfterLocal
  <2>2. LocalSkipped => FinishRacing
    BY <2>1 DEF LocalSkipped, Abandon, FinishRacing
  <2>3. StandbyFailed => FinishRacing
    BY <1>2, <2>1 DEF StandbyFailed, Polled, FinishRacing
  <2>4. FinishRacing
    BY <1>8, <2>2, <2>3
  <2>. QED
    BY <1>2, <1>8, <2>4 DEF LocalSkipped, StandbyFailed, AfterLocal, FinishGoing
<1>9. CASE StandbyAnswered
  <2>1. FinishRacing
    BY <1>2, <1>3, <1>9 DEF StandbyAnswered, Polled, FinishRacing
  <2>. QED
    BY <1>2, <1>3, <1>9, <2>1 DEF StandbyAnswered, FinishGoing
<1>10. CASE FinishTranscribed
    BY <1>2, <1>10 DEF FinishTranscribed, Forget, FinishRacing, FinishGoing
<1>11. CASE Backoff \/ Restarted \/ Again
  <2>1. FinishRetrying
    BY <1>2, <1>11 DEF Backoff, Restarted, Again, NextAttempt, FinishRetrying
  <2>. QED
    BY <1>2, <1>11, <2>1 DEF Backoff, Restarted, Again, NextAttempt, FinishGoing
<1>12. CASE Register
  <2>1. FinishRetrying
    BY <1>2, <1>12 DEF Register, FinishRetrying
  <2>. QED
    BY <1>2, <1>12, <2>1 DEF Register, FinishGoing
<1>13. CASE Replay \/ RetryAnswered
  <2>1. FinishRetrying
    BY <1>2, <1>3, <1>13 DEF Replay, RetryAnswered, FinishRetrying
  <2>. QED
    BY <1>2, <1>3, <1>13, <2>1 DEF Replay, RetryAnswered, FinishGoing
<1>14. CASE ReleaseStep("finish")
  <2>1. pc'["start"] = pc["start"] /\ pc'["cancel"] = pc["cancel"]
    BY <1>2, <1>14 DEF ReleaseStep, LetGo, Close, Join, Woken
  <2>. QED
    BY <1>1, <1>14, <2>1, ReleaseGoes DEF FinishGoing, Releases
<1>15. CASE EndsInError("finish")
    BY <1>2, <1>15 DEF EndsInError, Forget, FinishGoing
<1>. QED
    BY <1>4, <1>5, <1>6, <1>7, <1>8, <1>9, <1>10, <1>11, <1>12, <1>13, <1>14, <1>15
       DEF FinishMoves, FinishStep

(* What a cancellation does not touch.                                      *)
LEMMA CancelLeaves ==
    ASSUME CancelMoves
    PROVE  /\ UNCHANGED <<call, standby>>
           /\ UNCHANGED registered \/ (CancelRemove /\ ~registered')
    BY DEF CancelMoves, CancelStep, CancelCalled, CancelBegin, CancelTake, CancelStop, CancelDrop,
       CancelRemove, ReleaseStep, LetGo, Close, Join, Woken, PcOnly, sessionVars, raceVars, Forget

(* What is done stays done.                                                 *)
LEMMA DoneStays ==
    ASSUME TypeOK, AttachInv, RetryInv, [Next]_vars, CloudDone
    PROVE  CloudDone'
<1>1. CASE Cancelled
    BY <1>1, AttachBufferStep DEF CloudDone
<1>2. CASE Attached /\ state[Cloud] # "live"
  <2>1. Attached'
    BY <1>2, AttachBufferStep DEF Attached
  <2>2. ~AttachStarted
    BY <1>2 DEF AttachStarted, Attached
  <2>3. Restarted => attempt # Cloud
    BY DEF Restarted, RetryInv, RetryControl, Cloud
  <2>4. Cloud \in Provider
    BY DEF Provider
  <2>5. state'[Cloud] # "live"
    BY <1>2, <2>2, <2>3, <2>4, LiveFrame, Targets
  <2>. QED
    BY <2>1, <2>5 DEF CloudDone
<1>. QED
    BY <1>1, <1>2 DEF CloudDone

(* Every step keeps LeftCloud.                                              *)
LEMMA LeftCloudStep ==
    ASSUME TypeOK, AttachInv, RetryInv, LeftCloud, [Next]_vars
    PROVE  LeftCloud'
<1>. SUFFICES ASSUME attach'.pc \in {"none", "check", "start", "error"}, state'[Cloud] = "live"
              PROVE  FALSE
    BY DEF LeftCloud
<1>1. /\ attach \in AttachType /\ Cloud \in Provider
      /\ state \in [Provider -> {"none", "live", "finished", "cancelled"}]
    BY DEF TypeOK, BufferTypeOK, AttachType, Provider
<1>2. Restarted => attempt # Cloud
    BY DEF Restarted, RetryInv, RetryControl, Cloud
<1>3. ASSUME AttachStarted
      PROVE  FALSE
  <2>1. attach.pc = "start"
    BY <1>3 DEF AttachStarted
  <2>2. state[Cloud] # "live"
    BY <2>1 DEF LeftCloud
  <2>3. UNCHANGED state
    BY <1>1, <1>3 DEF AttachStarted, AttachType
  <2>. QED
    BY <2>2, <2>3
<1>4. state[Cloud] = "live"
    BY <1>1, <1>2, <1>3, LiveFrame, Targets
<1>5. attach.pc \in {"look", "feed", "ok"}
    BY <1>1, <1>4 DEF LeftCloud, AttachType, AttachPc
<1>6. attach.pc \in {"look", "feed"} /\ attach'.pc = "error"
    BY <1>5, AttachBufferStep
<1>7. AttachLook
  <2>1. ~UNCHANGED bufferVars
    BY <1>6 DEF bufferVars
  <2>2. ~Speaking
    BY <1>6, Zenon DEF Speaking, Speak
  <2>3. ~StartBuild /\ ~CancelDrop /\ ~\E t \in Task : Close(t)
    BY <1>6 DEF StartBuild, CancelDrop, Close
  <2>4. ~StartAttach /\ ~FinishStopped
    BY <1>6 DEF StartAttach, FinishStopped, Transcribe, BeginAttach, bufferVars
  <2>5. ~StandbyAnswered
    BY <1>6 DEF StandbyAnswered, DropAttach
  <2>6. ~AttachCheck /\ ~AttachStarted
    BY <1>6 DEF AttachCheck, AttachStarted
  <2>7. ~AttachFeed
    BY <1>1, <1>6 DEF AttachFeed, AttachType
  <2>. QED
    BY <2>1, <2>2, <2>3, <2>4, <2>5, <2>6, <2>7, BufferFrame DEF AttachStep
<1>8. Ends(Cloud, "cancelled")
    BY <1>1, <1>6, <1>7 DEF AttachLook, AttachEnds, AttachType
<1>. QED
    BY <1>1, <1>8 DEF Ends

(* Every step keeps LeftRegistry.                                           *)
LEMMA LeftRegistryStep ==
    ASSUME TypeOK, AttachInv, RetryInv, ReachInv, LeftStart, LeftRegistry, [Next]_vars
    PROVE  LeftRegistry'
<1>1. ReachCancel /\ ReachTarget /\ AttachTasks
    BY DEF ReachInv, AttachInv
<1>2. CASE Rests
    BY <1>2 DEF Rests, taskVars, sessionVars, LeftRegistry
<1>3. CASE StartMoves
  <2>1. then["start"] = "end" \/ pc["start"] \notin InRelease
    BY <1>1 DEF AttachTasks
  <2>2. pc["start"] = "idle" => pc["finish"] = "idle" /\ pc["cancel"] = "idle"
    BY <1>1 DEF AttachTasks, ReachCancel
  <2>3. registered' => \/ registered
                       \/ pc["start"] = "idle"
    BY <1>3, StartGoes DEF StartGoing, Releases, Goes
  <2>4. registered' => pc'["start"] \notin {"idle", "error"}
    BY <1>3, <2>1, StartGoes DEF StartGoing, Releases, Goes, InRelease
  <2>. QED
    BY <1>3, <2>2, <2>3, <2>4, StartGoes DEF LeftRegistry
<1>4. CASE FinishMoves
  <2>1. registered' => registered
    BY <1>4, FinishGoes DEF FinishGoing, FinishEarly, FinishRacing, FinishRetrying, Releases
  <2>2. then["finish"] \in {"end", "again", "local", "transcribed"} \/ pc["finish"] \notin InRelease
    BY DEF RetryInv, RetryControl
  <2>3. registered' => pc'["finish"] # "ok"
    BY <1>4, <2>2, FinishGoes DEF FinishGoing, FinishEarly, FinishRacing, FinishRetrying, Releases,
       Goes, InRelease
  <2>4. ASSUME registered', pc'["finish"] = "error"
        PROVE  Inactive \/ (pc["finish"] = "take" /\ recording # "stored")
    BY <1>4, <2>2, <2>4, FinishGoes DEF FinishGoing, FinishEarly, FinishRacing, FinishRetrying,
       Releases, Goes, InRelease
  <2>5. pc["finish"] = "take" /\ recording # "stored" => Flagged("cancelled")
    BY <1>1 DEF AttachTasks, LeftStart
  <2>6. Flagged("cancelled") => pc["cancel"] # "idle"
    BY <1>1 DEF ReachCancel
  <2>. QED
    BY <1>4, <2>1, <2>3, <2>4, <2>5, <2>6, FinishGoes DEF LeftRegistry, Inactive
<1>5. CASE CancelMoves
  <2>1. ReleaseOf(transcription) \in {"remove", "drop", "letgo"}
    BY DEF ReleaseOf
  <2>2. pc'["cancel"] \notin {"idle", "ok", "error"}
    BY <1>1, <1>5, <2>1, CancelGoes
  <2>3. pc'["cancel"] = "returned" /\ registered => CancelRemove
    <3>1. pc'["cancel"] = "returned" /\ registered => pc["cancel"] = "remove"
      BY <1>1, <1>5, <2>1, CancelGoes
    <3>2. pc["cancel"] = "remove" => CancelRemove
      BY <1>5 DEF CancelMoves, CancelStep, CancelCalled, CancelBegin, CancelTake, CancelStop,
         CancelDrop, ReleaseStep, LetGo, Close, Join, Woken
    <3>. QED
      BY <3>1, <3>2
  <2>4. CancelRemove => ~registered'
    BY DEF CancelRemove, Forget
  <2>. QED
    BY <1>1, <1>5, <2>2, <2>3, <2>4, CancelGoes, CancelLeaves DEF LeftRegistry
<1>. QED
    BY <1>2, <1>3, <1>4, <1>5, MoversFrame

(* Every step keeps LeftStart.                                              *)
LEMMA LeftStartStep ==
    ASSUME TypeOK, AttachInv, RetryInv, ReachInv, LeftStart, [Next]_vars
    PROVE  LeftStart'
<1>1. ReachCancel /\ ReachTarget /\ AttachTasks /\ RetryControl
    BY DEF ReachInv, AttachInv, RetryInv
<1>2. (Cancelled => Cancelled') /\ (TakeCancelState => Cancelled')
    BY AttachBufferStep DEF TakeCancelState, Cancelled
<1>3. /\ Raise("once") \/ Raise("finished") => Shielded'
      /\ UNCHANGED flags => Shielded' = Shielded /\ Flagged("cancelled")' = Flagged("cancelled")
      /\ flags' = flags \ {"once", "finished"} => ~Shielded'
      /\ Raise("cancelled") => Shielded' = Shielded
    BY DEF Raise, Flagged, Shielded
<1>4. Flagged("cancelled") => Flagged("cancelled")'
    BY CancelKept
<1>5. CASE Rests
    BY <1>2, <1>5 DEF Rests, taskVars, sessionVars, LeftStart, Shielded, Flagged
<1>6. CASE StartMoves
  <2>1. pc["start"] \in InRelease => then["start"] = "end" /\ target["start"] = Cloud
    BY <1>1 DEF AttachTasks, LeftStart
  <2>2. pc'["start"] \in {"join", "asleep", "end", "error"} => Cancelled'
    BY <1>2, <1>6, <2>1, StartGoes DEF StartGoing, Releases, Goes, InRelease, LeftStart
  <2>3. pc'["start"] \in InRelease => target'["start"] = Cloud
    BY <1>6, <2>1, StartGoes DEF StartGoing, Releases, Goes, InRelease
  <2>4. Shielded' => pc'["start"] \in {"close", "join", "asleep", "end", "error", "ok"}
    BY <1>3, <1>6, <2>1, StartGoes DEF StartGoing, Releases, Goes, InRelease, LeftStart
  <2>5. pc'["start"] \in {"prepare", "attach", "attached", "check", "ok"}
        => \/ recording' = "stored"
           \/ /\ pc["start"] \in {"prepare", "attach", "attached", "check"}
              /\ UNCHANGED <<recording, flags>>
    BY <1>6, <2>1, StartGoes DEF StartGoing, Releases, Goes, InRelease
  <2>6. (pc'["start"] \in {"prepare", "attach", "attached", "check", "ok"}
          /\ pc'["finish"] \in {"idle", "take"})
        => recording' = "stored" \/ Flagged("cancelled")'
    BY <1>4, <1>6, <2>5, StartGoes DEF LeftStart
  <2>. QED
    BY <2>2, <2>3, <2>4, <2>6 DEF LeftStart
<1>7. CASE FinishMoves
  <2>1. pc["start"] = "ok"
    <3>1. pc["finish"] # "idle" \/ pc["start"] = "ok"
      BY <1>7, FinishGoes DEF FinishGoing, FinishEarly, FinishRacing, FinishRetrying, Releases, Goes
    <3>. QED
      BY <1>1, <3>1 DEF AttachTasks
  <2>2. pc'["finish"] \in {"idle", "take"} => pc["finish"] = "idle" /\ UNCHANGED <<flags, recording>>
    <3>1. pc["finish"] \in InRelease => then["finish"] \notin {"idle", "take"}
      BY <1>1 DEF RetryControl
    <3>. QED
      BY <1>7, <3>1, FinishGoes DEF FinishGoing, FinishEarly, FinishRacing, FinishRetrying, Releases,
         Goes, InRelease
  <2>3. pc'["start"] = "ok"
    BY <1>7, <2>1, FinishGoes
  <2>4. recording = "stored" \/ Flagged("cancelled") \/ pc["finish"] \notin {"idle", "take"}
    BY <2>1 DEF LeftStart
  <2>. QED
    BY <1>4, <2>2, <2>3, <2>4 DEF LeftStart, InRelease
<1>8. CASE CancelMoves
  <2>1. Still("start") /\ pc'["finish"] = pc["finish"]
    <3>3. UNCHANGED <<then, target>> \/ CancelTake
      BY <1>8 DEF CancelMoves, CancelStep, CancelCalled, CancelBegin, CancelTake, CancelStop,
         CancelDrop, CancelRemove, ReleaseStep, LetGo, Close, Join, Woken, PcOnly
    <3>4. CancelTake => then'["start"] = then["start"] /\ target'["start"] = target["start"]
      BY DEF CancelTake, TypeOK, Task
    <3>5. pc'["start"] = pc["start"] /\ pc'["finish"] = pc["finish"]
      BY <1>1, <1>8, CancelGoes
    <3>. QED
      BY <3>3, <3>4, <3>5 DEF Still
  <2>2. UNCHANGED recording \/ Flagged("cancelled")
    <3>1. CancelTake \/ CancelStop => pc["cancel"] \in {"take", "stop"}
      BY DEF CancelTake, CancelStop
    <3>2. CancelMoves => UNCHANGED recording \/ CancelTake \/ CancelStop
      BY DEF CancelMoves, CancelStep, CancelCalled, CancelBegin, CancelDrop,
         CancelRemove, ReleaseStep, LetGo, Close, Join, Woken, PcOnly, sessionVars
    <3>. QED
      BY <1>1, <1>8, <3>1, <3>2 DEF ReachCancel
  <2>3. Shielded' = Shielded \/ pc["cancel"] = "letgo"
    BY <1>1, <1>3, <1>8, CancelGoes
  <2>4. pc["cancel"] = "letgo" => pc["start"] = "ok"
    <3>1. pc["cancel"] = "letgo" => transcription \in Retry
      BY <1>1 DEF ReachTarget, InRelease
    <3>2. transcription \in Retry => attempt # 0
      BY <1>1, RetryDistinct, Targets DEF ReachTarget
    <3>3. attempt # 0 => pc["finish"] # "idle"
      BY <1>1 DEF RetryControl, InRelease
    <3>. QED
      BY <1>1, <3>1, <3>2, <3>3 DEF AttachTasks
  <2>. QED
    BY <1>2, <1>4, <2>1, <2>2, <2>3, <2>4 DEF Still, LeftStart, InRelease
<1>. QED
    BY <1>5, <1>6, <1>7, <1>8, MoversFrame

(* Every step keeps LeftFinish.                                             *)
LEMMA LeftFinishStep ==
    ASSUME TypeOK, AttachInv, RetryInv, ReachInv, LeftStart, LeftFinish, [Next]_vars
    PROVE  LeftFinish'
<1>1. ReachCancel /\ ReachTarget /\ AttachTasks /\ RetryControl
    BY DEF ReachInv, AttachInv, RetryInv
<1>2. (Cancelled => Cancelled') /\ (TakeCancelState => Cancelled')
    BY AttachBufferStep DEF TakeCancelState, Cancelled
<1>3. /\ UNCHANGED flags => Shielded' = Shielded /\ Flagged("cancelled")' = Flagged("cancelled")
      /\ flags' = flags \ {"once", "finished"} => ~Shielded'
      /\ Raise("cancelled") => Shielded' = Shielded /\ Flagged("cancelled")'
    BY DEF Raise, Flagged, Shielded
<1>4. Flagged("cancelled") => Flagged("cancelled")'
    BY CancelKept
<1>5. /\ CloudDone => CloudDone'
      /\ Cancelled' => CloudDone'
    BY DoneStays DEF CloudDone
<1>6. CASE Rests
  <2>1. UNCHANGED <<pc, then, target, flags, registered, attempt>>
    BY <1>6 DEF Rests, taskVars, sessionVars
  <2>2. (pc'["finish"] = "race" /\ call' \in {"text", "empty"}) => CloudDone'
    <3>1. CASE CallAnswered
      <4>1. attach.pc = "ok" /\ Cloud \in Provider
            /\ state \in [Provider -> {"none", "live", "finished", "cancelled"}]
        BY <3>1 DEF CallAnswered, AttachInv, AttachUse, Provider, TypeOK, BufferTypeOK
      <4>2. attach'.pc = "ok"
        BY <4>1, AttachBufferStep
      <4>3. state'[Cloud] # "live"
        BY <3>1, <4>1 DEF CallAnswered, Ends
      <4>. QED
        BY <4>2, <4>3 DEF CloudDone, Attached
    <3>2. CASE UNCHANGED call \/ StandbyStarted
      <4>1. UNCHANGED call
        BY <3>2 DEF StandbyStarted
      <4>. QED
        BY <1>5, <2>1, <4>1 DEF LeftFinish
    <3>. QED
      BY <1>6, <3>1, <3>2 DEF Rests
  <2>3. Shielded' = Shielded /\ Flagged("cancelled")' = Flagged("cancelled")
    BY <1>3, <2>1
  <2>. QED
    BY <1>5, <2>1, <2>2, <2>3 DEF LeftFinish
<1>7. CASE StartMoves
  <2>1. pc["finish"] = "idle" /\ pc["start"] # "ok" /\ attempt = 0
    BY <1>1, <1>7, StartOver DEF AttachTasks, RetryControl, InRelease
  <2>2. pc'["start"] = "ok" => pc["start"] = "check" /\ UNCHANGED flags
    <3>1. pc["start"] \in InRelease => then["start"] = "end"
      BY <1>1 DEF AttachTasks
    <3>. QED
      BY <1>7, <3>1, StartGoes DEF StartGoing, Releases, Goes, InRelease
  <2>3. pc'["start"] = "ok" => ~Shielded'
    BY <1>3, <2>2 DEF LeftStart
  <2>. QED
    BY <1>7, <2>1, <2>3, StartGoes DEF LeftFinish
<1>8. CASE CancelMoves
  <2>1. /\ pc'["start"] = pc["start"] /\ pc'["finish"] = pc["finish"]
        /\ UNCHANGED <<call, attempt>>
    BY <1>1, <1>8, CancelGoes, CancelLeaves
  <2>2. target'["finish"] = target["finish"]
    BY <1>8 DEF CancelMoves, CancelStep, CancelCalled, CancelBegin, CancelTake, CancelStop,
       CancelDrop, CancelRemove, ReleaseStep, LetGo, Close, Join, Woken, PcOnly, TypeOK, Task
  <2>3. Shielded' = Shielded \/ attempt # 0
    <3>1. Shielded' = Shielded \/ pc["cancel"] = "letgo"
      BY <1>1, <1>3, <1>8, CancelGoes
    <3>. QED
      BY <1>1, <3>1, RetryDistinct, Targets DEF ReachTarget, InRelease
  <2>4. attempt # 0 => pc["finish"] \notin {"idle", "take", "stop", "stopped", "race"}
    BY <1>1 DEF RetryControl, InRelease
  <2>5. (pc["cancel"] = "called" /\ registered) => Flagged("cancelled")'
    BY <1>1, <1>3, <1>8, CancelGoes, CancelLeaves
  <2>. QED
    BY <1>4, <1>5, <2>1, <2>2, <2>3, <2>4, <2>5 DEF LeftFinish
<1>9. CASE FinishMoves
  <2>1. pc["start"] = "ok" /\ pc'["start"] = "ok"
    <3>1. pc["finish"] # "idle" \/ pc["start"] = "ok"
      BY <1>9, FinishGoes DEF FinishGoing, FinishEarly, FinishRacing, FinishRetrying, Releases, Goes
    <3>. QED
      BY <1>1, <1>9, <3>1, FinishGoes DEF AttachTasks
  <2>. DEFINE f == pc["finish"]
              g == pc'["finish"]
              done == {"transcribed", "spare", "local", "backoff", "restart", "register",
                       "feed", "answer", "again", "end", "ok", "join", "asleep"}
  <2>2. /\ f \in InRelease => then["finish"] \in {"end", "again", "local", "transcribed"}
        /\ f \in {"backoff", "restart", "register", "feed", "answer", "again"} => attempt # 0
        /\ f \in {"idle", "take", "stop", "stopped", "race", "spare", "local"} => attempt = 0
    BY <1>1 DEF RetryControl, InRelease
  <2>3. f \in done => CloudDone
    BY DEF LeftFinish
  <2>4. attempt # 0 => CloudDone
    BY DEF LeftFinish
  <2>6. Shielded' /\ g \in {"take", "stop", "stopped", "race"} => FALSE
    <3>1. g \in {"idle", "take", "stop", "stopped", "race"} =>
              f \in {"idle", "take", "stop", "stopped", "race"} /\ UNCHANGED flags
      BY <1>9, <2>2, FinishGoes DEF FinishGoing, FinishEarly, FinishRacing, FinishRetrying,
         Releases, Goes, InRelease
    <3>. QED
      BY <1>3, <2>1, <3>1 DEF LeftFinish
  <2>7. g \notin {"idle", "returned"}
    BY <1>9, <2>2, FinishGoes DEF FinishGoing, FinishEarly, FinishRacing, FinishRetrying,
       Releases, Goes, InRelease
  <2>8. g = "letgo" => /\ target'["finish"] = attempt /\ UNCHANGED <<flags, attempt>>
                       /\ f \in {"stopped", "race"} \/ attempt # 0
    BY <1>9, <2>2, FinishGoes DEF FinishGoing, FinishEarly, FinishRacing, FinishRetrying,
       Releases, Goes, InRelease, Cloud
  <2>9. g = "close" => UNCHANGED <<attempt, target>> /\ f = "letgo"
    BY <1>9, <2>2, FinishGoes DEF FinishGoing, FinishEarly, FinishRacing, FinishRetrying,
       Releases, Goes, InRelease
  <2>10. (g = "letgo" /\ attempt' = 0) => ~Shielded'
    BY <1>3, <2>1, <2>8 DEF LeftFinish
  <2>11. g \in {"letgo", "close"} => target'["finish"] = attempt'
    BY <2>8, <2>9 DEF LeftFinish
  <2>12. f = "race" /\ call \in {"text", "empty"} => CloudDone
    BY DEF LeftFinish
  <2>13. f \in InRelease /\ g \in done => CloudDone'
    <3>1. CASE f = "letgo"
      <4>1. Shielded \/ g = "close"
        BY <1>9, <3>1, FinishGoes DEF FinishGoing, FinishEarly, FinishRacing, FinishRetrying,
           Releases, Goes
      <4>. QED
        BY <1>5, <2>4, <3>1, <4>1 DEF LeftFinish
    <3>2. CASE f = "close"
      <4>1. target["finish"] = Cloud => TakeCancelState
        BY <1>9, <3>2, FinishGoes DEF FinishGoing, FinishEarly, FinishRacing, FinishRetrying,
           Releases, Goes
      <4>2. target["finish"] = attempt
        BY <3>2 DEF LeftFinish
      <4>. QED
        BY <1>2, <1>5, <2>4, <4>1, <4>2 DEF Cloud
    <3>3. CASE f \in {"join", "asleep"}
      BY <1>5, <2>3, <3>3
    <3>. QED
      BY <3>1, <3>2, <3>3 DEF InRelease
  <2>14. g \in done => CloudDone'
    <3>1. g \in done => f \in done \cup InRelease \/ (f = "race" /\ call \in {"text", "empty"})
      BY <1>9, <2>2, FinishGoes DEF FinishGoing, FinishEarly, FinishRacing, FinishRetrying,
         Releases, Goes, InRelease
    <3>. HIDE DEF done
    <3>. QED
      BY <1>5, <2>3, <2>12, <2>13, <3>1
  <2>15. attempt' # 0 => CloudDone'
    <3>1. UNCHANGED attempt \/ f = "local" \/ attempt # 0
      BY <1>9, <2>2, FinishGoes DEF FinishGoing, FinishEarly, FinishRacing, FinishRetrying,
         Releases, Goes, InRelease
    <3>. QED
      BY <1>5, <2>3, <2>4, <3>1
  <2>16. (g = "race" /\ call' \in {"text", "empty"}) => CloudDone'
    <3>1. (g = "race" /\ call' \in {"text", "empty"}) => f = "race" /\ UNCHANGED call
      BY <1>9, <2>2, FinishGoes DEF FinishGoing, FinishEarly, FinishRacing, FinishRetrying,
         Releases, Goes, InRelease
    <3>. QED
      BY <1>5, <2>12, <3>1
  <2>17. ASSUME g = "error"
         PROVE  CloudDone' \/ Flagged("cancelled")' \/ (pc'["cancel"] = "called" /\ registered')
    <3>1. \/ f \in {"transcribed", "end"}
          \/ f = "idle" /\ (~registered \/ Flagged("cancelled"))
          \/ f = "take" /\ recording # "stored"
          \/ f = "stopped" /\ Inactive /\ UNCHANGED registered
      BY <1>9, <2>2, <2>17, FinishGoes DEF FinishGoing, FinishEarly, FinishRacing, FinishRetrying,
         Releases, Goes, InRelease
    <3>2. CASE f \in {"transcribed", "end"}
      BY <1>5, <2>3, <3>2
    <3>3. CASE f = "idle" /\ (~registered \/ Flagged("cancelled"))
      BY <1>1, <1>4, <2>1, <3>3 DEF ReachCancel
    <3>4. CASE f = "take" /\ recording # "stored"
      BY <1>4, <2>1, <3>4 DEF LeftStart
    <3>5. CASE f = "stopped" /\ Inactive /\ UNCHANGED registered
      <4>1. pc["cancel"] = "called" \/ Flagged("cancelled")
        BY <1>1, <2>1, <3>5 DEF ReachCancel, Inactive
      <4>2. registered \/ Flagged("cancelled")
        BY <1>1, <2>1, <3>5 DEF ReachCancel
      <4>. QED
        BY <1>4, <1>9, <3>5, <4>1, <4>2, FinishGoes
    <3>. QED
      BY <3>1, <3>2, <3>3, <3>4, <3>5
  <2>. HIDE DEF f
  <2>. QED
    BY <2>6, <2>7, <2>10, <2>11, <2>14, <2>15, <2>16, <2>17 DEF LeftFinish
<1>. QED
    BY <1>6, <1>7, <1>8, <1>9, MoversFrame

(* Every step keeps LeftLocal.                                              *)
LEMMA LeftLocalStep ==
    ASSUME TypeOK, AttachInv, RetryInv, OrderInv, LeftLocal, [Next]_vars
    PROVE  LeftLocal'
<1>1. /\ Local \in Provider /\ Cloud # Local /\ attempt # Local
      /\ state \in [Provider -> {"none", "live", "finished", "cancelled"}]
      /\ RetryControl /\ AttachTasks /\ OrderRecorder
    BY BoundsAssumption DEF Provider, Cloud, Local, TypeOK, BufferTypeOK, RetryInv, AttachInv, OrderInv
<1>2. ASSUME NEW how \in {"finished", "cancelled"}, Ends(Local, how)
      PROVE  state'[Local] # "live"
    BY <1>1, <1>2 DEF Ends
<1>3. state'[Local] = "live" => state[Local] = "live" \/ StandbyStarted
    BY <1>1, LiveFrame
<1>4. CASE Rests
  <2>1. CASE StandbyStarted
    <3>1. standby # "off" /\ standby' = "answer" /\ UNCHANGED taskVars
      BY <2>1 DEF StandbyStarted
    <3>. QED
      BY <3>1 DEF LeftLocal, taskVars
  <2>2. CASE ~StandbyStarted
    <3>1. UNCHANGED standby
      BY <1>4, <2>2 DEF Rests, CallAnswered
    <3>. QED
      BY <1>3, <1>4, <2>2, <3>1 DEF Rests, taskVars, LeftLocal
  <2>. QED
    BY <2>1, <2>2
<1>5. CASE StartMoves \/ CancelMoves
  <2>1. UNCHANGED standby /\ pc'["finish"] = pc["finish"] /\ then'["finish"] = then["finish"]
    <3>1. CancelMoves => UNCHANGED standby /\ pc'["finish"] = pc["finish"]
                         /\ then'["finish"] = then["finish"]
      BY DEF CancelMoves, CancelStep, CancelCalled, CancelBegin, CancelTake, CancelStop,
         CancelDrop, CancelRemove, ReleaseStep, LetGo, Close, Join, Woken, PcOnly, raceVars,
         TypeOK, Task, At, Forget
    <3>2. StartMoves => then'["finish"] = then["finish"]
      BY DEF StartMoves, StartStep, StartBegin, StartPrepare, StartBuild, StartStore, StartAttach,
         StartAttached, StartCheck, StartOpen, StartUndo, StartStop, EndsInError, ReleaseStep,
         LetGo, Close, Join, Woken, PcOnly, Release, TypeOK, Task
    <3>. QED
      BY <1>5, <3>1, <3>2, StartGoes
  <2>2. ~StandbyStarted \/ standby' = "answer"
    BY DEF StandbyStarted
  <2>. QED
    BY <1>3, <2>1, <2>2 DEF LeftLocal
<1>6. CASE FinishMoves
  <2>1. ~StandbyStarted \/ standby' = "answer"
    BY DEF StandbyStarted
  <2>2. state'[Local] = "live" => standby' = "answer"
    <3>1. CASE UNCHANGED standby
      BY <1>3, <2>1, <3>1 DEF LeftLocal
    <3>2. CASE FinishStopped
      <4>1. standby = "off"
        BY <1>1, <3>2 DEF FinishStopped, OrderRecorder
      <4>. QED
        BY <1>3, <2>1, <4>1 DEF LeftLocal
    <3>3. CASE CallSettled /\ ~UNCHANGED standby
      <4>1. Ends(Local, "cancelled")
        BY <3>3 DEF CallSettled, Abandon
      <4>. QED
        BY <1>2, <4>1
    <3>4. CASE LocalSkipped \/ StandbyFailed \/ StandbyAnswered
      BY <1>2, <3>4 DEF LocalSkipped, StandbyFailed, StandbyAnswered, Abandon
    <3>5. CASE \/ FinishBegin \/ FinishTake \/ FinishStop \/ CallWait \/ CallAttached
               \/ CallAsk \/ FinishTranscribed \/ Backoff \/ Register \/ Replay \/ Again
               \/ ReleaseStep("finish") \/ EndsInError("finish") \/ Restarted
               \/ RetryAnswered
      BY <3>1, <3>5 DEF FinishBegin, FinishTake, FinishStop, CallWait, CallAttached, CallAsk,
         FinishTranscribed, Backoff, Register, Replay, Again, ReleaseStep, LetGo, Close, Join,
         Woken, EndsInError, Restarted, RetryAnswered, PcOnly, raceVars
    <3>. QED
      BY <1>6, <3>1, <3>2, <3>3, <3>4, <3>5 DEF FinishMoves, FinishStep
  <2>3. /\ pc["finish"] \in {"idle", "take", "stop", "stopped"} => standby = "off"
        /\ pc["finish"] \in InRelease => then["finish"] \in {"end", "again", "local", "transcribed"}
    BY <1>1 DEF OrderRecorder, RetryControl
  <2>4. standby' # "off" =>
           \/ pc'["finish"] \in {"race", "spare", "local"}
           \/ pc'["finish"] \in InRelease /\ then'["finish"] = "local"
    BY <1>6, <2>3, FinishGoes DEF FinishGoing, FinishEarly, FinishRacing, FinishRetrying,
       Releases, Goes, InRelease, LeftLocal
  <2>. QED
    BY <2>2, <2>4 DEF LeftLocal
<1>. QED
    BY <1>4, <1>5, <1>6, MoversFrame

(* Every step keeps LeftShield.                                             *)
LEMMA LeftShieldStep ==
    ASSUME TypeOK, AttachInv, RetryInv, ReachInv, LeftShield, [Next]_vars
    PROVE  LeftShield'
<1>1. ReachCancel /\ ReachTarget /\ RetryControl
    BY DEF ReachInv, RetryInv
<1>2. /\ UNCHANGED flags => /\ Shielded' = Shielded /\ Flagged("once")' = Flagged("once")
      /\ Raise("cancelled") \/ Raise("finished") => Flagged("once")' = Flagged("once")
      /\ Raise("once") => Shielded' /\ Flagged("once")'
      /\ Raise("finished") => Shielded'
      /\ Raise("cancelled") => Shielded' = Shielded
    BY DEF Raise, Flagged, Shielded
<1>3. CASE Rests
    BY <1>2, <1>3 DEF Rests, taskVars, sessionVars, LeftShield
<1>. DEFINE f == pc["finish"]
            g == pc'["finish"]
<1>4. CASE StartMoves
  <2>1. f = "idle" /\ g = "idle" /\ UNCHANGED attempt
    BY <1>4, StartOver, StartGoes DEF AttachInv, AttachTasks
  <2>. QED
    BY <2>1 DEF LeftShield
<1>5. CASE CancelMoves
  <2>1. g = f /\ UNCHANGED transcription
    BY <1>1, <1>5, CancelGoes
  <2>2. (Flagged("once") => Flagged("once")') /\ (Shielded => Shielded')
    BY <1>1, <1>2, <1>5, CancelGoes DEF Shielded
  <2>3. ASSUME pc'["cancel"] = "close"
        PROVE  transcription \in Retry /\ ~Shielded
    <3>1. pc["cancel"] = "letgo" /\ LetGo("cancel")
      BY <1>1, <1>5, <2>3, CancelGoes DEF ReleaseOf, CancelMoves, CancelStep, CancelCalled,
         CancelBegin, CancelTake, CancelStop, CancelDrop, CancelRemove, ReleaseStep, Close, Join,
         Woken, Forget
    <3>2. ~Shielded
      BY <1>1, <2>3, <3>1 DEF LetGo, At, TypeOK, Task, ReachTarget, InRelease, Shielded
    <3>. QED
      BY <1>1, <3>1, <3>2 DEF ReachTarget, InRelease
  <2>. QED
    BY <2>1, <2>2, <2>3 DEF LeftShield
<1>6. CASE FinishMoves
  <2>1. pc'["cancel"] = pc["cancel"]
    BY <1>6, FinishGoes
  <2>2. f \in InRelease => then["finish"] \in {"end", "again", "local", "transcribed"}
    BY <1>1 DEF RetryControl
  <2>3. g = "close" => Flagged("once")'
    BY <1>2, <1>6, <2>2, FinishGoes DEF FinishGoing, FinishEarly, FinishRacing, FinishRetrying,
       Releases, Goes, InRelease
  <2>4. ASSUME pc["cancel"] = "close"
        PROVE  g \notin {"restart", "register"}
    <3>1. Flagged("cancelled")
      BY <1>1, <2>4 DEF ReachCancel
    <3>. QED
      BY <1>6, <2>2, <2>4, <3>1, FinishGoes DEF FinishGoing, FinishEarly, FinishRacing,
         FinishRetrying, Releases, Goes, InRelease, LeftShield
  <2>5. ASSUME g \in {"close", "join", "asleep", "again", "backoff", "restart", "register"},
               transcription' \in Retry
        PROVE  Shielded'
    <3>1. Register => g \in {"end", "feed"}
      BY DEF Register, At, TypeOK, Task
    <3>2. transcription \in Retry
      BY <1>6, <2>5, <3>1, FinishGoes
    <3>3. attempt # 0
      BY <1>1, <3>2, RetryDistinct, Targets DEF ReachTarget
    <3>4. f # "local"
      BY <1>1, <3>3 DEF RetryControl, InRelease
    <3>5. \/ Raise("once")
          \/ UNCHANGED flags /\ Shielded
          \/ UNCHANGED flags
             /\ f \in {"close", "join", "asleep", "again", "backoff", "restart", "register"}
      BY <1>6, <2>2, <2>5, <3>4, FinishGoes DEF FinishGoing, FinishEarly, FinishRacing,
         FinishRetrying, Releases, Goes, InRelease
    <3>. QED
      BY <1>2, <3>2, <3>5 DEF LeftShield
  <2>. QED
    BY <2>1, <2>3, <2>4, <2>5 DEF LeftShield
<1>. QED
    BY <1>3, <1>4, <1>5, <1>6, MoversFrame

(* Every step keeps LeftRetry.                                              *)
LEMMA LeftRetryStep ==
    ASSUME TypeOK, AttachInv, RetryInv, ReachInv, LeftFinish, LeftShield, LeftRetry, [Next]_vars
    PROVE  LeftRetry'
<1>. SUFFICES ASSUME NEW p \in Retry, state'[p] = "live"
              PROVE  /\ p = attempt'
                     /\ pc'["finish"] \in {"register", "feed", "answer", "letgo", "close"}
                        \/ pc'["cancel"] = "close"
                     /\ pc'["cancel"] = "close" => transcription' = attempt'
                     /\ pc'["finish"] \notin {"again", "backoff", "restart"}
                     /\ pc'["finish"] \in InRelease => then'["finish"] = "end"
                     /\ pc'["finish"] = "letgo" =>
                            /\ transcription' = attempt'
                            /\ ~Flagged("finished")'
                            /\ Flagged("once")' => pc'["cancel"] = "close"
                            /\ pc'["cancel"] \notin {"remove", "returned"}
    BY DEF LeftRetry
<1>1. /\ ReachCancel /\ ReachTarget /\ ReachState /\ RetryControl /\ AttachTasks
      /\ p \in Provider /\ p # Cloud /\ p # Local /\ p # 0
      /\ state \in [Provider -> {"none", "live", "finished", "cancelled"}]
    BY RetryDistinct DEF ReachInv, RetryInv, AttachInv, Provider, TypeOK, BufferTypeOK, Cloud
<1>2. ASSUME NEW how \in {"finished", "cancelled"}
      PROVE  ~Ends(p, how)
    BY <1>1, <1>2, state'[p] = "live" DEF Ends
<1>. DEFINE f == pc["finish"]
            g == pc'["finish"]
<1>3. CASE Restarted /\ p = attempt /\ state[p] # "live"
  <2>1. g = "register" /\ UNCHANGED <<attempt, transcription>> /\ f = "restart"
    <3>1. ASSUME NEW q, At("finish", q)
          PROVE  g = q
      BY <3>1 DEF At, TypeOK, Task
    <3>2. UNCHANGED state => FALSE
      BY <1>3, state'[p] = "live"
    <3>. QED
      BY <1>3, <3>1, <3>2 DEF Restarted, NextAttempt, sessionVars
  <2>2. pc'["cancel"] = pc["cancel"] /\ pc["cancel"] # "close"
    BY <1>3, <2>1, FinishGoes DEF FinishMoves, LeftShield
  <2>. QED
    BY <1>3, <2>1, <2>2 DEF InRelease
<1>4. CASE state[p] = "live"
  <2>1. /\ p = attempt
        /\ f \in {"register", "feed", "answer", "letgo", "close"} \/ pc["cancel"] = "close"
        /\ pc["cancel"] = "close" => transcription = attempt
        /\ f \notin {"again", "backoff", "restart"}
        /\ f \in InRelease => then["finish"] = "end"
        /\ f = "letgo" => /\ transcription = attempt
                          /\ ~Flagged("finished")
                          /\ Flagged("once") => pc["cancel"] = "close"
                          /\ pc["cancel"] \notin {"remove", "returned"}
    BY <1>4 DEF LeftRetry
  <2>2. attempt # 0 /\ pc["start"] = "ok" /\ f \notin {"idle", "take", "stop", "stopped", "race", "local", "spare"}
    BY <1>1, <2>1 DEF RetryControl, AttachTasks, InRelease
  <2>3. CASE Rests
    BY <2>1, <2>3 DEF Rests, taskVars, sessionVars, Flagged
  <2>4. ~StartMoves
    BY <2>2, StartOver
  <2>5. CASE CancelMoves
    <3>1. g = f /\ UNCHANGED <<attempt, transcription>>
      BY <1>1, <2>5, CancelGoes
    <3>2. then'["finish"] = then["finish"]
      BY <2>5 DEF CancelMoves, CancelStep, CancelCalled, CancelBegin, CancelTake, CancelStop,
         CancelDrop, CancelRemove, ReleaseStep, LetGo, Close, Join, Woken, PcOnly, TypeOK, Task
    <3>3. pc["cancel"] # "close"
      <4>1. pc["cancel"] = "close" => Ends(transcription, "cancelled")
        BY <1>1, <2>5, CancelGoes DEF ReleaseOf
      <4>. QED
        BY <1>2, <2>1, <4>1
    <3>4. f \in {"register", "feed", "answer", "letgo", "close"}
      BY <2>1, <3>3
    <3>5. registered \/ pc["cancel"] # "called"
      BY <1>1, <2>2, <3>4 DEF ReachCancel
    <3>6. ASSUME pc'["cancel"] = "close"
          PROVE  transcription = attempt
      <4>1. pc["cancel"] = "letgo" /\ LetGo("cancel")
        BY <1>1, <2>5, <3>6, CancelGoes DEF ReleaseOf, CancelMoves, CancelStep, CancelCalled,
           CancelBegin, CancelTake, CancelStop, CancelDrop, CancelRemove, ReleaseStep, Close,
           Join, Woken, Forget
      <4>2. ~Shielded
        BY <1>1, <3>6, <4>1 DEF LetGo, At, TypeOK, Task, ReachTarget, InRelease, Shielded
      <4>3. transcription \in Retry
        BY <1>1, <4>1 DEF ReachTarget, InRelease
      <4>4. f \notin {"register", "close"}
        BY <4>2, <4>3 DEF LeftShield
      <4>. QED
        BY <1>1, <2>1, <3>4, <4>4 DEF ReachState
    <3>7. ASSUME f = "letgo"
          PROVE  /\ ~Flagged("finished")'
                 /\ Flagged("once")' => pc'["cancel"] = "close"
                 /\ pc'["cancel"] \notin {"remove", "returned"}
      <4>1. transcription \in Retry /\ ReleaseOf(transcription) = "letgo"
        BY <2>1, <3>7, RetryDistinct, Targets DEF ReleaseOf
      <4>2. /\ ~Flagged("finished") /\ ~Flagged("once")
            /\ pc["cancel"] \notin {"remove", "returned", "drop"}
        BY <1>1, <2>1, <3>3, <3>7, <4>1, RetryDistinct DEF ReachTarget
      <4>3. /\ pc'["cancel"] \notin {"remove", "returned"}
            /\ UNCHANGED flags \/ Raise("cancelled") \/ (Raise("once") /\ pc'["cancel"] = "close")
        BY <1>1, <2>5, <3>3, <3>5, <4>1, <4>2, CancelGoes
      <4>. QED
        BY <4>2, <4>3 DEF Flagged, Raise
    <3>. QED
      BY <2>1, <3>1, <3>2, <3>4, <3>6, <3>7
  <2>6. CASE FinishMoves
    <3>1. pc'["cancel"] = pc["cancel"]
      BY <2>6, FinishGoes
    <3>2. f # "answer"
      <4>1. f = "answer" => Ends(attempt, "finished")
        BY <2>6, FinishGoes DEF FinishGoing, FinishEarly, FinishRacing, FinishRetrying, Releases,
           Goes
      <4>. QED
        BY <1>2, <2>1, <4>1
    <3>3. f # "close"
      <4>1. f = "close" => target["finish"] = attempt
        BY DEF LeftFinish
      <4>2. (f = "close" /\ target["finish"] # Cloud) => Ends(target["finish"], "cancelled")
        BY <2>6, FinishGoes DEF FinishGoing, FinishEarly, FinishRacing, FinishRetrying, Releases,
           Goes
      <4>. QED
        BY <1>1, <1>2, <2>1, <4>1, <4>2
    <3>4. UNCHANGED attempt
      BY <2>1, <2>2, <2>6, FinishGoes DEF FinishGoing, FinishEarly, FinishRacing, FinishRetrying,
         Releases, Goes
    <3>5. CASE f = "register"
      <4>1. g = "feed" /\ ~Flagged("cancelled")
        <5>1. g = "end" => Ends(attempt, "cancelled")
          BY <2>6, <3>5, FinishGoes DEF FinishGoing, FinishEarly, FinishRacing, FinishRetrying,
             Releases, Goes
        <5>. QED
          BY <1>2, <2>1, <2>6, <3>5, <5>1, FinishGoes DEF FinishGoing, FinishEarly, FinishRacing,
             FinishRetrying, Releases, Goes
      <4>2. pc["cancel"] # "close"
        BY <1>1, <4>1 DEF ReachCancel
      <4>. QED
        BY <2>1, <3>1, <3>4, <4>1, <4>2 DEF InRelease
    <3>6. CASE f = "feed"
      <4>1. g = "answer" \/ (g = "letgo" /\ then'["finish"] = "end" /\ UNCHANGED flags)
        BY <2>6, <3>6, FinishGoes DEF FinishGoing, FinishEarly, FinishRacing, FinishRetrying,
           Releases, Goes
      <4>2. UNCHANGED transcription
        BY <2>6, <3>6, FinishGoes DEF Register
      <4>3. /\ transcription = attempt /\ ~Flagged("finished")
            /\ Flagged("once") => pc["cancel"] = "close"
            /\ pc["cancel"] \notin {"remove", "returned"}
        BY <1>1, <1>4, <2>1, <3>6 DEF ReachState
      <4>. QED
        BY <2>1, <3>1, <3>4, <4>1, <4>2, <4>3 DEF InRelease, Flagged
    <3>7. CASE f = "letgo"
      <4>1. UNCHANGED <<then, transcription>>
        BY <2>6, <3>7, FinishGoes DEF FinishGoing, FinishEarly, FinishRacing, FinishRetrying,
           Releases, Goes
      <4>2. g = "close" \/ (g = "end" /\ Shielded)
        BY <2>1, <2>6, <3>7, FinishGoes DEF FinishGoing, FinishEarly, FinishRacing,
           FinishRetrying, Releases, Goes, InRelease
      <4>3. Shielded => pc["cancel"] = "close"
        BY <2>1, <3>7 DEF Shielded
      <4>. QED
        BY <2>1, <3>1, <3>4, <3>7, <4>1, <4>2, <4>3 DEF InRelease
    <3>8. CASE f \in {"end", "transcribed", "join", "asleep"} /\ pc["cancel"] = "close"
      <4>1. /\ UNCHANGED transcription
            /\ then'["finish"] = then["finish"] \/ g \notin InRelease
            /\ g \in {"error", "ok", "asleep", "end"}
            /\ g = "asleep" => f = "join"
        BY <2>1, <2>6, <3>8, FinishGoes DEF FinishGoing, FinishEarly, FinishRacing,
           FinishRetrying, Releases, Goes, InRelease, Register
      <4>. QED
        BY <2>1, <3>1, <3>4, <3>8, <4>1 DEF InRelease
    <3>9. f \notin {"ok", "error"}
      BY <2>6 DEF FinishMoves, FinishStep, FinishBegin, FinishTake, FinishStop, FinishStopped,
         CallWait, CallAttached, CallAsk, CallSettled, LocalSkipped, FinishTranscribed, Backoff,
         Register, Replay, Again, ReleaseStep, LetGo, Close, Join, Woken, EndsInError, Restarted,
         RetryAnswered, StandbyAnswered, StandbyFailed, Polled
    <3>10. f \in {"register", "feed", "letgo", "end", "transcribed", "join", "asleep"}
      BY <2>1, <2>2, <2>6, <3>2, <3>3, FinishGoes DEF FinishGoing, FinishEarly, FinishRacing,
         FinishRetrying, Releases, Goes
    <3>. QED
      BY <2>1, <3>5, <3>6, <3>7, <3>8, <3>10
  <2>. QED
    BY <2>3, <2>4, <2>5, <2>6, MoversFrame
<1>5. state[p] = "live" \/ (Restarted /\ p = attempt)
    BY <1>1, LiveFrame
<1>. QED
    BY <1>3, <1>4, <1>5

(* Every step keeps LeftInv.                                                *)
LEMMA LeftStep ==
    ASSUME TypeOK, AttachInv, RetryInv, ReachInv, OrderInv, LeftInv, [Next]_vars
    PROVE  LeftInv'
    BY LeftStartStep, LeftFinishStep, LeftRegistryStep, LeftCloudStep, LeftLocalStep,
       LeftShieldStep, LeftRetryStep DEF LeftInv

(* When every call has returned, LeftInv leaves no recognizer live.         *)
LEMMA LeavesNone ==
    ASSUME TypeOK, AttachInv, RetryInv, ReachInv, LeftInv
    PROVE  NoneLeft
<1>. SUFFICES ASSUME AllReturned
              PROVE  ~registered /\ \A p \in Provider : state[p] # "live"
    BY DEF NoneLeft
<1>1. /\ pc["start"] \in {"ok", "error"} /\ pc["finish"] \in {"idle", "ok", "error"}
      /\ pc["cancel"] \in {"idle", "returned"} /\ attach.pc \in {"none", "ok", "error"}
      /\ pc["start"] = "ok" => pc["finish"] # "idle" \/ pc["cancel"] = "returned"
    BY DEF AllReturned, Returned, LeftInv, LeftRegistry, LeftFinish
<1>2. ~registered
    BY <1>1 DEF LeftInv, LeftRegistry
<1>3. state[Cloud] # "live"
  <2>1. CASE attach.pc \in {"none", "error"}
    BY <2>1 DEF LeftInv, LeftCloud
  <2>2. CASE CloudDone
    BY <2>2, <1>1 DEF CloudDone, ReachInv, ReachState, LeftInv, LeftCloud
  <2>3. CASE pc["start"] = "error"
    BY <2>2, <2>3 DEF LeftInv, LeftStart, CloudDone
  <2>4. CASE pc["start"] = "ok" /\ pc["finish"] \in {"ok", "error"} /\ ~Flagged("cancelled")
    BY <1>1, <2>2, <2>4 DEF LeftInv, LeftFinish
  <2>5. CASE pc["start"] = "ok" /\ pc["cancel"] = "returned" /\ Flagged("cancelled")
    <3>1. attempt # 0 => CloudDone
      BY DEF LeftInv, LeftFinish
    <3>2. attempt = 0 => transcription = Cloud
      BY <2>5 DEF ReachInv, ReachTarget
    <3>3. transcription = Cloud => CloudDone
      BY <2>5 DEF ReachInv, ReachTarget, CloudDone
    <3>. QED
      BY <2>2, <3>1, <3>2, <3>3
  <2>6. Flagged("cancelled") => pc["cancel"] = "returned"
    BY <1>1 DEF ReachInv, ReachCancel
  <2>7. pc["finish"] = "idle" /\ pc["start"] = "ok" => Flagged("cancelled")
    BY <1>1 DEF ReachInv, ReachCancel
  <2>. QED
    BY <1>1, <2>3, <2>4, <2>5, <2>6, <2>7
<1>4. state[Local] # "live"
    BY <1>1 DEF LeftInv, LeftLocal, InRelease
<1>5. \A p \in Retry : state[p] # "live"
    BY <1>1 DEF LeftInv, LeftRetry
<1>. QED
    BY <1>2, <1>3, <1>4, <1>5 DEF Provider

----------------------------------------------------------------------------
(* The theorems.                                                            *)

(* The inductive invariant.                                                 *)
Inv == TypeOK /\ AttachInv /\ RetryInv /\ LateInv /\ ReachInv /\ OrderInv /\ LeftInv

(* The invariant holds at the start.                                        *)
LEMMA InitInv == Init => Inv
<1>. SUFFICES ASSUME Init
              PROVE  Inv
    OBVIOUS
<1>. USE DEF Init, BufferInit
<1>1. /\ pc["start"] = "idle" /\ pc["finish"] = "idle" /\ pc["cancel"] = "idle"
    BY DEF Task
<1>2. /\ <<>> \in Seq(Chunks) /\ 0 \in 0..MaxChunks /\ 0 \in 0..Attempts
    BY BoundsAssumption
<1>3. \A p \in Provider : fed[p] = <<>> /\ state[p] = "none"
    OBVIOUS
<1>4. Cloud \in Provider /\ Local \in Provider /\ Retry \subseteq Provider
    BY DEF Provider
<1>5. TypeOK
  <2>1. BufferTypeOK
    BY <1>2 DEF BufferTypeOK, AttachPc
  <2>. QED
    BY <1>2, <2>1 DEF TypeOK, Pc, Returned
<1>6. AttachInv
    BY <1>1 DEF AttachInv, AttachTasks, AttachBuffer, AttachUse, InRelease
<1>7. RetryInv
    BY <1>1, <1>3, <1>4 DEF RetryInv, RetryControl, InRelease
<1>8. LateInv
    BY <1>3, <1>4 DEF LateInv
<1>9. ReachInv
    BY <1>1, Targets DEF ReachInv, ReachCancel, ReachTarget, ReachState, InRelease, Flagged,
       Cancelled
<1>10. OrderInv
  <2>1. OrderCloud
    BY <1>3, <1>4, CountedEmpty, BoundsAssumption DEF OrderCloud, CloudOrder
  <2>. QED
    BY <1>1, <1>3, <2>1 DEF OrderInv, OrderRecorder, OrderReplay, OrderAsked
<1>11. LeftInv
  <2>2. ~Shielded /\ attempt = 0 /\ ~registered /\ standby = "off"
    BY DEF Shielded, Flagged
  <2>3. LeftStart /\ LeftFinish
    BY <1>1, <2>2 DEF LeftStart, LeftFinish, InRelease
  <2>4. LeftRegistry /\ LeftCloud /\ LeftLocal
    BY <1>1, <1>3, <1>4, <2>2 DEF LeftRegistry, LeftCloud, LeftLocal
  <2>5. LeftShield /\ LeftRetry
    BY <1>1, <1>3, <1>4 DEF LeftShield, LeftRetry
  <2>. QED
    BY <2>3, <2>4, <2>5 DEF LeftInv
<1>. QED
    BY <1>5, <1>6, <1>7, <1>8, <1>9, <1>10, <1>11 DEF Inv

(* Every step keeps the invariant.                                          *)
LEMMA InvStep == Inv /\ [Next]_vars => Inv'
    BY TypeStep, AttachInvStep, RetryStep, LateStep, ReachStep, OrderStep,
       LeftStep DEF Inv

(* The invariant always holds.                                              *)
LEMMA Invariance == Spec => []Inv
    BY InitInv, InvStep, PTL DEF Spec

(* Every variable keeps its type, for every bound on the audio and the      *)
(* attempts.                                                                *)
THEOREM TypeCorrect == Spec => []TypeOK
<1>1. Inv => TypeOK
    BY DEF Inv
<1>. QED
    BY Invariance, <1>1, PTL

(* The invariant implies LateIsNotUsed.                                     *)
LEMMA LateUnused == Inv => LateIsNotUsed
<1>. SUFFICES ASSUME Inv PROVE LateIsNotUsed
    OBVIOUS
<1>1. ASSUME NEW p \in late \ {Local}
      PROVE  fed[p] = <<>> /\ p \notin asked
  <2>1. p = Cloud \/ p \in Retry
    BY DEF Inv, TypeOK, BufferTypeOK, Provider
  <2>2. Cloud \in late => attach.pc # "ok"
    BY DEF Inv, LateInv
  <2>. QED
    BY <2>1, <2>2 DEF Inv, LateInv
<1>2. Local \in late => pc["finish"] # "ok"
    BY DEF Inv, LateInv
<1>. QED
    BY <1>1, <1>2 DEF LateIsNotUsed

(* When cancel has returned, finish waits for no recognizer that nobody has *)
(* cancelled, the one of a retry included; the cloud recognizer or a retry  *)
(* whose start returns after its cancellation is never fed and never asked, *)
(* in attach_buffered_transcription and in retry_transcription; and no text *)
(* comes out of the session of a standby that starts so late, which is fed  *)
(* and asked all the same (LocalStandby::new).                              *)
THEOREM CancelReaches == Spec => []CancellationIsFinal
<1>1. Inv => CancellationIsFinal
    BY Reaches, LateUnused DEF Inv, CancellationIsFinal
<1>. QED
    BY Invariance, <1>1, PTL

(* When every call has returned and no attachment runs, the session is      *)
(* forgotten and no recognizer that was started is still live.              *)
THEOREM NoneIsLeft == Spec => []NoneLeft
<1>1. Inv => NoneLeft
    BY LeavesNone DEF Inv
<1>. QED
    BY Invariance, <1>1, PTL

(* The invariant implies FedInOrder.                                        *)
LEMMA InOrder == Inv => FedInOrder
<1>. SUFFICES ASSUME Inv, NEW p \in Provider
              PROVE  /\ fed[p] = SubSeq(Recording, 1, Len(fed[p]))
                     /\ p \in asked => fed[p] = Recording
    BY DEF FedInOrder
<1>1. /\ Recording \in Seq(Chunks) /\ Len(Recording) = audio.spoken
      /\ \A i \in 1..audio.spoken : Recording[i] = i
    BY RecordingTyped DEF Inv
<1>2. fed[p] \in Seq(Chunks) /\ audio.spoken \in Nat
    BY BoundsAssumption DEF Inv, TypeOK, BufferTypeOK
<1>3. ASSUME NEW s \in Seq(Chunks), Counted(s, 0), Len(s) <= audio.spoken
      PROVE  s = SubSeq(Recording, 1, Len(s))
  <2>. DEFINE t == SubSeq(Recording, 1, Len(s))
  <2>1. Len(s) \in Nat /\ Len(t) = Len(s) /\ t \in Seq(Chunks)
    BY <1>1, <1>2, <1>3
  <2>2. ASSUME NEW i \in 1..Len(s)
        PROVE  s[i] = t[i]
    BY <1>1, <1>2, <1>3, <2>1 DEF Counted
  <2>. HIDE DEF t
  <2>. QED
    BY <2>1, <2>2, SeqEqual DEF t
<1>4. Counted(Recording, 0)
    BY <1>1, <1>2 DEF Counted
<1>5. Recording = SubSeq(Recording, 1, Len(Recording))
    BY <1>1, <1>2, <1>3, <1>4
<1>6. CASE p = Cloud
  <2>1. Counted(fed[p], 0) /\ Len(fed[p]) <= audio.spoken
    BY <1>6 DEF Inv, OrderInv, OrderCloud, CloudOrder
  <2>2. fed[p] = SubSeq(Recording, 1, Len(fed[p]))
    BY <1>2, <1>3, <2>1
  <2>3. p \in asked => Len(fed[p]) = Len(Recording)
    BY <1>1, <1>6 DEF Inv, OrderInv, OrderAsked
  <2>. QED
    BY <1>5, <2>2, <2>3
<1>7. CASE p # Cloud
  <2>1. fed[p] = IF p \in asked THEN Recording ELSE <<>>
    BY <1>7 DEF Inv, OrderInv, OrderReplay
  <2>2. CASE p \in asked
    BY <1>5, <2>1, <2>2
  <2>3. CASE p \notin asked
    <3>1. fed[p] = <<>> /\ Counted(<<>>, 0)
      BY <2>1, <2>3, CountedEmpty
    <3>2. <<>> \in Seq(Chunks) /\ Len(<<>>) = 0
      OBVIOUS
    <3>. QED
      BY <1>2, <1>3, <2>3, <3>1, <3>2
  <2>. QED
    BY <2>2, <2>3
<1>. QED
    BY <1>6, <1>7

(* No recognizer loses, repeats or reorders audio, and one that is asked    *)
(* for its text has the whole recording.                                    *)
THEOREM FedInOrderAlways == Spec => []FedInOrder
    BY Invariance, InOrder, PTL
=============================================================================
