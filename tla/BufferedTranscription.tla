------------------------ MODULE BufferedTranscription ------------------------
(***************************************************************************)
(* The buffer between the recorder and a cloud recognizer that may not     *)
(* have started yet (BufferedTranscriptionSession in dictation_engine.rs): *)
(* the audio that arrives meanwhile, the task that starts the recognizer   *)
(* and forwards that audio, and the Notify its waiters sleep on.           *)
(*                                                                         *)
(* Chunks of audio are numbered in the order the recorder delivers them. A *)
(* provider is a session of a recognizer, with what it was fed; the        *)
(* buffered one is Cloud, the others are those of Transcription.           *)
(***************************************************************************)
EXTENDS Naturals, Sequences

CONSTANTS
    MaxChunks,   \* bound on the chunks of one recording
    Attempts     \* CLOUD_RETRY.attempts

ASSUME BoundsAssumption == MaxChunks \in Nat /\ Attempts \in Nat \ {0}

Cloud == 0
Retry == 1..Attempts
Local == Attempts + 1
Provider == {Cloud, Local} \cup Retry

VARIABLES
    buffer,   \* BufferedTranscriptionState, and the audio it holds
    attach,   \* attach_buffered_transcription: where it is, who polls it, the audio it took
    asleep,   \* the tasks asleep on the Notify of the attachment
    permit,   \* the permit notify_one leaves in it
    audio,    \* chunks spoken, whether one was not silent, the one on its way downstream
    state,    \* of each provider
    fed,      \* the chunks each was given
    asked,    \* providers whose finish was called
    late      \* those whose start returned after their cancellation

bufferVars == <<buffer, attach>>
waiterVars == <<asleep, permit>>
providerVars == <<state, fed, asked, late>>

Chunks == 1..MaxChunks
AttachPc == {"none", "check", "start", "look", "feed", "ok", "error"}

BufferTypeOK ==
    /\ buffer \in [state : {"buffering", "attaching", "direct", "failed", "cancelled"},
                   pcm : Seq(Chunks)]
    /\ attach \in [pc : AttachPc, owner : {"none", "start", "spawned", "finish"}, pcm : Seq(Chunks)]
    /\ asleep \in SUBSET {"start", "finish", "cancel"} /\ permit \in BOOLEAN
    /\ audio \in [spoken : 0..MaxChunks, heard : BOOLEAN, feeding : 0..MaxChunks]
    /\ state \in [Provider -> {"none", "live", "finished", "cancelled"}]
    /\ fed \in [Provider -> Seq(Chunks)]
    /\ asked \in SUBSET Provider /\ late \in SUBSET Provider

BufferInit ==
    /\ buffer = [state |-> "buffering", pcm |-> <<>>]
    /\ attach = [pc |-> "none", owner |-> "none", pcm |-> <<>>]
    /\ asleep = {} /\ permit = FALSE
    /\ audio = [spoken |-> 0, heard |-> FALSE, feeding |-> 0]
    /\ state = [p \in Provider |-> "none"]
    /\ fed = [p \in Provider |-> <<>>]
    /\ asked = {} /\ late = {}

Attached == attach.pc \in {"ok", "error"}
Cancelled == buffer.state = "cancelled"

----------------------------------------------------------------------------
(* Providers                                                                *)

Recording == [i \in 1..audio.spoken |-> i]

Started(p, isLate) ==
    /\ state' = [state EXCEPT ![p] = "live"]
    /\ late' = IF isLate THEN late \cup {p} ELSE late

Feed(p, chunks) == fed' = [fed EXCEPT ![p] = @ \o chunks]
Ends(p, how) == state' = [state EXCEPT ![p] = IF @ = "live" THEN how ELSE @]

----------------------------------------------------------------------------
(* The recorder: consume_pcm_chunk looks under the lock, and feeds outside   *)
(* it the recognizer it has found there.                                    *)
Speak ==
    LET chunk == audio.spoken + 1
    IN  /\ audio.feeding = 0 /\ chunk \in Chunks
        /\ \E sound \in BOOLEAN :
               audio' = [spoken |-> chunk, heard |-> audio.heard \/ sound,
                         feeding |-> IF buffer.state = "direct" THEN chunk ELSE 0]
        /\ buffer' = IF buffer.state \in {"buffering", "attaching"}
                     THEN [buffer EXCEPT !.pcm = Append(@, chunk)] ELSE buffer
        /\ UNCHANGED <<attach, waiterVars, providerVars>>

FeedDirect ==
    /\ audio.feeding # 0
    /\ Feed(Cloud, <<audio.feeding>>)
    /\ audio' = [audio EXCEPT !.feeding = 0]
    /\ UNCHANGED <<bufferVars, waiterVars, state, asked, late>>

----------------------------------------------------------------------------
(* attach: the first caller starts the recognizer, a later one waits.       *)

BeginAttach(owner) ==
    /\ buffer' = [state |-> "attaching", pcm |-> <<>>]
    /\ attach' = [pc |-> "check", owner |-> owner, pcm |-> buffer.pcm]

(* Slip: only the tasks asleep are woken, none that comes later.            *)
NotifyWaitersOnly == asleep' = {} /\ UNCHANGED permit

(* NotifyOnDrop: notify_waiters, then notify_one.                           *)
Notify == asleep' = {} /\ permit' = TRUE

AttachEnds(result) ==
    /\ attach' = [attach EXCEPT !.pc = result]
    /\ Notify

AttachCheck ==
    /\ attach.pc = "check"
    /\ IF Cancelled THEN AttachEnds("error")
       ELSE attach' = [attach EXCEPT !.pc = "start"] /\ UNCHANGED waiterVars
    /\ UNCHANGED <<buffer, audio, providerVars>>

(* The recognizer has answered the start.                                   *)
AttachStarted ==
    /\ attach.pc = "start"
    /\ \/ /\ Started(Cloud, Cancelled)
          /\ attach' = [attach EXCEPT !.pc = "look"]
          /\ UNCHANGED <<buffer, waiterVars>>
       \/ /\ AttachEnds("error")
          /\ buffer' = IF Cancelled THEN buffer ELSE [state |-> "failed", pcm |-> <<>>]
          /\ UNCHANGED <<state, late>>
    /\ UNCHANGED <<audio, fed, asked>>

(* Slip: direct delivery as soon as the first chunk is out.                  *)
AttachLookOnce ==
    /\ attach.pc = "look"
    /\ \/ /\ Cancelled
          /\ Ends(Cloud, "cancelled")
          /\ AttachEnds("error")
          /\ UNCHANGED buffer
       \/ /\ ~Cancelled /\ attach.pcm # <<>>
          /\ attach' = [attach EXCEPT !.pc = "feed"]
          /\ UNCHANGED <<buffer, waiterVars, state>>
       \/ /\ ~Cancelled /\ attach.pcm = <<>>
          /\ buffer' = [buffer EXCEPT !.state = "direct"]
          /\ AttachEnds("ok")
          /\ UNCHANGED state
    /\ UNCHANGED <<audio, fed, asked, late>>

(* Slip: the audio taken before the start is forwarded without a look.       *)
AttachLookLater ==
    /\ attach.pc = "look"
    /\ \/ /\ Cancelled /\ attach.pcm = <<>>
          /\ Ends(Cloud, "cancelled")
          /\ AttachEnds("error")
          /\ UNCHANGED buffer
       \/ /\ attach.pcm # <<>>
          /\ attach' = [attach EXCEPT !.pc = "feed"]
          /\ UNCHANGED <<buffer, waiterVars, state>>
       \/ /\ ~Cancelled /\ attach.pcm = <<>> /\ buffer.pcm # <<>>
          /\ attach' = [attach EXCEPT !.pc = "feed", !.pcm = buffer.pcm]
          /\ buffer' = [buffer EXCEPT !.pcm = <<>>]
          /\ UNCHANGED <<waiterVars, state>>
       \/ /\ ~Cancelled /\ attach.pcm = <<>> /\ buffer.pcm = <<>>
          /\ buffer' = [buffer EXCEPT !.state = "direct"]
          /\ AttachEnds("ok")
          /\ UNCHANGED state
    /\ UNCHANGED <<audio, fed, asked, late>>

(* Under the lock: what there is to forward, and direct delivery only when   *)
(* nothing has arrived since.                                               *)
AttachLook ==
    /\ attach.pc = "look"
    /\ \/ /\ Cancelled
          /\ Ends(Cloud, "cancelled")
          /\ AttachEnds("error")
          /\ UNCHANGED buffer
       \/ /\ ~Cancelled /\ attach.pcm # <<>>
          /\ attach' = [attach EXCEPT !.pc = "feed"]
          /\ UNCHANGED <<buffer, waiterVars, state>>
       \/ /\ ~Cancelled /\ attach.pcm = <<>> /\ buffer.pcm # <<>>
          /\ attach' = [attach EXCEPT !.pc = "feed", !.pcm = buffer.pcm]
          /\ buffer' = [buffer EXCEPT !.pcm = <<>>]
          /\ UNCHANGED <<waiterVars, state>>
       \/ /\ ~Cancelled /\ attach.pcm = <<>> /\ buffer.pcm = <<>>
          /\ buffer' = [buffer EXCEPT !.state = "direct"]
          /\ AttachEnds("ok")
          /\ UNCHANGED state
    /\ UNCHANGED <<audio, fed, asked, late>>

AttachFeed ==
    /\ attach.pc = "feed"
    /\ Feed(Cloud, attach.pcm)
    /\ attach' = [attach EXCEPT !.pc = "look", !.pcm = <<>>]
    /\ UNCHANGED <<buffer, waiterVars, audio, state, asked, late>>

AttachStep == AttachCheck \/ AttachLook \/ AttachFeed

(* The future that polls the attachment is dropped while the recognizer has  *)
(* not answered: its start is dropped with it.                              *)
DropAttach == attach.pc = "start" /\ AttachEnds("error")

----------------------------------------------------------------------------
(* take_cancel_state, and the cancellation of the recognizer it has found.  *)
TakeCancelState ==
    /\ buffer' = [state |-> "cancelled", pcm |-> <<>>]
    /\ IF buffer.state = "direct" THEN Ends(Cloud, "cancelled") ELSE UNCHANGED state

(* waiter.notified().await: the task takes the permit, or sleeps.           *)
Notified(task) ==
    \/ permit /\ permit' = FALSE /\ UNCHANGED asleep
    \/ ~permit /\ asleep' = asleep \cup {task} /\ UNCHANGED permit
=============================================================================
