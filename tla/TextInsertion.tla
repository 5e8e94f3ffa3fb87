--------------------------- MODULE TextInsertion ---------------------------
(***************************************************************************)
(* One native text insertion (ActiveTextInsertion, api.rs) and its entry   *)
(* in the registry of the backend, from a prepared platform session to the *)
(* moment the backend lets go of it.                                       *)
(*                                                                         *)
(*   the polisher   streams deltas, written by a flush loop                *)
(*   the recognizer streams partial transcripts, shown by a partial loop   *)
(*                  as a composition in the target document                *)
(*   the stop       waits for both loops and commits the final text; a     *)
(*                  task of the executor owns the native finalization      *)
(*   cancellations  start the native cleanup or join what is in flight     *)
(*   a retry worker repeats a cleanup that failed (Windows)                *)
(*                                                                         *)
(* A native call is two steps, its begin and its end; every other action   *)
(* is the code between two awaits. `asleep` holds the tasks parked on the  *)
(* `drained` Notify: they look again only after a notify_waiters.          *)
(***************************************************************************)
EXTENDS Naturals, Sequences, FiniteSets, SequencesExt

CONSTANTS
    Char, Space,    \* characters of the texts; the ASCII space
    Polished,       \* the text the polisher streams
    Finals,         \* the texts the stop may commit
    Caller,         \* tasks that may cancel: the stop's error path, a cancel, a late start
    MaxPartials     \* bound on the partial transcripts

Text == Seq(Char)

ASSUME TextInsertionAssumption ==
    /\ Space \in Char
    /\ Polished \in Text
    /\ Finals \subseteq Text \ {<<>>}
    /\ "retry" \notin Caller
    /\ MaxPartials \in Nat

Canceller == Caller \cup {"retry"}
Waiter == Canceller \cup {"stop", "cleanup"}

VARIABLES
    windows,     \* cfg!(target_os = "windows")
    streaming,   \* text is streamed while it is polished; composition_input if not
    stream,      \* StreamingInsertState
    flush,       \* the flush loop: where it is, and the delta being written
    heard,       \* partial transcripts so far
    newest,      \* partial_pending, 0 for None
    intake,      \* whether a partial is still taken in: partial_failed, partial_closed
    show,        \* the partial loop: where it is
    showing,     \* the partial in the native composition update, 0 when none
    terminal,    \* terminal, by the meaning of its numbers
    result,      \* cancel_result
    stop,        \* the stop handler's call: where it is, and the final text
    commit,      \* the task of the native finalization
    cancel,      \* each cancellation: where it is, and its cleanup retries
    cleanup,     \* the task of the native cleanup
    entry,       \* the entry in text_insertions: there, removed, or given up with its hold
    worker,      \* the retry worker, and whether it found the target unavailable
    asleep,      \* tasks waiting for `drained`
    document,    \* what the target document holds
    composition, \* the composition the target shows, 0 when none
    clipboard    \* what was last copied

streamVars == <<stream, flush>>
partialVars == <<heard, newest, intake, show, showing>>
stopVars   == <<stop, commit>>
cancelVars == <<cancel, cleanup, result>>
entryVars  == <<entry, worker>>
hostVars   == <<document, composition, clipboard>>
config     == <<windows, streaming>>
vars == <<config, streamVars, partialVars, terminal, stopVars, cancelVars, entryVars, asleep,
          hostVars>>

TypeOK ==
    /\ windows \in BOOLEAN /\ streaming \in BOOLEAN
    /\ entry \in {"registered", "removed", "abandoned"}
    /\ worker \in {"off", "retrying", "unavailable"}
    /\ stream \in [pending : Text, typed : Text, failed : BOOLEAN, accepted : Nat]
    /\ flush \in [pc : {"off", "sleep", "write"}, delta : Text]
    /\ heard \in 0..MaxPartials /\ showing \in 0..MaxPartials
    /\ composition \in 0..MaxPartials
    /\ newest \in 0..MaxPartials
    /\ intake \in {"open", "failed", "closed"}
    /\ show \in {"off", "take", "update"}
    /\ terminal \in {"open", "finishing", "cancelling", "finished", "cancelled"}
    /\ result \in {"none", "ok", "error"}
    /\ stop \in [pc : {"none", "stream", "partials", "commit", "inserted", "copied", "error"},
                 text : Text]
    /\ commit \in {"off", "reconcile", "insert", "tail", "keep", "close", "copy", "closeCopied",
                   "closeFailed"}
    /\ cancel \in [Canceller -> [pc : {"none", "loop", "ok", "error", "settled", "failed"},
                                 retries : 0..2]]
    /\ cleanup \in {"off", "stream", "partials", "native"}
    /\ asleep \in SUBSET Waiter
    /\ document \in Text /\ clipboard \in Text

Init ==
    /\ windows \in BOOLEAN
    /\ streaming \in BOOLEAN
    /\ stream = [pending |-> <<>>, typed |-> <<>>, failed |-> FALSE, accepted |-> 0]
    /\ flush = [pc |-> "off", delta |-> <<>>]
    /\ heard = 0
    /\ newest = 0
    /\ intake = "open"
    /\ show = "off"
    /\ showing = 0
    /\ terminal = "open"
    /\ result = "none"
    /\ stop = [pc |-> "none", text |-> <<>>]
    /\ commit = "off"
    /\ cancel = [c \in Canceller |-> [pc |-> "none", retries |-> 0]]
    /\ cleanup = "off"
    /\ entry = "registered"
    /\ worker = "off"
    /\ asleep = {}
    /\ document = <<>>
    /\ composition = 0
    /\ clipboard = <<>>

Notify == asleep' = {}

(* `drained.notified()` is enabled before the condition is looked at.       *)
Sleep(w) == asleep' = asleep \cup {w}
Awake(w) == w \notin asleep

----------------------------------------------------------------------------
(* Streaming the polished text.                                             *)

Prefix(text, n) == SubSeq(text, 1, n)

Scheduled == flush.pc # "off"
FlushAt(pc, delta) == flush' = [pc |-> pc, delta |-> delta]

(* The engine has not handed over its result.                               *)
Polishing == stop.pc = "none"

(* push_delta: what is already accepted is skipped, a gap fails the stream.  *)
Pushed(offset, delta) ==
    IF stream.failed THEN stream
    ELSE IF offset > stream.accepted THEN [stream EXCEPT !.failed = TRUE]
    ELSE LET suffix == SubSeq(delta, stream.accepted - offset + 1, Len(delta)) IN
         [stream EXCEPT !.pending = @ \o suffix, !.accepted = @ + Len(suffix)]

(* The engine's polish deltas: pieces of the polished text, possibly sent    *)
(* again or with one missing.                                               *)
Push ==
    \E offset \in 0..Len(Polished), end \in 1..Len(Polished) :
        /\ streaming /\ Polishing
        /\ offset < end
        /\ stream' = Pushed(offset, SubSeq(Polished, offset + 1, end))
        /\ IF Scheduled \/ stream'.pending = <<>> \/ stream'.failed
           THEN UNCHANGED flush
           ELSE FlushAt("sleep", <<>>)
        /\ UNCHANGED <<config, partialVars, terminal, stopVars, cancelVars, entryVars,
                       asleep, hostVars>>

(* take_ready_prefix holds trailing spaces back for the next delta: it goes  *)
(* as far as there is still another character to come.                      *)
Ready(text) ==
    Prefix(text, Cardinality({n \in 1..Len(text) : \E m \in n..Len(text) : text[m] # Space}))

(* Slip: the loop leaves without waking those that wait for it.             *)
LeaveFlushSilently == FlushAt("off", <<>>) /\ UNCHANGED asleep

LeaveFlush == FlushAt("off", <<>>) /\ Notify

FlushTake ==
    /\ flush.pc = "sleep"
    /\ LET ready == Ready(stream.pending) IN
       IF stream.failed \/ ready = <<>>
       THEN LeaveFlush /\ UNCHANGED stream
       ELSE /\ stream' = [stream EXCEPT !.pending = SubSeq(@, Len(ready) + 1, Len(@))]
            /\ FlushAt("write", ready)
            /\ UNCHANGED asleep
    /\ UNCHANGED <<config, partialVars, terminal, stopVars, cancelVars, entryVars,
                   hostVars>>

(* Slip: the number of characters the host typed is ignored.                *)
WrittenInFull(delta, n) == [stream EXCEPT !.typed = @ \o delta]

(* The host typed n characters of the delta; fewer than all is a failure, and *)
(* so is an error, which does not say how many it typed.                    *)
Written(delta, n) ==
    [stream EXCEPT !.typed = @ \o Prefix(delta, n), !.failed = @ \/ n < Len(delta)]

FlushWritten ==
    /\ flush.pc = "write"
    /\ \E n \in 0..Len(flush.delta) :
        /\ document' = document \o Prefix(flush.delta, n)
        /\ stream' \in {Written(flush.delta, n), [stream EXCEPT !.failed = TRUE]}
    /\ IF stream'.failed \/ stream'.pending = <<>>
       THEN LeaveFlush
       ELSE FlushAt("sleep", <<>>) /\ UNCHANGED asleep
    /\ UNCHANGED <<config, partialVars, terminal, stopVars, cancelVars, entryVars,
                   composition, clipboard>>

----------------------------------------------------------------------------
(* Showing the partial transcripts.                                         *)

(* push_partial: only the newest partial is kept, one loop sends them.      *)
PushPartial ==
    /\ ~streaming
    /\ heard < MaxPartials
    /\ heard' = heard + 1
    /\ IF intake # "open" THEN UNCHANGED <<newest, show>>
       ELSE newest' = heard' /\ show' = IF show = "off" THEN "take" ELSE show
    /\ UNCHANGED <<config, streamVars, intake, showing, terminal, stopVars, cancelVars, entryVars,
                   asleep, hostVars>>

PartialTake ==
    /\ show = "take"
    /\ newest' = 0
    /\ IF intake = "closed" \/ newest = 0
       THEN show' = "off" /\ Notify /\ UNCHANGED showing
       ELSE show' = "update" /\ showing' = newest /\ UNCHANGED asleep
    /\ UNCHANGED <<config, streamVars, heard, intake, terminal, stopVars, cancelVars, entryVars,
                   hostVars>>

PartialShown ==
    /\ show = "update"
    /\ showing' = 0
    /\ \/ /\ composition' = showing
          /\ show' = "take"
          /\ UNCHANGED <<newest, intake, asleep>>
       \/ /\ intake' = IF intake = "open" THEN "failed" ELSE intake
          /\ newest' = 0
          /\ show' = "off"
          /\ Notify
          /\ UNCHANGED composition
    /\ UNCHANGED <<config, streamVars, heard, terminal, stopVars, cancelVars, entryVars, document,
                   clipboard>>

ClosePartials == intake' = "closed" /\ newest' = 0

----------------------------------------------------------------------------
(* The stop: ActiveTextInsertion::finish under finish_text_insertion.       *)

StopAt(pc) == stop' = [stop EXCEPT !.pc = pc]

(* The engine has returned its result; finish_text_insertion looks the      *)
(* entry up.                                                                *)
Finish ==
    /\ Polishing
    /\ \E text \in Finals :
        stop' = [pc |-> IF entry = "registered" THEN "stream" ELSE "error", text |-> text]
    /\ UNCHANGED <<config, streamVars, partialVars, terminal, commit, cancelVars,
                   entryVars, asleep, hostVars>>

(* wait_for_stream_drain, then close_partials.                              *)
FinishStream ==
    /\ stop.pc = "stream" /\ Awake("stop")
    /\ IF Scheduled THEN Sleep("stop") /\ UNCHANGED <<stop, intake, newest>>
       ELSE StopAt("partials") /\ ClosePartials /\ UNCHANGED asleep
    /\ UNCHANGED <<config, streamVars, heard, show, showing, terminal, commit, cancelVars, entryVars,
                   hostVars>>

(* Slip: the final text is committed beside a partial update in flight.     *)
FinishPartialsAtOnce ==
    /\ stop.pc = "partials"
    /\ IF terminal = "open"
       THEN StopAt("commit") /\ terminal' = "finishing" /\ commit' = "reconcile"
       ELSE StopAt("error") /\ UNCHANGED <<terminal, commit>>
    /\ UNCHANGED <<config, streamVars, partialVars, cancelVars, entryVars, asleep, hostVars>>

(* wait_for_partial_drain, then the claim of the terminal.                  *)
FinishPartials ==
    /\ stop.pc = "partials" /\ Awake("stop")
    /\ IF show # "off" THEN Sleep("stop") /\ UNCHANGED <<stop, commit, terminal>>
       ELSE /\ IF terminal = "open"
               THEN StopAt("commit") /\ terminal' = "finishing" /\ commit' = "reconcile"
               ELSE StopAt("error") /\ UNCHANGED <<terminal, commit>>
            /\ UNCHANGED asleep
    /\ UNCHANGED <<config, streamVars, partialVars, cancelVars, entryVars, hostVars>>

(* reconcile_final, under the lock.                                         *)
Reconcile ==
    /\ commit = "reconcile"
    /\ commit' = IF stream.failed THEN "copy"
                 ELSE IF stream.typed = <<>> THEN "insert"
                 ELSE IF stream.typed = stop.text THEN "keep"
                 ELSE IF IsPrefix(stream.typed, stop.text) THEN "tail"
                 ELSE "copy"
    /\ UNCHANGED <<config, streamVars, partialVars, terminal, stop, cancelVars, entryVars, asleep,
                   hostVars>>

LetGo(how) == entry' = IF entry = "registered" THEN how ELSE entry

(* The native finalization settles: only Windows may retain a composition   *)
(* after a failure and is open again. finish_text_insertion removes the     *)
(* entry unless there is an error.                                          *)
CommitSettles(outcome) ==
    /\ commit' = "off"
    /\ terminal' = IF windows /\ outcome = "error" THEN "open" ELSE "finished"
    /\ StopAt(outcome)
    /\ IF outcome = "error" THEN UNCHANGED entry ELSE LetGo("removed")
    /\ Notify
    /\ UNCHANGED worker

(* platform.finish with a text replaces the composition by it, and the host *)
(* may answer that it had to use the clipboard.                             *)
HostInserts ==
    /\ commit = "insert"
    /\ \/ /\ document' = document \o stop.text
          /\ composition' = 0
          /\ CommitSettles("inserted")
          /\ UNCHANGED clipboard
       \/ /\ clipboard' = stop.text
          /\ composition' = 0
          /\ CommitSettles("copied")
          /\ UNCHANGED document
       \/ /\ composition' \in IF windows THEN {0, composition} ELSE {0}
          /\ CommitSettles("error")
          /\ UNCHANGED <<document, clipboard>>
    /\ UNCHANGED <<config, streamVars, partialVars, cancelVars>>

(* The rest of a streamed text: all of it, or the clipboard.                *)
HostWritesTail ==
    /\ commit = "tail"
    /\ LET tail == SubSeq(stop.text, Len(stream.typed) + 1, Len(stop.text)) IN
       \E n \in 0..Len(tail) :
            /\ document' = document \o Prefix(tail, n)
            /\ commit' = IF n = Len(tail) THEN "keep" ELSE "copy"
    /\ UNCHANGED <<config, streamVars, partialVars, terminal, stop, cancelVars, entryVars, asleep,
                   composition, clipboard>>

(* save_streamed_text_to_clipboard is a preference; its copy may fail.      *)
HostKeeps ==
    /\ commit = "keep"
    /\ clipboard' \in {clipboard, stop.text}
    /\ commit' = "close"
    /\ UNCHANGED <<config, streamVars, partialVars, terminal, stop, cancelVars, entryVars, asleep,
                   document, composition>>

(* finish_with_fallback: the copy, and then the close whatever it answered. *)
HostCopies ==
    /\ commit = "copy"
    /\ \/ clipboard' = stop.text /\ commit' = "closeCopied"
       \/ UNCHANGED clipboard /\ commit' = "closeFailed"
    /\ UNCHANGED <<config, streamVars, partialVars, terminal, stop, cancelVars, entryVars, asleep,
                   document, composition>>

HostCloses ==
    /\ commit \in {"close", "closeCopied", "closeFailed"}
    /\ \/ /\ composition' = 0
          /\ CommitSettles(CASE commit = "close" -> "inserted"
                             [] commit = "closeCopied" -> "copied"
                             [] commit = "closeFailed" -> "error")
       \/ /\ composition' \in IF windows THEN {0, composition} ELSE {0}
          /\ CommitSettles("error")
    /\ UNCHANGED <<config, streamVars, partialVars, cancelVars, document, clipboard>>

----------------------------------------------------------------------------
(* Cancellation.                                                            *)

CancelAt(c, pc) == cancel' = [cancel EXCEPT ![c].pc = pc]

(* cancel closes both loops before it looks at the terminal.                *)
CloseLoops ==
    /\ ClosePartials
    /\ stream' = [stream EXCEPT !.pending = <<>>, !.failed = TRUE]

(* The stop's error path cancels once it has an error; a cancel_dictation   *)
(* or a late start may come at any time. Without an entry there is nothing  *)
(* to do.                                                                   *)
Cancel(c) ==
    /\ cancel[c].pc = "none"
    /\ IF entry = "registered" THEN CancelAt(c, "loop") /\ CloseLoops
       ELSE CancelAt(c, "settled") /\ UNCHANGED <<intake, newest, stream>>
    /\ UNCHANGED <<config, flush, heard, show, showing, terminal, stopVars, cleanup, result,
                   entryVars, asleep, hostVars>>

(* The first cancellation owns the cleanup and spawns it.                   *)
ClaimCleanup(c) ==
    /\ terminal = "open"
    /\ terminal' = "cancelling"
    /\ cleanup' = "stream"
    /\ UNCHANGED <<cancel, result, asleep>>

JoinCleanup(c) ==
    /\ terminal \in {"finishing", "cancelling"}
    /\ Sleep(c)
    /\ UNCHANGED <<terminal, cancel, cleanup, result>>

AfterFinish(c) ==
    /\ terminal = "finished"
    /\ CancelAt(c, "ok")
    /\ UNCHANGED <<terminal, cleanup, result, asleep>>

(* The cached result of the cleanup; on Windows a call tries a failed one    *)
(* twice more.                                                              *)
AfterCleanup(c) ==
    /\ terminal = "cancelled"
    /\ IF result = "error" /\ windows /\ cancel[c].retries < 2
       THEN /\ terminal' = "open"
            /\ result' = "none"
            /\ cancel' = [cancel EXCEPT ![c].retries = @ + 1]
       ELSE /\ cancel' = [cancel EXCEPT ![c] = [pc |-> result, retries |-> 0]]
            /\ UNCHANGED <<terminal, result>>
    /\ UNCHANGED <<cleanup, asleep>>

(* Slip: a second cancellation takes a cleanup in flight for done.          *)
CancelLoopNoJoin(c) ==
    /\ cancel[c].pc = "loop" /\ Awake(c)
    /\ \/ ClaimCleanup(c)
       \/ /\ terminal \in {"finishing", "cancelling", "finished"}
          /\ CancelAt(c, "ok")
          /\ UNCHANGED <<terminal, cleanup, result, asleep>>
       \/ AfterCleanup(c)
    /\ UNCHANGED <<config, streamVars, partialVars, stopVars, entryVars, hostVars>>

CancelLoop(c) ==
    /\ cancel[c].pc = "loop" /\ Awake(c)
    /\ ClaimCleanup(c) \/ JoinCleanup(c) \/ AfterFinish(c) \/ AfterCleanup(c)
    /\ UNCHANGED <<config, streamVars, partialVars, stopVars, entryVars, hostVars>>

(* The cleanup task drains both loops before the native cancel.             *)
CleanupStream ==
    /\ cleanup = "stream" /\ Awake("cleanup")
    /\ IF Scheduled THEN Sleep("cleanup") /\ UNCHANGED cleanup
       ELSE cleanup' = "partials" /\ UNCHANGED asleep
    /\ UNCHANGED <<config, streamVars, partialVars, terminal, stopVars, cancel, result, entryVars,
                   hostVars>>

CleanupPartials ==
    /\ cleanup = "partials" /\ Awake("cleanup")
    /\ IF show # "off" THEN Sleep("cleanup") /\ UNCHANGED cleanup
       ELSE cleanup' = "native" /\ UNCHANGED asleep
    /\ UNCHANGED <<config, streamVars, partialVars, terminal, stopVars, cancel, result, entryVars,
                   hostVars>>

(* A failed platform.cancel leaves a composition behind on Windows only.    *)
HostCancels ==
    /\ cleanup = "native"
    /\ cleanup' = "off"
    /\ \/ result' = "ok" /\ composition' = 0
       \/ result' = "error" /\ composition' \in IF windows THEN {0, composition} ELSE {0}
    /\ terminal' = "cancelled"
    /\ Notify
    /\ UNCHANGED <<config, streamVars, partialVars, stopVars, cancel, entryVars, document, clipboard>>

----------------------------------------------------------------------------
(* The registry entry after a cancellation, and the retry worker.           *)

(* Slip: the entry goes whatever the cleanup answered.                      *)
SettleAnyway(c) ==
    /\ cancel[c].pc \in {"ok", "error"}
    /\ LetGo("removed")
    /\ CancelAt(c, "settled")
    /\ UNCHANGED <<config, streamVars, partialVars, terminal, stopVars, cleanup, result, worker,
                   asleep, hostVars>>

(* cancel_text_insertion: only Windows keeps the entry after an error, and  *)
(* one worker retries its cleanup.                                          *)
Settle(c) ==
    /\ cancel[c].pc \in {"ok", "error"}
    /\ IF cancel[c].pc = "ok" \/ ~windows
       THEN LetGo("removed") /\ UNCHANGED worker
       ELSE worker' = (IF worker = "off" THEN "retrying" ELSE worker) /\ UNCHANGED entry
    /\ CancelAt(c, IF cancel[c].pc = "ok" THEN "settled" ELSE "failed")
    /\ UNCHANGED <<config, streamVars, partialVars, terminal, stopVars, cleanup, result, asleep,
                   hostVars>>

(* After its delay the worker calls cancel again.                           *)
Retry ==
    /\ worker # "off"
    /\ cancel["retry"].pc = "none"
    /\ CancelAt("retry", "loop")
    /\ CloseLoops
    /\ UNCHANGED <<config, flush, heard, show, showing, terminal, stopVars, cleanup, result,
                   entryVars, asleep, hostVars>>

RetryIdle == CancelAt("retry", "none")

RetrySucceeds ==
    /\ cancel["retry"].pc = "ok"
    /\ LetGo("removed")
    /\ worker' = "off"
    /\ RetryIdle
    /\ UNCHANGED <<config, streamVars, partialVars, terminal, stopVars, cleanup, result, asleep,
                   hostVars>>

(* An unavailable target is given up once it stayed so for the window;      *)
(* every other failure is retried without end.                              *)
RetryFails ==
    /\ cancel["retry"].pc = "error"
    /\ \/ worker' \in {"retrying", "unavailable"} /\ UNCHANGED entry
       \/ /\ worker = "unavailable"
          /\ LetGo("abandoned")
          /\ worker' = "off"
    /\ RetryIdle
    /\ UNCHANGED <<config, streamVars, partialVars, terminal, stopVars, cleanup, result, asleep,
                   hostVars>>

----------------------------------------------------------------------------
FlushLoop == FlushTake \/ FlushWritten
PartialLoop == PartialTake \/ PartialShown
StopStep == FinishStream \/ FinishPartials
CommitTask == Reconcile \/ HostInserts \/ HostWritesTail \/ HostKeeps \/ HostCopies \/ HostCloses
CleanupTask == CleanupStream \/ CleanupPartials \/ HostCancels
RetryStep == Retry \/ CancelLoop("retry") \/ RetrySucceeds \/ RetryFails

Next ==
    \/ Push \/ PushPartial \/ Finish
    \/ FlushLoop \/ PartialLoop \/ StopStep \/ CommitTask \/ CleanupTask \/ RetryStep
    \/ \E c \in Caller : Cancel(c) \/ CancelLoop(c) \/ Settle(c)

Spec == Init /\ [][Next]_vars

(* Spawned tasks run and native calls return; nobody has to cancel, stop or *)
(* speak. A cancellation woken by a cleanup sees its result before the       *)
(* worker's next attempt, 50 ms or more later: strong fairness.             *)
Fairness ==
    /\ WF_vars(FlushLoop)
    /\ WF_vars(PartialLoop)
    /\ WF_vars(StopStep)
    /\ WF_vars(CommitTask)
    /\ WF_vars(CleanupTask)
    /\ \A c \in Canceller :
        WF_vars(CancelLoop(c)) /\ SF_vars(terminal = "cancelled" /\ CancelLoop(c))
FairSpec == Spec /\ Fairness

----------------------------------------------------------------------------
(* The native session serves one call at a time: a delta, a composition     *)
(* update, the finalization and the cleanup never overlap, whichever loop,  *)
(* stop or cancellation they come from.                                     *)
InNativeCall(task) ==
    CASE task = "flush"    -> flush.pc = "write"
      [] task = "partials" -> show = "update"
      [] task = "commit"   -> commit \notin {"off", "reconcile"}
      [] task = "cleanup"  -> cleanup = "native"
NativeCallsInTurn ==
    \A t, u \in {"flush", "partials", "commit", "cleanup"} :
        InNativeCall(t) /\ InNativeCall(u) => t = u

(* A successful finish left the target with the final text once, whatever   *)
(* part of it was streamed, and with no composition that a late partial      *)
(* update put back; after a fallback the clipboard has the whole text.      *)
DeliveredExactly ==
    /\ stop.pc = "inserted" => document = stop.text /\ composition = 0
    /\ stop.pc = "copied" => clipboard = stop.text /\ composition = 0

(* Once a cancellation has answered that it is done, nothing of this session *)
(* reaches the target any more: it joined the finalization or the cleanup    *)
(* that another task has in flight. A target given up as unavailable may     *)
(* still have a cleanup of another caller on its way.                       *)
CancelReturned(c) == cancel[c].pc \in {"ok", "settled"}
CancelledIsQuiet ==
    [][(\E c \in Caller : CancelReturned(c)) /\ entry # "abandoned"
            => UNCHANGED <<document, composition>>]_vars

(* The backend lets go of a session, and with it of the microphone's lease,  *)
(* only when the target shows no composition of it, or after it has given up *)
(* a target that stayed unavailable.                                        *)
ReleasedClean == entry = "removed" => composition = 0

(* A finish and the cancellations return, however they meet: no wakeup is    *)
(* lost between the loops, the two tasks and those that wait for them.      *)
NobodyWaits ==
    /\ stop.pc \notin {"stream", "partials", "commit"}
    /\ \A c \in Caller : cancel[c].pc # "loop"
CallersReturn == []<>NobodyWaits
=============================================================================
