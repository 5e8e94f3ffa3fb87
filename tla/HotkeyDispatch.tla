--------------------------- MODULE HotkeyDispatch ---------------------------
(***************************************************************************)
(* The recording key driving the dictation session: the native listener    *)
(* that emits edges, the tasks that dispatch them concurrently through     *)
(* CoreBackend::dispatch_dictation_hotkey_edge, and the session they open, *)
(* stop and cancel next to a UI that starts, stops and cancels it too.     *)
(*                                                                         *)
(* Every edge is a task with a program counter; a step of it is the code   *)
(* between two awaits or two acquisitions of a lock. The session itself is *)
(* kept abstract: phases Transcribing to Completed and Failed, in which a  *)
(* session can only end, are one phase "Finalizing".                       *)
(*                                                                         *)
(* Bounds: at most MaxPress presses, MaxUi sessions of the UI and MaxTime  *)
(* ticks, of which a behaviour keeps to one of the Budgets of its mode;    *)
(* companion keys during the presses in Chorded.                           *)
(* HotkeyInterpreter::reset is left out: a change of the binding, or a     *)
(* voice question started from the recording key.                          *)
(***************************************************************************)
EXTENDS HotkeyInterpreter, FiniteSets

CONSTANTS
    Budgets,        \* per hotkey mode explored, how many presses, sessions of the
                    \* UI and ticks go together
    ModifierOnly,   \* whether the trigger is a bare modifier: a set of BOOLEANs
    MaxPress, MaxUi, MaxTime,
    Chorded         \* the presses during which a companion key may come

ASSUME DispatchAssumption ==
    /\ Budgets \subseteq [mode : HotkeyMode, presses : 0..MaxPress, ui : 0..MaxUi,
                           time : 0..MaxTime]
    /\ ModifierOnly \subseteq BOOLEAN
    /\ {MaxPress, MaxUi, MaxTime} \subseteq Nat
    /\ Chorded \subseteq 1..MaxPress

Press == 1..MaxPress
EdgeKind == {"Pressed", "Released", "Combined"}
SessionId == 1..(MaxPress + MaxUi)

VARIABLES
    mode, modifier, \* preferences.hotkey, constant during a behaviour
    now,            \* the monotonic clock
    at,             \* timestamps of the Pressed and Released edges
    pc,             \* program counter of each edge's dispatch
    target,         \* the session an edge's stop or cancel is bound to
    hotkey,         \* the HotkeyInterpreter, under its lock
    captures,       \* presses with an armed provisional capture
    phase, sid,     \* state.dictation: phase and session id (0 is None)
    opener,         \* the press that opened each session so far, 0 for the UI
    inStart,        \* sessions whose start_reserved_dictation has not returned
    ready,          \* the sessions of inStart whose engine has started
    cleaning,       \* cancelled sessions whose adapters still clean up
    lease           \* the session in the VoiceSessionGate, 0 when free

settings == <<mode, modifier>>
edges    == <<now, at>>
tasks    == <<pc, target>>
core     == <<phase, sid, opener, inStart, ready, cleaning, lease>>
dispatchVars == <<settings, edges, tasks, hotkey, captures, core>>

PcState ==
    {"idle", "sent", "lost", "done",                  \* every edge
     "arm", "reserve", "grace", "starting",           \* a start
     "started", "failed", "abort",
     "stop", "waiting", "finishing",                  \* a stop
     "discard", "cancel", "cancelling",               \* a combined edge
     "cleanup"}                                       \* both cancellations, a stale start

DispatchTypeOK ==
    /\ mode \in HotkeyMode /\ modifier \in BOOLEAN
    /\ now \in 0..MaxTime
    /\ at \in [{"Pressed", "Released"} \X Press -> 0..MaxTime]
    /\ pc \in [EdgeKind \X Press -> PcState]
    /\ target \in [EdgeKind \X Press -> SessionId \cup {0}]
    /\ hotkey.held \in [id : Press \cup {0}, at : 0..MaxTime, accepted : BOOLEAN]
    /\ hotkey.session \in Press \cup {0}
    /\ hotkey.pendingCombined \in BoundedSeq(Press, MaxPending)
    /\ hotkey.pendingReleased \in BoundedSeq(Press, MaxPending)
    /\ hotkey.lastDispatch \in [id : Press \cup {0}, at : 0..MaxTime]
    /\ hotkey.cooldown \in 0..(MaxTime + Cooldown)
    /\ captures \subseteq Press
    /\ phase \in {"Idle", "Starting", "Recording", "Finalizing"}
    /\ sid \in SessionId \cup {0}
    /\ phase = "Idle" <=> sid = 0
    /\ opener \in BoundedSeq(Press \cup {0}, MaxPress + MaxUi)
    /\ inStart \subseteq SessionId
    /\ ready \subseteq SessionId
    /\ cleaning \subseteq SessionId
    /\ lease \in SessionId \cup {0}

DispatchInit ==
    /\ mode \in {b.mode : b \in Budgets} /\ modifier \in ModifierOnly
    /\ now = 0
    /\ at = [e \in {"Pressed", "Released"} \X Press |-> 0]
    /\ pc = [e \in EdgeKind \X Press |-> "idle"]
    /\ target = [e \in EdgeKind \X Press |-> 0]
    /\ hotkey = InitInterpreter
    /\ captures = {}
    /\ phase = "Idle" /\ sid = 0
    /\ opener = <<>>
    /\ inStart = {} /\ ready = {} /\ cleaning = {}
    /\ lease = 0

Goto(k, p, label) == pc' = [pc EXCEPT ![<<k, p>>] = label]

(* The dispatch returns, its locals are gone.                               *)
Return(k, p) == Goto(k, p, "done") /\ target' = [target EXCEPT ![<<k, p>>] = 0]

----------------------------------------------------------------------------
(* The keyboard and its native listener.                                    *)

Pressed  == {p \in Press : pc["Pressed", p] # "idle"}
UiOpened == {s \in DOMAIN opener : opener[s] = 0}

Within(presses, ui, time) ==
    \E b \in Budgets : b.mode = mode /\ presses <= b.presses /\ ui <= b.ui /\ time <= b.time

Tick ==
    /\ Within(Cardinality(Pressed), Cardinality(UiOpened), now + 1)
    /\ now' = now + 1
    /\ UNCHANGED <<settings, at, tasks, hotkey, captures, core>>

IsDown(p) == pc["Pressed", p] # "idle" /\ pc["Released", p] = "idle"

(* next_press_id: a fresh id for every physical press.                      *)
KeyDown(p) ==
    /\ pc["Pressed", p] = "idle"
    /\ Within(Cardinality(Pressed) + 1, Cardinality(UiOpened), now)
    /\ \A q \in Press : q < p => pc["Pressed", q] # "idle" /\ ~IsDown(q)
    /\ at' = [at EXCEPT ![<<"Pressed", p>>] = now]
    /\ Goto("Pressed", p, "sent")
    /\ UNCHANGED <<settings, now, target, hotkey, captures, core>>

(* The key-up edge may be lost by the platform. Its timestamp is only read   *)
(* in Auto mode.                                                             *)
KeyUp(p, lost) ==
    /\ IsDown(p)
    /\ at' = [at EXCEPT ![<<"Released", p>>] = IF mode = "Auto" THEN now ELSE 0]
    /\ Goto("Released", p, IF lost THEN "lost" ELSE "sent")
    /\ UNCHANGED <<settings, now, target, hotkey, captures, core>>

Companion(p) ==
    /\ p \in Chorded
    /\ IsDown(p)
    /\ pc["Combined", p] = "idle"
    /\ Goto("Combined", p, "sent")
    /\ UNCHANGED <<settings, edges, target, hotkey, captures, core>>

----------------------------------------------------------------------------
(* Which edge may be dispatched: toggle-like edges run one after another on *)
(* the bridge thread, hold edges are spawned tasks of which only Pressed    *)
(* takes hotkey_dispatch_gate, Combined has a bridge thread of its own.     *)
Ended(k, p) == pc[k, p] \in {"lost", "done"}
Dispatched(k, p) == pc[k, p] \notin {"idle", "sent", "lost"}

MayBegin(k, p) ==
    /\ pc[k, p] = "sent"
    /\ k = "Combined" =>
         \A q \in Press : Dispatched("Combined", q) => Ended("Combined", q)
    /\ k # "Combined" /\ mode # "Hold" =>
         /\ \A q \in Press : q < p => Ended("Pressed", q) /\ Ended("Released", q)
         /\ k = "Released" => Ended("Pressed", p)
    /\ k = "Pressed" /\ mode = "Hold" =>
         \A q \in Press : Dispatched("Pressed", q) => Ended("Pressed", q)

(* The voice gate keeps a session's slot while native work of it runs.      *)
SettleLease ==
    lease' = IF lease # 0 /\ lease # sid' /\ lease \notin inStart' \cup cleaning'
             THEN 0 ELSE lease

NewSession(p) ==
    LET s == Len(opener) + 1 IN
    /\ opener' = Append(opener, p)
    /\ sid' = s
    /\ phase' = "Starting"
    /\ inStart' = inStart \cup {s}
    /\ lease' = s
    /\ UNCHANGED <<ready, cleaning>>

CanReserve == sid = 0 /\ lease = 0

----------------------------------------------------------------------------
(* Dispatch of Pressed.                                                     *)

BeginPressed(p) ==
    LET out == PressKey(hotkey, p, at["Pressed", p], mode, phase, modifier) IN
    /\ MayBegin("Pressed", p)
    /\ hotkey' = out.next
    /\ Goto("Pressed", p, CASE out.intent \in {"Start", "WaitForModifierGrace"} -> "arm"
                            [] out.intent = "Stop" -> "stop"
                            [] out.intent = "Noop" -> "done")
    /\ UNCHANGED <<settings, edges, target, captures, core>>

(* arm_pending_audio_capture may be unsupported or fail.                    *)
Arm(p) ==
    /\ pc["Pressed", p] = "arm"
    /\ captures' \in IF sid = 0 THEN {captures, captures \cup {p}} ELSE {captures}
    /\ Goto("Pressed", p, IF modifier THEN "grace" ELSE "reserve")
    /\ UNCHANGED <<settings, edges, target, hotkey, core>>

(* Slip: the capture of an undecided press is left armed.                   *)
DiscardNothing(p) == captures' = captures

(* discard_pending_audio_capture and the guard that ends with the dispatch. *)
Discard(p) == captures' = captures \ {p}

(* reserve_dictation_session for press p, under the hotkey lock.            *)
ReserveFor(p) ==
    IF CanReserve
    THEN NewSession(p) /\ Goto("Pressed", p, "starting")
    ELSE UNCHANGED core /\ Goto("Pressed", p, "failed")

Reserve(p) ==
    /\ pc["Pressed", p] = "reserve"
    /\ IF StartIsCurrent(hotkey, p)
       THEN ReserveFor(p)
       ELSE Goto("Pressed", p, "cleanup") /\ UNCHANGED core
    /\ Discard(p)      \* taken by the reservation, or discarded
    /\ UNCHANGED <<settings, edges, target, hotkey>>

GraceExpires(p) ==
    LET out == AfterModifierGrace(hotkey, p, phase) IN
    /\ pc["Pressed", p] = "grace"
    /\ hotkey' = out.next
    /\ IF out.intent = "Start"
       THEN ReserveFor(p)
       ELSE Goto("Pressed", p, "done") /\ UNCHANGED core
    /\ Discard(p)
    /\ UNCHANGED <<settings, edges, target>>

(* start_finished, under the hotkey lock, once the start has returned.      *)
FinishStart(p) ==
    LET combined == Contains(hotkey.pendingCombined, p)
        left == StartFinished(hotkey, p, pc["Pressed", p] = "started")
    IN
    /\ pc["Pressed", p] \in {"started", "failed"}
    /\ hotkey' = left
    /\ Goto("Pressed", p, IF ~combined                   THEN "done"
                          ELSE IF pc["Pressed", p] = "started" THEN "abort"
                          ELSE "cleanup")
    /\ UNCHANGED <<settings, edges, target, captures, core>>

----------------------------------------------------------------------------
(* cancel_dictation: the session is Idle at once, its adapters clean up.    *)
CancelLogically ==
    /\ sid' = 0
    /\ phase' = "Idle"
    /\ cleaning' = cleaning \cup {sid}
    /\ UNCHANGED <<opener, inStart, ready, lease>>

(* The start finished but a companion key overtook it.                      *)
AbortStart(p) ==
    /\ pc["Pressed", p] = "abort"
    /\ IF sid # 0 /\ opener[sid] = p
       THEN /\ CancelLogically
            /\ target' = [target EXCEPT ![<<"Pressed", p>>] = sid]
            /\ Goto("Pressed", p, "cleanup")
       ELSE Goto("Pressed", p, "done") /\ UNCHANGED <<target, core>>
    /\ UNCHANGED <<settings, edges, hotkey, captures>>

(* combo_cancelled, once the session is cleaned up or, for a start that was  *)
(* stale, its capture discarded; unless cancel_dictation failed after all.   *)
FinishCombo(k, p, failed) ==
    /\ pc[k, p] = "cleanup"
    /\ target[k, p] \notin cleaning
    /\ failed => target[k, p] # 0
    /\ hotkey' = IF failed THEN hotkey ELSE ComboCancelled(hotkey, p)
    /\ Return(k, p)
    /\ UNCHANGED <<settings, edges, captures, core>>

----------------------------------------------------------------------------
(* Dispatch of Released, and the stop both edges may ask for.               *)

BeginReleased(p) ==
    LET out == ReleaseKey(hotkey, p, at["Released", p], mode, phase) IN
    /\ MayBegin("Released", p)
    /\ hotkey' = out.next
    /\ Goto("Released", p, IF out.intent = "Stop" THEN "stop" ELSE "done")
    /\ UNCHANGED <<settings, edges, target, captures, core>>

(* stop_dictation_with_options without a session id: it binds to whichever  *)
(* session is active when it takes the state lock, and stays bound to it.   *)
Stop(k, p) ==
    /\ pc[k, p] \in {"stop", "waiting"}
    /\ IF sid = 0 \/ target[k, p] \notin {0, sid} \/ phase = "Finalizing"
       THEN Return(k, p) /\ UNCHANGED core
       ELSE /\ target' = [target EXCEPT ![<<k, p>>] = sid]
            /\ IF phase = "Recording"
               THEN /\ phase' = "Finalizing"
                    /\ Goto(k, p, "finishing")
               ELSE /\ pc[k, p] = "stop"      \* Starting: sleep until the phase changes
                    /\ Goto(k, p, "waiting")
                    /\ UNCHANGED phase
            /\ UNCHANGED <<sid, opener, inStart, ready, cleaning, lease>>
    /\ UNCHANGED <<settings, edges, hotkey, captures>>

FinishStop(k, p) ==
    /\ pc[k, p] = "finishing"
    /\ sid # target[k, p]
    /\ Return(k, p)
    /\ UNCHANGED <<settings, edges, hotkey, captures, core>>

----------------------------------------------------------------------------
(* Dispatch of Combined.                                                    *)

BeginCombined(p) ==
    LET out == CombineKey(hotkey, p) IN
    /\ MayBegin("Combined", p)
    /\ hotkey' = out.next
    /\ Goto("Combined", p, IF out.intent = "Cancel" THEN "cancel" ELSE "discard")
    /\ UNCHANGED <<settings, edges, target, captures, core>>

(* The provisional capture is discarded, then the snapshot is read.         *)
SnapshotCombined(p) ==
    /\ pc["Combined", p] \in {"cancel", "discard"}
    /\ Discard(p)
    /\ IF pc["Combined", p] = "cancel" /\ sid # 0
       THEN /\ target' = [target EXCEPT ![<<"Combined", p>>] = sid]
            /\ Goto("Combined", p, "cancelling")
       ELSE /\ Goto("Combined", p, "done")
            /\ UNCHANGED target
    /\ UNCHANGED <<settings, edges, hotkey, core>>

CancelCombined(p) ==
    /\ pc["Combined", p] = "cancelling"
    /\ IF sid = target["Combined", p]
       THEN CancelLogically /\ Goto("Combined", p, "cleanup") /\ UNCHANGED target
       ELSE Return("Combined", p) /\ UNCHANGED core
    /\ UNCHANGED <<settings, edges, hotkey, captures>>

----------------------------------------------------------------------------
(* The session: native start, completion, failure, clean-up.                *)

EngineReady ==
    /\ phase = "Starting"
    /\ phase' = "Recording"
    /\ ready' = ready \cup {sid}
    /\ UNCHANGED <<sid, opener, inStart, cleaning, lease>>
    /\ UNCHANGED <<settings, edges, tasks, hotkey, captures>>

(* mark_dictation_failed: a start or a recording that fails can only end.   *)
Fail ==
    /\ phase \in {"Starting", "Recording"}
    /\ phase' = "Finalizing"
    /\ UNCHANGED <<sid, opener, inStart, ready, cleaning, lease>>
    /\ UNCHANGED <<settings, edges, tasks, hotkey, captures>>

(* reset_dictation_session, with the hotkey and the state lock held.        *)
Reset ==
    /\ phase = "Finalizing"
    /\ phase' = "Idle"
    /\ sid' = 0
    /\ hotkey' = Terminal(hotkey, now)
    /\ UNCHANGED <<opener, inStart, ready, cleaning>>
    /\ SettleLease
    /\ UNCHANGED <<settings, edges, tasks, captures>>

(* start_reserved_dictation returns: Ok once the engine had been published  *)
(* as recording, an error after the session was reset or cancelled.         *)
StartReturns(s) ==
    LET p == opener[s] IN
    /\ s \in inStart
    /\ s \in ready \/ sid # s
    /\ inStart' = inStart \ {s}
    /\ IF p = 0 THEN UNCHANGED pc
                ELSE Goto("Pressed", p, IF s \in ready THEN "started" ELSE "failed")
    /\ ready' = ready \ {s}
    /\ UNCHANGED <<phase, sid, opener, cleaning>>
    /\ SettleLease
    /\ UNCHANGED <<settings, edges, target, hotkey, captures>>

CleanupDone(s) ==
    /\ s \in cleaning
    /\ cleaning' = cleaning \ {s}
    /\ UNCHANGED <<phase, sid, opener, inStart, ready>>
    /\ SettleLease
    /\ UNCHANGED <<settings, edges, tasks, hotkey, captures>>

(* The UI, the tray or the command line.                                    *)
UiStart ==
    /\ CanReserve
    /\ Within(Cardinality(Pressed), Cardinality(UiOpened) + 1, now)
    /\ NewSession(0)
    /\ UNCHANGED <<settings, edges, tasks, hotkey, captures>>

UiStop ==
    /\ phase = "Recording"
    /\ phase' = "Finalizing"
    /\ UNCHANGED <<sid, opener, inStart, ready, cleaning, lease>>
    /\ UNCHANGED <<settings, edges, tasks, hotkey, captures>>

(* Esc or the UI: cancel_active_voice_session.                              *)
UiCancel ==
    /\ sid # 0
    /\ CancelLogically
    /\ UNCHANGED <<settings, edges, tasks, hotkey, captures>>

----------------------------------------------------------------------------
Keyboard ==
    \/ Tick
    \/ \E p \in Press : KeyDown(p) \/ Companion(p)
    \/ \E p \in Press, lost \in BOOLEAN : KeyUp(p, lost)

PressedStep(p) ==
    \/ BeginPressed(p) \/ Arm(p) \/ Reserve(p) \/ GraceExpires(p)
    \/ FinishStart(p) \/ AbortStart(p)
    \/ Stop("Pressed", p) \/ FinishStop("Pressed", p)
    \/ \E failed \in BOOLEAN : FinishCombo("Pressed", p, failed)

ReleasedStep(p) == BeginReleased(p) \/ Stop("Released", p) \/ FinishStop("Released", p)

CombinedStep(p) ==
    \/ BeginCombined(p) \/ SnapshotCombined(p) \/ CancelCombined(p)
    \/ \E failed \in BOOLEAN : FinishCombo("Combined", p, failed)

SessionStep ==
    \/ EngineReady \/ Fail \/ Reset
    \/ \E s \in DOMAIN opener : StartReturns(s) \/ CleanupDone(s)
    \/ UiStart \/ UiStop \/ UiCancel

DispatchNext ==
    \/ Keyboard
    \/ SessionStep
    \/ \E p \in Press : PressedStep(p) \/ ReleasedStep(p) \/ CombinedStep(p)

DispatchSpec == DispatchInit /\ [][DispatchNext]_dispatchVars

----------------------------------------------------------------------------
Opens(p) == Len(opener') > Len(opener) /\ opener'[Len(opener')] = p

Active(p) == phase \in {"Starting", "Recording"} /\ opener[sid] = p

(* "The companion key overtook Pressed": once a combined edge was dispatched *)
(* its press opens no session, however late its own dispatch runs. "Do not  *)
(* open a session for a key generation that has already ended": in hold mode *)
(* no session is opened after the dispatch of its key-up. A session of the   *)
(* UI that is starting just then is taken for the press's own, so the second *)
(* half is claimed while the UI has opened none. And a press that was queued *)
(* while the previous session was leaving opens no surprise session, also    *)
(* when that one ended during the press's arbitration.                       *)
NoStaleStart ==
    [][\A p \in Press : Opens(p) =>
           /\ ~Dispatched("Combined", p)
           /\ mode = "Hold" /\ UiOpened = {} => ~Dispatched("Released", p)
           /\ at["Pressed", p] >= hotkey.cooldown]_dispatchVars

(* A dispatched key-up ends hold-to-talk, also when it overtook the dispatch *)
(* of its press or arrived while the session was starting; again unless a    *)
(* session of the UI took the key-up.                                        *)
KeyUpEndsSession ==
    \A p \in Press :
        /\ UiOpened = {}
        /\ pc["Pressed", p] = "done" /\ pc["Released", p] = "done"
        /\ \/ mode = "Hold"
           \/ mode = "Auto" /\ at["Released", p] - at["Pressed", p] >= AutoHold
              /\ ~Dispatched("Combined", p)
        => ~Active(p)

(* A companion key ends the session of its press, whatever it overtakes.     *)
ComboEndsSession ==
    \A p \in Press : pc["Pressed", p] = "done" /\ pc["Combined", p] = "done" => ~Active(p)

(* The microphone is armed ahead of a session only while the press that      *)
(* armed it is being decided.                                                *)
ProvisionalMicrophone ==
    \A p \in captures : pc["Pressed", p] \in {"reserve", "grace"}

(* A press that is over, by its key-up, a companion key or its decision, has *)
(* no session and no microphone.                                             *)
EndedPressOwnsNothing == KeyUpEndsSession /\ ComboEndsSession /\ ProvisionalMicrophone
=============================================================================
