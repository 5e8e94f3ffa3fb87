------------------------- MODULE HotkeyInterpreter -------------------------
(***************************************************************************)
(* HotkeyInterpreter (hotkey_interpreter.rs): what one edge of the         *)
(* dictation key means. The interpreter is a record, each method an        *)
(* operator on it. A method that also returns an intent yields             *)
(* [next |-> the interpreter afterwards, intent |-> ...]; intents always   *)
(* concern the press of the edge, so only their kind is kept.              *)
(*                                                                         *)
(* Press ids are positive; 0 is the id hosts reserve for an unmatched edge *)
(* and stands for None.                                                    *)
(***************************************************************************)
EXTENDS Integers, Sequences, SequencesExt

CONSTANTS
    Debounce,    \* HOTKEY_DEBOUNCE
    AutoHold,    \* AUTO_HOLD_THRESHOLD
    Cooldown,    \* TERMINAL_COOLDOWN
    MaxPending   \* MAX_PENDING_COMBINED = MAX_PENDING_RELEASED

ASSUME InterpreterAssumption ==
    /\ {Debounce, AutoHold, Cooldown} \subseteq Nat
    /\ MaxPending \in Nat \ {0}

(* DoubleClick is interpreted exactly like Toggle.                          *)
HotkeyMode == {"Hold", "Auto", "Toggle"}
Intent == {"Noop", "WaitForModifierGrace", "Start", "Stop", "Cancel"}

NotHeld == [id |-> 0, at |-> 0, accepted |-> FALSE]
NoDispatch == [id |-> 0, at |-> 0]

InitInterpreter ==
    [held             |-> NotHeld,
     session          |-> 0,           \* session_press_id
     pendingCombined  |-> <<>>,
     pendingReleased  |-> <<>>,
     lastDispatch     |-> NoDispatch,
     cooldown         |-> 0]           \* cooldown_until; no instant is < 0

(* VecDeque: remembered once, the oldest entry is evicted.                  *)
Remember(queue, p) ==
    IF Contains(queue, p) THEN queue
    ELSE LET longer == Append(queue, p) IN
         IF Len(longer) > MaxPending THEN Tail(longer) ELSE longer

Outcome(i, kind) == [next |-> i, intent |-> kind]

(* position, and then remove; a press is remembered once.                   *)
Without(queue, p) ==
    IF Contains(queue, p)
    THEN RemoveAt(queue, CHOOSE n \in 1..Len(queue) : queue[n] = p)
    ELSE queue

TakeCombined(i, p) == [i EXCEPT !.pendingCombined = Without(@, p)]
TakeReleased(i, p) == [i EXCEPT !.pendingReleased = Without(@, p)]

ClearPress(i, p) ==
    [i EXCEPT !.held         = IF @.id = p THEN NotHeld ELSE @,
              !.lastDispatch = IF @.id = p THEN NoDispatch ELSE @]

(* What an accepted press asks for in the phase of the Core session.        *)
PressIntent(i, at, mode, phase) ==
    CASE phase = "Idle" /\ at >= i.cooldown                          -> "Start"
      [] phase \in {"Starting", "Recording"} /\ mode # "Hold"        -> "Stop"
      [] OTHER                                                       -> "Noop"

(* The debounce window of the last accepted press.                          *)
Bounced(i, at) == i.lastDispatch.id # 0 /\ at - i.lastDispatch.at < Debounce

PressKey(i, p, at, mode, phase, modifierOnly) ==
    LET held(accepted) == [i EXCEPT !.held = [id |-> p, at |-> at, accepted |-> accepted]]
        taken == [held(TRUE) EXCEPT !.lastDispatch = [id |-> p, at |-> at]]
        kind == PressIntent(i, at, mode, phase)
    IN  IF p = 0 \/ i.held.id = p           \* a repeated key-down
        THEN Outcome(i, "Noop")
        ELSE IF Contains(i.pendingCombined, p)
        THEN Outcome([TakeCombined(i, p) EXCEPT !.held = NotHeld], "Noop")
        ELSE IF Contains(i.pendingReleased, p)
        THEN Outcome([TakeReleased(i, p) EXCEPT !.held = NotHeld], "Noop")
        ELSE IF Bounced(i, at)
        THEN Outcome(held(FALSE), "Noop")
        ELSE IF kind = "Start" /\ modifierOnly
        THEN Outcome(taken, "WaitForModifierGrace")
        ELSE Outcome([taken EXCEPT !.session = IF kind = "Start" THEN p ELSE @], kind)

AfterModifierGrace(i, p, phase) ==
    IF Contains(i.pendingCombined, p)
    THEN Outcome(ClearPress(TakeCombined(i, p), p), "Noop")
    ELSE IF i.held.id = p /\ i.held.accepted /\ phase = "Idle"
    THEN Outcome([i EXCEPT !.session = p], "Start")
    ELSE Outcome(i, "Noop")

(* Slip: a key-up that overtook its press is forgotten.                     *)
ReleaseUnheldForgets(i, p, mode, active) ==
    Outcome(i, IF mode = "Hold" /\ active THEN "Stop" ELSE "Noop")

(* The key-up of a press that is not held any more.                         *)
ReleaseUnheld(i, p, mode, active) ==
    IF mode # "Hold" THEN Outcome(i, "Noop")
    ELSE IF active   THEN Outcome(i, "Stop")
    ELSE Outcome([i EXCEPT !.pendingReleased = IF p = 0 THEN @ ELSE Remember(@, p)], "Noop")

(* Slip: a session that is still starting is not stopped.                   *)
StoppableRecording(i, p, phase) == phase = "Recording" /\ i.session = p

(* The active session is the one this press opened.                         *)
Stoppable(i, p, phase) == phase \in {"Starting", "Recording"} /\ i.session = p

(* Slip: the threshold itself no longer counts as holding.                  *)
HeldLongerThan(i, at, mode) == mode = "Hold" \/ (mode = "Auto" /\ at - i.held.at > AutoHold)

HeldLongEnough(i, at, mode) == mode = "Hold" \/ (mode = "Auto" /\ at - i.held.at >= AutoHold)

ReleaseKey(i, p, at, mode, phase) ==
    LET active == Stoppable(i, p, phase)
        up == [i EXCEPT !.held = NotHeld]
    IN  IF i.held.id # p
        THEN ReleaseUnheld(i, p, mode, active)
        ELSE IF ~i.held.accepted
        THEN Outcome(up, "Noop")
        ELSE IF Contains(i.pendingCombined, p)
        THEN Outcome(TakeCombined(up, p), "Noop")
        ELSE IF mode = "Hold" /\ ~active /\ i.session = p
        THEN Outcome([up EXCEPT !.session = 0], "Noop")   \* the start is not reserved yet
        ELSE Outcome(up, IF active /\ HeldLongEnough(i, at, mode) THEN "Stop" ELSE "Noop")

(* Slip: the companion key only counts while its press is held.             *)
CombineKeyHeld(i, p) ==
    Outcome(ClearPress([i EXCEPT !.pendingCombined = Remember(@, p)], p),
            IF i.held.id = p THEN "Cancel" ELSE "Noop")

CombineKey(i, p) ==
    IF p = 0 THEN Outcome(i, "Noop")
    ELSE Outcome(ClearPress([i EXCEPT !.pendingCombined = Remember(@, p)], p),
                 IF i.session = p THEN "Cancel" ELSE "Noop")

(* The session a start opened is forgotten again when it failed or when a   *)
(* companion key arrived while it was starting.                             *)
StartFinished(i, p, started) ==
    LET combined == Contains(i.pendingCombined, p) IN
    [TakeCombined(i, p) EXCEPT !.session = IF (~started \/ combined) /\ @ = p THEN 0 ELSE @]

(* Slip: the markers of overtaking edges are not consulted.                 *)
StartIsCurrentUnmarked(i, p) == i.session = p

StartIsCurrent(i, p) ==
    /\ i.session = p
    /\ ~Contains(i.pendingCombined, p)
    /\ ~Contains(i.pendingReleased, p)

(* Slip: the generation outlives its session.                               *)
TerminalCooldownOnly(i, at) == [i EXCEPT !.cooldown = at + Cooldown]

Terminal(i, at) ==
    [i EXCEPT !.held = NotHeld, !.session = 0, !.cooldown = at + Cooldown]

ComboCancelled(i, p) ==
    [ClearPress(TakeCombined(i, p), p) EXCEPT
        !.session  = IF @ = p THEN 0 ELSE @,
        !.cooldown = 0]

=============================================================================
