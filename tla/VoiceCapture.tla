---------------------------- MODULE VoiceCapture ----------------------------
(***************************************************************************)
(* The microphone of a spoken question or a selection voice command: the   *)
(* exclusive voice lease of its session together with the lifecycle of the *)
(* one native capture the session opens under it.                          *)
(*                                                                         *)
(* The operators are critical sections of the code; the modules that       *)
(* extend this one say who takes them and when.                            *)
(***************************************************************************)
EXTENDS Naturals, FiniteSets, Sequences

CONSTANTS
    MaxTurn,      \* question turns 1..MaxTurn
    MaxSession    \* selection voice sessions, numbered after the turns

ASSUME BoundsAssumption == MaxTurn \in Nat /\ MaxSession \in Nat

Turn    == 1..MaxTurn
Session == (MaxTurn + 1)..(MaxTurn + MaxSession)
Id      == 1..(MaxTurn + MaxSession)

VARIABLES
    lease,      \* the id that last acquired the voice gate, 0 before
    revoked,    \* ids whose lease was released: their token is cancelled
    mic         \* the native capture of each id

captureVars == <<lease, revoked, mic>>

(* "held" covers the capture of the context and the start of the device;    *)
(* "closing" a claimed cancellation whose native cleanup still runs.        *)
MicState == {"none", "held", "ready", "finishing", "closing", "ended"}

(* The states in which a native task keeps its VoiceResourceHold.           *)
Holding(i) == mic[i] \in {"held", "ready", "finishing", "closing"}

CaptureTypeOK ==
    /\ lease \in Id \cup {0}
    /\ revoked \subseteq Id
    /\ mic \in [Id -> MicState]

CaptureInit ==
    /\ lease = 0
    /\ revoked = {}
    /\ mic = [i \in Id |-> "none"]

(* Slip: a released lease is free at once.                                  *)
LeaseFreeAtRelease == lease = 0 \/ lease \in revoked

(* A released lease stays in the slot until its last hold is dropped.       *)
LeaseFree == lease = 0 \/ (lease \in revoked /\ ~Holding(lease))

Acquire(i) == LeaseFree /\ lease' = i

(* VoiceSessionGate::release: another owner's lease is untouched.           *)
Revoke(i) == revoked \cup {i}

CanHold(i) == lease = i /\ i \notin revoked

(* own_voice_start: the start task looks at the token before the device and *)
(* after it, the caller once more before it takes the handle over; a handle *)
(* whose token is cancelled is closed by the task, under its hold.          *)
StartSucceeds(i) == mic[i] = "held" /\ i \notin revoked /\ mic' = [mic EXCEPT ![i] = "ready"]
StartFails(i)    == mic[i] = "held" /\ mic' = [mic EXCEPT ![i] = "ended"]

(* claim_cancel: the winner stops the recorder and cancels the provider.    *)
CancelMic(i) ==
    IF mic[i] \in {"ready", "finishing"} THEN [mic EXCEPT ![i] = "closing"] ELSE mic

(* begin_finish, and the settled result of the finishing task; a            *)
(* cancellation in between leaves it only the Cancelled error.              *)
BeginFinish(i) == mic[i] = "ready" /\ mic' = [mic EXCEPT ![i] = "finishing"]
Settle(i)      == mic[i] = "finishing" /\ mic' = [mic EXCEPT ![i] = "ended"]
Settled(i)     == mic[i] \in {"closing", "ended"}

(* The native cleanup of a cancelled capture ends and drops its hold.       *)
Closed(i) ==
    /\ mic[i] = "closing"
    /\ mic' = [mic EXCEPT ![i] = "ended"]

----------------------------------------------------------------------------
(* At most one native capture holds the microphone, and it belongs to the   *)
(* session whose lease is in the gate: a released session keeps everyone    *)
(* else out until its recorder and provider are closed                      *)
(* (VoiceSessionGate::acquire, VoiceResourceHold::drop).                    *)
OneMicrophone == \A i \in Id : Holding(i) => lease = i
=============================================================================
