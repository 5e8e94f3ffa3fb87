-------------------------- MODULE VoiceInputProofs --------------------------
(***************************************************************************)
(* Proofs about the native ends of a dictation, for any bounds: the gates  *)
(* of the microphone and of the runtime, the text insertion, and the       *)
(* recording key.                                                          *)
(*                                                                         *)
(* VoiceGate: the inductive invariant adds to the checked invariants what  *)
(* a running probe knows: a gate that was found idle stays idle while      *)
(* `restoring` is raised, because admission is refused under the same      *)
(* lock.                                                                   *)
(*                                                                         *)
(* TextInsertion: the inductive invariant says when each of the two loops  *)
(* is known to have stopped for good (LoopInv, StopInv, CleanupInv), what  *)
(* the terminal and an answer of cancel mean for the target (OverInv), and *)
(* what the document holds on the way to a commit (DocumentInv).           *)
(*                                                                         *)
(* HotkeyDispatch: the inductive invariant follows a press from its edge   *)
(* to its session: one press is decided at a time (SerialInv), what the    *)
(* interpreter holds of it (HeldInv), that an edge which overtook it is    *)
(* remembered until it is decided (CompanionInv, ReleaseInv), and that     *)
(* an edge which finds its session active is bound to it (OwnInv, EndInv). *)
(* A queue of markers evicts its oldest; RoomForMarkers says that it never *)
(* evicts that of a press still to be decided, and holds by itself while   *)
(* there are no more presses than places (EnoughRoom).                     *)
(***************************************************************************)
EXTENDS VoiceGate, TextInsertion, HotkeyDispatch, FiniteSetTheorems, SequenceTheorems, TLAPS

----------------------------------------------------------------------------
(* The gates of the microphone and of the runtime.                          *)

(* What the restore task may rely on for each gate it has already probed.   *)
ProbedVoiceIdle == "voice" \in probed => active = NoLease

ProbedDomainIdle ==
    \A d \in Domain \cap probed :
        /\ d \notin busy
        /\ \A w \in Worker : workOf[w] = d => w \in cleaners

ProbeProgress ==
    /\ restore = "none" => probed = {}
    /\ restore = "admitted" => probed = Gates

GateInv ==
    /\ GateTypeOK
    /\ ExclusiveNativeOwner
    /\ ResourcesExact
    /\ RunningExact
    /\ ProbedVoiceIdle
    /\ ProbedDomainIdle
    /\ ProbeProgress
    /\ HalfRestoredIsQuiet

----------------------------------------------------------------------------
(* The counted sets are finite, so adding or removing one guard changes     *)
(* their cardinality by exactly one.                                        *)

LEMMA CountedFinite ==
    /\ IsFiniteSet(LiveHolds)
    /\ \A d \in Domain : IsFiniteSet(LiveWork(d))
<1>1. LiveHolds \in SUBSET Hold
  BY DEF LiveHolds
<1>2. \A d \in Domain : LiveWork(d) \in SUBSET Worker
  BY DEF LiveWork
<1>q. QED
  BY <1>1, <1>2, FS_Subset, ConstantsAssumption

LEMMA OneMoreHold ==
    ASSUME GateTypeOK, NEW h \in Hold, NEW s \in Session, holdOf[h] = NoSession,
           holdOf' = [holdOf EXCEPT ![h] = s]
    PROVE  Cardinality(LiveHolds') = Cardinality(LiveHolds) + 1
<1>1. LiveHolds' = LiveHolds \cup {h} /\ h \notin LiveHolds
  BY ConstantsAssumption DEF LiveHolds, GateTypeOK
<1>q. QED
  BY <1>1, CountedFinite, FS_AddElement

LEMMA OneHoldLess ==
    ASSUME GateTypeOK, NEW h \in Hold, holdOf[h] # NoSession,
           holdOf' = [holdOf EXCEPT ![h] = NoSession]
    PROVE  /\ Cardinality(LiveHolds') = Cardinality(LiveHolds) - 1
           /\ Cardinality(LiveHolds) \in Nat \ {0}
           /\ Cardinality(LiveHolds) = 1 => LiveHolds' = {}
<1>1. LiveHolds' = LiveHolds \ {h} /\ h \in LiveHolds
  BY DEF LiveHolds, GateTypeOK
<1>2. Cardinality(LiveHolds) \in Nat
  BY CountedFinite, FS_CardinalityType
<1>3. Cardinality(LiveHolds) # 0
  BY <1>1, CountedFinite, FS_EmptySet
<1>4. IsFiniteSet(LiveHolds') /\ Cardinality(LiveHolds') = Cardinality(LiveHolds) - 1
  BY <1>1, CountedFinite, FS_RemoveElement
<1>5. Cardinality(LiveHolds) = 1 => LiveHolds' = {}
  BY <1>2, <1>4, FS_EmptySet
<1>q. QED
  BY <1>2, <1>3, <1>4, <1>5

LEMMA OneMoreWorker ==
    ASSUME GateTypeOK, RunningExact, NEW w \in Worker, NEW d \in Domain, Count(w, d)
    PROVE  RunningExact' /\ running' \in [Domain -> Nat]
<1>1. LiveWork(d)' = LiveWork(d) \cup {w} /\ w \notin LiveWork(d)
  BY ConstantsAssumption DEF Count, LiveWork, GateTypeOK
<1>2. \A e \in Domain \ {d} : LiveWork(e)' = LiveWork(e)
  BY ConstantsAssumption DEF Count, LiveWork, GateTypeOK
<1>3. Cardinality(LiveWork(d)') = Cardinality(LiveWork(d)) + 1
  BY <1>1, CountedFinite, FS_AddElement
<1>4. running' \in [Domain -> Nat]
  BY DEF Count, GateTypeOK
<1>q. QED
  BY <1>2, <1>3, <1>4 DEF RunningExact, Count, GateTypeOK

LEMMA OneWorkerLess ==
    ASSUME GateTypeOK, RunningExact, NEW w \in Worker, NEW complete \in BOOLEAN,
           EndWork(w, complete)
    PROVE  RunningExact' /\ running' \in [Domain -> Nat]
<1>0. PICK d \in Domain : d = workOf[w]
  BY DEF EndWork, GateTypeOK
<1>1. LiveWork(d)' = LiveWork(d) \ {w} /\ w \in LiveWork(d)
  BY <1>0, ConstantsAssumption DEF EndWork, LiveWork, GateTypeOK
<1>2. \A e \in Domain \ {d} : LiveWork(e)' = LiveWork(e)
  BY <1>0, ConstantsAssumption DEF EndWork, LiveWork, GateTypeOK
<1>3. Cardinality(LiveWork(d)') = Cardinality(LiveWork(d)) - 1
  BY <1>1, CountedFinite, FS_RemoveElement
<1>4. Cardinality(LiveWork(d)) \in Nat \ {0}
  BY <1>1, CountedFinite, FS_CardinalityType, FS_EmptySet
<1>5. running' = [running EXCEPT ![d] = @ - 1] /\ running[d] = Cardinality(LiveWork(d))
  BY <1>0 DEF EndWork, RunningExact
<1>6. running' \in [Domain -> Nat]
  BY <1>4, <1>5 DEF GateTypeOK
<1>q. QED
  BY <1>2, <1>3, <1>5, <1>6 DEF RunningExact, GateTypeOK

----------------------------------------------------------------------------
(* The inductive invariant, one lemma per group of actions.                 *)

LEMMA InitIInv == GateInit => GateInv
<1> SUFFICES ASSUME GateInit PROVE GateInv
  OBVIOUS
<1> USE ConstantsAssumption DEF GateInit
<1>1. GateTypeOK
  BY DEF GateTypeOK, Gates
<1>2. LiveHolds = {} /\ \A d \in Domain : LiveWork(d) = {}
  BY DEF LiveHolds, LiveWork
<1>3. RunningExact
  BY <1>2, FS_EmptySet DEF RunningExact
<1>4. ExclusiveNativeOwner /\ ResourcesExact
  BY <1>2 DEF ExclusiveNativeOwner, ResourcesExact
<1>5. HalfRestoredIsQuiet
  BY <1>2 DEF HalfRestoredIsQuiet, NoRuntimeWork
<1>q. QED
  BY <1>1, <1>3, <1>4, <1>5
  DEF GateInv, ProbedVoiceIdle, ProbedDomainIdle, ProbeProgress

(* An occupied slot excludes both a pending restore and a probed voice gate. *)
LEMMA OccupiedSlot ==
    ASSUME GateInv, active # NoLease
    PROVE  ~pending /\ "voice" \notin probed
BY DEF GateInv, HalfRestoredIsQuiet, NoRuntimeWork, ProbedVoiceIdle

LEMMA VoiceStep == GateInv /\ VoiceNext => GateInv'
<1> SUFFICES ASSUME GateInv, VoiceNext PROVE GateInv'
  OBVIOUS
<1>0. GateTypeOK
  BY DEF GateInv
<1> USE ConstantsAssumption
<1>1. UNCHANGED <<runtimeVars, restoreVars>>
  BY DEF VoiceNext, Acquire, Release, HoldResources, DropHold
<1>2. RunningExact' /\ ProbedDomainIdle' /\ ProbeProgress'
  <2>1. \A d \in Domain : LiveWork(d)' = LiveWork(d)
    BY <1>1 DEF LiveWork, runtimeVars
  <2>2. RunningExact'
    BY <1>1, <2>1 DEF GateInv, RunningExact, runtimeVars
  <2>q. QED
    BY <1>1, <2>2 DEF GateInv, ProbedDomainIdle, ProbeProgress, runtimeVars, restoreVars, Gates
<1>3. ASSUME /\ active' \in Lease \cup {NoLease}
             /\ holdOf' \in [Hold -> Session \cup {NoSession}]
             /\ ExclusiveNativeOwner'
             /\ ResourcesExact'
             /\ active' # NoLease => ~pending /\ "voice" \notin probed
      PROVE  GateInv'
  <2>1. GateTypeOK'
    BY <1>1, <1>3 DEF GateInv, GateTypeOK, runtimeVars, restoreVars, Gates
  <2>2. ProbedVoiceIdle'
    BY <1>1, <1>3 DEF ProbedVoiceIdle, restoreVars
  <2>3. HalfRestoredIsQuiet'
    BY <1>1, <1>3
    DEF GateInv, HalfRestoredIsQuiet, NoRuntimeWork, ExclusiveNativeOwner, runtimeVars, restoreVars, LiveHolds
  <2>q. QED
    BY <1>2, <1>3, <2>1, <2>2, <2>3 DEF GateInv
<1>4. ASSUME NEW s \in Session, NEW k \in Kind, Acquire(s, k) PROVE GateInv'
  <2>1. LiveHolds = {} /\ LiveHolds' = {}
    BY <1>4 DEF GateInv, ExclusiveNativeOwner, Acquire, LiveHolds
  <2>2. "voice" \notin probed /\ ~pending
    BY <1>4 DEF Acquire, IsRecovering, GateInv, ProbeProgress
  <2>3. active' \in Lease /\ active'.resources = 0 /\ ~active'.released
    BY <1>4 DEF Acquire, Lease
  <2>4. ExclusiveNativeOwner'
    BY <2>1 DEF ExclusiveNativeOwner
  <2>5. ResourcesExact'
    BY <2>1, <2>3, FS_EmptySet DEF ResourcesExact
  <2>6. holdOf' \in [Hold -> Session \cup {NoSession}]
    BY <1>0, <1>4 DEF GateTypeOK, Acquire
  <2>q. QED
    BY <1>3, <2>2, <2>3, <2>4, <2>5, <2>6
<1>5. ASSUME NEW s \in Session, Release(s) PROVE GateInv'
  <2>1. ~pending /\ "voice" \notin probed
    BY <1>5, OccupiedSlot DEF Release
  <2>2. holdOf' = holdOf /\ LiveHolds' = LiveHolds
    BY <1>5 DEF Release, LiveHolds
  <2>3. active \in Lease /\ active.resources = Cardinality(LiveHolds)
    BY <1>0, <1>5 DEF Release, GateTypeOK, GateInv, ResourcesExact
  <2>4. CASE active.resources = 0
    <3>1. active' = NoLease /\ LiveHolds' = {}
      BY <1>5, <2>2, <2>3, <2>4, CountedFinite, FS_EmptySet DEF Release
    <3>q. QED
      BY <1>0, <1>3, <2>2, <3>1 DEF GateTypeOK, ExclusiveNativeOwner, ResourcesExact
  <2>5. CASE active.resources # 0
    <3>1. active' = [active EXCEPT !.released = TRUE]
      BY <1>5, <2>5 DEF Release
    <3>2. /\ active' \in Lease
          /\ active'.session_id = active.session_id
          /\ active'.resources = active.resources
      BY <2>3, <3>1 DEF Lease
    <3>5. active.resources > 0
      BY <2>3, <2>5 DEF Lease
    <3>3. ExclusiveNativeOwner'
      BY <1>5, <2>2, <3>2 DEF GateInv, ExclusiveNativeOwner, Release
    <3>4. ResourcesExact'
      BY <2>2, <2>3, <3>2, <3>5 DEF ResourcesExact
    <3>q. QED
      BY <1>0, <1>3, <2>1, <2>2, <3>2, <3>3, <3>4 DEF GateTypeOK
  <2>q. QED
    BY <2>4, <2>5
<1>6. ASSUME NEW h \in Hold, NEW s \in Session, HoldResources(h, s) PROVE GateInv'
  <2>1. ~pending /\ "voice" \notin probed
    BY <1>6, OccupiedSlot DEF HoldResources
  <2>2. active \in Lease /\ active.resources = Cardinality(LiveHolds)
    BY <1>0, <1>6 DEF HoldResources, GateTypeOK, GateInv, ResourcesExact
  <2>3. /\ active' \in Lease
        /\ active'.session_id = s
        /\ active'.resources = active.resources + 1
        /\ active.session_id = s
    <3>1. active' = [active EXCEPT !.resources = @ + 1] /\ active.session_id = s
      BY <1>6 DEF HoldResources
    <3>q. QED
      BY <2>2, <3>1 DEF Lease
  <2>4. Cardinality(LiveHolds') = Cardinality(LiveHolds) + 1
    BY <1>0, <1>6, OneMoreHold DEF HoldResources
  <2>5. holdOf' = [holdOf EXCEPT ![h] = s]
    BY <1>6 DEF HoldResources
  <2>6. ExclusiveNativeOwner'
    <3> SUFFICES ASSUME NEW g \in Hold, holdOf'[g] # NoSession
                 PROVE  active' # NoLease /\ active'.session_id = holdOf'[g]
      BY DEF ExclusiveNativeOwner, LiveHolds
    <3>1. CASE g = h
      BY <1>0, <2>3, <2>5, <3>1 DEF GateTypeOK
    <3>2. CASE g # h
      BY <1>0, <2>3, <2>5, <3>2 DEF GateTypeOK, GateInv, ExclusiveNativeOwner, LiveHolds
    <3>q. QED
      BY <3>1, <3>2
  <2>7. active.resources \in Nat
    BY <2>2 DEF Lease
  <2>8. ResourcesExact'
    BY <2>2, <2>3, <2>4, <2>7 DEF ResourcesExact
  <2>9. holdOf' \in [Hold -> Session \cup {NoSession}]
    BY <1>0, <2>5 DEF GateTypeOK
  <2>q. QED
    BY <1>3, <2>1, <2>3, <2>6, <2>8, <2>9
<1>7. ASSUME NEW h \in Hold, DropHold(h) PROVE GateInv'
  <2>1. active # NoLease /\ active.session_id = holdOf[h]
    BY <1>7 DEF GateInv, ExclusiveNativeOwner, DropHold, LiveHolds
  <2>2. ~pending /\ "voice" \notin probed
    BY <2>1, OccupiedSlot
  <2>3. active \in Lease /\ active.resources = Cardinality(LiveHolds)
    BY <1>0, <2>1 DEF GateTypeOK, GateInv, ResourcesExact
  <2>4. holdOf' = [holdOf EXCEPT ![h] = NoSession]
    BY <1>7 DEF DropHold
  <2>5. /\ Cardinality(LiveHolds') = Cardinality(LiveHolds) - 1
        /\ Cardinality(LiveHolds) \in Nat \ {0}
        /\ Cardinality(LiveHolds) = 1 => LiveHolds' = {}
    BY <1>0, <1>7, OneHoldLess DEF DropHold
  <2>6. holdOf' \in [Hold -> Session \cup {NoSession}]
    BY <1>0, <2>4 DEF GateTypeOK
  <2>7. CASE active.released /\ active.resources = 1
    <3>1. active' = NoLease /\ LiveHolds' = {}
      BY <1>7, <2>1, <2>3, <2>5, <2>7 DEF DropHold
    <3>q. QED
      BY <1>3, <2>6, <3>1 DEF ExclusiveNativeOwner, ResourcesExact
  <2>8. CASE ~(active.released /\ active.resources = 1)
    <3>1. active' = [active EXCEPT !.resources = @ - 1]
      BY <1>7, <2>1, <2>8 DEF DropHold
    <3>2. /\ active' \in Lease
          /\ active'.session_id = active.session_id
          /\ active'.resources = active.resources - 1
          /\ active'.released = active.released
      BY <2>3, <2>5, <3>1 DEF Lease
    <3>3. ExclusiveNativeOwner'
      BY <1>0, <2>4, <3>2 DEF GateTypeOK, GateInv, ExclusiveNativeOwner, LiveHolds
    <3>4. ResourcesExact'
      BY <2>3, <2>5, <2>8, <3>2 DEF ResourcesExact
    <3>q. QED
      BY <1>3, <2>2, <2>6, <3>2, <3>3, <3>4
  <2>q. QED
    BY <2>7, <2>8
<1>q. QED
  BY <1>4, <1>5, <1>6, <1>7 DEF VoiceNext

LEMMA RuntimeStep == GateInv /\ RuntimeNext => GateInv'
<1> SUFFICES ASSUME GateInv, RuntimeNext PROVE GateInv'
  OBVIOUS
<1>0. GateTypeOK /\ RunningExact
  BY DEF GateInv
<1> USE ConstantsAssumption
<1>1. UNCHANGED <<voiceVars, restoreVars>>
  BY DEF RuntimeNext, BeginWork, BeginCleanup, EnterBusy, EndWork, LeaveBusy
<1>2. ExclusiveNativeOwner' /\ ResourcesExact' /\ ProbedVoiceIdle' /\ ProbeProgress'
  <2>1. LiveHolds' = LiveHolds
    BY <1>1 DEF LiveHolds, voiceVars
  <2>q. QED
    BY <1>1, <2>1 DEF GateInv, ExclusiveNativeOwner, ResourcesExact, ProbedVoiceIdle,
                      ProbeProgress, voiceVars, restoreVars, Gates
<1>3. ASSUME /\ workOf' \in [Worker -> Domain \cup {NoDomain}]
             /\ cleaners' \in SUBSET Worker
             /\ running' \in [Domain -> Nat]
             /\ abandoned' \in [Domain -> BOOLEAN]
             /\ busy' \in SUBSET Domain
             /\ RunningExact'
             /\ ProbedDomainIdle'
             /\ pending => /\ busy' = {}
                           /\ \A w \in Worker : workOf'[w] # NoDomain => w \in cleaners'
      PROVE  GateInv'
  <2>1. GateTypeOK'
    BY <1>0, <1>1, <1>3 DEF GateTypeOK, voiceVars, restoreVars, Gates
  <2>2. HalfRestoredIsQuiet'
    BY <1>1, <1>3
    DEF GateInv, HalfRestoredIsQuiet, NoRuntimeWork, LiveHolds, voiceVars, restoreVars
  <2>q. QED
    BY <1>2, <1>3, <2>1, <2>2 DEF GateInv
<1>4. ASSUME NEW w \in Worker, NEW d \in Domain, BeginWork(w, d) PROVE GateInv'
  <2>1. Count(w, d)
    BY <1>4 DEF BeginWork
  <2>2. RunningExact' /\ running' \in [Domain -> Nat]
    BY <1>0, <2>1, OneMoreWorker
  <2>3. workOf' = [workOf EXCEPT ![w] = d] /\ workOf[w] = NoDomain
    BY <2>1 DEF Count
  <2>4. d \notin probed /\ ~pending
    BY <1>4 DEF BeginWork, IsRecovering, GateInv, ProbedDomainIdle, ProbeProgress,
                HalfRestoredIsQuiet, NoRuntimeWork
  <2>5. ProbedDomainIdle'
    BY <1>0, <1>1, <1>4, <2>3, <2>4
    DEF GateInv, ProbedDomainIdle, BeginWork, GateTypeOK, restoreVars
  <2>q. QED
    BY <1>0, <1>3, <1>4, <2>2, <2>3, <2>4, <2>5 DEF BeginWork, GateTypeOK
<1>5. ASSUME NEW w \in Worker, NEW d \in Domain, BeginCleanup(w, d) PROVE GateInv'
  <2>1. Count(w, d)
    BY <1>5 DEF BeginCleanup
  <2>2. RunningExact' /\ running' \in [Domain -> Nat]
    BY <1>0, <2>1, OneMoreWorker
  <2>3. workOf' = [workOf EXCEPT ![w] = d] /\ cleaners' = cleaners \cup {w} /\ busy' = busy
    BY <1>5, <2>1 DEF Count, BeginCleanup
  <2>4. ProbedDomainIdle'
    BY <1>0, <1>1, <2>3 DEF GateInv, ProbedDomainIdle, GateTypeOK, restoreVars
  <2>5. pending => /\ busy' = {}
                   /\ \A v \in Worker : workOf'[v] # NoDomain => v \in cleaners'
    BY <1>0, <2>3 DEF GateInv, HalfRestoredIsQuiet, NoRuntimeWork, GateTypeOK
  <2>q. QED
    BY <1>0, <1>3, <1>5, <2>2, <2>3, <2>4, <2>5 DEF BeginCleanup, GateTypeOK
<1>6. ASSUME NEW w \in Worker, EnterBusy(w) PROVE GateInv'
  <2>1. PICK d \in Domain : d = workOf[w]
    BY <1>0, <1>6 DEF EnterBusy, GateTypeOK
  <2>2. d \notin probed /\ ~pending
    BY <1>6, <2>1 DEF EnterBusy, GateInv, ProbedDomainIdle, HalfRestoredIsQuiet, NoRuntimeWork
  <2>3. UNCHANGED <<workOf, cleaners, running, abandoned>> /\ busy' = busy \cup {d}
    BY <1>6, <2>1 DEF EnterBusy
  <2>4. RunningExact'
    BY <1>0, <2>3 DEF RunningExact, LiveWork
  <2>5. ProbedDomainIdle'
    BY <1>1, <2>2, <2>3 DEF GateInv, ProbedDomainIdle, restoreVars
  <2>q. QED
    BY <1>0, <1>3, <2>2, <2>3, <2>4, <2>5 DEF GateTypeOK
<1>7. ASSUME NEW d \in Domain, LeaveBusy(d) PROVE GateInv'
  <2>1. UNCHANGED <<workOf, cleaners, running, abandoned>> /\ busy' = busy \ {d}
    BY <1>7 DEF LeaveBusy
  <2>2. RunningExact'
    BY <1>0, <2>1 DEF RunningExact, LiveWork
  <2>3. ProbedDomainIdle'
    BY <1>1, <2>1 DEF GateInv, ProbedDomainIdle, restoreVars
  <2>4. pending => /\ busy' = {}
                   /\ \A v \in Worker : workOf'[v] # NoDomain => v \in cleaners'
    BY <2>1 DEF GateInv, HalfRestoredIsQuiet, NoRuntimeWork
  <2>q. QED
    BY <1>0, <1>3, <2>1, <2>2, <2>3, <2>4 DEF GateTypeOK
<1>8. ASSUME NEW w \in Worker, NEW complete \in BOOLEAN, EndWork(w, complete) PROVE GateInv'
  <2>1. RunningExact' /\ running' \in [Domain -> Nat]
    BY <1>0, <1>8, OneWorkerLess
  <2>2. /\ workOf' = [workOf EXCEPT ![w] = NoDomain]
        /\ cleaners' = cleaners \ {w}
        /\ busy' = busy
    BY <1>8 DEF EndWork
  <2>3. abandoned' \in [Domain -> BOOLEAN]
    BY <1>0, <1>8 DEF EndWork, GateTypeOK
  <2>4. ProbedDomainIdle'
    BY <1>0, <1>1, <2>2 DEF GateInv, ProbedDomainIdle, GateTypeOK, restoreVars
  <2>5. pending => /\ busy' = {}
                   /\ \A v \in Worker : workOf'[v] # NoDomain => v \in cleaners'
    BY <1>0, <2>2 DEF GateInv, HalfRestoredIsQuiet, NoRuntimeWork, GateTypeOK
  <2>q. QED
    BY <1>0, <1>3, <2>1, <2>2, <2>3, <2>4, <2>5 DEF GateTypeOK
<1>q. QED
  BY <1>4, <1>5, <1>6, <1>7, <1>8 DEF RuntimeNext

(* When every gate was found idle, nothing but clean-up runs.               *)
LEMMA AdmittedIsQuiet == GateInv /\ probed = Gates => NoRuntimeWork
<1> SUFFICES ASSUME GateInv, probed = Gates PROVE NoRuntimeWork
  OBVIOUS
<1>1. active = NoLease /\ LiveHolds = {}
  BY DEF GateInv, ProbedVoiceIdle, ExclusiveNativeOwner, Gates, LiveHolds
<1>2. busy = {}
  BY DEF GateInv, GateTypeOK, ProbedDomainIdle, Gates
<1>3. ASSUME NEW w \in Worker, workOf[w] # NoDomain PROVE w \in cleaners
  BY <1>3 DEF GateInv, GateTypeOK, ProbedDomainIdle, Gates
<1>q. QED
  BY <1>1, <1>2, <1>3 DEF NoRuntimeWork

LEMMA RestoreStep == GateInv /\ RestoreNext => GateInv'
<1> SUFFICES ASSUME GateInv, RestoreNext PROVE GateInv'
  OBVIOUS
<1>0. GateTypeOK
  BY DEF GateInv
<1> USE ConstantsAssumption
<1>1. ASSUME UNCHANGED <<voiceVars, runtimeVars>>,
             /\ restore' \in {"none", "probing", "admitted"}
             /\ probed' \in SUBSET Gates
             /\ pending' \in BOOLEAN
             /\ fault' \in BOOLEAN,
             ProbedVoiceIdle', ProbedDomainIdle', ProbeProgress', HalfRestoredIsQuiet'
      PROVE  GateInv'
  <2>1. LiveHolds' = LiveHolds /\ \A d \in Domain : LiveWork(d)' = LiveWork(d)
    BY <1>1 DEF LiveHolds, LiveWork, voiceVars, runtimeVars
  <2>2. GateTypeOK'
    BY <1>0, <1>1 DEF GateTypeOK, voiceVars, runtimeVars, Gates
  <2>3. ExclusiveNativeOwner' /\ ResourcesExact' /\ RunningExact'
    BY <1>1, <2>1
    DEF GateInv, ExclusiveNativeOwner, ResourcesExact, RunningExact, voiceVars, runtimeVars
  <2>q. QED
    BY <1>1, <2>2, <2>3 DEF GateInv
<1>2. ASSUME UNCHANGED <<voiceVars, runtimeVars>>, pending' => pending \/ probed = Gates
      PROVE  HalfRestoredIsQuiet'
  BY <1>2, AdmittedIsQuiet
  DEF GateInv, HalfRestoredIsQuiet, NoRuntimeWork, voiceVars, runtimeVars, LiveHolds
<1>3. CASE BeginRestore \/ EndRestore
  <2>1. /\ UNCHANGED <<voiceVars, runtimeVars, pending, fault>>
        /\ probed' = {}
        /\ restore' \in {"none", "probing"}
    BY <1>3 DEF BeginRestore, EndRestore
  <2>2. ProbedVoiceIdle' /\ ProbedDomainIdle' /\ ProbeProgress'
    BY <2>1 DEF ProbedVoiceIdle, ProbedDomainIdle, ProbeProgress, Gates
  <2>q. QED
    BY <1>0, <1>1, <1>2, <2>1, <2>2 DEF GateTypeOK, Gates
<1>4. ASSUME NEW g \in Gates, Probe(g) PROVE GateInv'
  <2>1. UNCHANGED <<voiceVars, runtimeVars, pending, fault>>
    BY <1>4 DEF Probe
  <2>2. CASE ~Idle(g)
    <3>1. probed' = {} /\ restore' = "none"
      BY <1>4, <2>2 DEF Probe
    <3>2. ProbedVoiceIdle' /\ ProbedDomainIdle' /\ ProbeProgress'
      BY <3>1 DEF ProbedVoiceIdle, ProbedDomainIdle, ProbeProgress, Gates
    <3>q. QED
      BY <1>0, <1>1, <1>2, <2>1, <3>1, <3>2 DEF GateTypeOK, Gates
  <2>3. CASE Idle(g)
    <3>1. /\ probed' = probed \cup {g}
          /\ restore' = IF probed' = Gates THEN "admitted" ELSE "probing"
      BY <1>4, <2>3 DEF Probe
    <3>2. ProbedVoiceIdle'
      BY <2>1, <2>3, <3>1 DEF GateInv, ProbedVoiceIdle, Idle, voiceVars
    <3>3. ProbedDomainIdle'
      <4>1. ASSUME g \in Domain
            PROVE  g \notin busy /\ \A w \in Worker : workOf[w] # g
        <5>1. g \notin busy /\ running[g] = 0
          BY <2>3, <4>1 DEF Idle
        <5>2. LiveWork(g) = {}
          BY <4>1, <5>1, CountedFinite, FS_EmptySet DEF GateInv, RunningExact
        <5>q. QED
          BY <5>1, <5>2 DEF LiveWork
      <4>q. QED
        BY <2>1, <3>1, <4>1 DEF GateInv, ProbedDomainIdle, runtimeVars
    <3>4. ProbeProgress' /\ restore' \in {"none", "probing", "admitted"}
      BY <3>1 DEF ProbeProgress, Gates
    <3>5. probed' \in SUBSET Gates
      BY <1>0, <3>1 DEF GateTypeOK, Gates
    <3>q. QED
      BY <1>0, <1>1, <1>2, <2>1, <3>2, <3>3, <3>4, <3>5 DEF GateTypeOK
  <2>q. QED
    BY <2>2, <2>3
<1>5. CASE MarkPending \/ FinishPending \/ WriteFault
  <2>1. /\ UNCHANGED <<voiceVars, runtimeVars, restore, probed>>
        /\ pending' \in BOOLEAN
        /\ fault' \in BOOLEAN
        /\ pending' => pending \/ probed = Gates
    <3>1. CASE MarkPending
      BY <1>0, <3>1 DEF MarkPending, GateTypeOK, GateInv, ProbeProgress
    <3>2. CASE FinishPending
      BY <1>0, <3>2 DEF FinishPending, GateTypeOK
    <3>3. CASE WriteFault
      BY <1>0, <3>3 DEF WriteFault, GateTypeOK
    <3>q. QED
      BY <1>5, <3>1, <3>2, <3>3
  <2>2. ProbedVoiceIdle' /\ ProbedDomainIdle' /\ ProbeProgress'
    BY <2>1 DEF GateInv, ProbedVoiceIdle, ProbedDomainIdle, ProbeProgress,
                voiceVars, runtimeVars, Gates
  <2>q. QED
    BY <1>0, <1>1, <1>2, <2>1, <2>2 DEF GateTypeOK, Gates
<1>6. CASE Restart
  <2>1. GateTypeOK'
    BY <1>0, <1>6 DEF Restart, GateTypeOK, Gates
  <2>2. LiveHolds' = {} /\ \A d \in Domain : LiveWork(d)' = {}
    BY <1>6 DEF Restart, LiveHolds, LiveWork
  <2>3. RunningExact'
    BY <1>6, <2>2, FS_EmptySet DEF Restart, RunningExact
  <2>4. ExclusiveNativeOwner' /\ ResourcesExact'
    BY <1>6, <2>2 DEF Restart, ExclusiveNativeOwner, ResourcesExact
  <2>5. HalfRestoredIsQuiet'
    BY <1>6, <2>2 DEF Restart, HalfRestoredIsQuiet, NoRuntimeWork
  <2>6. ProbedVoiceIdle' /\ ProbedDomainIdle' /\ ProbeProgress'
    BY <1>6 DEF Restart, ProbedVoiceIdle, ProbedDomainIdle, ProbeProgress
  <2>q. QED
    BY <2>1, <2>3, <2>4, <2>5, <2>6 DEF GateInv
<1>q. QED
  BY <1>3, <1>4, <1>5, <1>6 DEF RestoreNext

LEMMA StutterStep == GateInv /\ UNCHANGED gateVars => GateInv'
<1> SUFFICES ASSUME GateInv, UNCHANGED gateVars PROVE GateInv'
  OBVIOUS
<1>1. UNCHANGED <<active, holdOf, workOf, cleaners, running, abandoned, busy,
                  restore, probed, pending, fault>>
  BY DEF gateVars, voiceVars, runtimeVars, restoreVars
<1>2. LiveHolds' = LiveHolds /\ \A d \in Domain : LiveWork(d)' = LiveWork(d)
  BY <1>1 DEF LiveHolds, LiveWork
<1>q. QED
  BY <1>1, <1>2 DEF GateInv, GateTypeOK, ExclusiveNativeOwner, ResourcesExact, RunningExact,
                    ProbedVoiceIdle, ProbedDomainIdle, ProbeProgress,
                    HalfRestoredIsQuiet, NoRuntimeWork, Gates

----------------------------------------------------------------------------
(* Every reachable state satisfies the inductive invariant.                 *)
THEOREM GateInductive == GateSpec => []GateInv
<1>1. GateInv /\ [GateNext]_gateVars => GateInv'
  BY VoiceStep, RuntimeStep, RestoreStep, StutterStep DEF GateNext
<1>q. QED
  BY InitIInv, <1>1, PTL DEF GateSpec

(* The state of the gates is always well typed (voice_session.rs).          *)
THEOREM GateTypes == GateSpec => []GateTypeOK
<1>1. GateInv => GateTypeOK
  BY DEF GateInv
<1>q. QED
  BY GateInductive, <1>1, PTL

(* VoiceSessionGate: native resources of different sessions never overlap,  *)
(* and the hold counter that frees the slot is exact.                       *)
THEOREM NativeOwnership == GateSpec => [](ExclusiveNativeOwner /\ ResourcesExact)
<1>1. GateInv => ExclusiveNativeOwner /\ ResourcesExact
  BY DEF GateInv
<1>q. QED
  BY GateInductive, <1>1, PTL

(* RuntimeActivityGate: the counter of every domain is exact.               *)
THEOREM RuntimeCounted == GateSpec => []RunningExact
<1>1. GateInv => RunningExact
  BY DEF GateInv
<1>q. QED
  BY GateInductive, <1>1, PTL

(* begin_runtime_restore: although the gates are probed one after another,  *)
(* an admitted restore runs beside no voice session and no runtime work.    *)
(* No runtime work ever runs on documents of an interrupted restore, also   *)
(* across the end of the restore task and a restart of the process.         *)
THEOREM RestoreExclusion == GateSpec => []RestoreIsAlone
<1>1. GateInv => RestoreExclusive
  BY AdmittedIsQuiet DEF GateInv, ProbeProgress, RestoreExclusive
<1>2. GateInv => RestoreIsAlone
  BY <1>1 DEF GateInv, RestoreIsAlone
<1>q. QED
  BY GateInductive, <1>2, PTL

----------------------------------------------------------------------------
(* The text insertion.                                                      *)

----------------------------------------------------------------------------
(* The inductive invariant.                                                 *)

(* A session streams or composes, never both; a loop at work is counted.    *)
LoopInv ==
    /\ Scheduled => streaming
    /\ show # "off" => ~streaming

(* The stop has drained both loops, and closed them, before it commits.     *)
StopInv ==
    /\ stop.pc \in {"partials", "commit", "inserted", "copied"} => ~Scheduled /\ intake = "closed"
    /\ stop.pc \in {"commit", "inserted", "copied"} => show = "off"
    /\ commit # "off" <=> terminal = "finishing"
    /\ commit # "off" => stop.pc = "commit"
    /\ stop.pc \in {"inserted", "copied"} => terminal = "finished"
    /\ terminal = "finished" => ~Polishing /\ ~Scheduled /\ intake = "closed" /\ show = "off"

(* So has the cleanup: a cancellation closes them, the cleanup drains them. *)
CleanupInv ==
    /\ cleanup # "off" <=> terminal = "cancelling"
    /\ \A c \in Canceller :
        cancel[c].pc \in {"loop", "ok", "error", "failed"} => stream.failed /\ intake = "closed"
    /\ terminal \in {"cancelling", "cancelled"} => stream.failed /\ intake = "closed"
    /\ cleanup \in {"partials", "native"} \/ terminal = "cancelled" => ~Scheduled
    /\ cleanup = "native" \/ terminal = "cancelled" => show = "off"
    /\ terminal = "cancelled" => result \in {"ok", "error"}

(* Nothing of the session can reach the target again.                       *)
Over == terminal = "finished" \/ (terminal = "cancelled" /\ (result = "ok" \/ ~windows))

OverInv ==
    /\ Over => composition = 0
    /\ \A c \in Canceller :
        /\ cancel[c].pc = "ok" => Over
        /\ cancel[c].pc \in {"error", "failed"} /\ ~windows => Over
        /\ cancel[c].pc = "settled" => Over \/ entry = "abandoned"
    /\ entry = "removed" => Over

(* Streamed so far is what the host typed, until a failure.                 *)
DocumentInv ==
    /\ (stop.pc \in {"none", "stream", "partials"} \/ commit = "reconcile") /\ ~stream.failed
          => document = stream.typed
    /\ commit = "insert" => document = <<>>
    /\ commit = "tail" => document = stream.typed /\ IsPrefix(stream.typed, stop.text)
    /\ commit \in {"keep", "close"} => document = stop.text
    /\ commit = "closeCopied" => clipboard = stop.text
    /\ DeliveredExactly

ControlInv == LoopInv /\ StopInv /\ CleanupInv /\ OverInv

InsertionInv == TypeOK /\ ControlInv /\ DocumentInv

----------------------------------------------------------------------------
(* Texts.                                                                   *)

(* A slice of a text is a text.                                             *)
LEMMA SliceIsText ==
    ASSUME NEW t \in Text, NEW i \in Nat \ {0}, NEW j \in 0..Len(t)
    PROVE  SubSeq(t, i, j) \in Text
<1>1. \A k \in i..j : t[k] \in Char
    BY ElementOfSeq, LenProperties DEF Text
<1>. QED
    BY <1>1, SubSeqProperties, LenProperties DEF Text

(* take_ready_prefix returns a part of what is pending.                     *)
LEMMA ReadyIsText ==
    ASSUME NEW t \in Text
    PROVE  Ready(t) \in Text /\ Len(Ready(t)) \in 0..Len(t)
<1>. DEFINE L == Len(t)
            P == {n \in 1..L : \E m \in n..L : t[m] # Space}
<1>1. L \in Nat
    BY LenProperties DEF Text
<1>. HIDE DEF L
<1>2. IsFiniteSet(1..L) /\ Cardinality(1..L) = L
    BY <1>1, FS_Interval
<1>3. IsFiniteSet(P) /\ Cardinality(P) <= L
    BY <1>2, FS_Subset
<1>4. Cardinality(P) \in 0..L
    BY <1>1, <1>3, FS_CardinalityType
<1>5. Ready(t) = SubSeq(t, 1, Cardinality(P))
    BY DEF Ready, Prefix, L
<1>6. \A k \in 1..Cardinality(P) : t[k] \in Char
    BY <1>1, <1>4, ElementOfSeq DEF Text, L
<1>. HIDE DEF P
<1>7. SubSeq(t, 1, Cardinality(P)) \in Seq(Char)
    BY <1>1, <1>4, <1>6, SubSeqProperties
<1>8. Len(SubSeq(t, 1, Cardinality(P))) = Cardinality(P)
    BY <1>1, <1>4, <1>6, SubSeqProperties
<1>. QED
    BY <1>4, <1>5, <1>7, <1>8 DEF Text, L

(* A text that begins with another one is that one and the rest.            *)
LEMMA PrefixAndRest ==
    ASSUME NEW s \in Text, NEW t \in Text, IsPrefix(s, t)
    PROVE  s \o SubSeq(t, Len(s) + 1, Len(t)) = t
<1>. DEFINE r == SubSeq(t, Len(s) + 1, Len(t))
<1>1. Len(s) \in Nat /\ Len(t) \in Nat /\ Len(s) <= Len(t)
    BY LenProperties DEF Text, IsPrefix
<1>2. \A i \in Len(s) + 1..Len(t) : t[i] \in Char
    BY <1>1, ElementOfSeq DEF Text
<1>3. /\ r \in Seq(Char) /\ Len(r) = Len(t) - Len(s)
      /\ \A i \in 1..Len(t) - Len(s) : r[i] = t[Len(s) + i]
    BY <1>1, <1>2, SubSeqProperties
<1>4. \A i \in 1..Len(s) : s[i] = t[i]
  <2>1. \A i \in 1..Len(s) : s[i] \in Char /\ t[i] \in Char
    BY <1>1, ElementOfSeq DEF Text
  <2>2. \A i \in 1..Len(s) : SubSeq(s, 1, Len(s))[i] = s[i]
    BY <1>1, <2>1, SubSeqProperties
  <2>3. \A i \in 1..Len(s) : SubSeq(t, 1, Len(s))[i] = t[i]
    BY <1>1, <2>1, SubSeqProperties
  <2>. QED
    BY <2>2, <2>3 DEF IsPrefix
<1>. HIDE DEF r
<1>5. /\ s \o r \in Seq(Char) /\ Len(s \o r) = Len(t)
      /\ \A i \in 1..Len(t) : (s \o r)[i] = IF i <= Len(s) THEN s[i] ELSE r[i - Len(s)]
    BY <1>1, <1>3, ConcatProperties DEF Text
<1>6. \A i \in 1..Len(t) : (s \o r)[i] = t[i]
    BY <1>1, <1>3, <1>4, <1>5
<1>7. s \o r = t
    BY <1>5, <1>6, SeqEqual DEF Text
<1>. QED
    BY <1>7 DEF r

(* What push_delta leaves: a stream of the same typed text, once failed     *)
(* always failed.                                                           *)
StreamState == [pending : Text, typed : Text, failed : BOOLEAN, accepted : Nat]

LEMMA PushedStream ==
    ASSUME stream \in StreamState, NEW offset \in Nat, NEW delta \in Text
    PROVE  /\ Pushed(offset, delta) \in StreamState
           /\ Pushed(offset, delta).typed = stream.typed
           /\ stream.failed => Pushed(offset, delta) = stream
<1>1. CASE stream.failed \/ offset > stream.accepted
    BY <1>1 DEF Pushed, StreamState
<1>2. CASE ~stream.failed /\ ~(offset > stream.accepted)
  <2>. DEFINE suffix == SubSeq(delta, stream.accepted - offset + 1, Len(delta))
  <2>1. Len(delta) \in Nat /\ stream.accepted - offset \in Nat
    BY <1>2, LenProperties DEF Text, StreamState
  <2>2. suffix \in Text
    BY <2>1, SliceIsText
  <2>3. Len(suffix) \in Nat /\ stream.pending \o suffix \in Text
    BY <2>2, LenProperties, ConcatProperties DEF Text, StreamState
  <2>4. Pushed(offset, delta)
          = [stream EXCEPT !.pending = @ \o suffix, !.accepted = @ + Len(suffix)]
    BY <1>2 DEF Pushed
  <2>. HIDE DEF suffix
  <2>5. stream.accepted + Len(suffix) \in Nat
    BY <2>3 DEF StreamState
  <2>6. Pushed(offset, delta) \in StreamState /\ Pushed(offset, delta).typed = stream.typed
    BY <2>3, <2>4, <2>5 DEF StreamState
  <2>. QED
    BY <1>2, <2>6
<1>. QED
    BY <1>1, <1>2 DEF StreamState

(* What the host did to a delta.                                            *)
LEMMA WrittenStream ==
    ASSUME stream \in StreamState, NEW delta \in Text, NEW n \in 0..Len(delta)
    PROVE  /\ Written(delta, n) \in StreamState
           /\ Prefix(delta, n) \in Text
           /\ stream.failed => Written(delta, n).failed
           /\ Written(delta, n).typed = stream.typed \o Prefix(delta, n)
<1>1. Prefix(delta, n) \in Text
    BY SliceIsText DEF Prefix
<1>2. stream.typed \o Prefix(delta, n) \in Text
    BY <1>1, ConcatProperties DEF Text, StreamState
<1>3. Len(delta) \in Nat
    BY LenProperties DEF Text
<1>. QED
    BY <1>1, <1>2, <1>3 DEF Written, StreamState

(* A failed stream, and one closed by a cancellation.                       *)
LEMMA FailedStream ==
    ASSUME stream \in StreamState
    PROVE  LET failed == [stream EXCEPT !.failed = TRUE]
               closed == [stream EXCEPT !.pending = <<>>, !.failed = TRUE]
           IN  failed \in StreamState /\ failed.failed /\ failed.typed = stream.typed
               /\ closed \in StreamState /\ closed.failed /\ closed.typed = stream.typed
<1>1. <<>> \in Text
    BY DEF Text
<1>2. [stream EXCEPT !.failed = TRUE] \in StreamState
    BY DEF StreamState
<1>3. [stream EXCEPT !.pending = <<>>, !.failed = TRUE] \in StreamState
    BY <1>1 DEF StreamState
<1>. QED
    BY <1>2, <1>3 DEF StreamState

----------------------------------------------------------------------------
(* Type correctness.                                                        *)

LEMMA InitTypeOK == Init => TypeOK
<1>1. <<>> \in Text
    BY DEF Text
<1>. QED
    BY <1>1, TextInsertionAssumption DEF Init, TypeOK

LEMMA NextTypeOK == TypeOK /\ [Next]_vars => TypeOK'
<1>. SUFFICES ASSUME TypeOK, [Next]_vars PROVE TypeOK'
    OBVIOUS
<1>. USE TextInsertionAssumption DEF TypeOK
<1>a. <<>> \in Text
    BY DEF Text
<1>b. stream \in StreamState
    BY DEF StreamState
<1>c. Finals \subseteq Text
    OBVIOUS
<1>1. CASE UNCHANGED vars
    BY <1>1 DEF vars, config, streamVars, partialVars, stopVars, cancelVars, entryVars, hostVars
<1>2. CASE Push
  <2>1. PICK offset \in 0..Len(Polished), end \in 1..Len(Polished) :
            offset < end /\ stream' = Pushed(offset, SubSeq(Polished, offset + 1, end))
    BY <1>2 DEF Push
  <2>2. SubSeq(Polished, offset + 1, end) \in Text
    BY <2>1, SliceIsText, LenProperties DEF Text
  <2>3. stream' \in StreamState
    BY <1>b, <2>1, <2>2, PushedStream
  <2>. QED
    BY <1>2, <1>a, <2>3 DEF Push, FlushAt, StreamState, config, partialVars, stopVars, cancelVars, entryVars,
                            hostVars
<1>3. CASE FlushTake
  <2>. DEFINE taken == Ready(stream.pending)
  <2>1. taken \in Text /\ Len(taken) \in 0..Len(stream.pending)
    BY ReadyIsText
  <2>2. SubSeq(stream.pending, Len(taken) + 1, Len(stream.pending)) \in Text
    BY <2>1, SliceIsText, LenProperties DEF Text
  <2>. HIDE DEF taken
  <2>3. /\ UNCHANGED stream \/ stream' = [stream EXCEPT !.pending =
                                    SubSeq(@, Len(taken) + 1, Len(@))]
        /\ flush' = [pc |-> "off", delta |-> <<>>] \/ flush' = [pc |-> "write", delta |-> taken]
        /\ asleep' \in {asleep, {}}
    BY <1>3 DEF FlushTake, LeaveFlush, FlushAt, Notify, taken
  <2>4. stream' \in StreamState
    BY <1>b, <2>2, <2>3 DEF StreamState
  <2>. QED
    BY <1>3, <1>a, <2>1, <2>3, <2>4 DEF FlushTake, StreamState, config, partialVars, stopVars, cancelVars,
                                  entryVars, hostVars
<1>4. CASE FlushWritten
  <2>1. PICK n \in 0..Len(flush.delta) :
            /\ document' = document \o Prefix(flush.delta, n)
            /\ stream' \in {Written(flush.delta, n), [stream EXCEPT !.failed = TRUE]}
    BY <1>4 DEF FlushWritten
  <2>2. document' \in Text
    BY <1>b, <2>1, WrittenStream, ConcatProperties DEF Text
  <2>3. stream' \in StreamState
    <3>1. Written(flush.delta, n) \in StreamState
      BY <1>b, WrittenStream
    <3>. QED
      BY <1>b, <2>1, <3>1, FailedStream
  <2>4. /\ flush' \in {[pc |-> "off", delta |-> <<>>], [pc |-> "sleep", delta |-> <<>>]}
        /\ asleep' \in {asleep, {}}
    BY <1>4 DEF FlushWritten, LeaveFlush, FlushAt, Notify
  <2>. QED
    BY <1>4, <1>a, <2>2, <2>3, <2>4 DEF FlushWritten, StreamState, config, partialVars, stopVars,
                                        cancelVars, entryVars
<1>5. CASE PushPartial
    BY <1>5 DEF PushPartial, config, streamVars, stopVars, cancelVars, entryVars, hostVars
<1>51. CASE PartialTake
    BY <1>51 DEF PartialTake, Notify, config, streamVars, stopVars, cancelVars, entryVars, hostVars
<1>52. CASE PartialShown
    BY <1>52 DEF PartialShown, Notify, config, streamVars, stopVars, cancelVars, entryVars, hostVars
<1>6. CASE Finish
    BY <1>6, <1>c DEF Finish, config, streamVars, partialVars, cancelVars, entryVars, hostVars
<1>61. CASE FinishStream
    BY <1>61 DEF FinishStream, ClosePartials, StopAt, Sleep, Waiter, config, streamVars, partialVars, cancelVars,
                 entryVars, hostVars
<1>62. CASE FinishPartials
    BY <1>62 DEF FinishPartials, StopAt, Sleep, Waiter, config, streamVars, partialVars, cancelVars,
                 entryVars, hostVars
<1>7. CASE Reconcile
    BY <1>7 DEF Reconcile, config, streamVars, partialVars, cancelVars, entryVars, hostVars
<1>71. CASE HostKeeps
    BY <1>71 DEF HostKeeps, config, streamVars, partialVars, cancelVars, entryVars, hostVars
<1>72. CASE HostCopies
    BY <1>72 DEF HostCopies, config, streamVars, partialVars, cancelVars, entryVars, hostVars
<1>73. CASE HostCloses
    BY <1>73 DEF HostCloses, CommitSettles, LetGo, StopAt, Notify, config, streamVars, partialVars,
                 cancelVars, entryVars, hostVars
<1>8. CASE HostInserts
  <2>1. document \o stop.text \in Text
    BY ConcatProperties DEF Text
  <2>2. document' \in Text /\ clipboard' \in Text
    BY <1>8, <2>1 DEF HostInserts
  <2>3. PICK outcome \in {"inserted", "copied", "error"} : CommitSettles(outcome)
    BY <1>8 DEF HostInserts
  <2>4. composition' \in {0, composition}
    BY <1>8 DEF HostInserts
  <2>. QED
    BY <1>8, <2>2, <2>3, <2>4 DEF HostInserts, CommitSettles, LetGo, StopAt, Notify, config, streamVars,
                                  partialVars, cancelVars
<1>9. CASE HostWritesTail
  <2>. DEFINE tail == SubSeq(stop.text, Len(stream.typed) + 1, Len(stop.text))
  <2>1. tail \in Text
    BY SliceIsText, LenProperties DEF Text
  <2>. HIDE DEF tail
  <2>2. PICK n \in 0..Len(tail) : /\ document' = document \o Prefix(tail, n)
                                  /\ commit' = IF n = Len(tail) THEN "keep" ELSE "copy"
    BY <1>9 DEF HostWritesTail, tail
  <2>3. document' \in Text
    BY <1>b, <2>1, <2>2, WrittenStream, ConcatProperties DEF Text
  <2>. QED
    BY <1>9, <2>2, <2>3 DEF HostWritesTail, config, streamVars, partialVars, cancelVars, entryVars
<1>100. CASE CleanupStream
    BY <1>100 DEF CleanupStream, Sleep, Waiter, config, streamVars, partialVars, stopVars, cancelVars, entryVars, hostVars
<1>101. CASE CleanupPartials
    BY <1>101 DEF CleanupPartials, Sleep, Waiter, config, streamVars, partialVars, stopVars, cancelVars, entryVars, hostVars
<1>102. CASE HostCancels
    BY <1>102 DEF HostCancels, Notify, config, streamVars, partialVars, stopVars, cancelVars, entryVars, hostVars
<1>103. ASSUME NEW c \in Canceller, CancelLoop(c), ClaimCleanup(c) PROVE TypeOK'
    BY <1>103 DEF ClaimCleanup, CancelLoop, config, streamVars, partialVars, stopVars, cancelVars, entryVars, hostVars
<1>104. ASSUME NEW c \in Canceller, CancelLoop(c), JoinCleanup(c) PROVE TypeOK'
    BY <1>104 DEF JoinCleanup, CancelLoop, Sleep, Waiter, config, streamVars, partialVars, stopVars, cancelVars, entryVars, hostVars
<1>105. ASSUME NEW c \in Canceller, CancelLoop(c), AfterFinish(c) PROVE TypeOK'
    BY <1>105 DEF AfterFinish, CancelLoop, CancelAt, config, streamVars, partialVars, stopVars, cancelVars, entryVars, hostVars
<1>106. ASSUME NEW c \in Canceller, CancelLoop(c), AfterCleanup(c) PROVE TypeOK'
    BY <1>106 DEF AfterCleanup, CancelLoop, config, streamVars, partialVars, stopVars, cancelVars, entryVars, hostVars
<1>107. ASSUME NEW c \in Canceller, Cancel(c) PROVE TypeOK'
  <2>1. stream' \in StreamState
    BY <1>b, <1>107, FailedStream DEF Cancel, CloseLoops
  <2>2. intake' \in {"open", "failed", "closed"} /\ newest' \in 0..MaxPartials
    BY <1>107 DEF Cancel, CloseLoops, ClosePartials
  <2>. QED
    BY <1>107, <2>1, <2>2 DEF Cancel, CancelAt, StreamState, config, streamVars, partialVars, stopVars,
                              cancelVars, entryVars, hostVars
<1>108. ASSUME NEW c \in Canceller, Settle(c) PROVE TypeOK'
    BY <1>108, <1>a DEF Settle, CancelAt, LetGo, config, streamVars, partialVars, stopVars, cancelVars, entryVars, hostVars
<1>109. CASE Retry
  <2>1. stream' \in StreamState
    BY <1>b, <1>109, FailedStream DEF Retry, CloseLoops
  <2>2. intake' \in {"open", "failed", "closed"} /\ newest' \in 0..MaxPartials
    BY <1>109 DEF Retry, CloseLoops, ClosePartials
  <2>. QED
    BY <1>109, <2>1, <2>2 DEF Retry, CancelAt, Canceller, StreamState, config, streamVars, partialVars,
                              stopVars, cancelVars, entryVars, hostVars
<1>110. CASE RetrySucceeds
    BY <1>110, <1>a DEF RetrySucceeds, CancelAt, RetryIdle, LetGo, Canceller, config, streamVars, partialVars, stopVars, cancelVars, entryVars, hostVars
<1>111. CASE RetryFails
    BY <1>111, <1>a DEF RetryFails, CancelAt, RetryIdle, LetGo, Canceller, config, streamVars, partialVars, stopVars, cancelVars, entryVars, hostVars
<1>. QED
    BY <1>1, <1>2, <1>3, <1>4, <1>5, <1>51, <1>52, <1>6, <1>61, <1>62, <1>7, <1>71, <1>72, <1>73, <1>8, <1>9, <1>100, <1>101, <1>102, <1>103, <1>104, <1>105, <1>106, <1>107, <1>108, <1>109, <1>110, <1>111
       DEF Next, FlushLoop, PartialLoop, StopStep, CommitTask, CleanupTask, RetryStep, CancelLoop, Canceller

(* Every reachable state of an insertion has its type.                      *)
THEOREM InsertionTypes == Spec => []TypeOK
<1>. QED
    BY InitTypeOK, NextTypeOK, PTL DEF Spec

----------------------------------------------------------------------------
(* The loops, the stop and the cleanup.                                     *)

LEMMA InitControl == Init => ControlInv
BY DEF Init, ControlInv, LoopInv, StopInv, CleanupInv, OverInv, Over, Scheduled, Polishing, Canceller

LEMMA NextControl == TypeOK /\ ControlInv /\ [Next]_vars => ControlInv'
<1>. SUFFICES ASSUME TypeOK, ControlInv, [Next]_vars PROVE ControlInv'
    OBVIOUS
<1>. USE DEF TypeOK, ControlInv, LoopInv, StopInv, CleanupInv, OverInv, Over, Scheduled, Polishing
<1>b. stream \in StreamState
    BY DEF StreamState
<1>1. CASE UNCHANGED vars
    BY <1>1 DEF vars, config, streamVars, partialVars, stopVars, cancelVars, entryVars, hostVars
<1>2. CASE Push
  <2>1. stream.failed => stream' = stream
    <3>1. PICK offset \in 0..Len(Polished), end \in 1..Len(Polished) :
              offset < end /\ stream' = Pushed(offset, SubSeq(Polished, offset + 1, end))
      BY <1>2 DEF Push
    <3>. QED
      BY <3>1 DEF Pushed
  <2>2. /\ streaming /\ Polishing /\ flush'.pc \in {flush.pc, "sleep"}
        /\ stream'.failed => flush' = flush
        /\ UNCHANGED <<config, partialVars, terminal, stopVars, cancelVars, entryVars, asleep, hostVars>>
    BY <1>2 DEF Push, FlushAt
  <2>. QED
    BY <2>1, <2>2 DEF config, partialVars, stopVars, cancelVars, entryVars, hostVars
<1>3. CASE FlushTake
  <2>1. /\ flush.pc = "sleep" /\ flush'.pc \in {"off", "write"}
        /\ stream'.failed = stream.failed
        /\ UNCHANGED <<config, partialVars, terminal, stopVars, cancelVars, entryVars, hostVars>>
    BY <1>3, <1>b DEF FlushTake, FlushAt, LeaveFlush, StreamState
  <2>. QED
    BY <2>1 DEF config, partialVars, stopVars, cancelVars, entryVars, hostVars
<1>4. CASE FlushWritten
  <2>1. PICK m \in 0..Len(flush.delta) :
            stream' \in {Written(flush.delta, m), [stream EXCEPT !.failed = TRUE]}
    BY <1>4 DEF FlushWritten
  <2>2. stream.failed => stream'.failed
    BY <1>b, <2>1, WrittenStream, FailedStream
  <2>3. /\ flush.pc = "write" /\ flush'.pc \in {"off", "sleep"}
        /\ UNCHANGED <<config, partialVars, terminal, stopVars, cancelVars, entryVars, composition>>
    BY <1>4 DEF FlushWritten, FlushAt, LeaveFlush
  <2>. QED
    BY <2>2, <2>3 DEF config, partialVars, stopVars, cancelVars, entryVars
<1>5. CASE PushPartial
    BY <1>5 DEF PushPartial, config, streamVars, partialVars, stopVars, cancelVars, entryVars, hostVars
<1>6. CASE PartialTake
    BY <1>6 DEF PartialTake, Notify, config, streamVars, partialVars, stopVars, cancelVars, entryVars, hostVars
<1>7. CASE PartialShown
    BY <1>7 DEF PartialShown, Notify, config, streamVars, partialVars, stopVars, cancelVars, entryVars, hostVars
<1>8. CASE Finish
    BY <1>8 DEF Finish, config, streamVars, partialVars, stopVars, cancelVars, entryVars, hostVars
<1>9. CASE FinishStream
    BY <1>9 DEF FinishStream, StopAt, Sleep, Awake, ClosePartials, config, streamVars, partialVars, stopVars, cancelVars, entryVars, hostVars
<1>10. CASE FinishPartials
    BY <1>10 DEF FinishPartials, StopAt, Sleep, Awake, config, streamVars, partialVars, stopVars, cancelVars, entryVars, hostVars
<1>11. CASE Reconcile
    BY <1>11 DEF Reconcile, config, streamVars, partialVars, stopVars, cancelVars, entryVars, hostVars
<1>12. CASE HostInserts
    BY <1>12 DEF HostInserts, CommitSettles, LetGo, StopAt, Notify, config, streamVars, partialVars, stopVars, cancelVars, entryVars, hostVars
<1>13. CASE HostWritesTail
    BY <1>13 DEF HostWritesTail, config, streamVars, partialVars, stopVars, cancelVars, entryVars, hostVars
<1>14. CASE HostKeeps
    BY <1>14 DEF HostKeeps, config, streamVars, partialVars, stopVars, cancelVars, entryVars, hostVars
<1>15. CASE HostCopies
    BY <1>15 DEF HostCopies, config, streamVars, partialVars, stopVars, cancelVars, entryVars, hostVars
<1>16. CASE HostCloses
    BY <1>16 DEF HostCloses, CommitSettles, LetGo, StopAt, Notify, config, streamVars, partialVars, stopVars, cancelVars, entryVars, hostVars
<1>17. CASE CleanupStream
    BY <1>17 DEF CleanupStream, Sleep, Awake, config, streamVars, partialVars, stopVars, cancelVars, entryVars, hostVars
<1>18. CASE CleanupPartials
    BY <1>18 DEF CleanupPartials, Sleep, Awake, config, streamVars, partialVars, stopVars, cancelVars, entryVars, hostVars
<1>19. CASE HostCancels
    BY <1>19 DEF HostCancels, Notify, config, streamVars, partialVars, stopVars, cancelVars, entryVars, hostVars
<1>20. ASSUME NEW c \in Canceller, CancelLoop(c), ClaimCleanup(c) PROVE ControlInv'
    BY <1>20 DEF ClaimCleanup, CancelLoop, Awake, config, streamVars, partialVars, stopVars, cancelVars, entryVars, hostVars
<1>21. ASSUME NEW c \in Canceller, CancelLoop(c), JoinCleanup(c) PROVE ControlInv'
    BY <1>21 DEF JoinCleanup, CancelLoop, Awake, Sleep, config, streamVars, partialVars, stopVars, cancelVars, entryVars, hostVars
<1>22. ASSUME NEW c \in Canceller, CancelLoop(c), AfterFinish(c) PROVE ControlInv'
    BY <1>22 DEF AfterFinish, CancelLoop, Awake, CancelAt, config, streamVars, partialVars, stopVars, cancelVars, entryVars, hostVars
<1>23. ASSUME NEW c \in Canceller, CancelLoop(c), AfterCleanup(c) PROVE ControlInv'
    BY <1>23 DEF AfterCleanup, CancelLoop, Awake, config, streamVars, partialVars, stopVars, cancelVars, entryVars, hostVars
<1>24. ASSUME NEW c \in Caller, Cancel(c) PROVE ControlInv'
  <2>1. /\ stream' = stream \/ stream'.failed
        /\ intake' = intake \/ intake' = "closed"
    BY <1>b, <1>24, FailedStream DEF Cancel, CloseLoops, ClosePartials
  <2>2. /\ entry = "registered" => stream'.failed /\ intake' = "closed"
        /\ cancel' = [cancel EXCEPT ![c].pc = IF entry = "registered" THEN "loop" ELSE "settled"]
        /\ UNCHANGED <<config, flush, show, terminal, stopVars, cleanup, result, entryVars, hostVars>>
    BY <1>b, <1>24, FailedStream DEF Cancel, CancelAt, CloseLoops, ClosePartials
  <2>3. c \in Canceller
    BY DEF Canceller
  <2>. QED
    BY <2>1, <2>2, <2>3 DEF config, stopVars, entryVars, hostVars
<1>25. ASSUME NEW c \in Caller, Settle(c) PROVE ControlInv'
  <2>1. c \in Canceller
    BY DEF Canceller
  <2>. QED
    BY <1>25, <2>1 DEF Settle, CancelAt, LetGo, config, streamVars, partialVars, stopVars, entryVars, hostVars
<1>26. CASE Retry
    BY <1>26 DEF Retry, CancelAt, CloseLoops, ClosePartials, Canceller, config, streamVars, partialVars, stopVars, cancelVars, entryVars, hostVars
<1>27. CASE RetrySucceeds
    BY <1>27 DEF RetrySucceeds, CancelAt, RetryIdle, LetGo, Canceller, config, streamVars, partialVars, stopVars, cancelVars, entryVars, hostVars
<1>28. CASE RetryFails
    BY <1>28 DEF RetryFails, CancelAt, RetryIdle, LetGo, Canceller, config, streamVars, partialVars, stopVars, cancelVars, entryVars, hostVars
<1>. QED
    BY <1>1, <1>2, <1>3, <1>4, <1>5, <1>6, <1>7, <1>8, <1>9, <1>10, <1>11, <1>12, <1>13, <1>14, <1>15, <1>16, <1>17, <1>18, <1>19, <1>20, <1>21, <1>22, <1>23, <1>24, <1>25, <1>26, <1>27, <1>28
       DEF Next, FlushLoop, PartialLoop, StopStep, CommitTask, CleanupTask, RetryStep, CancelLoop, Canceller

----------------------------------------------------------------------------
(* The document.                                                            *)

LEMMA InitDocument == Init => DocumentInv
BY DEF Init, DocumentInv, DeliveredExactly

(* Whoever leaves document, clipboard, stop and commit alone, and the typed  *)
(* text, and never repairs a failed stream.                                 *)
LEMMA Elsewhere ==
    ASSUME TypeOK, DocumentInv, ControlInv', UNCHANGED <<document, clipboard, stop, commit>>,
           stream'.typed = stream.typed, stream.failed => stream'.failed
    PROVE  DocumentInv'
<1>1. stop.pc \in {"inserted", "copied"} => composition' = 0
    BY DEF ControlInv, StopInv, OverInv, Over
<1>. QED
    BY <1>1 DEF DocumentInv, DeliveredExactly

LEMMA NextDocument == TypeOK /\ ControlInv /\ DocumentInv /\ [Next]_vars => DocumentInv'
<1>. SUFFICES ASSUME TypeOK, ControlInv, DocumentInv, [Next]_vars PROVE DocumentInv'
    OBVIOUS
<1>a. TypeOK' /\ ControlInv'
    BY NextTypeOK, NextControl
<1>b. stream \in StreamState
    BY DEF TypeOK, StreamState
<1>c. stop'.pc \in {"inserted", "copied"} => composition' = 0
    BY <1>a DEF ControlInv, StopInv, OverInv, Over
<1>1. CASE \/ UNCHANGED vars \/ PushPartial \/ PartialTake \/ PartialShown \/ CleanupStream
           \/ CleanupPartials \/ HostCancels \/ RetrySucceeds \/ RetryFails
           \/ \E c \in Canceller : CancelLoop(c) \/ Settle(c)
    BY <1>1, <1>a, Elsewhere
       DEF PushPartial, PartialTake, PartialShown, CleanupStream, CleanupPartials, HostCancels,
           RetrySucceeds, RetryFails, CancelLoop, Settle, vars, streamVars, stopVars, hostVars
<1>2. CASE Retry \/ \E c \in Canceller : Cancel(c)
  <2>1. stream' = stream \/ stream' = [stream EXCEPT !.pending = <<>>, !.failed = TRUE]
    BY <1>2 DEF Retry, Cancel, CloseLoops
  <2>. QED
    BY <1>2, <1>a, <1>b, <2>1, Elsewhere, FailedStream DEF Retry, Cancel, stopVars, hostVars
<1>3. CASE Push
  <2>1. PICK offset \in 0..Len(Polished), end \in 1..Len(Polished) :
            offset < end /\ stream' = Pushed(offset, SubSeq(Polished, offset + 1, end))
    BY <1>3 DEF Push
  <2>2. SubSeq(Polished, offset + 1, end) \in Text
    BY <2>1, SliceIsText, LenProperties, TextInsertionAssumption DEF Text
  <2>3. stream'.typed = stream.typed /\ (stream.failed => stream' = stream)
    BY <1>b, <2>1, <2>2, PushedStream
  <2>. QED
    BY <1>3, <1>a, <2>3, Elsewhere DEF Push, stopVars, hostVars
<1>4. CASE FlushTake
  <2>1. stream'.typed = stream.typed /\ stream'.failed = stream.failed
    BY <1>4, <1>b DEF FlushTake, StreamState
  <2>. QED
    BY <1>4, <1>a, <2>1, Elsewhere DEF FlushTake, stopVars, hostVars
<1>5. CASE FlushWritten
  <2>1. flush.delta \in Text
    BY DEF TypeOK
  <2>2. PICK m \in 0..Len(flush.delta) :
            /\ document' = document \o Prefix(flush.delta, m)
            /\ stream' \in {Written(flush.delta, m), [stream EXCEPT !.failed = TRUE]}
    BY <1>5 DEF FlushWritten
  <2>3. \/ /\ stream'.typed = stream.typed \o Prefix(flush.delta, m)
           /\ stream.failed => stream'.failed
        \/ stream'.failed
    BY <1>b, <2>1, <2>2, WrittenStream, FailedStream
  <2>4. stop.pc \in {"none", "stream", "error"} /\ commit = "off"
    BY <1>5 DEF FlushWritten, TypeOK, ControlInv, StopInv, LoopInv, Scheduled
  <2>5. UNCHANGED <<stop, commit>>
    BY <1>5 DEF FlushWritten, stopVars
  <2>. QED
    BY <2>2, <2>3, <2>4, <2>5 DEF DocumentInv, DeliveredExactly
<1>6. CASE Finish
    BY <1>6, <1>a, <1>c DEF Finish, Polishing, DocumentInv, DeliveredExactly, ControlInv, StopInv, TypeOK,
                            streamVars, hostVars
<1>7. CASE FinishStream \/ FinishPartials
    BY <1>7, <1>a, <1>c DEF FinishStream, FinishPartials, StopAt, DocumentInv, DeliveredExactly, ControlInv, StopInv,
                            TypeOK, streamVars, hostVars
<1>8. CASE Reconcile
  <2>1. commit = "reconcile" /\ UNCHANGED <<stop, stream, document, clipboard>>
    BY <1>8 DEF Reconcile, streamVars, hostVars
  <2>2. stop.pc = "commit"
    BY <2>1 DEF ControlInv, StopInv
  <2>3. commit' = "copy" \/ (~stream.failed /\ document = stream.typed)
    BY <1>8, <2>1, <2>2 DEF Reconcile, DocumentInv
  <2>4. /\ commit' \in {"copy", "insert", "keep", "tail"}
        /\ commit' = "insert" => stream.typed = <<>>
        /\ commit' = "keep" => stream.typed = stop.text
        /\ commit' = "tail" => IsPrefix(stream.typed, stop.text)
    BY <1>8 DEF Reconcile
  <2>. QED
    BY <2>1, <2>2, <2>3, <2>4 DEF DocumentInv, DeliveredExactly
<1>9. CASE HostInserts
  <2>1. commit = "insert" /\ commit' = "off"
    BY <1>9 DEF HostInserts, CommitSettles
  <2>2. document = <<>> /\ stop.text \in Text
    BY <2>1 DEF DocumentInv, TypeOK
  <2>3. document \o stop.text = stop.text
    BY <2>2, ConcatEmptySeq DEF Text
  <2>4. stop' = [stop EXCEPT !.pc = stop'.pc]
    BY <1>9 DEF HostInserts, CommitSettles, StopAt, TypeOK
  <2>5. /\ stop'.pc \in {"inserted", "copied", "error"} /\ stop'.text = stop.text
        /\ stop'.pc = "inserted" => document' = stop.text
        /\ stop'.pc = "copied" => clipboard' = stop.text
    BY <1>9, <2>3 DEF HostInserts, CommitSettles, StopAt, TypeOK
  <2>. QED
    BY <1>c, <2>1, <2>5 DEF DocumentInv, DeliveredExactly
<1>10. CASE HostWritesTail
  <2>. DEFINE tail == SubSeq(stop.text, Len(stream.typed) + 1, Len(stop.text))
  <2>1. stream.typed \in Text /\ stop.text \in Text
    BY DEF TypeOK
  <2>2. commit = "tail" /\ document = stream.typed /\ IsPrefix(stream.typed, stop.text)
    BY <1>10 DEF HostWritesTail, DocumentInv
  <2>3. stream.typed \o tail = stop.text
    BY <2>1, <2>2, PrefixAndRest
  <2>4. tail \in Text
    BY <2>1, SliceIsText, LenProperties DEF Text
  <2>5. Prefix(tail, Len(tail)) = tail
    BY <2>4, SubSeqFull DEF Text, Prefix
  <2>. HIDE DEF tail
  <2>6. PICK n \in 0..Len(tail) : /\ document' = document \o Prefix(tail, n)
                                  /\ commit' = IF n = Len(tail) THEN "keep" ELSE "copy"
    BY <1>10 DEF HostWritesTail, tail
  <2>7. commit' = "keep" => document' = stop.text
    BY <2>2, <2>3, <2>5, <2>6
  <2>8. UNCHANGED stop /\ commit' \in {"keep", "copy"} /\ stop.pc = "commit"
    BY <1>10, <2>2, <2>6 DEF HostWritesTail, ControlInv, StopInv
  <2>. QED
    BY <2>7, <2>8 DEF DocumentInv, DeliveredExactly
<1>11. CASE HostKeeps \/ HostCopies
  <2>1. stop.pc = "commit"
    BY <1>11 DEF HostKeeps, HostCopies, ControlInv, StopInv
  <2>. QED
    BY <1>11, <2>1 DEF HostKeeps, HostCopies, DocumentInv, DeliveredExactly
<1>12. CASE HostCloses
  <2>1. /\ commit' = "off" /\ UNCHANGED <<document, clipboard>>
        /\ commit \in {"close", "closeCopied", "closeFailed"}
    BY <1>12 DEF HostCloses, CommitSettles
  <2>2. /\ stop'.pc \in {"inserted", "copied", "error"} /\ stop'.text = stop.text
        /\ stop'.pc = "inserted" => commit = "close"
        /\ stop'.pc = "copied" => commit = "closeCopied"
    BY <1>12 DEF HostCloses, CommitSettles, StopAt, TypeOK
  <2>. QED
    BY <1>c, <2>1, <2>2 DEF DocumentInv, DeliveredExactly
<1>. QED
    BY <1>1, <1>2, <1>3, <1>4, <1>5, <1>6, <1>7, <1>8, <1>9, <1>10, <1>11, <1>12
       DEF Next, FlushLoop, PartialLoop, StopStep, CommitTask, CleanupTask, RetryStep, Canceller

----------------------------------------------------------------------------
(* The theorems.                                                            *)

LEMMA InsertionInductive == Spec => []InsertionInv
<1>1. Init => InsertionInv
    BY InitTypeOK, InitControl, InitDocument DEF InsertionInv
<1>2. InsertionInv /\ [Next]_vars => InsertionInv'
    BY NextTypeOK, NextControl, NextDocument DEF InsertionInv
<1>. QED
    BY <1>1, <1>2, PTL DEF Spec

(* The native session serves one call at a time.                            *)
THEOREM OneCallAtATime == Spec => []NativeCallsInTurn
<1>1. InsertionInv => NativeCallsInTurn
  <2>. SUFFICES ASSUME InsertionInv,
                       NEW t \in {"flush", "partials", "commit", "cleanup"},
                       NEW u \in {"flush", "partials", "commit", "cleanup"},
                       InNativeCall(t), InNativeCall(u)
                PROVE  t = u
    BY DEF NativeCallsInTurn
  <2>. QED
    BY DEF InsertionInv, TypeOK, ControlInv, LoopInv, StopInv, CleanupInv, Scheduled, InNativeCall
<1>. QED
    BY <1>1, InsertionInductive, PTL

(* The target gets the final text exactly once, or the clipboard has it.    *)
THEOREM ExactDelivery == Spec => []DeliveredExactly
<1>1. InsertionInv => DeliveredExactly
    BY DEF InsertionInv, DocumentInv
<1>. QED
    BY <1>1, InsertionInductive, PTL

(* The backend lets go of a clean target only.                              *)
THEOREM CleanRelease == Spec => []ReleasedClean
<1>1. InsertionInv => ReleasedClean
    BY DEF InsertionInv, ControlInv, OverInv, ReleasedClean
<1>. QED
    BY <1>1, InsertionInductive, PTL

(* After a cancellation has answered, no native call of the session is in    *)
(* flight that could reach the target, and none begins.                     *)
THEOREM QuietAfterCancel == Spec => CancelledIsQuiet
<1>1. ASSUME InsertionInv, [Next]_vars, NEW c \in Caller, CancelReturned(c), entry # "abandoned"
      PROVE  UNCHANGED <<document, composition>>
  <2>1. Over
    BY <1>1 DEF InsertionInv, ControlInv, OverInv, CancelReturned, Canceller
  <2>2. /\ ~Scheduled /\ show = "off" /\ commit = "off" /\ cleanup = "off"
    BY <1>1, <2>1 DEF InsertionInv, ControlInv, LoopInv, StopInv, CleanupInv, Over, TypeOK
  <2>. QED
    BY <1>1, <2>2
       DEF Next, FlushLoop, FlushTake, FlushWritten, PartialLoop, PartialTake, PartialShown, StopStep,
           FinishStream, FinishPartials, CommitTask, Reconcile, HostInserts, HostWritesTail, HostKeeps,
           HostCopies, HostCloses, CleanupTask, CleanupStream, CleanupPartials, HostCancels, RetryStep,
           Retry, RetrySucceeds, RetryFails, CancelLoop, Cancel, Settle, Push, PushPartial, Finish,
           Scheduled, vars, hostVars
<1>2. InsertionInv /\ [Next]_vars =>
        [(\E c \in Caller : CancelReturned(c)) /\ entry # "abandoned"
            => UNCHANGED <<document, composition>>]_vars
    BY <1>1
<1>. QED
    BY <1>2, InsertionInductive, PTL DEF Spec, CancelledIsQuiet

----------------------------------------------------------------------------
(* The queues of markers.                                                   *)

(* Every press is remembered once.                                          *)
Once(queue) == \A j, k \in 1..Len(queue) : queue[j] = queue[k] => j = k

(* Taking a marker leaves the others.                                       *)
LEMMA WithoutLeaves ==
    ASSUME NEW S, NEW queue \in Seq(S), NEW p
    PROVE  /\ Without(queue, p) \in Seq(S)
           /\ \A r : Contains(Without(queue, p), r) => Contains(queue, r)
           /\ \A r : r # p /\ Contains(queue, r) => Contains(Without(queue, p), r)
           /\ Once(queue) => Once(Without(queue, p))
<1>1. CASE ~Contains(queue, p) BY <1>1 DEF Without
<1>2. CASE Contains(queue, p)
  <2> DEFINE n == CHOOSE n \in 1..Len(queue) : queue[n] = p
  <2>1. n \in 1..Len(queue) /\ queue[n] = p BY <1>2 DEF Contains
  <2>2. Without(queue, p) = RemoveAt(queue, n) BY <1>2 DEF Without
  <2> HIDE DEF n
  <2> DEFINE a == SubSeq(queue, 1, n - 1)
             b == SubSeq(queue, n + 1, Len(queue))
  <2>3. /\ a \in Seq(S) /\ Len(a) = n - 1
        /\ \A k \in 1..(n - 1) : a[k] = queue[k]
    BY <2>1, SubSeqProperties, LenProperties
  <2>4. /\ b \in Seq(S) /\ Len(b) = Len(queue) - n
        /\ \A k \in 1..(Len(queue) - n) : b[k] = queue[n + k]
    BY <2>1, SubSeqProperties, LenProperties
  <2>5. Without(queue, p) = a \o b BY <2>2 DEF RemoveAt
  <2> HIDE DEF a, b
  <2>6. PICK c : /\ c = a \o b /\ c \in Seq(S) /\ Len(c) = Len(queue) - 1
                 /\ \A k \in 1..(n - 1) : c[k] = queue[k]
                 /\ \A k \in n..(Len(queue) - 1) : c[k] = queue[k + 1]
    <3>1. Len(a) + Len(b) = Len(queue) - 1 BY <2>1, <2>3, <2>4, LenProperties
    <3>2. /\ a \o b \in Seq(S) /\ Len(a \o b) = Len(queue) - 1
          /\ \A k \in 1..(Len(queue) - 1) :
                (a \o b)[k] = IF k <= n - 1 THEN a[k] ELSE b[k - (n - 1)]
      BY <2>3, <2>4, <3>1, ConcatProperties
    <3> DEFINE c == a \o b
    <3>3. c \in Seq(S) /\ Len(c) = Len(queue) - 1 BY <3>2
    <3>0. Len(queue) \in Nat /\ n \in 1..Len(queue) BY <2>1, LenProperties
    <3>4. ASSUME NEW k \in 1..(n - 1) PROVE c[k] = queue[k]
      <4>1. k \in 1..(Len(queue) - 1) /\ k <= n - 1 BY <3>0
      <4>2. c[k] = a[k] BY <3>2, <4>1
      <4> QED BY <2>3, <4>2
    <3>5. ASSUME NEW k \in n..(Len(queue) - 1) PROVE c[k] = queue[k + 1]
      <4>1. k \in 1..(Len(queue) - 1) /\ ~(k <= n - 1) BY <3>0
      <4>2. c[k] = b[k - (n - 1)] BY <3>2, <4>1
      <4>3. k - (n - 1) \in 1..(Len(queue) - n) /\ n + (k - (n - 1)) = k + 1 BY <3>0
      <4> QED BY <2>4, <4>2, <4>3
    <3>6. c = a \o b OBVIOUS
    <3> HIDE DEF c
    <3> QED BY <3>3, <3>4, <3>5, <3>6
  <2>7. ASSUME NEW r, Contains(c, r) PROVE Contains(queue, r)
    <3>1. PICK k \in 1..(Len(queue) - 1) : c[k] = r BY <2>6, <2>7 DEF Contains
    <3>2. queue[k] = r \/ queue[k + 1] = r BY <2>1, <2>6, <3>1
    <3> QED BY <3>1, <3>2, LenProperties DEF Contains
  <2>8. ASSUME NEW r, r # p, Contains(queue, r) PROVE Contains(c, r)
    <3>1. PICK k \in 1..Len(queue) : queue[k] = r BY <2>8 DEF Contains
    <3>0. Len(queue) \in Nat /\ n \in 1..Len(queue) BY <2>1, LenProperties
    <3>2. CASE k < n
      <4>1. c[k] = r /\ k \in 1..(Len(queue) - 1) BY <2>6, <3>0, <3>1, <3>2
      <4> QED BY <2>6, <4>1 DEF Contains
    <3>3. CASE k > n
      <4>1. c[k - 1] = r /\ k - 1 \in 1..(Len(queue) - 1)
        <5>1. k - 1 \in n..(Len(queue) - 1) /\ k - 1 \in 1..(Len(queue) - 1) /\ (k - 1) + 1 = k
          BY <3>0, <3>1, <3>3
        <5> QED BY <2>6, <3>1, <5>1
      <4> QED BY <2>6, <4>1 DEF Contains
    <3> QED BY <2>1, <2>8, <3>1, <3>2, <3>3
  <2>9. ASSUME Once(queue) PROVE Once(c)
    <3>0. Len(queue) \in Nat /\ n \in 1..Len(queue) BY <2>1, LenProperties
    <3>1. SUFFICES ASSUME NEW j \in 1..(Len(queue) - 1), NEW k \in 1..(Len(queue) - 1),
                          c[j] = c[k]
                   PROVE  j = k
      BY <2>6 DEF Once
    <3>2. \A i \in 1..(Len(queue) - 1) : c[i] = queue[IF i < n THEN i ELSE i + 1]
      <4>1. SUFFICES ASSUME NEW i \in 1..(Len(queue) - 1)
                     PROVE  c[i] = queue[IF i < n THEN i ELSE i + 1]
        OBVIOUS
      <4>2. CASE i < n
        <5>1. i \in 1..(n - 1) BY <3>0, <4>2
        <5> QED BY <2>6, <4>2, <5>1
      <4>3. CASE ~(i < n)
        <5>1. i \in n..(Len(queue) - 1) BY <3>0, <4>3
        <5> QED BY <2>6, <4>3, <5>1
      <4> QED BY <4>2, <4>3
    <3>3. PICK l \in 1..Len(queue) : l = (IF j < n THEN j ELSE j + 1) /\ c[j] = queue[l]
      BY <3>0, <3>2
    <3>4. PICK m \in 1..Len(queue) : m = (IF k < n THEN k ELSE k + 1) /\ c[k] = queue[m]
      BY <3>0, <3>2
    <3>5. l = m BY <2>9, <3>1, <3>3, <3>4 DEF Once
    <3> QED BY <3>0, <3>3, <3>4, <3>5
  <2> QED BY <2>5, <2>6, <2>7, <2>8, <2>9
<1> QED BY <1>1, <1>2

(* Remembering a marker keeps the others, except the oldest of a full queue. *)
LEMMA RememberKeeps ==
    ASSUME NEW S, NEW queue \in Seq(S), NEW p \in S
    PROVE  /\ Remember(queue, p) \in Seq(S)
           /\ Contains(Remember(queue, p), p)
           /\ \A r : Contains(Remember(queue, p), r) => r = p \/ Contains(queue, r)
           /\ \A r : Contains(queue, r) =>
                 \/ Contains(Remember(queue, p), r)
                 \/ ~Contains(queue, p) /\ Len(queue) >= MaxPending /\ r = Head(queue)
           /\ Once(queue) => Once(Remember(queue, p))
<1>1. CASE Contains(queue, p) BY <1>1 DEF Remember
<1>2. CASE ~Contains(queue, p)
  <2> DEFINE longer == Append(queue, p)
  <2>0. Len(queue) \in Nat /\ MaxPending \in Nat \ {0}
    BY LenProperties, InterpreterAssumption
  <2>1. /\ longer \in Seq(S) /\ Len(longer) = Len(queue) + 1
        /\ \A k \in 1..Len(queue) : longer[k] = queue[k]
        /\ longer[Len(queue) + 1] = p
    BY AppendProperties
  <2>2. \A r : Contains(longer, r) <=> r = p \/ Contains(queue, r)
    BY <2>0, <2>1 DEF Contains
  <2>5. ASSUME Once(queue) PROVE Once(longer)
    <3> HIDE DEF longer
    <3>1. SUFFICES ASSUME NEW j \in 1..(Len(queue) + 1), NEW k \in 1..(Len(queue) + 1),
                          longer[j] = longer[k]
                   PROVE  j = k
      BY <2>1 DEF Once
    <3>2. \A i \in 1..Len(queue) : queue[i] # p BY <1>2 DEF Contains
    <3>3. CASE j \in 1..Len(queue) /\ k \in 1..Len(queue)
      BY <2>1, <2>5, <3>1, <3>3 DEF Once
    <3>4. CASE j = Len(queue) + 1 \/ k = Len(queue) + 1
      <4>1. ASSUME NEW i \in 1..(Len(queue) + 1), longer[i] = p PROVE i = Len(queue) + 1
        BY <2>0, <2>1, <3>2, <4>1
      <4> QED BY <2>1, <3>1, <3>4, <4>1
    <3> QED BY <2>0, <3>3, <3>4
  <2>3. CASE Len(longer) > MaxPending
    <3>1. Remember(queue, p) = Tail(longer) BY <1>2, <2>3 DEF Remember
    <3> HIDE DEF longer
    <3>2. /\ Tail(longer) \in Seq(S) /\ Len(Tail(longer)) = Len(queue)
          /\ \A k \in 1..Len(queue) : Tail(longer)[k] = longer[k + 1]
      BY <2>0, <2>1, <2>3, HeadTailProperties
    <3>3. Len(queue) >= MaxPending /\ Len(queue) >= 1 BY <2>0, <2>1, <2>3
    <3>4. Contains(Tail(longer), p) BY <2>0, <2>1, <3>2, <3>3 DEF Contains
    <3>5. \A r : Contains(Tail(longer), r) => Contains(longer, r)
      BY <2>0, <2>1, <3>2 DEF Contains
    <3>6. ASSUME NEW r, Contains(queue, r), r # Head(queue) PROVE Contains(Tail(longer), r)
      <4>1. PICK k \in 1..Len(queue) : queue[k] = r BY <3>6 DEF Contains
      <4>2. k # 1 BY <3>6, <4>1
      <4>3. k - 1 \in 1..Len(queue) /\ Tail(longer)[k - 1] = r
        BY <2>0, <2>1, <3>2, <4>1, <4>2
      <4> QED BY <3>2, <4>3 DEF Contains
    <3>7. ASSUME Once(longer) PROVE Once(Tail(longer))
      <4>1. SUFFICES ASSUME NEW j \in 1..Len(queue), NEW k \in 1..Len(queue),
                            Tail(longer)[j] = Tail(longer)[k]
                     PROVE  j = k
        BY <3>2 DEF Once
      <4>2. longer[j + 1] = longer[k + 1] BY <3>2, <4>1
      <4>3. j + 1 = k + 1
        <5>1. j + 1 \in 1..Len(longer) /\ k + 1 \in 1..Len(longer) BY <2>0, <2>1
        <5> QED BY <3>7, <4>2, <5>1 DEF Once
      <4> QED BY <4>3
    <3> QED BY <1>2, <2>2, <2>5, <3>1, <3>2, <3>3, <3>4, <3>5, <3>6, <3>7
  <2>4. CASE ~(Len(longer) > MaxPending)
    <3>1. Remember(queue, p) = longer BY <1>2, <2>4 DEF Remember
    <3> QED BY <2>1, <2>2, <2>5, <3>1
  <2> QED BY <2>3, <2>4
<1> QED BY <1>1, <1>2

Markers == {queue \in Seq(Press) : Once(queue)}

LEMMA MarkersWithout ==
    ASSUME NEW queue \in Markers, NEW p
    PROVE  /\ Without(queue, p) \in Markers
           /\ \A r : Contains(Without(queue, p), r) => Contains(queue, r)
           /\ \A r : r # p /\ Contains(queue, r) => Contains(Without(queue, p), r)
BY WithoutLeaves DEF Markers

LEMMA MarkersRemember ==
    ASSUME NEW queue \in Markers, NEW p \in Press
    PROVE  /\ Remember(queue, p) \in Markers
           /\ Contains(Remember(queue, p), p)
           /\ \A r : Contains(Remember(queue, p), r) => r = p \/ Contains(queue, r)
           /\ \A r : Contains(queue, r) =>
                 \/ Contains(Remember(queue, p), r)
                 \/ ~Contains(queue, p) /\ Len(queue) >= MaxPending /\ r = Head(queue)
BY RememberKeeps DEF Markers

----------------------------------------------------------------------------
(* What each method of the interpreter returns.                             *)

Interpreter ==
    [held            : [id : Press \cup {0}, at : Nat, accepted : BOOLEAN],
     session         : Press \cup {0},
     pendingCombined : Markers,
     pendingReleased : Markers,
     lastDispatch    : [id : Press \cup {0}, at : Nat],
     cooldown        : Nat]

(* An edge of p was dispatched while p was not held.                        *)
OvertakenByCombined(i, p) == Contains(i.pendingCombined, p)
OvertakenByReleased(i, p) == Contains(i.pendingReleased, p)

(* j has no marker that i has not, and all of i's but those of p.           *)
TakesOnly(i, j, p) ==
    \A r \in Press :
        /\ OvertakenByCombined(j, r) => OvertakenByCombined(i, r)
        /\ OvertakenByReleased(j, r) => OvertakenByReleased(i, r)
        /\ r # p /\ OvertakenByCombined(i, r) => OvertakenByCombined(j, r)
        /\ r # p /\ OvertakenByReleased(i, r) => OvertakenByReleased(j, r)

LEMMA Numbers ==
    /\ Press \subseteq Nat \ {0}
    /\ MaxPress \in Nat
    /\ {Debounce, AutoHold, Cooldown} \subseteq Nat
BY DispatchAssumption, InterpreterAssumption DEF Press

LEMMA TakeGives ==
    ASSUME NEW i \in Interpreter, NEW p \in Press
    PROVE  /\ TakeCombined(i, p) \in Interpreter /\ TakeReleased(i, p) \in Interpreter
           /\ TakesOnly(i, TakeCombined(i, p), p) /\ TakesOnly(i, TakeReleased(i, p), p)
           /\ \A j \in {TakeCombined(i, p), TakeReleased(i, p)} :
                 /\ j.held = i.held /\ j.session = i.session
                 /\ j.lastDispatch = i.lastDispatch /\ j.cooldown = i.cooldown
<1>1. i.pendingCombined \in Markers /\ i.pendingReleased \in Markers BY DEF Interpreter
<1>2. PICK c : c = Without(i.pendingCombined, p) OBVIOUS
<1>3. PICK d : d = Without(i.pendingReleased, p) OBVIOUS
<1>4. /\ c \in Markers
      /\ \A r : Contains(c, r) => Contains(i.pendingCombined, r)
      /\ \A r : r # p /\ Contains(i.pendingCombined, r) => Contains(c, r)
  BY <1>1, <1>2, MarkersWithout
<1>5. /\ d \in Markers
      /\ \A r : Contains(d, r) => Contains(i.pendingReleased, r)
      /\ \A r : r # p /\ Contains(i.pendingReleased, r) => Contains(d, r)
  BY <1>1, <1>3, MarkersWithout
<1>6. /\ TakeCombined(i, p) = [i EXCEPT !.pendingCombined = c]
      /\ TakeReleased(i, p) = [i EXCEPT !.pendingReleased = d]
  BY <1>2, <1>3 DEF TakeCombined, TakeReleased
<1>7. /\ [i EXCEPT !.pendingCombined = c] \in Interpreter
      /\ [i EXCEPT !.pendingReleased = d] \in Interpreter
      /\ [i EXCEPT !.pendingCombined = c].pendingCombined = c
      /\ [i EXCEPT !.pendingCombined = c].pendingReleased = i.pendingReleased
      /\ [i EXCEPT !.pendingReleased = d].pendingCombined = i.pendingCombined
      /\ [i EXCEPT !.pendingReleased = d].pendingReleased = d
      /\ \A j \in {[i EXCEPT !.pendingCombined = c], [i EXCEPT !.pendingReleased = d]} :
            /\ j.held = i.held /\ j.session = i.session
            /\ j.lastDispatch = i.lastDispatch /\ j.cooldown = i.cooldown
  BY <1>4, <1>5 DEF Interpreter
<1>8. /\ TakesOnly(i, [i EXCEPT !.pendingCombined = c], p)
      /\ TakesOnly(i, [i EXCEPT !.pendingReleased = d], p)
  BY <1>4, <1>5, <1>7 DEF TakesOnly, OvertakenByCombined, OvertakenByReleased
<1> QED BY <1>6, <1>7, <1>8

(* Forgetting whether p is held.                                            *)
LEMMA ClearGives ==
    ASSUME NEW i \in Interpreter, NEW p \in Press, NEW j, j = ClearPress(i, p)
    PROVE  /\ j \in Interpreter
           /\ j.session = i.session /\ j.cooldown = i.cooldown
           /\ j.pendingCombined = i.pendingCombined
           /\ j.pendingReleased = i.pendingReleased
           /\ j.held = IF i.held.id = p THEN NotHeld ELSE i.held
BY Numbers DEF ClearPress, Interpreter, NotHeld, NoDispatch

LEMMA PressGives ==
    ASSUME NEW i \in Interpreter, NEW p \in Press, NEW t \in Nat, NEW m, NEW ph,
           NEW o \in BOOLEAN, i.held.id # p, NEW out, out = PressKey(i, p, t, m, ph, o)
    PROVE  /\ out.next \in Interpreter
           /\ out.intent \in {"Noop", "WaitForModifierGrace", "Start", "Stop"}
           /\ out.next.cooldown = i.cooldown
           /\ TakesOnly(i, out.next, p)
           /\ out.next.session = IF out.intent = "Start" THEN p ELSE i.session
           /\ out.next.held.id \in {0, p}
           /\ out.next.held.id = p =>
                 /\ out.next.held.at = t
                 /\ ~OvertakenByCombined(out.next, p)
                 /\ out.next.held.accepted \/ out.intent = "Noop"
           /\ out.intent \in {"WaitForModifierGrace", "Start"} =>
                 /\ ph = "Idle" /\ t >= i.cooldown /\ out.next.held.id = p
                 /\ ~OvertakenByCombined(i, p) /\ ~OvertakenByReleased(i, p)
                 /\ o <=> out.intent = "WaitForModifierGrace"
<1>0. p # 0 /\ p \in Nat BY Numbers
<1>1. TakesOnly(i, i, p) BY DEF TakesOnly
<1>2. CASE OvertakenByCombined(i, p)
  <2>1. out = [next |-> [TakeCombined(i, p) EXCEPT !.held = NotHeld], intent |-> "Noop"]
    BY <1>0, <1>2 DEF PressKey, Outcome, OvertakenByCombined
  <2>2. PICK j \in Interpreter : /\ j = TakeCombined(i, p) /\ TakesOnly(i, j, p)
                                 /\ j.session = i.session /\ j.cooldown = i.cooldown
    BY TakeGives
  <2>3. PICK k : k = [j EXCEPT !.held = NotHeld] OBVIOUS
  <2>4. /\ k \in Interpreter /\ k.session = i.session /\ k.cooldown = i.cooldown
        /\ k.pendingCombined = j.pendingCombined /\ k.pendingReleased = j.pendingReleased
        /\ k.held.id = 0
    BY <2>2, <2>3 DEF Interpreter, NotHeld
  <2>5. TakesOnly(i, k, p)
    BY <2>2, <2>4 DEF TakesOnly, OvertakenByCombined, OvertakenByReleased
  <2>6. out.next = k /\ out.intent = "Noop" BY <2>1, <2>2, <2>3
  <2> QED BY <1>0, <2>4, <2>5, <2>6
<1>3. CASE ~OvertakenByCombined(i, p) /\ OvertakenByReleased(i, p)
  <2>1. out = [next |-> [TakeReleased(i, p) EXCEPT !.held = NotHeld], intent |-> "Noop"]
    BY <1>0, <1>3 DEF PressKey, Outcome, OvertakenByCombined, OvertakenByReleased
  <2>2. PICK j \in Interpreter : /\ j = TakeReleased(i, p) /\ TakesOnly(i, j, p)
                                 /\ j.session = i.session /\ j.cooldown = i.cooldown
    BY TakeGives
  <2>3. PICK k : k = [j EXCEPT !.held = NotHeld] OBVIOUS
  <2>4. /\ k \in Interpreter /\ k.session = i.session /\ k.cooldown = i.cooldown
        /\ k.pendingCombined = j.pendingCombined /\ k.pendingReleased = j.pendingReleased
        /\ k.held.id = 0
    BY <2>2, <2>3 DEF Interpreter, NotHeld
  <2>5. TakesOnly(i, k, p)
    BY <2>2, <2>4 DEF TakesOnly, OvertakenByCombined, OvertakenByReleased
  <2>6. out.next = k /\ out.intent = "Noop" BY <2>1, <2>2, <2>3
  <2> QED BY <1>0, <2>4, <2>5, <2>6
<1>4. CASE ~OvertakenByCombined(i, p) /\ ~OvertakenByReleased(i, p)
  <2> DEFINE Held(accepted) == [i EXCEPT !.held = [id |-> p, at |-> t, accepted |-> accepted]]
  <2>1. \A a \in BOOLEAN :
           /\ Held(a) \in Interpreter /\ Held(a).held = [id |-> p, at |-> t, accepted |-> a]
           /\ Held(a).session = i.session /\ Held(a).cooldown = i.cooldown
           /\ Held(a).pendingCombined = i.pendingCombined
           /\ Held(a).pendingReleased = i.pendingReleased
    BY DEF Interpreter
  <2>2. CASE Bounced(i, t)
    <3>1. out = [next |-> Held(FALSE), intent |-> "Noop"]
      BY <1>0, <1>4, <2>2 DEF PressKey, Outcome, OvertakenByCombined, OvertakenByReleased
    <3>2. PICK k \in Interpreter :
             /\ k = Held(FALSE) /\ k.held = [id |-> p, at |-> t, accepted |-> FALSE]
             /\ k.session = i.session /\ k.cooldown = i.cooldown
             /\ k.pendingCombined = i.pendingCombined /\ k.pendingReleased = i.pendingReleased
      BY <2>1
    <3>3. out.next = k /\ out.intent = "Noop" BY <3>1, <3>2
    <3> QED BY <1>0, <1>1, <1>4, <3>2, <3>3 DEF TakesOnly, OvertakenByCombined, OvertakenByReleased
  <2>3. CASE ~Bounced(i, t)
    <3> DEFINE kind == PressIntent(i, t, m, ph)
               taken == [Held(TRUE) EXCEPT !.lastDispatch = [id |-> p, at |-> t]]
    <3>1. /\ kind \in {"Start", "Stop", "Noop"}
          /\ kind = "Start" => ph = "Idle" /\ t >= i.cooldown
      BY DEF PressIntent
    <3>2. /\ taken \in Interpreter /\ taken.held = [id |-> p, at |-> t, accepted |-> TRUE]
          /\ taken.session = i.session /\ taken.cooldown = i.cooldown
          /\ taken.pendingCombined = i.pendingCombined
          /\ taken.pendingReleased = i.pendingReleased
      BY <2>1 DEF Interpreter
    <3>3. out = IF kind = "Start" /\ o
                THEN [next |-> taken, intent |-> "WaitForModifierGrace"]
                ELSE [next |-> [taken EXCEPT !.session = IF kind = "Start" THEN p ELSE @],
                      intent |-> kind]
      BY <1>0, <1>4, <2>3 DEF PressKey, Outcome, OvertakenByCombined, OvertakenByReleased
    <3> HIDE DEF kind, taken, Held
    <3>4. CASE kind = "Start" /\ o
      <4>1. PICK k : k = taken OBVIOUS
      <4>2. out.next = k /\ out.intent = "WaitForModifierGrace" BY <3>3, <3>4, <4>1
      <4>3. /\ k \in Interpreter /\ k.held = [id |-> p, at |-> t, accepted |-> TRUE]
            /\ k.session = i.session /\ k.cooldown = i.cooldown
            /\ k.pendingCombined = i.pendingCombined
            /\ k.pendingReleased = i.pendingReleased
        BY <3>2, <4>1
      <4>4. o /\ ph = "Idle" /\ t >= i.cooldown BY <3>1, <3>4
      <4>5. TakesOnly(i, k, p) BY <1>1, <4>3 DEF TakesOnly, OvertakenByCombined, OvertakenByReleased
      <4>6. ~OvertakenByCombined(k, p) BY <1>4, <4>3 DEF OvertakenByCombined
      <4> HIDE DEF kind
      <4> QED BY <1>0, <1>4, <4>2, <4>3, <4>4, <4>5, <4>6
    <3>5. CASE ~(kind = "Start" /\ o)
      <4>1. PICK k : k = [taken EXCEPT !.session = IF kind = "Start" THEN p ELSE @] OBVIOUS
      <4>2. out.next = k /\ out.intent = kind BY <3>3, <3>5, <4>1
      <4>3. /\ k \in Interpreter /\ k.held = [id |-> p, at |-> t, accepted |-> TRUE]
            /\ k.session = (IF kind = "Start" THEN p ELSE i.session) /\ k.cooldown = i.cooldown
            /\ k.pendingCombined = i.pendingCombined
            /\ k.pendingReleased = i.pendingReleased
        BY <3>2, <4>1 DEF Interpreter
      <4> QED BY <1>0, <1>1, <1>4, <3>1, <3>5, <4>2, <4>3
            DEF TakesOnly, OvertakenByCombined, OvertakenByReleased
    <3> QED BY <3>4, <3>5
  <2> QED BY <2>2, <2>3
<1> QED BY <1>2, <1>3, <1>4

LEMMA GraceGives ==
    ASSUME NEW i \in Interpreter, NEW p \in Press, NEW ph,
           NEW out, out = AfterModifierGrace(i, p, ph)
    PROVE  /\ out.next \in Interpreter
           /\ out.intent \in {"Noop", "Start"}
           /\ out.next.cooldown = i.cooldown
           /\ TakesOnly(i, out.next, p)
           /\ out.next.session = IF out.intent = "Start" THEN p ELSE i.session
           /\ \/ out.next.held = i.held
              \/ out.next.held.id = 0 /\ i.held.id = p /\ out.intent = "Noop"
           /\ out.intent = "Start" => i.held.id = p /\ i.held.accepted /\ ph = "Idle"
<1>0. p # 0 /\ p \in Nat BY Numbers
<1>1. TakesOnly(i, i, p) BY DEF TakesOnly
<1>2. CASE OvertakenByCombined(i, p)
  <2>1. PICK j \in Interpreter : /\ j = TakeCombined(i, p) /\ TakesOnly(i, j, p)
                                 /\ j.session = i.session /\ j.cooldown = i.cooldown
                                 /\ j.held = i.held
    BY TakeGives
  <2>2. PICK k : k = ClearPress(j, p) OBVIOUS
  <2>3. /\ k \in Interpreter
        /\ k.session = j.session /\ k.cooldown = j.cooldown
        /\ k.pendingCombined = j.pendingCombined
        /\ k.pendingReleased = j.pendingReleased
        /\ k.held = IF j.held.id = p THEN NotHeld ELSE j.held
    BY <2>2, ClearGives
  <2>4. out.next = k /\ out.intent = "Noop"
    BY <1>2, <2>1, <2>2 DEF AfterModifierGrace, Outcome, OvertakenByCombined
  <2>5. TakesOnly(i, k, p)
    BY <2>1, <2>3 DEF TakesOnly, OvertakenByCombined, OvertakenByReleased
  <2> QED BY <2>1, <2>3, <2>4, <2>5 DEF NotHeld
<1>3. CASE ~OvertakenByCombined(i, p) /\ i.held.id = p /\ i.held.accepted /\ ph = "Idle"
  <2>1. PICK k : k = [i EXCEPT !.session = p] OBVIOUS
  <2>2. /\ k \in Interpreter /\ k.session = p /\ k.cooldown = i.cooldown
        /\ k.pendingCombined = i.pendingCombined /\ k.held = i.held
        /\ k.pendingReleased = i.pendingReleased
    BY <2>1 DEF Interpreter
  <2>3. out.next = k /\ out.intent = "Start"
    BY <1>3, <2>1 DEF AfterModifierGrace, Outcome, OvertakenByCombined
  <2>4. TakesOnly(i, k, p)
    BY <2>2 DEF TakesOnly, OvertakenByCombined, OvertakenByReleased
  <2> QED BY <1>3, <2>2, <2>3, <2>4
<1>4. CASE ~OvertakenByCombined(i, p) /\ ~(i.held.id = p /\ i.held.accepted /\ ph = "Idle")
  <2>1. out.next = i /\ out.intent = "Noop"
    BY <1>4 DEF AfterModifierGrace, Outcome, OvertakenByCombined
  <2> QED BY <1>1, <2>1
<1> QED BY <1>2, <1>3, <1>4

(* The oldest marker of a full queue makes room for that of p.              *)
Evicted(queue, p, r) == ~Contains(queue, p) /\ Len(queue) >= MaxPending /\ r = Head(queue)

LEMMA CombineGives ==
    ASSUME NEW i \in Interpreter, NEW p \in Press, NEW out, out = CombineKey(i, p)
    PROVE  /\ out.next \in Interpreter
           /\ out.intent = IF i.session = p THEN "Cancel" ELSE "Noop"
           /\ out.next.cooldown = i.cooldown /\ out.next.session = i.session
           /\ out.next.pendingReleased = i.pendingReleased
           /\ out.next.held = IF i.held.id = p THEN NotHeld ELSE i.held
           /\ OvertakenByCombined(out.next, p)
           /\ \A r \in Press \ {p} :
                 /\ OvertakenByCombined(out.next, r) => OvertakenByCombined(i, r)
                 /\ OvertakenByCombined(i, r) =>
                       OvertakenByCombined(out.next, r) \/ Evicted(i.pendingCombined, p, r)
<1>0. p # 0 /\ p \in Nat BY Numbers
<1>1. i.pendingCombined \in Markers BY DEF Interpreter
<1>2. PICK c : c = Remember(i.pendingCombined, p) OBVIOUS
<1>3. /\ c \in Markers
      /\ Contains(c, p)
      /\ \A r : Contains(c, r) => r = p \/ Contains(i.pendingCombined, r)
      /\ \A r : Contains(i.pendingCombined, r) =>
             \/ Contains(c, r)
             \/ Evicted(i.pendingCombined, p, r)
  BY <1>1, <1>2, MarkersRemember DEF Evicted
<1>4. PICK j : j = [i EXCEPT !.pendingCombined = c] OBVIOUS
<1>5. /\ j \in Interpreter /\ j.session = i.session /\ j.cooldown = i.cooldown
      /\ j.pendingCombined = c /\ j.pendingReleased = i.pendingReleased /\ j.held = i.held
  BY <1>3, <1>4 DEF Interpreter
<1>6. PICK k : k = ClearPress(j, p) OBVIOUS
<1>7. /\ k \in Interpreter
      /\ k.session = j.session /\ k.cooldown = j.cooldown
      /\ k.pendingCombined = j.pendingCombined
      /\ k.pendingReleased = j.pendingReleased
      /\ k.held = IF j.held.id = p THEN NotHeld ELSE j.held
  BY <1>5, <1>6, ClearGives
<1>8. out.next = k /\ out.intent = IF i.session = p THEN "Cancel" ELSE "Noop"
  BY <1>0, <1>2, <1>4, <1>6 DEF CombineKey, Outcome
<1>9. k.held = IF i.held.id = p THEN NotHeld ELSE i.held BY <1>5, <1>7
<1>10. /\ Contains(k.pendingCombined, p)
       /\ \A r \in Press \ {p} :
             /\ Contains(k.pendingCombined, r) => Contains(i.pendingCombined, r)
             /\ Contains(i.pendingCombined, r) =>
                   Contains(k.pendingCombined, r) \/ Evicted(i.pendingCombined, p, r)
  BY <1>3, <1>5, <1>7
<1> QED BY <1>5, <1>7, <1>8, <1>9, <1>10 DEF OvertakenByCombined

LEMMA FinishGives ==
    ASSUME NEW i \in Interpreter, NEW p \in Press, NEW started \in BOOLEAN,
           NEW j, j = StartFinished(i, p, started)
    PROVE  /\ j \in Interpreter
           /\ j.held = i.held /\ j.cooldown = i.cooldown
           /\ TakesOnly(i, j, p)
           /\ j.session = IF (~started \/ OvertakenByCombined(i, p)) /\ i.session = p
                          THEN 0 ELSE i.session
<1>1. PICK k \in Interpreter : /\ k = TakeCombined(i, p) /\ TakesOnly(i, k, p)
                               /\ k.session = i.session /\ k.cooldown = i.cooldown
                               /\ k.held = i.held
  BY TakeGives
<1>2. j = [k EXCEPT !.session = IF (~started \/ OvertakenByCombined(i, p)) /\ @ = p THEN 0 ELSE @]
  BY <1>1 DEF StartFinished, OvertakenByCombined
<1>3. PICK s \in Press \cup {0} :
        s = IF (~started \/ OvertakenByCombined(i, p)) /\ i.session = p THEN 0 ELSE i.session
  BY DEF Interpreter
<1>4. j = [k EXCEPT !.session = s] BY <1>1, <1>2, <1>3
<1>5. /\ j \in Interpreter /\ j.session = s /\ j.cooldown = k.cooldown /\ j.held = k.held
      /\ j.pendingCombined = k.pendingCombined /\ j.pendingReleased = k.pendingReleased
  BY <1>4 DEF Interpreter
<1>6. TakesOnly(i, j, p)
  BY <1>1, <1>5 DEF TakesOnly, OvertakenByCombined, OvertakenByReleased
<1> QED BY <1>1, <1>3, <1>5, <1>6

LEMMA TerminalGives ==
    ASSUME NEW i \in Interpreter, NEW t \in Nat, NEW j, j = Terminal(i, t)
    PROVE  /\ j \in Interpreter
           /\ j.held.id = 0 /\ j.session = 0
           /\ j.pendingCombined = i.pendingCombined
           /\ j.pendingReleased = i.pendingReleased
<1>1. t + Cooldown \in Nat BY Numbers
<1>2. NotHeld \in [id : Press \cup {0}, at : Nat, accepted : BOOLEAN] /\ NotHeld.id = 0
  BY DEF NotHeld
<1> QED BY <1>1, <1>2 DEF Terminal, Interpreter

LEMMA UpdateCooldown ==
    ASSUME NEW i \in Interpreter, NEW j, j = [i EXCEPT !.cooldown = 0]
    PROVE  /\ j \in Interpreter /\ j.held = i.held /\ j.session = i.session
           /\ j.cooldown = 0
           /\ j.pendingCombined = i.pendingCombined
           /\ j.pendingReleased = i.pendingReleased
<1>1. j \in Interpreter BY DEF Interpreter
<1>2. /\ j.held = i.held /\ j.session = i.session /\ j.cooldown = 0
      /\ j.pendingCombined = i.pendingCombined
      /\ j.pendingReleased = i.pendingReleased
  BY DEF Interpreter
<1> QED BY <1>1, <1>2

LEMMA ComboGives ==
    ASSUME NEW i \in Interpreter, NEW p \in Press, NEW j, j = ComboCancelled(i, p)
    PROVE  /\ j \in Interpreter
           /\ j.cooldown = 0
           /\ TakesOnly(i, j, p)
           /\ j.held = IF i.held.id = p THEN NotHeld ELSE i.held
           /\ j.session = IF i.session = p THEN 0 ELSE i.session
<1>1. PICK k \in Interpreter : /\ k = TakeCombined(i, p) /\ TakesOnly(i, k, p)
                               /\ k.session = i.session /\ k.cooldown = i.cooldown
                               /\ k.held = i.held
  BY TakeGives
<1>2. PICK l : l = ClearPress(k, p) OBVIOUS
<1>3. /\ l \in Interpreter
      /\ l.session = k.session /\ l.cooldown = k.cooldown
      /\ l.pendingCombined = k.pendingCombined
      /\ l.pendingReleased = k.pendingReleased
      /\ l.held = IF k.held.id = p THEN NotHeld ELSE k.held
  BY <1>2, ClearGives
<1>4. PICK s \in Press \cup {0} : s = IF i.session = p THEN 0 ELSE i.session
  BY DEF Interpreter
<1>5. j = [l EXCEPT !.session = s, !.cooldown = 0]
  BY <1>1, <1>2, <1>3, <1>4 DEF ComboCancelled
<1>9. PICK m : m = [l EXCEPT !.session = s] OBVIOUS
<1>10. /\ m \in Interpreter /\ m.session = s /\ m.held = l.held
       /\ m.pendingCombined = l.pendingCombined /\ m.pendingReleased = l.pendingReleased
  BY <1>3, <1>9 DEF Interpreter
<1>11. j = [m EXCEPT !.cooldown = 0] BY <1>3, <1>5, <1>9 DEF Interpreter
<1>6. /\ j \in Interpreter /\ j.session = s /\ j.cooldown = 0 /\ j.held = l.held
      /\ j.pendingCombined = l.pendingCombined /\ j.pendingReleased = l.pendingReleased
  BY <1>10, <1>11, UpdateCooldown
<1>7. TakesOnly(i, j, p)
  BY <1>1, <1>3, <1>6 DEF TakesOnly, OvertakenByCombined, OvertakenByReleased
<1> QED BY <1>1, <1>3, <1>4, <1>6, <1>7

LEMMA UpdateHeld ==
    ASSUME NEW i \in Interpreter, NEW j, j = [i EXCEPT !.held = NotHeld]
    PROVE  /\ j \in Interpreter /\ j.held = NotHeld /\ j.session = i.session
           /\ j.cooldown = i.cooldown
           /\ j.pendingCombined = i.pendingCombined
           /\ j.pendingReleased = i.pendingReleased
BY DEF Interpreter, NotHeld

LEMMA ReleaseGives ==
    ASSUME NEW i \in Interpreter, NEW p \in Press, NEW t \in Nat, NEW m \in HotkeyMode, NEW ph,
           NEW out, out = ReleaseKey(i, p, t, m, ph)
    PROVE  /\ out.next \in Interpreter
           /\ out.intent \in {"Noop", "Stop"}
           /\ out.next.cooldown = i.cooldown
           /\ out.next.held = IF i.held.id = p THEN NotHeld ELSE i.held
           /\ out.next.session = IF /\ i.held.id = p /\ i.held.accepted
                                    /\ ~OvertakenByCombined(i, p)
                                    /\ m = "Hold" /\ ~Stoppable(i, p, ph) /\ i.session = p
                                 THEN 0 ELSE i.session
           /\ \A r \in Press :
                 /\ OvertakenByCombined(out.next, r) => OvertakenByCombined(i, r)
                 /\ OvertakenByCombined(i, r) =>
                       OvertakenByCombined(out.next, r) \/ (r = p /\ i.held.id = p)
                 /\ OvertakenByReleased(out.next, r) => r = p \/ OvertakenByReleased(i, r)
                 /\ OvertakenByReleased(i, r) =>
                       OvertakenByReleased(out.next, r) \/ Evicted(i.pendingReleased, p, r)
           /\ i.held.id # p /\ m = "Hold" /\ ~Stoppable(i, p, ph) =>
                 OvertakenByReleased(out.next, p)
           /\ /\ Stoppable(i, p, ph)
              /\ i.held.id = p => i.held.accepted /\ ~OvertakenByCombined(i, p)
              /\ \/ m = "Hold"
                 \/ m = "Auto" /\ i.held.id = p /\ t - i.held.at >= AutoHold
              => out.intent = "Stop"
<1>0. p # 0 /\ p \in Nat BY Numbers
<1> DEFINE mayStop == Stoppable(i, p, ph)
           up == [i EXCEPT !.held = NotHeld]
<1>1. /\ up \in Interpreter /\ up.held = NotHeld /\ up.session = i.session
      /\ up.cooldown = i.cooldown
      /\ up.pendingCombined = i.pendingCombined
      /\ up.pendingReleased = i.pendingReleased
  BY UpdateHeld
<1> HIDE DEF up
<1>2. CASE i.held.id # p
  <2>1. out = ReleaseUnheld(i, p, m, mayStop) BY <1>2 DEF ReleaseKey
  <2>2. CASE m # "Hold"
    <3>1. out.next = i /\ out.intent = "Noop" BY <2>1, <2>2 DEF ReleaseUnheld, Outcome
    <3> HIDE DEF mayStop
    <3> QED BY <1>2, <2>2, <3>1
  <2>4. CASE m = "Hold" /\ mayStop
    <3>1. out.next = i /\ out.intent = "Stop" BY <2>1, <2>4 DEF ReleaseUnheld, Outcome
    <3> QED BY <1>2, <2>4, <3>1
  <2>3. CASE m = "Hold" /\ ~mayStop
    <3>1. i.pendingReleased \in Markers BY DEF Interpreter
    <3>2. PICK c : c = Remember(i.pendingReleased, p) OBVIOUS
    <3>3. /\ c \in Markers
          /\ Contains(c, p)
          /\ \A r : Contains(c, r) => r = p \/ Contains(i.pendingReleased, r)
          /\ \A r : Contains(i.pendingReleased, r) =>
                 Contains(c, r) \/ Evicted(i.pendingReleased, p, r)
      BY <3>1, <3>2, MarkersRemember DEF Evicted
    <3>4. PICK k : k = [i EXCEPT !.pendingReleased = c] OBVIOUS
    <3>5. /\ k \in Interpreter /\ k.session = i.session /\ k.cooldown = i.cooldown
          /\ k.pendingReleased = c /\ k.pendingCombined = i.pendingCombined
          /\ k.held = i.held
      BY <3>3, <3>4 DEF Interpreter
    <3>6. out.next = k /\ out.intent = "Noop"
      BY <1>0, <2>1, <2>3, <3>2, <3>4 DEF ReleaseUnheld, Outcome
    <3> QED BY <1>2, <2>3, <3>3, <3>5, <3>6 DEF OvertakenByCombined, OvertakenByReleased
  <2> QED BY <2>2, <2>3, <2>4
<1>3. CASE i.held.id = p
  <2>1. CASE ~i.held.accepted
    <3>1. out.next = up /\ out.intent = "Noop" BY <1>3, <2>1 DEF ReleaseKey, Outcome, up
    <3> QED BY <1>1, <1>3, <2>1, <3>1 DEF OvertakenByCombined, OvertakenByReleased
  <2>2. CASE i.held.accepted /\ OvertakenByCombined(i, p)
    <3>1. PICK k \in Interpreter : /\ k = TakeCombined(up, p)
                                   /\ TakesOnly(up, k, p)
                                   /\ k.session = up.session /\ k.cooldown = up.cooldown
                                   /\ k.held = up.held
      BY <1>1, TakeGives
    <3>2. out.next = k /\ out.intent = "Noop"
      BY <1>3, <2>2, <3>1 DEF ReleaseKey, Outcome, up, OvertakenByCombined
    <3>3. k.pendingReleased = up.pendingReleased
      <4>1. PICK c : c = Without(up.pendingCombined, p) OBVIOUS
      <4>2. k = [up EXCEPT !.pendingCombined = c] BY <3>1, <4>1 DEF TakeCombined
      <4> QED BY <1>1, <4>2 DEF Interpreter
    <3> QED BY <1>1, <1>3, <2>2, <3>1, <3>2, <3>3
          DEF OvertakenByCombined, OvertakenByReleased, TakesOnly
  <2>3. CASE /\ i.held.accepted /\ ~OvertakenByCombined(i, p)
             /\ m = "Hold" /\ ~mayStop /\ i.session = p
    <3>1. PICK k : k = [up EXCEPT !.session = 0] OBVIOUS
    <3>2. out.next = k /\ out.intent = "Noop"
      BY <1>3, <2>3, <3>1 DEF ReleaseKey, Outcome, up, OvertakenByCombined
    <3>3. /\ k \in Interpreter /\ k.session = 0 /\ k.cooldown = i.cooldown
          /\ k.pendingReleased = i.pendingReleased /\ k.pendingCombined = i.pendingCombined
          /\ k.held = NotHeld
      BY <1>1, <3>1 DEF Interpreter
    <3> QED BY <1>3, <2>3, <3>2, <3>3 DEF OvertakenByCombined, OvertakenByReleased
  <2>4. CASE /\ i.held.accepted /\ ~OvertakenByCombined(i, p)
             /\ ~(m = "Hold" /\ ~mayStop /\ i.session = p)
    <3>1. /\ out.next = up
          /\ out.intent = IF mayStop /\ HeldLongEnough(i, t, m) THEN "Stop" ELSE "Noop"
      BY <1>3, <2>4 DEF ReleaseKey, Outcome, up, OvertakenByCombined
    <3> QED BY <1>1, <1>3, <2>4, <3>1
          DEF OvertakenByCombined, OvertakenByReleased, HeldLongEnough
  <2> QED BY <2>1, <2>2, <2>3, <2>4
<1> QED BY <1>2, <1>3

----------------------------------------------------------------------------
(* The steps of an edge.                                                    *)
PressedMove(a, b) ==
    /\ b \in {"sent", "arm", "grace", "reserve", "starting", "failed", "started", "abort",
              "cleanup", "stop", "waiting", "finishing", "done"}
    /\ b = "sent"      => a = "idle"
    /\ b = "arm"       => a = "sent"
    /\ b = "grace"     => a = "arm" /\ modifier
    /\ b = "reserve"   => a = "arm" /\ ~modifier
    /\ b = "starting"  => a \in {"reserve", "grace"}
    /\ b = "failed"    => a \in {"reserve", "grace", "starting"}
    /\ b = "started"   => a = "starting"
    /\ b = "abort"     => a = "started"
    /\ b = "cleanup"   => a \in {"reserve", "failed", "abort"}
    /\ b = "stop"      => a = "sent"
    /\ b = "waiting"   => a = "stop"
    /\ b = "finishing" => a \in {"stop", "waiting"}
    /\ b = "done"      => a \notin {"idle", "arm", "starting"}

ReleasedMove(a, b) ==
    /\ b \in {"sent", "lost", "stop", "waiting", "finishing", "done"}
    /\ b \in {"sent", "lost"} => a = "idle"
    /\ b = "stop"      => a = "sent"
    /\ b = "waiting"   => a = "stop"
    /\ b = "finishing" => a \in {"stop", "waiting"}
    /\ b = "done"      => a \notin {"idle", "lost"}

CombinedMove(a, b) ==
    /\ b \in {"sent", "cancel", "discard", "cancelling", "cleanup", "done"}
    /\ b = "sent"                  => a = "idle"
    /\ b \in {"cancel", "discard"} => a = "sent"
    /\ b = "cancelling"            => a = "cancel"
    /\ b = "cleanup"               => a = "cancelling"
    /\ b = "done"                  => a \notin {"idle", "sent"}

Move(k, a, b) ==
    CASE k = "Pressed"  -> PressedMove(a, b)
      [] k = "Released" -> ReleasedMove(a, b)
      [] k = "Combined" -> CombinedMove(a, b)

(* Who moves an edge.                                                       *)
Moved(k, p) ==
    \/ k = "Pressed"  /\ KeyDown(p)
    \/ k = "Pressed"  /\ PressedStep(p)
    \/ k = "Pressed"  /\ \E s \in DOMAIN opener : opener[s] = p /\ StartReturns(s)
    \/ k = "Released" /\ \E lost \in BOOLEAN : KeyUp(p, lost)
    \/ k = "Released" /\ ReleasedStep(p)
    \/ k = "Combined" /\ Companion(p)
    \/ k = "Combined" /\ CombinedStep(p)

Moves ==
    /\ pc' \in [EdgeKind \X Press -> PcState]
    /\ \A k \in EdgeKind, p \in Press :
          \/ pc'[k, p] = pc[k, p]
          \/ Move(k, pc[k, p], pc'[k, p]) /\ Moved(k, p)

DispatchTypes ==
    /\ mode \in HotkeyMode /\ modifier \in BOOLEAN
    /\ now \in Nat
    /\ at \in [{"Pressed", "Released"} \X Press -> Nat]
    /\ pc \in [EdgeKind \X Press -> PcState]
    /\ target \in [EdgeKind \X Press -> Nat]
    /\ hotkey \in Interpreter
    /\ captures \subseteq Press
    /\ phase \in {"Idle", "Starting", "Recording", "Finalizing"}
    /\ opener \in Seq(Press \cup {0})
    /\ sid \in DOMAIN opener \cup {0}
    /\ phase = "Idle" <=> sid = 0
    /\ inStart \subseteq DOMAIN opener

(* The session a press starts is its only one.                              *)
StartsInv ==
    /\ \A s, t \in DOMAIN opener : opener[s] = opener[t] /\ opener[s] # 0 => s = t
    /\ \A s \in inStart : opener[s] # 0 => pc["Pressed", opener[s]] = "starting"
    /\ \A p \in Press : pc["Pressed", p] \in {"idle", "sent", "arm", "reserve", "grace"} =>
          \A s \in DOMAIN opener : opener[s] # p

LEMMA Goes ==
    ASSUME DispatchTypes, NEW k \in EdgeKind, NEW p \in Press, NEW label \in PcState,
           Goto(k, p, label)
    PROVE  /\ pc' \in [EdgeKind \X Press -> PcState]
           /\ pc'[k, p] = label
           /\ \A j \in EdgeKind, q \in Press : ~(j = k /\ q = p) => pc'[j, q] = pc[j, q]
BY DEF DispatchTypes, Goto

LEMMA Kinds == {"Pressed", "Released", "Combined"} = EdgeKind BY DEF EdgeKind

LEMMA Labels ==
    {"idle", "sent", "lost", "done", "arm", "reserve", "grace", "starting", "started",
     "failed", "abort", "stop", "waiting", "finishing", "discard", "cancel", "cancelling",
     "cleanup"} = PcState
BY DEF PcState

LEMMA Openers ==
    ASSUME DispatchTypes
    PROVE  /\ DOMAIN opener = 1..Len(opener) /\ Len(opener) \in Nat
           /\ \A s \in DOMAIN opener : s \in Nat \ {0} /\ opener[s] \in Press \cup {0}
BY DEF DispatchTypes

LEMMA OneMove ==
    ASSUME DispatchTypes, NEW k \in EdgeKind, NEW p \in Press, NEW label \in PcState,
           Goto(k, p, label), Move(k, pc[k, p], label), Moved(k, p)
    PROVE  Moves
<1>1. /\ pc' \in [EdgeKind \X Press -> PcState]
      /\ pc'[k, p] = label
      /\ \A j \in EdgeKind, q \in Press : ~(j = k /\ q = p) => pc'[j, q] = pc[j, q]
  BY Goes
<1> SUFFICES ASSUME NEW j \in EdgeKind, NEW q \in Press, pc'[j, q] # pc[j, q]
             PROVE  Move(j, pc[j, q], pc'[j, q]) /\ Moved(j, q)
  BY <1>1 DEF Moves
<1>2. j = k /\ q = p /\ pc'[j, q] = label BY <1>1
<1> QED BY <1>2

(* A new edge goes one of these ways, whatever the step.                    *)
LEMMA MovesStep ==
    ASSUME DispatchTypes, StartsInv, DispatchNext
    PROVE  Moves
<1> USE Kinds, Labels
<1>0. ASSUME UNCHANGED pc PROVE Moves BY <1>0 DEF Moves, DispatchTypes
<1>1. CASE Keyboard
  <2>1. CASE Tick BY <1>0, <2>1 DEF Tick, tasks
  <2>2. ASSUME NEW p \in Press, KeyDown(p) PROVE Moves
    <3>1. Goto("Pressed", p, "sent") /\ pc["Pressed", p] = "idle" BY <2>2 DEF KeyDown
    <3> QED BY <2>2, <3>1, OneMove DEF Move, PressedMove, Moved
  <2>3. ASSUME NEW p \in Press, Companion(p) PROVE Moves
    <3>1. /\ Goto("Combined", p, "sent") /\ pc["Combined", p] = "idle"
          /\ pc["Pressed", p] # "idle"
      BY <2>3 DEF Companion, IsDown
    <3> QED BY <2>3, <3>1, OneMove DEF Move, CombinedMove, Moved
  <2>4. ASSUME NEW p \in Press, NEW lost \in BOOLEAN, KeyUp(p, lost) PROVE Moves
    <3>1. PICK l \in {"lost", "sent"} : Goto("Released", p, l) BY <2>4 DEF KeyUp
    <3>2. pc["Released", p] = "idle" /\ pc["Pressed", p] # "idle" BY <2>4 DEF KeyUp, IsDown
    <3> QED BY <2>4, <3>1, <3>2, OneMove DEF Move, ReleasedMove, Moved
  <2> QED BY <1>1, <2>1, <2>2, <2>3, <2>4 DEF Keyboard
<1>2. CASE SessionStep
  <2>1. CASE EngineReady \/ Fail \/ Reset \/ UiStart \/ UiStop \/ UiCancel
    BY <1>0, <2>1 DEF EngineReady, Fail, Reset, UiStart, UiStop, UiCancel, tasks
  <2>2. ASSUME NEW s \in DOMAIN opener, CleanupDone(s) PROVE Moves
    BY <1>0, <2>2 DEF CleanupDone, tasks
  <2>3. ASSUME NEW s \in DOMAIN opener, StartReturns(s) PROVE Moves
    <3>1. CASE opener[s] = 0 BY <1>0, <2>3, <3>1 DEF StartReturns
    <3>2. CASE opener[s] # 0
      <4>1. opener[s] \in Press BY <3>2, Openers
      <4>2. pc["Pressed", opener[s]] = "starting" BY <2>3, <3>2 DEF StartReturns, StartsInv
      <4>3. PICK l \in {"started", "failed"} : Goto("Pressed", opener[s], l)
        BY <2>3, <3>2 DEF StartReturns
      <4>4. Moved("Pressed", opener[s]) BY <2>3 DEF Moved
      <4> QED BY <4>1, <4>2, <4>3, <4>4, OneMove DEF Move, PressedMove
    <3> QED BY <3>1, <3>2
  <2> QED BY <1>2, <2>1, <2>2, <2>3 DEF SessionStep
<1>3. ASSUME NEW p \in Press, NEW k \in EdgeKind, Stop(k, p) \/ FinishStop(k, p), k # "Combined",
             Moved(k, p)
      PROVE  Moves
  <2>1. /\ pc[k, p] \in {"stop", "waiting", "finishing"}
        /\ \/ Goto(k, p, "done")
           \/ Goto(k, p, "waiting") /\ pc[k, p] = "stop"
           \/ Goto(k, p, "finishing") /\ pc[k, p] # "finishing"
    BY <1>3 DEF Stop, FinishStop, Return
  <2>2. CASE k = "Pressed"
    <3>1. PICK l \in PcState : Goto(k, p, l) /\ PressedMove(pc[k, p], l)
      BY <2>1 DEF PressedMove
    <3> QED BY <1>3, <2>2, <3>1, OneMove DEF Move
  <2>3. CASE k = "Released" BY <1>3, <2>1, <2>3, OneMove DEF Move, ReleasedMove
  <2> QED BY <1>3, <2>2, <2>3
<1>4. ASSUME NEW p \in Press, NEW k \in {"Pressed", "Combined"}, NEW failed \in BOOLEAN,
             FinishCombo(k, p, failed), Moved(k, p)
      PROVE  Moves
  <2>1. pc[k, p] = "cleanup" /\ Goto(k, p, "done") BY <1>4 DEF FinishCombo, Return
  <2> QED BY <1>4, <2>1, OneMove DEF Move, PressedMove, CombinedMove
<1>5. ASSUME NEW p \in Press, PressedStep(p) PROVE Moves
  <2>0. Moved("Pressed", p) BY <1>5 DEF Moved
  <2>1. CASE BeginPressed(p)
    <3>1. pc["Pressed", p] = "sent" BY <2>1 DEF BeginPressed, MayBegin
    <3>2. PICK out : out = PressKey(hotkey, p, at["Pressed", p], mode, phase, modifier) OBVIOUS
    <3>3. out.intent \in {"Noop", "WaitForModifierGrace", "Start", "Stop"}
      BY <3>2 DEF PressKey, Outcome, PressIntent
    <3>4. Goto("Pressed", p, "arm") \/ Goto("Pressed", p, "stop") \/ Goto("Pressed", p, "done")
      BY <2>1, <3>2, <3>3 DEF BeginPressed
    <3> QED BY <3>1, <3>4, <2>0, OneMove DEF Move, PressedMove
  <2>2. CASE Arm(p)
    <3>1. pc["Pressed", p] = "arm" /\ Goto("Pressed", p, IF modifier THEN "grace" ELSE "reserve")
      BY <2>2 DEF Arm
    <3>2. PICK l \in PcState : Goto("Pressed", p, l) /\ PressedMove(pc["Pressed", p], l)
      BY <3>1 DEF PressedMove
    <3> QED BY <3>2, <2>0, OneMove DEF Move
  <2>3. CASE Reserve(p) \/ GraceExpires(p)
    <3>1. /\ pc["Pressed", p] \in {"reserve", "grace"}
          /\ \/ Goto("Pressed", p, "starting") \/ Goto("Pressed", p, "failed")
             \/ Goto("Pressed", p, "done")
             \/ Goto("Pressed", p, "cleanup") /\ pc["Pressed", p] = "reserve"
      BY <2>3 DEF Reserve, GraceExpires, ReserveFor
    <3>2. PICK l \in PcState : Goto("Pressed", p, l) /\ PressedMove(pc["Pressed", p], l)
      BY <3>1 DEF PressedMove
    <3> QED BY <3>2, <2>0, OneMove DEF Move
  <2>4. CASE FinishStart(p)
    <3>1. /\ pc["Pressed", p] \in {"started", "failed"}
          /\ \/ Goto("Pressed", p, "done")
             \/ Goto("Pressed", p, "abort") /\ pc["Pressed", p] = "started"
             \/ Goto("Pressed", p, "cleanup") /\ pc["Pressed", p] = "failed"
      BY <2>4 DEF FinishStart
    <3>2. PICK l \in PcState : Goto("Pressed", p, l) /\ PressedMove(pc["Pressed", p], l)
      BY <3>1 DEF PressedMove
    <3> QED BY <3>2, <2>0, OneMove DEF Move
  <2>5. CASE AbortStart(p)
    <3>1. /\ pc["Pressed", p] = "abort"
          /\ Goto("Pressed", p, "done") \/ Goto("Pressed", p, "cleanup")
      BY <2>5 DEF AbortStart
    <3>2. PICK l \in PcState : Goto("Pressed", p, l) /\ PressedMove(pc["Pressed", p], l)
      BY <3>1 DEF PressedMove
    <3> QED BY <3>2, <2>0, OneMove DEF Move
  <2> QED BY <2>0, <1>3, <1>4, <1>5, <2>1, <2>2, <2>3, <2>4, <2>5 DEF PressedStep
<1>6. ASSUME NEW p \in Press, ReleasedStep(p) PROVE Moves
  <2>0. Moved("Released", p) BY <1>6 DEF Moved
  <2>1. CASE BeginReleased(p)
    <3>1. /\ pc["Released", p] = "sent"
          /\ Goto("Released", p, "stop") \/ Goto("Released", p, "done")
      BY <2>1 DEF BeginReleased, MayBegin
    <3> QED BY <3>1, <2>0, OneMove DEF Move, ReleasedMove
  <2> QED BY <2>0, <1>3, <1>6, <2>1 DEF ReleasedStep
<1>7. ASSUME NEW p \in Press, CombinedStep(p) PROVE Moves
  <2>0. Moved("Combined", p) BY <1>7 DEF Moved
  <2>1. CASE BeginCombined(p)
    <3>1. /\ pc["Combined", p] = "sent"
          /\ Goto("Combined", p, "cancel") \/ Goto("Combined", p, "discard")
      BY <2>1 DEF BeginCombined, MayBegin
    <3> QED BY <3>1, <2>0, OneMove DEF Move, CombinedMove
  <2>2. CASE SnapshotCombined(p)
    <3>1. \/ pc["Combined", p] = "cancel" /\ Goto("Combined", p, "cancelling")
          \/ pc["Combined", p] \in {"cancel", "discard"} /\ Goto("Combined", p, "done")
      BY <2>2 DEF SnapshotCombined
    <3> QED BY <3>1, <2>0, OneMove DEF Move, CombinedMove
  <2>3. CASE CancelCombined(p)
    <3>1. /\ pc["Combined", p] = "cancelling"
          /\ Goto("Combined", p, "cleanup") \/ Goto("Combined", p, "done")
      BY <2>3 DEF CancelCombined, Return
    <3> QED BY <3>1, <2>0, OneMove DEF Move, CombinedMove
  <2> QED BY <2>0, <1>4, <1>7, <2>1, <2>2, <2>3 DEF CombinedStep
<1> QED BY <1>1, <1>2, <1>5, <1>6, <1>7 DEF DispatchNext

----------------------------------------------------------------------------
(* What a step does to the sessions: one begins, or none.                   *)
Alive == phase \in {"Starting", "Recording"}

Begins(q) ==
    /\ opener' = Append(opener, q) /\ inStart' = inStart \cup {sid'}
    /\ sid = 0 /\ sid' = Len(opener) + 1
    /\ phase' = "Starting"

NoneBegins ==
    /\ opener' = opener /\ inStart' \subseteq inStart
    /\ sid' \in {sid, 0}
    /\ phase' \in {"Idle", "Starting", "Recording", "Finalizing"}
    /\ phase' = "Idle" <=> sid' = 0
    /\ phase' \in {"Starting", "Recording"} => Alive

Sessions ==
    \/ NoneBegins
    \/ Begins(0) /\ UNCHANGED <<pc, target, hotkey>>
    \/ \E q \in Press : Begins(q) /\ (Reserve(q) \/ GraceExpires(q)) /\ pc'["Pressed", q] = "starting"

LEMMA SessionsStep ==
    ASSUME DispatchTypes, DispatchNext
    PROVE  Sessions
<1> USE Kinds, Labels
<1>0. ASSUME UNCHANGED core PROVE NoneBegins BY <1>0 DEF NoneBegins, core, DispatchTypes, Alive
<1>c. ASSUME sid # 0, CancelLogically PROVE NoneBegins
  BY <1>c DEF NoneBegins, CancelLogically, DispatchTypes
<1>1. CASE Keyboard BY <1>0, <1>1 DEF Keyboard, Tick, KeyDown, Companion, KeyUp, Sessions
<1>2. CASE SessionStep
  <2>1. CASE EngineReady \/ Fail \/ Reset \/ UiStop
    BY <2>1 DEF EngineReady, Fail, Reset, UiStop, NoneBegins, DispatchTypes, Alive, Sessions
  <2>2. CASE UiCancel BY <1>c, <2>2 DEF UiCancel, Sessions
  <2>3. CASE UiStart
    BY <2>3 DEF UiStart, CanReserve, NewSession, Begins, tasks, Sessions
  <2>4. ASSUME NEW s \in DOMAIN opener, StartReturns(s) \/ CleanupDone(s) PROVE NoneBegins
    BY <2>4 DEF StartReturns, CleanupDone, NoneBegins, DispatchTypes, Alive
  <2> QED BY <1>2, <2>1, <2>2, <2>3, <2>4 DEF SessionStep, Sessions
<1>3. ASSUME NEW p \in Press, NEW k \in EdgeKind, Stop(k, p) \/ FinishStop(k, p) PROVE NoneBegins
  BY <1>0, <1>3 DEF Stop, FinishStop, NoneBegins, DispatchTypes, Alive
<1>4. ASSUME NEW p \in Press, PressedStep(p) PROVE Sessions
  <2>1. CASE BeginPressed(p) \/ Arm(p) \/ FinishStart(p)
    BY <1>0, <2>1 DEF BeginPressed, Arm, FinishStart, Sessions
  <2>2. ASSUME NEW failed \in BOOLEAN, FinishCombo("Pressed", p, failed) PROVE Sessions
    BY <1>0, <2>2 DEF FinishCombo, Sessions
  <2>3. CASE AbortStart(p) BY <1>0, <1>c, <2>3 DEF AbortStart, Sessions
  <2>4. CASE Reserve(p) \/ GraceExpires(p)
    <3>1. \/ UNCHANGED core
          \/ NewSession(p) /\ CanReserve /\ Goto("Pressed", p, "starting")
      BY <2>4 DEF Reserve, GraceExpires, ReserveFor
    <3>2. ASSUME NewSession(p), CanReserve, Goto("Pressed", p, "starting") PROVE Sessions
      <4>1. Begins(p) BY <3>2 DEF NewSession, CanReserve, Begins
      <4>2. pc'["Pressed", p] = "starting" BY <3>2, Goes
      <4> QED BY <2>4, <4>1, <4>2 DEF Sessions
    <3> QED BY <1>0, <3>1, <3>2 DEF Sessions
  <2> QED BY <1>3, <1>4, <2>1, <2>2, <2>3, <2>4 DEF PressedStep, Sessions
<1>5. ASSUME NEW p \in Press, ReleasedStep(p) PROVE Sessions
  BY <1>0, <1>3, <1>5 DEF ReleasedStep, BeginReleased, Sessions
<1>6. ASSUME NEW p \in Press, CombinedStep(p) PROVE Sessions
  <2>1. CASE BeginCombined(p) \/ SnapshotCombined(p)
    BY <1>0, <2>1 DEF BeginCombined, SnapshotCombined, Sessions
  <2>2. CASE CancelCombined(p)
    <3>2. CASE CancelLogically /\ sid = 0
      BY <3>2 DEF CancelLogically, NoneBegins, DispatchTypes, Sessions
    <3> QED BY <1>0, <1>c, <2>2, <3>2 DEF CancelCombined, Sessions
  <2>3. ASSUME NEW failed \in BOOLEAN, FinishCombo("Combined", p, failed) PROVE Sessions
    BY <1>0, <2>3 DEF FinishCombo, Sessions
  <2> QED BY <1>6, <2>1, <2>2, <2>3 DEF CombinedStep
<1> QED BY <1>1, <1>2, <1>4, <1>5, <1>6 DEF DispatchNext

(* The settings stay, time goes on, an edge keeps its timestamp.            *)
Constant ==
    /\ UNCHANGED settings
    /\ now' \in Nat
    /\ at' \in [{"Pressed", "Released"} \X Press -> Nat]
    /\ \A p \in Press :
          /\ pc["Pressed", p] # "idle" => at'["Pressed", p] = at["Pressed", p]
          /\ pc["Released", p] # "idle" => at'["Released", p] = at["Released", p]

LEMMA ConstantStep ==
    ASSUME DispatchTypes, DispatchNext
    PROVE  Constant
<1>0. ASSUME UNCHANGED <<settings, edges>> PROVE Constant
  BY <1>0 DEF Constant, edges, DispatchTypes
<1>1. CASE Keyboard
  <2>1. CASE Tick BY <2>1 DEF Tick, Constant, DispatchTypes
  <2>2. ASSUME NEW p \in Press, Companion(p) PROVE Constant BY <1>0, <2>2 DEF Companion
  <2>3. ASSUME NEW p \in Press, KeyDown(p) PROVE Constant
    <3>1. /\ pc["Pressed", p] = "idle" /\ at' = [at EXCEPT ![<<"Pressed", p>>] = now]
          /\ UNCHANGED settings /\ now' = now
      BY <2>3 DEF KeyDown
    <3> QED BY <3>1 DEF Constant, DispatchTypes
  <2>4. ASSUME NEW p \in Press, NEW lost \in BOOLEAN, KeyUp(p, lost) PROVE Constant
    <3>1. PICK t \in Nat : at' = [at EXCEPT ![<<"Released", p>>] = t]
      BY <2>4 DEF KeyUp, DispatchTypes
    <3>2. pc["Released", p] = "idle" /\ UNCHANGED settings /\ now' = now
      BY <2>4 DEF KeyUp, IsDown
    <3> QED BY <3>1, <3>2 DEF Constant, DispatchTypes
  <2> QED BY <1>1, <2>1, <2>2, <2>3, <2>4 DEF Keyboard
<1>2. CASE SessionStep
  BY <1>0, <1>2 DEF SessionStep, EngineReady, Fail, Reset, StartReturns, CleanupDone, UiStart,
                    UiStop, UiCancel
<1>3. ASSUME NEW p \in Press, PressedStep(p) \/ ReleasedStep(p) \/ CombinedStep(p)
      PROVE  UNCHANGED <<settings, edges>>
  BY <1>3 DEF PressedStep, ReleasedStep, CombinedStep, BeginPressed, Arm, Reserve, GraceExpires,
              FinishStart, AbortStart, Stop, FinishStop, FinishCombo, BeginReleased,
              BeginCombined, SnapshotCombined, CancelCombined
<1> QED BY <1>0, <1>1, <1>2, <1>3 DEF DispatchNext

----------------------------------------------------------------------------
(* Only these steps touch the interpreter.                                  *)
HotkeyChanges ==
    \/ UNCHANGED hotkey
    \/ Reset
    \/ \E p \in Press :
          \/ BeginPressed(p) \/ GraceExpires(p) \/ FinishStart(p)
          \/ BeginReleased(p) \/ BeginCombined(p)
          \/ \E k \in {"Pressed", "Combined"}, failed \in BOOLEAN : FinishCombo(k, p, failed)

LEMMA HotkeyChangesStep == ASSUME DispatchNext PROVE HotkeyChanges
<1>1. CASE Keyboard
  BY <1>1 DEF Keyboard, Tick, KeyDown, KeyUp, Companion, HotkeyChanges
<1>2. CASE SessionStep
  BY <1>2 DEF SessionStep, EngineReady, Fail, StartReturns, CleanupDone, UiStart,
              UiStop, UiCancel, HotkeyChanges
<1>3. ASSUME NEW p \in Press, PressedStep(p) \/ ReleasedStep(p) \/ CombinedStep(p)
      PROVE  HotkeyChanges
  <2>1. CASE \/ BeginPressed(p) \/ GraceExpires(p) \/ FinishStart(p)
             \/ BeginReleased(p) \/ BeginCombined(p)
    BY <2>1 DEF HotkeyChanges
  <2>2. ASSUME NEW k \in {"Pressed", "Combined"}, NEW failed \in BOOLEAN,
               FinishCombo(k, p, failed)
        PROVE  HotkeyChanges
    BY <2>2 DEF HotkeyChanges
  <2>3. CASE \/ Arm(p) \/ Reserve(p) \/ AbortStart(p)
             \/ SnapshotCombined(p) \/ CancelCombined(p)
    BY <2>3 DEF Arm, Reserve, AbortStart, SnapshotCombined, CancelCombined, HotkeyChanges
  <2>4. ASSUME NEW k \in EdgeKind, Stop(k, p) \/ FinishStop(k, p) PROVE HotkeyChanges
    BY <2>4 DEF Stop, FinishStop, HotkeyChanges
  <2> QED BY <1>3, <2>1, <2>2, <2>3, <2>4, Kinds DEF PressedStep, ReleasedStep, CombinedStep
<1> QED BY <1>1, <1>2, <1>3 DEF DispatchNext

LEMMA InterpreterStep ==
    ASSUME DispatchTypes, DispatchNext
    PROVE  hotkey' \in Interpreter
<1>0. hotkey \in Interpreter /\ now \in Nat /\ modifier \in BOOLEAN /\ mode \in HotkeyMode
  BY DEF DispatchTypes
<1>1. CASE UNCHANGED hotkey BY <1>0, <1>1
<1>2. CASE Reset BY <1>0, <1>2, TerminalGives DEF Reset
<1>3. ASSUME NEW p \in Press,
             \/ BeginPressed(p) \/ GraceExpires(p) \/ FinishStart(p)
             \/ BeginReleased(p) \/ BeginCombined(p)
             \/ \E k \in {"Pressed", "Combined"}, failed \in BOOLEAN : FinishCombo(k, p, failed)
      PROVE  hotkey' \in Interpreter
  <2>1. CASE BeginPressed(p)
    <3>2. PICK t \in Nat : t = at["Pressed", p] BY DEF DispatchTypes
    <3>1. PICK out : /\ out = PressKey(hotkey, p, t, mode, phase, modifier)
                     /\ hotkey' = out.next
      BY <2>1, <3>2 DEF BeginPressed
    <3>3. CASE hotkey.held.id # p BY <1>0, <3>1, <3>3, PressGives
    <3>4. CASE hotkey.held.id = p BY <1>0, <3>1, <3>4 DEF PressKey, Outcome
    <3> QED BY <3>3, <3>4
  <2>3. CASE GraceExpires(p)
    <3>1. PICK out : out = AfterModifierGrace(hotkey, p, phase) /\ hotkey' = out.next
      BY <2>3 DEF GraceExpires
    <3> QED BY <1>0, <3>1, GraceGives
  <2>4. CASE FinishStart(p)
    <3>1. hotkey' = StartFinished(hotkey, p, pc["Pressed", p] = "started")
      BY <2>4 DEF FinishStart
    <3>2. (pc["Pressed", p] = "started") \in BOOLEAN OBVIOUS
    <3> QED BY <1>0, <3>1, <3>2, FinishGives
  <2>5. CASE BeginReleased(p)
    <3>2. PICK t \in Nat : t = at["Released", p] BY DEF DispatchTypes
    <3>1. PICK out : out = ReleaseKey(hotkey, p, t, mode, phase) /\ hotkey' = out.next
      BY <2>5, <3>2 DEF BeginReleased
    <3> QED BY <1>0, <3>1, ReleaseGives
  <2>6. CASE BeginCombined(p)
    <3>1. PICK out : out = CombineKey(hotkey, p) /\ hotkey' = out.next
      BY <2>6 DEF BeginCombined
    <3> QED BY <1>0, <3>1, CombineGives
  <2>7. ASSUME NEW k \in {"Pressed", "Combined"}, NEW failed \in BOOLEAN,
               FinishCombo(k, p, failed)
        PROVE  hotkey' \in Interpreter
    BY <1>0, <2>7, ComboGives DEF FinishCombo
  <2> QED BY <1>3, <2>1, <2>3, <2>4, <2>5, <2>6, <2>7
<1> QED BY <1>1, <1>2, <1>3, HotkeyChangesStep DEF HotkeyChanges

(* A task binds itself to the session that is active, and forgets it when   *)
(* it returns.                                                              *)
Targets ==
    /\ target' \in [EdgeKind \X Press -> Nat]
    /\ \A k \in EdgeKind, p \in Press :
          \/ target'[k, p] = target[k, p]
          \/ target'[k, p] = 0 /\ pc'[k, p] = "done"
          \/ target'[k, p] = sid /\ pc'[k, p] \in {"waiting", "finishing", "cancelling", "cleanup"}
    /\ captures' \subseteq Press

LEMMA Retargets ==
    ASSUME DispatchTypes, NEW k \in EdgeKind, NEW p \in Press, NEW s \in Nat,
           target' = [target EXCEPT ![<<k, p>>] = s]
    PROVE  /\ target' \in [EdgeKind \X Press -> Nat]
           /\ target'[k, p] = s
           /\ \A j \in EdgeKind, q \in Press : ~(j = k /\ q = p) => target'[j, q] = target[j, q]
BY DEF DispatchTypes

LEMMA TargetsStep ==
    ASSUME DispatchTypes, DispatchNext
    PROVE  Targets
<1> USE Kinds, Labels
<1>0. ASSUME UNCHANGED target, captures' \subseteq Press PROVE Targets
  BY <1>0 DEF Targets, DispatchTypes
<1>a. captures \subseteq Press /\ sid \in Nat
  BY Openers DEF DispatchTypes
<1>r. ASSUME NEW k \in EdgeKind, NEW p \in Press, Return(k, p), UNCHANGED captures PROVE Targets
  <2>1. target' = [target EXCEPT ![<<k, p>>] = 0] /\ Goto(k, p, "done") BY <1>r DEF Return
  <2>2. pc'[k, p] = "done" BY <2>1, Goes
  <2> QED BY <1>a, <1>r, <2>1, <2>2, Retargets DEF Targets
<1>b. ASSUME NEW k \in EdgeKind, NEW p \in Press, target' = [target EXCEPT ![<<k, p>>] = sid],
             NEW l \in {"waiting", "finishing", "cancelling", "cleanup"}, Goto(k, p, l),
             captures' \subseteq Press
      PROVE  Targets
  <2>0. l \in PcState BY DEF PcState
  <2>1. pc'[k, p] = l BY <1>b, <2>0 DEF Goto, DispatchTypes
  <2> QED BY <1>a, <1>b, <2>1, Retargets DEF Targets
<1>1. CASE Keyboard
  BY <1>0, <1>1, <1>a DEF Keyboard, Tick, KeyDown, KeyUp, Companion, tasks
<1>2. CASE SessionStep
  BY <1>0, <1>2, <1>a DEF SessionStep, EngineReady, Fail, Reset, StartReturns, CleanupDone, UiStart,
              UiStop, UiCancel, tasks
<1>3. ASSUME NEW p \in Press, NEW k \in EdgeKind, Stop(k, p) \/ FinishStop(k, p) PROVE Targets
  BY <1>3, <1>a, <1>r, <1>b DEF Stop, FinishStop
<1>4. ASSUME NEW p \in Press, NEW k \in EdgeKind, NEW failed \in BOOLEAN, FinishCombo(k, p, failed)
      PROVE  Targets
  BY <1>4, <1>r DEF FinishCombo
<1>5. ASSUME NEW p \in Press, PressedStep(p) PROVE Targets
  <2>1. CASE BeginPressed(p) \/ FinishStart(p)
    BY <1>0, <1>a, <2>1 DEF BeginPressed, FinishStart
  <2>2. CASE Reserve(p) \/ GraceExpires(p)
    BY <1>0, <1>a, <2>2 DEF Reserve, GraceExpires, Discard
  <2>3. CASE Arm(p) BY <1>0, <1>a, <2>3 DEF Arm
  <2>4. CASE AbortStart(p) BY <1>0, <1>a, <1>b, <2>4 DEF AbortStart
  <2> QED BY <1>3, <1>4, <1>5, <2>1, <2>2, <2>3, <2>4 DEF PressedStep
<1>6. ASSUME NEW p \in Press, ReleasedStep(p) PROVE Targets
  BY <1>0, <1>3, <1>6, <1>a DEF ReleasedStep, BeginReleased
<1>7. ASSUME NEW p \in Press, CombinedStep(p) PROVE Targets
  <2>1. CASE BeginCombined(p) BY <1>0, <1>a, <2>1 DEF BeginCombined
  <2>2. CASE SnapshotCombined(p)
    <3>1. captures' \subseteq Press BY <1>a, <2>2 DEF SnapshotCombined, Discard
    <3> QED BY <1>0, <1>b, <2>2, <3>1 DEF SnapshotCombined
  <2>3. CASE CancelCombined(p) BY <1>0, <1>a, <1>r, <2>3 DEF CancelCombined
  <2> QED BY <1>4, <1>7, <2>1, <2>2, <2>3 DEF CombinedStep
<1> QED BY <1>1, <1>2, <1>5, <1>6, <1>7 DEF DispatchNext

----------------------------------------------------------------------------
(* The tasks of the edges: where they can be, and who runs next to whom.    *)
EdgeIs(p) ==
    /\ pc["Pressed", p] \in {"idle", "sent", "done", "arm", "reserve", "grace", "starting",
                             "started", "failed", "abort", "stop", "waiting", "finishing",
                             "cleanup"}
    /\ pc["Released", p] \in {"idle", "sent", "lost", "done", "stop", "waiting", "finishing"}
    /\ pc["Combined", p] \in {"idle", "sent", "done", "discard", "cancel", "cancelling", "cleanup"}
    /\ pc["Pressed", p] = "idle" => pc["Released", p] = "idle" /\ pc["Combined", p] = "idle"
    /\ pc["Pressed", p] = "reserve" => ~modifier
    /\ pc["Pressed", p] = "grace" => modifier

EdgeInv == \A p \in Press : EdgeIs(p)

(* One press is dispatched at a time; unless the key is held to talk, its   *)
(* release follows it, and the next press follows that.                     *)
SerialInv ==
    /\ \A p, q \in Press : p # q /\ Dispatched("Pressed", p) /\ Dispatched("Pressed", q) =>
          pc["Pressed", p] = "done" \/ pc["Pressed", q] = "done"
    /\ mode # "Hold" =>
          /\ \A p, q \in Press : q < p /\ Dispatched("Pressed", p) =>
                pc["Pressed", q] = "done" /\ Ended("Released", q)
          /\ \A p \in Press : Dispatched("Released", p) => pc["Pressed", p] = "done"

LEMMA TypesStep ==
    ASSUME DispatchTypes, StartsInv, DispatchNext
    PROVE  DispatchTypes'
<1>1. Moves /\ Sessions /\ Constant /\ Targets /\ hotkey' \in Interpreter
  BY MovesStep, SessionsStep, ConstantStep, TargetsStep, InterpreterStep
<1>2. /\ mode' \in HotkeyMode /\ modifier' \in BOOLEAN /\ now' \in Nat
      /\ at' \in [{"Pressed", "Released"} \X Press -> Nat]
      /\ pc' \in [EdgeKind \X Press -> PcState]
      /\ target' \in [EdgeKind \X Press -> Nat]
      /\ captures' \subseteq Press
  BY <1>1 DEF Moves, Constant, Targets, DispatchTypes, settings
<1>3. /\ phase' \in {"Idle", "Starting", "Recording", "Finalizing"}
      /\ opener' \in Seq(Press \cup {0})
      /\ sid' \in DOMAIN opener' \cup {0}
      /\ phase' = "Idle" <=> sid' = 0
      /\ inStart' \subseteq DOMAIN opener'
  <2>1. CASE NoneBegins BY <2>1 DEF NoneBegins, DispatchTypes
  <2>2. ASSUME NEW q \in Press \cup {0}, Begins(q)
        PROVE  /\ phase' \in {"Idle", "Starting", "Recording", "Finalizing"}
               /\ opener' \in Seq(Press \cup {0})
               /\ sid' \in DOMAIN opener' \cup {0}
               /\ phase' = "Idle" <=> sid' = 0
               /\ inStart' \subseteq DOMAIN opener'
    <3>1. opener \in Seq(Press \cup {0}) /\ inStart \subseteq DOMAIN opener BY DEF DispatchTypes
    <3>2. /\ opener' = Append(opener, q) /\ sid' = Len(opener) + 1 /\ phase' = "Starting"
          /\ inStart' = inStart \cup {sid'}
      BY <2>2 DEF Begins
    <3>3. opener' \in Seq(Press \cup {0}) /\ Len(opener') = Len(opener) + 1 /\ Len(opener) \in Nat
      BY <3>1, <3>2, AppendProperties
    <3>4. DOMAIN opener = 1..Len(opener) /\ DOMAIN opener' = 1..(Len(opener) + 1)
      BY <3>1, <3>3
    <3> QED BY <3>1, <3>2, <3>3, <3>4
  <2> QED BY <1>1, <2>1, <2>2 DEF Sessions
<1> QED BY <1>1, <1>2, <1>3 DEF DispatchTypes

LEMMA KindMoves ==
    ASSUME Moves, NEW p \in Press
    PROVE  /\ \/ pc'["Pressed", p] = pc["Pressed", p]
              \/ PressedMove(pc["Pressed", p], pc'["Pressed", p]) /\ Moved("Pressed", p)
           /\ \/ pc'["Released", p] = pc["Released", p]
              \/ ReleasedMove(pc["Released", p], pc'["Released", p]) /\ Moved("Released", p)
           /\ \/ pc'["Combined", p] = pc["Combined", p]
              \/ CombinedMove(pc["Combined", p], pc'["Combined", p]) /\ Moved("Combined", p)
<1>0. "Pressed" \in EdgeKind /\ "Released" \in EdgeKind /\ "Combined" \in EdgeKind BY DEF EdgeKind
<1>1. \/ pc'["Pressed", p] = pc["Pressed", p]
      \/ PressedMove(pc["Pressed", p], pc'["Pressed", p]) /\ Moved("Pressed", p)
  BY <1>0 DEF Moves, Move
<1>2. \/ pc'["Released", p] = pc["Released", p]
      \/ ReleasedMove(pc["Released", p], pc'["Released", p]) /\ Moved("Released", p)
  BY <1>0 DEF Moves, Move
<1>3. \/ pc'["Combined", p] = pc["Combined", p]
      \/ CombinedMove(pc["Combined", p], pc'["Combined", p]) /\ Moved("Combined", p)
  BY <1>0 DEF Moves, Move
<1> QED BY <1>1, <1>2, <1>3

LEMMA EdgeStep ==
    ASSUME DispatchTypes, StartsInv, EdgeInv, DispatchNext
    PROVE  EdgeInv'
<1>1. Moves /\ Constant BY MovesStep, ConstantStep
<1> SUFFICES ASSUME NEW p \in Press PROVE EdgeIs(p)' BY DEF EdgeInv
<1>2. pc'["Pressed", p] = pc["Pressed", p] \/ PressedMove(pc["Pressed", p], pc'["Pressed", p])
  BY <1>1, KindMoves
<1>3. \/ pc'["Released", p] = pc["Released", p]
      \/ ReleasedMove(pc["Released", p], pc'["Released", p]) /\ Moved("Released", p)
  BY <1>1, KindMoves
<1>4. \/ pc'["Combined", p] = pc["Combined", p]
      \/ CombinedMove(pc["Combined", p], pc'["Combined", p]) /\ Moved("Combined", p)
  BY <1>1, KindMoves
<1>5. pc["Released", p] = "idle" /\ pc'["Released", p] # "idle" => pc["Pressed", p] # "idle"
  <2>1. ASSUME Moved("Released", p), pc["Released", p] = "idle" PROVE pc["Pressed", p] # "idle"
    BY <2>1 DEF Moved, KeyUp, IsDown, ReleasedStep, BeginReleased, MayBegin, Stop, FinishStop
  <2> QED BY <1>3, <2>1
<1>6. pc["Combined", p] = "idle" /\ pc'["Combined", p] # "idle" => pc["Pressed", p] # "idle"
  <2>1. ASSUME Moved("Combined", p), pc["Combined", p] = "idle" PROVE pc["Pressed", p] # "idle"
    BY <2>1 DEF Moved, Companion, IsDown, CombinedStep, BeginCombined, MayBegin, SnapshotCombined,
                CancelCombined, FinishCombo
  <2> QED BY <1>4, <2>1
<1>7. modifier' = modifier BY <1>1 DEF Constant, settings
<1>8. EdgeIs(p) BY DEF EdgeInv
<1>9. pc'["Pressed", p] = "idle" => pc["Pressed", p] = "idle" BY <1>2 DEF PressedMove
<1>10. /\ pc'["Pressed", p] \in {"idle", "sent", "done", "arm", "reserve", "grace", "starting",
                                 "started", "failed", "abort", "stop", "waiting", "finishing",
                                 "cleanup"}
       /\ pc'["Pressed", p] = "reserve" => ~modifier
       /\ pc'["Pressed", p] = "grace" => modifier
  BY <1>2, <1>8 DEF PressedMove, EdgeIs
<1>11. pc'["Released", p] \in {"idle", "sent", "lost", "done", "stop", "waiting", "finishing"}
  BY <1>3, <1>8 DEF ReleasedMove, EdgeIs
<1>12. pc'["Combined", p] \in {"idle", "sent", "done", "discard", "cancel", "cancelling",
                                  "cleanup"}
  BY <1>4, <1>8 DEF CombinedMove, EdgeIs
<1> QED BY <1>5, <1>6, <1>7, <1>8, <1>9, <1>10, <1>11, <1>12 DEF EdgeIs

(* What begins an edge's dispatch.                                          *)
LEMMA Begun ==
    ASSUME DispatchTypes, EdgeInv, Moves, NEW p \in Press
    PROVE  /\ ~Dispatched("Pressed", p) /\ Dispatched("Pressed", p)' => BeginPressed(p)
           /\ ~Dispatched("Released", p) /\ Dispatched("Released", p)' => BeginReleased(p)
           /\ ~Dispatched("Combined", p) /\ Dispatched("Combined", p)' => BeginCombined(p)
           /\ \A k \in EdgeKind : Dispatched(k, p) => Dispatched(k, p)'
           /\ pc["Pressed", p] = "done" => pc'["Pressed", p] = "done"
           /\ Ended("Released", p) => Ended("Released", p)'
<1>0. EdgeIs(p) BY DEF EdgeInv
<1>1. \/ pc'["Pressed", p] = pc["Pressed", p]
      \/ PressedMove(pc["Pressed", p], pc'["Pressed", p]) /\ Moved("Pressed", p)
  BY KindMoves
<1>2. \/ pc'["Released", p] = pc["Released", p]
      \/ ReleasedMove(pc["Released", p], pc'["Released", p]) /\ Moved("Released", p)
  BY KindMoves
<1>3. \/ pc'["Combined", p] = pc["Combined", p]
      \/ CombinedMove(pc["Combined", p], pc'["Combined", p]) /\ Moved("Combined", p)
  BY KindMoves
<1>4. ASSUME Moved("Pressed", p), pc["Pressed", p] = "sent", pc'["Pressed", p] # "started",
             pc'["Pressed", p] # "failed"
      PROVE  BeginPressed(p)
  <2>1. ASSUME NEW s \in DOMAIN opener, opener[s] = p, StartReturns(s) PROVE FALSE
    <3>1. PICK l \in {"started", "failed"} : Goto("Pressed", p, l)
      BY <2>1, Numbers DEF StartReturns
    <3>2. pc'["Pressed", p] = l BY <3>1 DEF Goto, DispatchTypes, EdgeKind
    <3> QED BY <1>4, <3>2
  <2> QED BY <1>4, <2>1 DEF Moved, KeyDown, PressedStep, Arm, Reserve, GraceExpires, FinishStart,
                            AbortStart, Stop, FinishStop, FinishCombo
<1>5. ASSUME Moved("Released", p), pc["Released", p] = "sent" PROVE BeginReleased(p)
  BY <1>5 DEF Moved, KeyUp, IsDown, ReleasedStep, Stop, FinishStop
<1>6. ASSUME Moved("Combined", p), pc["Combined", p] = "sent" PROVE BeginCombined(p)
  BY <1>6 DEF Moved, Companion, CombinedStep, SnapshotCombined, CancelCombined, FinishCombo
<1>7. /\ ~Dispatched("Pressed", p) /\ Dispatched("Pressed", p)' => BeginPressed(p)
      /\ Dispatched("Pressed", p) => Dispatched("Pressed", p)'
      /\ pc["Pressed", p] = "done" => pc'["Pressed", p] = "done"
  BY <1>0, <1>1, <1>4 DEF Dispatched, PressedMove, EdgeIs
<1>8. /\ ~Dispatched("Released", p) /\ Dispatched("Released", p)' => BeginReleased(p)
      /\ Dispatched("Released", p) => Dispatched("Released", p)'
      /\ Ended("Released", p) => Ended("Released", p)'
  BY <1>2, <1>5 DEF Dispatched, Ended, ReleasedMove
<1>9. /\ ~Dispatched("Combined", p) /\ Dispatched("Combined", p)' => BeginCombined(p)
      /\ Dispatched("Combined", p) => Dispatched("Combined", p)'
  BY <1>0, <1>3, <1>6 DEF Dispatched, CombinedMove, EdgeIs
<1> QED BY <1>7, <1>8, <1>9 DEF EdgeKind

----------------------------------------------------------------------------
LEMMA InOrder ==
    ASSUME NEW p \in Press, NEW q \in Press, p # q
    PROVE  p < q \/ q < p
BY Numbers

(* A session that begins is the last one, and the only one of its press.    *)
LEMMA Appended ==
    ASSUME DispatchTypes, NEW q \in Press \cup {0}, Begins(q)
    PROVE  /\ DOMAIN opener' = DOMAIN opener \cup {sid'}
           /\ sid' \notin DOMAIN opener /\ opener'[sid'] = q
           /\ \A s \in DOMAIN opener : opener'[s] = opener[s]
           /\ inStart' = inStart \cup {sid'}
<1>1. opener' = Append(opener, q) /\ sid' = Len(opener) + 1 BY DEF Begins
<1>2. opener \in Seq(Press \cup {0}) BY DEF DispatchTypes
<1>3. /\ opener' \in Seq(Press \cup {0}) /\ Len(opener') = Len(opener) + 1
      /\ \A s \in 1..Len(opener) : opener'[s] = opener[s]
      /\ opener'[Len(opener) + 1] = q
  BY <1>1, <1>2, AppendProperties
<1>4. Len(opener) \in Nat /\ DOMAIN opener = 1..Len(opener) /\ DOMAIN opener' = 1..Len(opener')
  BY <1>2, <1>3
<1> QED BY <1>1, <1>3, <1>4 DEF Begins

(* Whose session is active after a step: the same, or one that has begun.   *)
LEMMA ActiveStays ==
    ASSUME DispatchTypes, Sessions, NEW p \in Press, Active(p)'
    PROVE  \/ Active(p) /\ NoneBegins /\ sid' = sid
           \/ Begins(p) /\ (Reserve(p) \/ GraceExpires(p)) /\ pc'["Pressed", p] = "starting"
<1>0. phase' \in {"Starting", "Recording"} /\ opener'[sid'] = p /\ p # 0
  BY Numbers DEF Active
<1>1. CASE NoneBegins
  <2>1. sid' = sid /\ opener' = opener /\ Alive BY <1>0, <1>1 DEF NoneBegins
  <2> QED BY <1>0, <1>1, <2>1 DEF Active, Alive
<1>2. ~Begins(0) BY <1>0, Appended
<1>3. ASSUME NEW q \in Press, Begins(q) PROVE q = p BY <1>0, <1>3, Appended
<1> QED BY <1>1, <1>2, <1>3 DEF Sessions

(* The UI has opened no session: it had not, and opens none.                *)
NoUi == UiOpened = {}

LEMMA UiStays ==
    ASSUME DispatchTypes, Sessions, NoUi'
    PROVE  NoUi /\ ~Begins(0)
<1>1. \A s \in DOMAIN opener' : opener'[s] # 0 BY DEF NoUi, UiOpened
<1>2. ~Begins(0) BY <1>1, Appended
<1>3. ASSUME NEW q \in Press, Begins(q) PROVE NoUi
  BY <1>1, <1>3, Appended DEF NoUi, UiOpened
<1>4. CASE NoneBegins
  <2>1. opener' = opener BY <1>4 DEF NoneBegins
  <2>2. \A s \in DOMAIN opener : opener[s] # 0 BY <1>1, <2>1
  <2> QED BY <1>2, <2>2 DEF NoUi, UiOpened
<1> QED BY <1>2, <1>3, <1>4 DEF Sessions

Deciding(p) == pc["Pressed", p] \in {"arm", "reserve", "grace"}

LEMMA StartsStep ==
    ASSUME DispatchTypes, StartsInv, Moves, Sessions
    PROVE  StartsInv'
<1>1. ASSUME NEW q \in Press, Reserve(q) \/ GraceExpires(q) PROVE Deciding(q)
  BY <1>1 DEF Reserve, GraceExpires, Deciding
<1>2. ASSUME NEW s \in DOMAIN opener', NEW t \in DOMAIN opener', opener'[s] = opener'[t],
             opener'[s] # 0
      PROVE  s = t
  <2>1. CASE NoneBegins BY <1>2, <2>1 DEF NoneBegins, StartsInv
  <2>2. CASE Begins(0) BY <1>2, <2>2, Appended DEF StartsInv
  <2>3. ASSUME NEW q \in Press, Begins(q), Deciding(q) PROVE s = t
    <3>1. \A r \in DOMAIN opener : opener[r] # q BY <2>3 DEF Deciding, StartsInv
    <3>2. /\ DOMAIN opener' = DOMAIN opener \cup {sid'} /\ opener'[sid'] = q
          /\ \A r \in DOMAIN opener : opener'[r] = opener[r]
      BY <2>3, Appended
    <3>3. CASE s \in DOMAIN opener /\ t \in DOMAIN opener
      BY <1>2, <3>2, <3>3 DEF StartsInv
    <3>4. CASE s \notin DOMAIN opener \/ t \notin DOMAIN opener
      BY <1>2, <3>1, <3>2, <3>4
    <3> QED BY <3>3, <3>4
  <2> QED BY <1>1, <2>1, <2>2, <2>3 DEF Sessions
<1>3. ASSUME NEW s \in inStart', opener'[s] # 0
      PROVE  pc'["Pressed", opener'[s]] = "starting"
  <2>1. CASE s \in inStart
    <3>1. PICK p : p = opener[s] OBVIOUS
    <3>2. s \in DOMAIN opener BY <2>1 DEF DispatchTypes
    <3>3. opener'[s] = p BY <3>1, <3>2, Appended DEF Sessions, NoneBegins
    <3>4. p \in Press /\ pc["Pressed", p] = "starting"
      BY <1>3, <2>1, <3>1, <3>2, <3>3, Openers DEF StartsInv
    <3>5. ASSUME Moved("Pressed", p) PROVE FALSE
      <4>1. ~KeyDown(p) BY <3>4 DEF KeyDown
      <4>2. ~PressedStep(p)
        BY <3>4 DEF PressedStep, BeginPressed, MayBegin, Arm, Reserve, GraceExpires, FinishStart,
                    AbortStart, Stop, FinishStop, FinishCombo
      <4>3. PICK t \in DOMAIN opener : opener[t] = p /\ StartReturns(t)
        BY <3>5, <4>1, <4>2 DEF Moved
      <4>4. t = s BY <3>1, <3>2, <3>4, <4>3, Numbers DEF StartsInv
      <4> QED BY <1>3, <4>3, <4>4 DEF StartReturns
    <3> QED BY <3>3, <3>4, <3>5, KindMoves
  <2>2. CASE s \notin inStart
    <3>1. ~NoneBegins BY <1>3, <2>2 DEF NoneBegins
    <3>2. ~Begins(0) BY <1>3, <2>2, Appended
    <3>3. PICK q \in Press : Begins(q) /\ pc'["Pressed", q] = "starting"
      BY <3>1, <3>2 DEF Sessions
    <3> QED BY <1>3, <2>2, <3>3, Appended
  <2> QED BY <2>1, <2>2
<1>4. ASSUME NEW p \in Press, pc'["Pressed", p] \in {"idle", "sent", "arm", "reserve", "grace"},
             NEW s \in DOMAIN opener', opener'[s] = p
      PROVE  FALSE
  <2>1. pc["Pressed", p] \in {"idle", "sent", "arm", "reserve", "grace"}
    BY <1>4, KindMoves DEF PressedMove
  <2>2. \A r \in DOMAIN opener : opener[r] # p BY <2>1 DEF StartsInv
  <2>3. ~NoneBegins BY <1>4, <2>2 DEF NoneBegins
  <2>4. ~Begins(0) BY <1>4, <2>2, Appended, Numbers
  <2>5. PICK q \in Press : Begins(q) /\ pc'["Pressed", q] = "starting"
    BY <2>3, <2>4 DEF Sessions
  <2>6. q = p BY <1>4, <2>2, <2>5, Appended
  <2> QED BY <1>4, <2>5, <2>6
<1> QED BY <1>2, <1>3, <1>4 DEF StartsInv

LEMMA SerialStep ==
    ASSUME DispatchTypes, EdgeInv, SerialInv, Moves, Constant
    PROVE  SerialInv'
<1>0. mode' = mode BY DEF Constant, settings
<1>1. ASSUME NEW p \in Press, Ended("Pressed", p) PROVE pc["Pressed", p] = "done"
  BY <1>1 DEF EdgeInv, EdgeIs, Ended
<1>2. ASSUME NEW p \in Press, NEW q \in Press, p # q, BeginPressed(p), Dispatched("Pressed", q)'
      PROVE  pc["Pressed", q] = "done"
  <2>1. pc'["Pressed", q] = pc["Pressed", q]
    BY <1>2, Kinds DEF BeginPressed, Goto, DispatchTypes
  <2>2. Dispatched("Pressed", q) BY <1>2, <2>1 DEF Dispatched
  <2>3. MayBegin("Pressed", p) BY <1>2 DEF BeginPressed
  <2>4. CASE mode = "Hold" BY <1>1, <2>2, <2>3, <2>4 DEF MayBegin
  <2>5. CASE mode # "Hold"
    <3>2. q < p \/ p < q BY <1>2, InOrder
    <3>3. CASE q < p BY <1>1, <2>3, <2>5, <3>3 DEF MayBegin
    <3>4. CASE p < q BY <2>2, <2>3, <2>5, <3>4 DEF MayBegin, SerialInv
    <3> QED BY <3>2, <3>3, <3>4
  <2> QED BY <2>4, <2>5
<1>3. ASSUME NEW p \in Press, NEW q \in Press, p # q, Dispatched("Pressed", p)',
             Dispatched("Pressed", q)'
      PROVE  pc'["Pressed", p] = "done" \/ pc'["Pressed", q] = "done"
  <2>1. CASE Dispatched("Pressed", p) /\ Dispatched("Pressed", q)
    BY <1>3, <2>1, Begun DEF SerialInv
  <2>2. CASE ~Dispatched("Pressed", p)
    <3>1. BeginPressed(p) BY <1>3, <2>2, Begun
    <3> QED BY <1>2, <1>3, <3>1, Begun
  <2>3. CASE ~Dispatched("Pressed", q)
    <3>1. BeginPressed(q) BY <1>3, <2>3, Begun
    <3> QED BY <1>2, <1>3, <3>1, Begun
  <2> QED BY <2>1, <2>2, <2>3
<1>4. ASSUME mode # "Hold", NEW p \in Press, NEW q \in Press, q < p, Dispatched("Pressed", p)'
      PROVE  pc'["Pressed", q] = "done" /\ Ended("Released", q)'
  <2>1. CASE Dispatched("Pressed", p) BY <1>4, <2>1, Begun DEF SerialInv
  <2>2. CASE ~Dispatched("Pressed", p)
    <3>1. MayBegin("Pressed", p) BY <1>4, <2>2, Begun DEF BeginPressed
    <3>2. Ended("Pressed", q) /\ Ended("Released", q) BY <1>4, <3>1 DEF MayBegin
    <3> QED BY <1>1, <3>2, Begun
  <2> QED BY <2>1, <2>2
<1>5. ASSUME mode # "Hold", NEW p \in Press, Dispatched("Released", p)'
      PROVE  pc'["Pressed", p] = "done"
  <2>1. CASE Dispatched("Released", p) BY <1>5, <2>1, Begun DEF SerialInv
  <2>2. CASE ~Dispatched("Released", p)
    <3>1. MayBegin("Released", p) BY <1>5, <2>2, Begun DEF BeginReleased
    <3> QED BY <1>1, <1>5, <3>1, Begun DEF MayBegin
  <2> QED BY <2>1, <2>2
<1> QED BY <1>0, <1>3, <1>4, <1>5 DEF SerialInv

----------------------------------------------------------------------------
(* What the interpreter remembers of a press.                               *)
Chord(p) == OvertakenByCombined(hotkey, p)
KeyUpFirst(p) == OvertakenByReleased(hotkey, p)

(* Only a press that is being decided, or was accepted, is held; only one   *)
(* that is reserved, or about to be, owns the session.                      *)
HeldIs(p) ==
    /\ Chord(p) => Dispatched("Combined", p)
    /\ hotkey.held.id = p =>
          /\ ~Chord(p)
          /\ pc["Pressed", p] \notin {"idle", "sent"}
          /\ hotkey.held.at = at["Pressed", p]
          /\ ~hotkey.held.accepted =>
                pc["Pressed", p] = "done" /\ \A s \in DOMAIN opener : opener[s] # p
    /\ hotkey.session = p =>
          /\ pc["Pressed", p] \notin {"idle", "sent", "grace"}
          /\ pc["Pressed", p] = "arm" => ~modifier

HeldInv == \A p \in Press : HeldIs(p)

(* The dispatch of a press takes its own markers only, and is held unless   *)
(* an edge overtook it; it starts in an idle phase, after the cooldown.     *)
PressedEffect(p) ==
    /\ pc["Pressed", p] = "sent" /\ pc'["Pressed", p] \in {"arm", "stop", "done"}
    /\ hotkey'.cooldown = hotkey.cooldown
    /\ TakesOnly(hotkey, hotkey', p)
    /\ \/ hotkey'.session = hotkey.session
       \/ hotkey'.session = p /\ ~modifier /\ pc'["Pressed", p] = "arm"
    /\ hotkey'.held.id \in {0, p}
    /\ hotkey'.held.id = p =>
          /\ hotkey'.held.at = at["Pressed", p]
          /\ ~OvertakenByCombined(hotkey', p)
          /\ hotkey'.held.accepted \/ pc'["Pressed", p] = "done"
    /\ pc'["Pressed", p] = "arm" =>
          /\ phase = "Idle" /\ at["Pressed", p] >= hotkey.cooldown /\ hotkey'.held.id = p
          /\ ~Chord(p) /\ ~KeyUpFirst(p)
    /\ UNCHANGED <<settings, edges, target, captures, core>>

LEMMA PressedEffects ==
    ASSUME DispatchTypes, HeldInv, NEW p \in Press, BeginPressed(p)
    PROVE  PressedEffect(p)
<1>0. hotkey \in Interpreter /\ modifier \in BOOLEAN BY DEF DispatchTypes
<1>1. PICK t \in Nat : t = at["Pressed", p] BY DEF DispatchTypes
<1>2. PICK out : out = PressKey(hotkey, p, t, mode, phase, modifier) /\ hotkey' = out.next
  BY <1>1 DEF BeginPressed
<1>3. pc["Pressed", p] = "sent" /\ UNCHANGED <<settings, edges, target, captures, core>>
  BY DEF BeginPressed, MayBegin
<1>4. hotkey.held.id # p BY <1>3 DEF HeldInv, HeldIs
<1>5. /\ out.intent \in {"Noop", "WaitForModifierGrace", "Start", "Stop"}
      /\ hotkey'.cooldown = hotkey.cooldown
      /\ TakesOnly(hotkey, hotkey', p)
      /\ hotkey'.session = IF out.intent = "Start" THEN p ELSE hotkey.session
      /\ hotkey'.held.id \in {0, p}
      /\ hotkey'.held.id = p =>
            /\ hotkey'.held.at = t
            /\ ~OvertakenByCombined(hotkey', p)
            /\ hotkey'.held.accepted \/ out.intent = "Noop"
      /\ out.intent \in {"WaitForModifierGrace", "Start"} =>
            /\ phase = "Idle" /\ t >= hotkey.cooldown /\ hotkey'.held.id = p
            /\ ~OvertakenByCombined(hotkey, p) /\ ~OvertakenByReleased(hotkey, p)
            /\ modifier <=> out.intent = "WaitForModifierGrace"
  BY <1>0, <1>2, <1>4, PressGives
<1>6. Goto("Pressed", p, CASE out.intent \in {"Start", "WaitForModifierGrace"} -> "arm"
                           [] out.intent = "Stop" -> "stop"
                           [] out.intent = "Noop" -> "done")
  BY <1>1, <1>2 DEF BeginPressed
<1>7. PICK l : /\ l = (CASE out.intent \in {"Start", "WaitForModifierGrace"} -> "arm"
                         [] out.intent = "Stop" -> "stop"
                         [] out.intent = "Noop" -> "done")
               /\ Goto("Pressed", p, l)
  BY <1>6
<1>8. pc'["Pressed", p] = l BY <1>7, Kinds DEF Goto, DispatchTypes
<1>9. /\ l \in {"arm", "stop", "done"}
      /\ l = "arm" <=> out.intent \in {"Start", "WaitForModifierGrace"}
      /\ l = "done" <=> out.intent = "Noop"
  BY <1>5, <1>7
<1> QED BY <1>1, <1>3, <1>5, <1>8, <1>9 DEF PressedEffect, Chord, KeyUpFirst

(* A key-up lets its press go, or is remembered for it.                     *)
ReleasedEffect(p) ==
    /\ pc["Released", p] = "sent" /\ pc'["Released", p] \in {"stop", "done"}
    /\ hotkey'.cooldown = hotkey.cooldown
    /\ hotkey'.held = IF hotkey.held.id = p THEN NotHeld ELSE hotkey.held
    /\ hotkey'.session = IF /\ hotkey.held.id = p /\ hotkey.held.accepted /\ ~Chord(p)
                            /\ mode = "Hold" /\ ~Stoppable(hotkey, p, phase) /\ hotkey.session = p
                         THEN 0 ELSE hotkey.session
    /\ \A r \in Press :
          /\ OvertakenByCombined(hotkey', r) => Chord(r)
          /\ Chord(r) => OvertakenByCombined(hotkey', r) \/ (r = p /\ hotkey.held.id = p)
          /\ OvertakenByReleased(hotkey', r) => r = p \/ KeyUpFirst(r)
          /\ KeyUpFirst(r) =>
                OvertakenByReleased(hotkey', r) \/ Evicted(hotkey.pendingReleased, p, r)
    /\ hotkey.held.id # p /\ mode = "Hold" /\ ~Stoppable(hotkey, p, phase) =>
          OvertakenByReleased(hotkey', p)
    /\ /\ Stoppable(hotkey, p, phase)
       /\ hotkey.held.id = p => hotkey.held.accepted /\ ~Chord(p)
       /\ \/ mode = "Hold"
          \/ mode = "Auto" /\ hotkey.held.id = p /\ at["Released", p] - hotkey.held.at >= AutoHold
       => pc'["Released", p] = "stop"
    /\ UNCHANGED <<settings, edges, target, captures, core>>

LEMMA ReleasedEffects ==
    ASSUME DispatchTypes, NEW p \in Press, BeginReleased(p)
    PROVE  ReleasedEffect(p)
<1>0. hotkey \in Interpreter /\ mode \in HotkeyMode BY DEF DispatchTypes
<1>1. PICK t \in Nat : t = at["Released", p] BY DEF DispatchTypes
<1>2. PICK out : out = ReleaseKey(hotkey, p, t, mode, phase) /\ hotkey' = out.next
  BY <1>1 DEF BeginReleased
<1>3. pc["Released", p] = "sent" /\ UNCHANGED <<settings, edges, target, captures, core>>
  BY DEF BeginReleased, MayBegin
<1>4. /\ out.intent \in {"Noop", "Stop"}
      /\ hotkey'.cooldown = hotkey.cooldown
      /\ hotkey'.held = IF hotkey.held.id = p THEN NotHeld ELSE hotkey.held
      /\ hotkey'.session = IF /\ hotkey.held.id = p /\ hotkey.held.accepted
                              /\ ~OvertakenByCombined(hotkey, p)
                              /\ mode = "Hold" /\ ~Stoppable(hotkey, p, phase)
                              /\ hotkey.session = p
                           THEN 0 ELSE hotkey.session
      /\ \A r \in Press :
            /\ OvertakenByCombined(hotkey', r) => OvertakenByCombined(hotkey, r)
            /\ OvertakenByCombined(hotkey, r) =>
                  OvertakenByCombined(hotkey', r) \/ (r = p /\ hotkey.held.id = p)
            /\ OvertakenByReleased(hotkey', r) => r = p \/ OvertakenByReleased(hotkey, r)
            /\ OvertakenByReleased(hotkey, r) =>
                  OvertakenByReleased(hotkey', r) \/ Evicted(hotkey.pendingReleased, p, r)
      /\ hotkey.held.id # p /\ mode = "Hold" /\ ~Stoppable(hotkey, p, phase) =>
            OvertakenByReleased(hotkey', p)
      /\ /\ Stoppable(hotkey, p, phase)
         /\ hotkey.held.id = p => hotkey.held.accepted /\ ~OvertakenByCombined(hotkey, p)
         /\ \/ mode = "Hold"
            \/ mode = "Auto" /\ hotkey.held.id = p /\ t - hotkey.held.at >= AutoHold
         => out.intent = "Stop"
  BY <1>0, <1>2, ReleaseGives
<1>5. Goto("Released", p, IF out.intent = "Stop" THEN "stop" ELSE "done")
  BY <1>1, <1>2 DEF BeginReleased
<1>6. pc'["Released", p] = IF out.intent = "Stop" THEN "stop" ELSE "done"
  BY <1>5, Kinds DEF Goto, DispatchTypes
<1> QED BY <1>1, <1>3, <1>4, <1>6 DEF ReleasedEffect, Chord, KeyUpFirst

(* A companion key is remembered, and lets its press go.                    *)
CombinedEffect(p) ==
    /\ pc["Combined", p] = "sent"
    /\ pc'["Combined", p] = IF hotkey.session = p THEN "cancel" ELSE "discard"
    /\ hotkey'.cooldown = hotkey.cooldown /\ hotkey'.session = hotkey.session
    /\ hotkey'.held = IF hotkey.held.id = p THEN NotHeld ELSE hotkey.held
    /\ OvertakenByCombined(hotkey', p)
    /\ \A r \in Press : OvertakenByReleased(hotkey', r) <=> KeyUpFirst(r)
    /\ \A r \in Press \ {p} :
          /\ OvertakenByCombined(hotkey', r) => Chord(r)
          /\ Chord(r) => OvertakenByCombined(hotkey', r) \/ Evicted(hotkey.pendingCombined, p, r)
    /\ UNCHANGED <<settings, edges, target, captures, core>>

LEMMA CombinedEffects ==
    ASSUME DispatchTypes, NEW p \in Press, BeginCombined(p)
    PROVE  CombinedEffect(p)
<1>0. hotkey \in Interpreter BY DEF DispatchTypes
<1>1. PICK out : out = CombineKey(hotkey, p) /\ hotkey' = out.next BY DEF BeginCombined
<1>2. pc["Combined", p] = "sent" /\ UNCHANGED <<settings, edges, target, captures, core>>
  BY DEF BeginCombined, MayBegin
<1>3. /\ out.intent = IF hotkey.session = p THEN "Cancel" ELSE "Noop"
      /\ hotkey'.cooldown = hotkey.cooldown /\ hotkey'.session = hotkey.session
      /\ hotkey'.pendingReleased = hotkey.pendingReleased
      /\ hotkey'.held = IF hotkey.held.id = p THEN NotHeld ELSE hotkey.held
      /\ OvertakenByCombined(hotkey', p)
      /\ \A r \in Press \ {p} :
            /\ OvertakenByCombined(hotkey', r) => OvertakenByCombined(hotkey, r)
            /\ OvertakenByCombined(hotkey, r) =>
                  OvertakenByCombined(hotkey', r) \/ Evicted(hotkey.pendingCombined, p, r)
  BY <1>0, <1>1, CombineGives
<1>4. Goto("Combined", p, IF out.intent = "Cancel" THEN "cancel" ELSE "discard")
  BY <1>1 DEF BeginCombined
<1>5. pc'["Combined", p] = IF out.intent = "Cancel" THEN "cancel" ELSE "discard"
  BY <1>4, Kinds DEF Goto, DispatchTypes
<1>6. \A r \in Press : OvertakenByReleased(hotkey', r) <=> OvertakenByReleased(hotkey, r)
  BY <1>3 DEF OvertakenByReleased
<1> QED BY <1>2, <1>3, <1>5, <1>6 DEF CombinedEffect, Chord, KeyUpFirst

(* The other steps take the markers of one press, and let it go.            *)
SettleEffect(p) ==
    /\ TakesOnly(hotkey, hotkey', p)
    /\ hotkey'.held = hotkey.held \/ (hotkey.held.id = p /\ hotkey'.held.id = 0)
    /\ hotkey'.session = hotkey.session \/ (hotkey.session = p /\ hotkey'.session = 0)
    /\ hotkey'.cooldown \in {hotkey.cooldown, 0}

LEMMA ComboEffects ==
    ASSUME DispatchTypes, NEW p \in Press, hotkey' = ComboCancelled(hotkey, p)
    PROVE  SettleEffect(p) /\ hotkey'.session # p /\ hotkey'.held.id # p
<1>0. hotkey \in Interpreter /\ p # 0 BY Numbers DEF DispatchTypes
<1>1. PICK j : j = ComboCancelled(hotkey, p) /\ hotkey' = j OBVIOUS
<1>2. /\ hotkey'.cooldown = 0
      /\ TakesOnly(hotkey, hotkey', p)
      /\ hotkey'.held = IF hotkey.held.id = p THEN NotHeld ELSE hotkey.held
      /\ hotkey'.session = IF hotkey.session = p THEN 0 ELSE hotkey.session
  BY <1>0, <1>1, ComboGives
<1>3. NotHeld.id = 0 BY DEF NotHeld
<1> QED BY <1>0, <1>2, <1>3 DEF SettleEffect

LEMMA ComboStep ==
    ASSUME DispatchTypes, NEW p \in Press, NEW k \in {"Pressed", "Combined"},
           NEW failed \in BOOLEAN, FinishCombo(k, p, failed), hotkey' # hotkey
    PROVE  /\ pc[k, p] = "cleanup" /\ SettleEffect(p)
           /\ hotkey'.session # p /\ hotkey'.held.id # p
<1>1. pc[k, p] = "cleanup" BY DEF FinishCombo
<1>2. hotkey' = ComboCancelled(hotkey, p) BY DEF FinishCombo
<1> QED BY <1>1, <1>2, ComboEffects

LEMMA FinishEffects ==
    ASSUME DispatchTypes, NEW p \in Press, FinishStart(p)
    PROVE  /\ pc["Pressed", p] \in {"started", "failed"}
           /\ pc'["Pressed", p] = IF ~Chord(p) THEN "done"
                                  ELSE IF pc["Pressed", p] = "started" THEN "abort" ELSE "cleanup"
           /\ SettleEffect(p) /\ hotkey'.held = hotkey.held
           /\ hotkey'.session # hotkey.session => pc["Pressed", p] = "failed" \/ Chord(p)
<1>0. hotkey \in Interpreter BY DEF DispatchTypes
<1>1. PICK b \in BOOLEAN : b = (pc["Pressed", p] = "started") OBVIOUS
<1>2. PICK j : j = StartFinished(hotkey, p, b) /\ hotkey' = j BY <1>1 DEF FinishStart
<1>3. /\ hotkey'.held = hotkey.held /\ hotkey'.cooldown = hotkey.cooldown
      /\ TakesOnly(hotkey, hotkey', p)
      /\ hotkey'.session = IF (~b \/ OvertakenByCombined(hotkey, p)) /\ hotkey.session = p
                           THEN 0 ELSE hotkey.session
  BY <1>0, <1>2, FinishGives
<1>4. pc["Pressed", p] \in {"started", "failed"} BY DEF FinishStart
<1>5. PICK l : /\ l = (IF ~Chord(p) THEN "done"
                       ELSE IF pc["Pressed", p] = "started" THEN "abort" ELSE "cleanup")
               /\ Goto("Pressed", p, l)
  BY DEF FinishStart, Chord, OvertakenByCombined
<1>6. pc'["Pressed", p] = l BY <1>5, Kinds DEF Goto, DispatchTypes
<1>7. hotkey'.session # hotkey.session => pc["Pressed", p] = "failed" \/ Chord(p)
  BY <1>1, <1>3, <1>4 DEF Chord
<1> QED BY <1>3, <1>4, <1>5, <1>6, <1>7 DEF SettleEffect

(* After the grace period a press starts if it is still held, and idle.     *)
GraceEffect(p) ==
    /\ pc["Pressed", p] = "grace" /\ pc'["Pressed", p] \in {"starting", "failed", "done"}
    /\ hotkey'.cooldown = hotkey.cooldown
    /\ TakesOnly(hotkey, hotkey', p)
    /\ \/ /\ pc'["Pressed", p] = "done" /\ hotkey'.session = hotkey.session
          /\ hotkey'.held = hotkey.held \/ (hotkey'.held.id = 0 /\ hotkey.held.id = p)
       \/ /\ pc'["Pressed", p] # "done" /\ hotkey'.session = p
          /\ phase = "Idle" /\ hotkey.held.id = p /\ hotkey'.held = hotkey.held

LEMMA Reservation ==
    ASSUME DispatchTypes, NEW p \in Press, ReserveFor(p)
    PROVE  pc'["Pressed", p] \in {"starting", "failed"}
<1>1. PICK l \in {"starting", "failed"} : Goto("Pressed", p, l) BY DEF ReserveFor
<1> QED BY <1>1, Kinds DEF Goto, DispatchTypes

LEMMA GraceEffects ==
    ASSUME DispatchTypes, NEW p \in Press, GraceExpires(p)
    PROVE  GraceEffect(p)
<1>0. hotkey \in Interpreter BY DEF DispatchTypes
<1>1. PICK out : out = AfterModifierGrace(hotkey, p, phase) /\ hotkey' = out.next
  BY DEF GraceExpires
<1>2. /\ out.intent \in {"Noop", "Start"}
      /\ hotkey'.cooldown = hotkey.cooldown
      /\ TakesOnly(hotkey, hotkey', p)
      /\ hotkey'.session = IF out.intent = "Start" THEN p ELSE hotkey.session
      /\ \/ hotkey'.held = hotkey.held
         \/ hotkey'.held.id = 0 /\ hotkey.held.id = p /\ out.intent = "Noop"
      /\ out.intent = "Start" => hotkey.held.id = p /\ hotkey.held.accepted /\ phase = "Idle"
  BY <1>0, <1>1, GraceGives
<1>3. pc["Pressed", p] = "grace" BY DEF GraceExpires
<1>4. CASE out.intent = "Start"
  <2>1. ReserveFor(p) BY <1>1, <1>4 DEF GraceExpires
  <2>2. pc'["Pressed", p] \in {"starting", "failed"} BY <2>1, Reservation
  <2> QED BY <1>2, <1>3, <1>4, <2>2 DEF GraceEffect
<1>5. CASE out.intent = "Noop"
  <2>1. Goto("Pressed", p, "done") BY <1>1, <1>5 DEF GraceExpires
  <2>2. pc'["Pressed", p] = "done" BY <2>1, Kinds DEF Goto, DispatchTypes
  <2> QED BY <1>2, <1>3, <1>5, <2>2 DEF GraceEffect
<1> QED BY <1>2, <1>4, <1>5

(* A press or a companion key that is done with a start it did not get.     *)
Drops(p) ==
    /\ SettleEffect(p) /\ hotkey'.session # p /\ hotkey'.held.id # p
    /\ \/ pc["Pressed", p] = "cleanup"
       \/ pc["Combined", p] = "cleanup"

LEMMA ReserveEffects ==
    ASSUME DispatchTypes, NEW p \in Press, Reserve(p)
    PROVE  /\ pc["Pressed", p] = "reserve"
           /\ UNCHANGED hotkey
           /\ \/ /\ hotkey.session = p /\ ~Chord(p) /\ ~KeyUpFirst(p)
                 /\ pc'["Pressed", p] \in {"starting", "failed"}
              \/ pc'["Pressed", p] = "cleanup"
<1>1. pc["Pressed", p] = "reserve" BY DEF Reserve
<1>2. CASE StartIsCurrent(hotkey, p)
  <2>1. ReserveFor(p) /\ UNCHANGED hotkey BY <1>2 DEF Reserve
  <2>2. pc'["Pressed", p] \in {"starting", "failed"} BY <2>1, Reservation
  <2>3. hotkey.session = p /\ ~Chord(p) /\ ~KeyUpFirst(p)
    BY <1>2 DEF StartIsCurrent, Chord, KeyUpFirst, OvertakenByCombined, OvertakenByReleased
  <2> QED BY <1>1, <2>1, <2>2, <2>3
<1>3. CASE ~StartIsCurrent(hotkey, p)
  <2>1. UNCHANGED hotkey /\ Goto("Pressed", p, "cleanup") BY <1>3 DEF Reserve
  <2>2. pc'["Pressed", p] = "cleanup" BY <2>1, Kinds DEF Goto, DispatchTypes
  <2> QED BY <1>1, <2>1, <2>2
<1> QED BY <1>2, <1>3

ResetEffect ==
    /\ Reset /\ phase = "Finalizing" /\ phase' = "Idle"
    /\ hotkey'.held.id = 0 /\ hotkey'.session = 0
    /\ \A r \in Press : (OvertakenByCombined(hotkey', r) <=> Chord(r))
                        /\ (OvertakenByReleased(hotkey', r) <=> KeyUpFirst(r))

FinishEffect(p) ==
    /\ SettleEffect(p) /\ hotkey'.held = hotkey.held
    /\ pc["Pressed", p] \in {"started", "failed"}
    /\ pc'["Pressed", p] = IF ~Chord(p) THEN "done"
                           ELSE IF pc["Pressed", p] = "started" THEN "abort" ELSE "cleanup"
    /\ hotkey'.session # hotkey.session => pc["Pressed", p] = "failed" \/ Chord(p)

(* All that can happen to the interpreter in a step.                        *)
Effects ==
    \/ UNCHANGED hotkey
    \/ ResetEffect
    \/ \E p \in Press : BeginPressed(p) /\ PressedEffect(p)
    \/ \E p \in Press : BeginReleased(p) /\ ReleasedEffect(p)
    \/ \E p \in Press : BeginCombined(p) /\ CombinedEffect(p)
    \/ \E p \in Press : GraceExpires(p) /\ GraceEffect(p)
    \/ \E p \in Press : FinishStart(p) /\ FinishEffect(p)
    \/ \E p \in Press : Drops(p)

LEMMA EffectsStep ==
    ASSUME DispatchTypes, HeldInv, DispatchNext
    PROVE  Effects
<1>1. HotkeyChanges BY HotkeyChangesStep
<1>2. CASE Reset
  <2>1. hotkey \in Interpreter /\ now \in Nat BY DEF DispatchTypes
  <2>2. PICK j : j = Terminal(hotkey, now) /\ hotkey' = j BY <1>2 DEF Reset
  <2>3. /\ hotkey'.held.id = 0 /\ hotkey'.session = 0
        /\ hotkey'.pendingCombined = hotkey.pendingCombined
        /\ hotkey'.pendingReleased = hotkey.pendingReleased
    BY <2>1, <2>2, TerminalGives
  <2>4. \A r \in Press : (OvertakenByCombined(hotkey', r) <=> Chord(r))
                         /\ (OvertakenByReleased(hotkey', r) <=> KeyUpFirst(r))
    BY <2>3 DEF Chord, KeyUpFirst, OvertakenByCombined, OvertakenByReleased
  <2>5. phase = "Finalizing" /\ phase' = "Idle" BY <1>2 DEF Reset
  <2>6. ResetEffect BY <1>2, <2>3, <2>4, <2>5 DEF ResetEffect
  <2> QED BY <2>6 DEF Effects
<1>3. ASSUME NEW p \in Press, BeginPressed(p) PROVE Effects BY <1>3, PressedEffects DEF Effects
<1>4. ASSUME NEW p \in Press, BeginReleased(p) PROVE Effects BY <1>4, ReleasedEffects DEF Effects
<1>5. ASSUME NEW p \in Press, BeginCombined(p) PROVE Effects BY <1>5, CombinedEffects DEF Effects
<1>6. ASSUME NEW p \in Press, GraceExpires(p) PROVE Effects BY <1>6, GraceEffects DEF Effects
<1>7. ASSUME NEW p \in Press, FinishStart(p) PROVE Effects
  <2>1. FinishEffect(p) BY <1>7, FinishEffects DEF FinishEffect
  <2> QED BY <1>7, <2>1 DEF Effects
<1>8. ASSUME NEW p \in Press, NEW k \in {"Pressed", "Combined"}, NEW failed \in BOOLEAN,
             FinishCombo(k, p, failed), hotkey' # hotkey
      PROVE  Effects
  <2>1. /\ pc[k, p] = "cleanup" /\ SettleEffect(p)
        /\ hotkey'.session # p /\ hotkey'.held.id # p
    BY <1>8, ComboStep
  <2>2. Drops(p) BY <2>1 DEF Drops
  <2> QED BY <2>2 DEF Effects
<1> QED BY <1>1, <1>2, <1>3, <1>4, <1>5, <1>6, <1>7, <1>8 DEF HotkeyChanges, Effects

----------------------------------------------------------------------------
(* What a press gains and loses.                                            *)
LEMMA Gains ==
    ASSUME Effects, NEW p \in Press
    PROVE  /\ OvertakenByCombined(hotkey', p) => Chord(p) \/ BeginCombined(p)
           /\ \/ hotkey'.held.id # p
              \/ hotkey'.held = hotkey.held
              \/ BeginPressed(p) /\ PressedEffect(p)
           /\ \/ hotkey'.session # p
              \/ hotkey.session = p
              \/ BeginPressed(p) /\ PressedEffect(p)
              \/ GraceExpires(p) /\ GraceEffect(p) /\ pc'["Pressed", p] # "done"
           /\ hotkey'.cooldown \in {hotkey.cooldown, 0} \/ ResetEffect
<1>0. p # 0 /\ NotHeld.id = 0 BY Numbers DEF NotHeld
<1>1. CASE UNCHANGED hotkey BY <1>1 DEF Chord
<1>2. CASE ResetEffect BY <1>0, <1>2 DEF ResetEffect
<1>3. ASSUME NEW q \in Press, BeginPressed(q), PressedEffect(q)
      PROVE  /\ OvertakenByCombined(hotkey', p) => Chord(p)
             /\ hotkey'.held.id = p => q = p
             /\ hotkey'.session = p => hotkey.session = p \/ q = p
             /\ hotkey'.cooldown = hotkey.cooldown
  BY <1>0, <1>3 DEF PressedEffect, TakesOnly, Chord
<1>4. ASSUME NEW q \in Press, ReleasedEffect(q)
      PROVE  /\ OvertakenByCombined(hotkey', p) => Chord(p)
             /\ hotkey'.held.id = p => hotkey'.held = hotkey.held
             /\ hotkey'.session = p => hotkey.session = p
             /\ hotkey'.cooldown = hotkey.cooldown
  BY <1>0, <1>4 DEF ReleasedEffect
<1>5. ASSUME NEW q \in Press, BeginCombined(q), CombinedEffect(q)
      PROVE  /\ OvertakenByCombined(hotkey', p) => Chord(p) \/ q = p
             /\ hotkey'.held.id = p => hotkey'.held = hotkey.held
             /\ hotkey'.session = p => hotkey.session = p
             /\ hotkey'.cooldown = hotkey.cooldown
  <2>1. \A r \in Press \ {q} : OvertakenByCombined(hotkey', r) => Chord(r)
    BY <1>5 DEF CombinedEffect
  <2>2. hotkey'.held = IF hotkey.held.id = q THEN NotHeld ELSE hotkey.held
    BY <1>5 DEF CombinedEffect
  <2>3. hotkey'.session = hotkey.session /\ hotkey'.cooldown = hotkey.cooldown
    BY <1>5 DEF CombinedEffect
  <2> QED BY <1>0, <2>1, <2>2, <2>3
<1>6. ASSUME NEW q \in Press, GraceEffect(q)
      PROVE  /\ OvertakenByCombined(hotkey', p) => Chord(p)
             /\ hotkey'.held.id = p => hotkey'.held = hotkey.held
             /\ hotkey'.session = p =>
                   hotkey.session = p \/ (q = p /\ pc'["Pressed", p] # "done")
             /\ hotkey'.cooldown = hotkey.cooldown
  BY <1>0, <1>6 DEF GraceEffect, TakesOnly, Chord
<1>7. ASSUME NEW q \in Press, SettleEffect(q)
      PROVE  /\ OvertakenByCombined(hotkey', p) => Chord(p)
             /\ hotkey'.held.id = p => hotkey'.held = hotkey.held
             /\ hotkey'.session = p => hotkey.session = p
             /\ hotkey'.cooldown \in {hotkey.cooldown, 0}
  BY <1>0, <1>7 DEF SettleEffect, TakesOnly, Chord
<1> QED BY <1>1, <1>2, <1>3, <1>4, <1>5, <1>6, <1>7 DEF Effects, FinishEffect, Drops

LEMMA HeldStep ==
    ASSUME DispatchTypes, StartsInv, EdgeInv, HeldInv, Moves, Sessions, Constant, Effects
    PROVE  HeldInv'
<1> SUFFICES ASSUME NEW p \in Press PROVE HeldIs(p)' BY DEF HeldInv
<1>0. HeldIs(p) /\ EdgeIs(p) BY DEF HeldInv, EdgeInv
<1>1. OvertakenByCombined(hotkey', p) => Dispatched("Combined", p)'
  <2>1. ASSUME BeginCombined(p) PROVE Dispatched("Combined", p)'
    <3>1. CombinedEffect(p) BY <2>1, CombinedEffects
    <3> QED BY <3>1 DEF CombinedEffect, Dispatched
  <2>2. Dispatched("Combined", p) => Dispatched("Combined", p)' BY Begun, Kinds
  <2> QED BY <1>0, <2>1, <2>2, Gains DEF HeldIs
<1>2. \/ pc'["Pressed", p] = pc["Pressed", p]
      \/ PressedMove(pc["Pressed", p], pc'["Pressed", p])
  BY KindMoves
<1>3. pc["Pressed", p] # "idle" => at'["Pressed", p] = at["Pressed", p] BY DEF Constant
<1>4. modifier' = modifier BY DEF Constant, settings
<1>5. ASSUME hotkey'.held = hotkey.held, hotkey.held.id = p
      PROVE  /\ ~OvertakenByCombined(hotkey', p)
             /\ pc'["Pressed", p] \notin {"idle", "sent"}
             /\ hotkey'.held.at = at'["Pressed", p]
             /\ ~hotkey'.held.accepted =>
                   pc'["Pressed", p] = "done" /\ \A s \in DOMAIN opener' : opener'[s] # p
  <2>1. ~BeginCombined(p)
    <3>1. ASSUME BeginCombined(p) PROVE hotkey'.held.id = 0
      <4>1. CombinedEffect(p) BY <3>1, CombinedEffects
      <4>2. hotkey'.held = NotHeld BY <1>5, <4>1 DEF CombinedEffect
      <4> QED BY <4>2 DEF NotHeld
    <3> QED BY <1>5, <3>1, Numbers
  <2>2. ~OvertakenByCombined(hotkey', p) BY <1>0, <1>5, <2>1, Gains DEF HeldIs
  <2>3. pc["Pressed", p] \notin {"idle", "sent"} BY <1>0, <1>5 DEF HeldIs
  <2>4. pc'["Pressed", p] \notin {"idle", "sent"} BY <1>2, <2>3 DEF PressedMove
  <2>5. hotkey'.held.at = at'["Pressed", p] BY <1>0, <1>3, <1>5, <2>3 DEF HeldIs
  <2>6. ASSUME ~hotkey'.held.accepted
        PROVE  pc'["Pressed", p] = "done" /\ \A s \in DOMAIN opener' : opener'[s] # p
    <3>1. pc["Pressed", p] = "done" /\ \A s \in DOMAIN opener : opener[s] # p
      BY <1>0, <1>5, <2>6 DEF HeldIs
    <3>2. pc'["Pressed", p] = "done" BY <3>1, Begun
    <3>3. CASE NoneBegins BY <3>1, <3>2, <3>3 DEF NoneBegins
    <3>4. ASSUME Begins(0) PROVE \A s \in DOMAIN opener' : opener'[s] # p
      <4>1. /\ DOMAIN opener' = DOMAIN opener \cup {sid'} /\ opener'[sid'] = 0
            /\ \A s \in DOMAIN opener : opener'[s] = opener[s]
        BY <3>4, Appended
      <4> QED BY <3>1, <4>1, Numbers
    <3>5. ASSUME NEW q \in Press, Begins(q), pc'["Pressed", q] = "starting"
          PROVE  \A s \in DOMAIN opener' : opener'[s] # p
      BY <3>1, <3>2, <3>5, Appended
    <3> QED BY <3>2, <3>3, <3>4, <3>5 DEF Sessions, NoneBegins
  <2> QED BY <2>2, <2>4, <2>5, <2>6
<1>6. ASSUME PressedEffect(p), hotkey'.held.id = p
      PROVE  /\ ~OvertakenByCombined(hotkey', p)
             /\ pc'["Pressed", p] \notin {"idle", "sent"}
             /\ hotkey'.held.at = at'["Pressed", p]
             /\ ~hotkey'.held.accepted =>
                   pc'["Pressed", p] = "done" /\ \A s \in DOMAIN opener' : opener'[s] # p
  <2>1. /\ pc["Pressed", p] = "sent" /\ opener' = opener
        /\ hotkey'.held.at = at["Pressed", p] /\ ~OvertakenByCombined(hotkey', p)
        /\ hotkey'.held.accepted \/ pc'["Pressed", p] = "done"
        /\ pc'["Pressed", p] \in {"arm", "stop", "done"}
    BY <1>6 DEF PressedEffect, core
  <2>2. \A s \in DOMAIN opener' : opener'[s] # p BY <2>1 DEF StartsInv
  <2> QED BY <1>3, <2>1, <2>2
<1>7. ASSUME hotkey'.session = p
      PROVE  /\ pc'["Pressed", p] \notin {"idle", "sent", "grace"}
             /\ pc'["Pressed", p] = "arm" => ~modifier
  <2>1. CASE hotkey.session = p
    <3>1. pc["Pressed", p] \notin {"idle", "sent", "grace"} /\ (pc["Pressed", p] = "arm" => ~modifier)
      BY <1>0, <2>1 DEF HeldIs
    <3> QED BY <1>2, <3>1 DEF PressedMove
  <2>2. CASE PressedEffect(p) /\ hotkey.session # p
    BY <1>7, <2>2 DEF PressedEffect
  <2>3. CASE GraceEffect(p) /\ pc'["Pressed", p] # "done" BY <2>3 DEF GraceEffect
  <2> QED BY <1>7, <2>1, <2>2, <2>3, Gains
<1>8. hotkey'.held.id = p => \/ hotkey'.held = hotkey.held /\ hotkey.held.id = p
                             \/ PressedEffect(p)
  BY Gains
<1> QED BY <1>1, <1>4, <1>5, <1>6, <1>7, <1>8 DEF HeldIs, Chord

(* A stop and a cancellation are bound to no session before they look; a    *)
(* companion key cancels only a press that went on.                         *)
BoundIs(p) ==
    /\ pc["Released", p] \in {"idle", "sent", "stop"} => target["Released", p] = 0
    /\ pc["Pressed", p] = "abort" => Dispatched("Combined", p)
    /\ pc["Combined", p] \in {"cancel", "cancelling", "cleanup"} =>
          pc["Pressed", p] \notin {"idle", "sent"}

BoundInv == \A p \in Press : BoundIs(p)

LEMMA BoundStep ==
    ASSUME DispatchTypes, EdgeInv, HeldInv, BoundInv, Moves, Targets
    PROVE  BoundInv'
<1> SUFFICES ASSUME NEW p \in Press PROVE BoundIs(p)' BY DEF BoundInv
<1>0. HeldIs(p) /\ EdgeIs(p) /\ BoundIs(p) BY DEF HeldInv, EdgeInv, BoundInv
<1>1. \/ pc'["Pressed", p] = pc["Pressed", p]
      \/ PressedMove(pc["Pressed", p], pc'["Pressed", p]) /\ Moved("Pressed", p)
  BY KindMoves
<1>2. \/ pc'["Released", p] = pc["Released", p]
      \/ ReleasedMove(pc["Released", p], pc'["Released", p])
  BY KindMoves
<1>3. \/ pc'["Combined", p] = pc["Combined", p]
      \/ CombinedMove(pc["Combined", p], pc'["Combined", p])
  BY KindMoves
<1>4. pc'["Released", p] \in {"idle", "sent", "stop"} => target'["Released", p] = 0
  <2>1. \/ target'["Released", p] = target["Released", p]
        \/ target'["Released", p] = 0 /\ pc'["Released", p] = "done"
        \/ pc'["Released", p] \in {"waiting", "finishing", "cancelling", "cleanup"}
    BY Kinds DEF Targets
  <2> QED BY <1>0, <1>2, <2>1 DEF BoundIs, ReleasedMove
<1>5. ASSUME pc'["Pressed", p] = "abort" PROVE Dispatched("Combined", p)'
  <2>1. CASE pc["Pressed", p] = "abort" BY <1>0, <2>1, Begun, Kinds DEF BoundIs
  <2>2. CASE pc["Pressed", p] # "abort"
    <3>1. pc["Pressed", p] = "started" /\ Moved("Pressed", p) BY <1>1, <1>5, <2>2 DEF PressedMove
    <3>2. ASSUME NEW s \in DOMAIN opener, opener[s] = p, StartReturns(s) PROVE FALSE
      <4>1. PICK l \in {"started", "failed"} : Goto("Pressed", p, l)
        BY <3>2, Numbers DEF StartReturns
      <4>2. pc'["Pressed", p] = l BY <4>1, Kinds DEF Goto, DispatchTypes
      <4> QED BY <1>5, <4>2
    <3>3. FinishStart(p)
      BY <3>1, <3>2 DEF Moved, KeyDown, PressedStep, BeginPressed, MayBegin, Arm, Reserve,
                        GraceExpires, AbortStart, Stop, FinishStop, FinishCombo
    <3>4. Chord(p) BY <1>5, <3>3, FinishEffects
    <3> QED BY <1>0, <3>4, Begun, Kinds DEF HeldIs
  <2> QED BY <2>1, <2>2
<1>6. ASSUME pc'["Combined", p] \in {"cancel", "cancelling", "cleanup"}
      PROVE  pc'["Pressed", p] \notin {"idle", "sent"}
  <2>1. pc["Pressed", p] \notin {"idle", "sent"}
    <3>1. CASE pc["Combined", p] \in {"cancel", "cancelling", "cleanup"}
      BY <1>0, <3>1 DEF BoundIs
    <3>2. CASE pc["Combined", p] \notin {"cancel", "cancelling", "cleanup"}
      <4>1. pc["Combined", p] = "sent" /\ pc'["Combined", p] = "cancel"
        BY <1>3, <1>6, <3>2 DEF CombinedMove
      <4>2. BeginCombined(p) BY <4>1, Begun DEF Dispatched
      <4>3. hotkey.session = p BY <4>1, <4>2, CombinedEffects DEF CombinedEffect
      <4> QED BY <1>0, <4>3 DEF HeldIs
    <3> QED BY <3>1, <3>2
  <2> QED BY <1>1, <2>1 DEF PressedMove
<1> QED BY <1>4, <1>5, <1>6 DEF BoundIs

(* A start that failed left no session; while a press is being decided no   *)
(* session is open, unless the UI opened it.                                *)
OpenIs(p) ==
    /\ pc["Pressed", p] \in {"failed", "cleanup"} => ~Active(p)
    /\ NoUi /\ Deciding(p) => phase = "Idle"

OpenInv == \A p \in Press : OpenIs(p)

LEMMA OpenStep ==
    ASSUME DispatchTypes, StartsInv, EdgeInv, SerialInv, HeldInv, OpenInv, Moves, Sessions
    PROVE  OpenInv'
<1> SUFFICES ASSUME NEW p \in Press PROVE OpenIs(p)' BY DEF OpenInv
<1>0. OpenIs(p) BY DEF OpenInv
<1>1. \/ pc'["Pressed", p] = pc["Pressed", p]
      \/ PressedMove(pc["Pressed", p], pc'["Pressed", p]) /\ Moved("Pressed", p)
  BY KindMoves
<1>2. ASSUME pc'["Pressed", p] \in {"failed", "cleanup"}, Active(p)' PROVE FALSE
  <2>1. Active(p) /\ NoneBegins /\ sid' = sid BY <1>2, ActiveStays
  <2>2. sid # 0 /\ sid \in DOMAIN opener /\ opener[sid] = p
    BY <2>1 DEF Active, DispatchTypes
  <2>3. pc["Pressed", p] \notin {"failed", "cleanup"} BY <1>0, <2>1 DEF OpenIs
  <2>4. pc["Pressed", p] \notin {"reserve", "grace"} BY <2>2 DEF StartsInv
  <2>5. /\ Moved("Pressed", p)
        /\ \/ pc'["Pressed", p] = "failed" /\ pc["Pressed", p] = "starting"
           \/ pc'["Pressed", p] = "cleanup" /\ pc["Pressed", p] = "abort"
    BY <1>1, <1>2, <2>3, <2>4 DEF PressedMove
  <2>6. CASE pc["Pressed", p] = "starting"
    <3>1. PICK s \in DOMAIN opener : opener[s] = p /\ StartReturns(s)
      BY <2>5, <2>6 DEF Moved, KeyDown, PressedStep, BeginPressed, MayBegin, Arm, Reserve,
                        GraceExpires, FinishStart, AbortStart, Stop, FinishStop, FinishCombo
    <3>2. s = sid BY <2>2, <3>1, Numbers DEF StartsInv
    <3>3. s \in ready BY <3>1, <3>2 DEF StartReturns
    <3>4. Goto("Pressed", p, "started") BY <3>1, <3>3, Numbers DEF StartReturns
    <3>5. pc'["Pressed", p] = "started" BY <3>4, Kinds DEF Goto, DispatchTypes
    <3> QED BY <1>2, <3>5
  <2>7. CASE pc["Pressed", p] = "abort"
    <3>1. ASSUME NEW s \in DOMAIN opener, opener[s] = p, StartReturns(s) PROVE FALSE
      <4>1. PICK l \in {"started", "failed"} : Goto("Pressed", p, l)
        BY <3>1, Numbers DEF StartReturns
      <4>2. pc'["Pressed", p] = l BY <4>1, Kinds DEF Goto, DispatchTypes
      <4> QED BY <2>5, <2>7, <4>2
    <3>2. AbortStart(p)
      BY <2>5, <2>7, <3>1 DEF Moved, KeyDown, PressedStep, BeginPressed, MayBegin, Arm, Reserve,
                        GraceExpires, FinishStart, Stop, FinishStop, FinishCombo
    <3>3. sid' = 0 BY <2>2, <3>2 DEF AbortStart, CancelLogically
    <3> QED BY <2>1, <2>2, <3>3
  <2> QED BY <2>5, <2>6, <2>7
<1>3. ASSUME NoUi', Deciding(p)' PROVE phase' = "Idle"
  <2>1. NoUi /\ ~Begins(0) BY <1>3, UiStays
  <2>2. CASE Deciding(p)
    <3>1. phase = "Idle" /\ sid = 0 BY <1>0, <2>1, <2>2 DEF OpenIs, DispatchTypes
    <3>2. CASE NoneBegins BY <3>1, <3>2 DEF NoneBegins
    <3>3. ASSUME NEW q \in Press, Reserve(q) \/ GraceExpires(q), pc'["Pressed", q] = "starting"
          PROVE  FALSE
      <4>1. pc["Pressed", q] \in {"reserve", "grace"} BY <3>3 DEF Reserve, GraceExpires
      <4>2. q # p BY <1>3, <3>3 DEF Deciding
      <4> QED BY <2>2, <4>1, <4>2 DEF SerialInv, Dispatched, Deciding
    <3> QED BY <2>1, <3>2, <3>3 DEF Sessions
  <2>3. CASE ~Deciding(p)
    <3>1. pc["Pressed", p] = "sent" /\ pc'["Pressed", p] = "arm"
      BY <1>1, <1>3, <2>3 DEF Deciding, PressedMove
    <3>2. BeginPressed(p) BY <3>1, Begun DEF Dispatched
    <3> QED BY <3>1, <3>2, PressedEffects DEF PressedEffect, core
  <2> QED BY <2>2, <2>3
<1> QED BY <1>2, <1>3 DEF OpenIs

----------------------------------------------------------------------------
(* An edge of p can be remembered: there is room, or the marker that makes  *)
(* room for it is of a press that was decided.                              *)
Room(queue, p) ==
    \/ Contains(queue, p)
    \/ Len(queue) < MaxPending
    \/ pc["Pressed", Head(queue)] \notin {"sent", "arm", "reserve"}

RoomForMarkers ==
    \A p \in Press :
        /\ pc["Combined", p] = "sent" => Room(hotkey.pendingCombined, p)
        /\ pc["Released", p] = "sent" => Room(hotkey.pendingReleased, p)

LEMMA NotEvicted ==
    ASSUME NEW queue \in Seq(Press), NEW p \in Press, NEW r \in Press, Room(queue, p),
           Evicted(queue, p, r)
    PROVE  pc["Pressed", r] \notin {"sent", "arm", "reserve"}
<1>1. Len(queue) \in Nat /\ MaxPending \in Nat BY InterpreterAssumption
<1>2. ~(Len(queue) < MaxPending) /\ ~Contains(queue, p) /\ r = Head(queue)
  BY <1>1 DEF Evicted
<1> QED BY <1>2 DEF Room

(* A press that is yet to be decided keeps its markers until it takes them. *)
LEMMA MarkersKept ==
    ASSUME DispatchTypes, HeldInv, RoomForMarkers, Effects, NEW p \in Press,
           pc["Pressed", p] \in {"sent", "arm", "reserve"},
           ~(BeginPressed(p) /\ PressedEffect(p)), ~Drops(p)
    PROVE  /\ Chord(p) => OvertakenByCombined(hotkey', p)
           /\ KeyUpFirst(p) => OvertakenByReleased(hotkey', p)
<1>0. /\ hotkey \in Interpreter
      /\ hotkey.pendingCombined \in Seq(Press) /\ hotkey.pendingReleased \in Seq(Press)
  BY DEF DispatchTypes, Interpreter, Markers
<1>1. CASE UNCHANGED hotkey BY <1>1 DEF Chord, KeyUpFirst
<1>2. CASE ResetEffect BY <1>2 DEF ResetEffect
<1>3. ASSUME NEW q \in Press, q # p, TakesOnly(hotkey, hotkey', q)
      PROVE  /\ Chord(p) => OvertakenByCombined(hotkey', p)
             /\ KeyUpFirst(p) => OvertakenByReleased(hotkey', p)
  BY <1>3 DEF TakesOnly, Chord, KeyUpFirst
<1>4. ASSUME NEW q \in Press, ReleasedEffect(q)
      PROVE  /\ Chord(p) => OvertakenByCombined(hotkey', p)
             /\ KeyUpFirst(p) => OvertakenByReleased(hotkey', p)
  <2>1. Room(hotkey.pendingReleased, q) BY <1>4 DEF ReleasedEffect, RoomForMarkers
  <2>2. ~Evicted(hotkey.pendingReleased, q, p) BY <1>0, <2>1, NotEvicted
  <2>3. Chord(p) => hotkey.held.id # p BY DEF HeldInv, HeldIs
  <2> QED BY <1>4, <2>2, <2>3 DEF ReleasedEffect
<1>5. ASSUME NEW q \in Press, CombinedEffect(q)
      PROVE  /\ Chord(p) => OvertakenByCombined(hotkey', p)
             /\ KeyUpFirst(p) => OvertakenByReleased(hotkey', p)
  <2>1. Room(hotkey.pendingCombined, q) BY <1>5 DEF CombinedEffect, RoomForMarkers
  <2>2. ~Evicted(hotkey.pendingCombined, q, p) BY <1>0, <2>1, NotEvicted
  <2> QED BY <1>5, <2>2 DEF CombinedEffect
<1>6. ASSUME NEW q \in Press, PressedEffect(q), BeginPressed(q)
      PROVE  q # p /\ TakesOnly(hotkey, hotkey', q)
  BY <1>6 DEF PressedEffect
<1>7. ASSUME NEW q \in Press, GraceEffect(q) PROVE q # p /\ TakesOnly(hotkey, hotkey', q)
  BY <1>7 DEF GraceEffect
<1>8. ASSUME NEW q \in Press, FinishEffect(q) PROVE q # p /\ TakesOnly(hotkey, hotkey', q)
  BY <1>8 DEF FinishEffect, SettleEffect
<1>9. ASSUME NEW q \in Press, Drops(q) PROVE q # p /\ TakesOnly(hotkey, hotkey', q)
  BY <1>9 DEF Drops, SettleEffect
<1> QED BY <1>1, <1>2, <1>3, <1>4, <1>5, <1>6, <1>7, <1>8, <1>9 DEF Effects

(* What a press needs to start: a bare modifier is held, another key owns   *)
(* the session already.                                                     *)
Given(p) == IF modifier THEN hotkey.held.id = p ELSE hotkey.session = p

LEMMA GivenStays ==
    ASSUME DispatchTypes, EdgeInv, Constant, Effects, NEW p \in Press, Deciding(p), Given(p)'
    PROVE  Given(p)
<1>0. modifier' = modifier BY DEF Constant, settings
<1>1. ~PressedEffect(p) BY DEF PressedEffect, Deciding
<1>2. GraceEffect(p) => modifier BY DEF GraceEffect, EdgeInv, EdgeIs
<1> QED BY <1>0, <1>1, <1>2, Gains DEF Given

LEMMA DecidesNow ==
    ASSUME DispatchTypes, EdgeInv, HeldInv, Moves, NEW p \in Press, Deciding(p)', ~Deciding(p)
    PROVE  pc["Pressed", p] = "sent" /\ BeginPressed(p) /\ PressedEffect(p)
           /\ pc'["Pressed", p] = "arm"
<1>1. \/ pc'["Pressed", p] = pc["Pressed", p]
      \/ PressedMove(pc["Pressed", p], pc'["Pressed", p])
  BY KindMoves
<1>2. pc["Pressed", p] = "sent" /\ pc'["Pressed", p] = "arm"
  BY <1>1 DEF Deciding, PressedMove
<1>3. BeginPressed(p) BY <1>2, Begun DEF Dispatched
<1> QED BY <1>2, <1>3, PressedEffects

LEMMA StillSent ==
    ASSUME EdgeInv, Moves, NEW p \in Press, pc'["Pressed", p] = "sent"
    PROVE  \/ pc["Pressed", p] = "sent"
           \/ ~Dispatched("Combined", p) /\ ~Dispatched("Released", p)
<1>1. \/ pc'["Pressed", p] = pc["Pressed", p]
      \/ PressedMove(pc["Pressed", p], pc'["Pressed", p])
  BY KindMoves
<1>2. EdgeIs(p) BY DEF EdgeInv
<1> QED BY <1>1, <1>2 DEF PressedMove, EdgeIs, Dispatched

(* After a companion key was dispatched its press is not given a start.     *)
CompanionIs(p) ==
    Dispatched("Combined", p) =>
        /\ pc["Pressed", p] = "sent" => Chord(p)
        /\ Deciding(p) => ~Given(p) \/ (~modifier /\ Chord(p))

CompanionInv == \A p \in Press : CompanionIs(p)

LEMMA CompanionInvStep ==
    ASSUME DispatchTypes, EdgeInv, HeldInv, BoundInv, CompanionInv, RoomForMarkers,
           Moves, Constant, Effects
    PROVE  CompanionInv'
<1> SUFFICES ASSUME NEW p \in Press, Dispatched("Combined", p)'
             PROVE  /\ pc'["Pressed", p] = "sent" => OvertakenByCombined(hotkey', p)
                    /\ Deciding(p)' => ~Given(p)' \/ (~modifier' /\ OvertakenByCombined(hotkey', p))
  BY DEF CompanionInv, CompanionIs, Chord
<1>0. modifier' = modifier BY DEF Constant, settings
<1>1. ASSUME BeginCombined(p)
      PROVE  OvertakenByCombined(hotkey', p) /\ (modifier => ~Given(p)')
  <2>1. CombinedEffect(p) BY <1>1, CombinedEffects
  <2>2. p # 0 /\ NotHeld.id = 0 BY Numbers DEF NotHeld
  <2> QED BY <1>0, <2>1, <2>2 DEF CombinedEffect, Given
<1>2. CASE ~Dispatched("Combined", p)
  <2>1. BeginCombined(p) BY <1>2, Begun
  <2> QED BY <1>0, <1>1, <2>1
<1>3. CASE Dispatched("Combined", p)
  <2>0. /\ CompanionIs(p) /\ BoundIs(p) /\ EdgeIs(p)
    BY DEF CompanionInv, BoundInv, EdgeInv
  <2>1. ASSUME pc'["Pressed", p] = "sent" PROVE OvertakenByCombined(hotkey', p)
    <3>1. pc["Pressed", p] = "sent" BY <1>3, <2>1, StillSent
    <3>2. Chord(p) BY <1>3, <2>0, <3>1 DEF CompanionIs
    <3>3. ~PressedEffect(p) BY <2>1 DEF PressedEffect
    <3>4. ~Drops(p) BY <2>0, <3>1 DEF Drops, BoundIs
    <3> QED BY <3>1, <3>2, <3>3, <3>4, MarkersKept
  <2>2. ASSUME Deciding(p)', Given(p)' PROVE ~modifier' /\ OvertakenByCombined(hotkey', p)
    <3>1. Deciding(p)
      <4>1. ASSUME ~Deciding(p) PROVE FALSE
        <5>1. pc["Pressed", p] = "sent" /\ PressedEffect(p) /\ pc'["Pressed", p] = "arm"
          BY <2>2, <4>1, DecidesNow
        <5> QED BY <1>3, <2>0, <5>1 DEF CompanionIs, PressedEffect
      <4> QED BY <4>1
    <3>2. Given(p) BY <2>2, <3>1, GivenStays
    <3>3. ~modifier /\ Chord(p) BY <1>3, <2>0, <3>1, <3>2 DEF CompanionIs
    <3>4. pc["Pressed", p] \in {"arm", "reserve"} BY <2>0, <3>1, <3>3 DEF Deciding, EdgeIs
    <3>5. ~PressedEffect(p) BY <3>4 DEF PressedEffect
    <3>6. ~Drops(p) BY <1>0, <2>2, <3>3 DEF Drops, Given
    <3> QED BY <1>0, <3>3, <3>4, <3>5, <3>6, MarkersKept
  <2> QED BY <2>1, <2>2
<1> QED BY <1>2, <1>3

(* Neither is, in hold mode, one whose key-up was dispatched.               *)
ReleaseIs(p) ==
    mode = "Hold" /\ Dispatched("Released", p) =>
        /\ pc["Pressed", p] = "sent" => KeyUpFirst(p)
        /\ NoUi /\ Deciding(p) => ~Given(p) \/ (~modifier /\ KeyUpFirst(p))

ReleaseInv == \A p \in Press : ReleaseIs(p)

LEMMA ReleaseInvStep ==
    ASSUME DispatchTypes, EdgeInv, HeldInv, BoundInv, OpenInv, ReleaseInv, RoomForMarkers,
           Moves, Sessions, Constant, Effects
    PROVE  ReleaseInv'
<1> SUFFICES ASSUME NEW p \in Press, mode' = "Hold", Dispatched("Released", p)'
             PROVE  /\ pc'["Pressed", p] = "sent" => OvertakenByReleased(hotkey', p)
                    /\ NoUi' /\ Deciding(p)' =>
                          ~Given(p)' \/ (~modifier' /\ OvertakenByReleased(hotkey', p))
  BY DEF ReleaseInv, ReleaseIs, KeyUpFirst
<1>0. modifier' = modifier /\ mode = "Hold" BY DEF Constant, settings
<1>1. HeldIs(p) /\ BoundIs(p) /\ EdgeIs(p) /\ OpenIs(p) /\ ReleaseIs(p) /\ p # 0
  BY Numbers DEF HeldInv, BoundInv, EdgeInv, OpenInv, ReleaseInv
<1>2. CASE ~Dispatched("Released", p)
  <2>1. BeginReleased(p) BY <1>2, Begun
  <2>2. ReleasedEffect(p) BY <2>1, ReleasedEffects
  <2>3. pc'["Pressed", p] = pc["Pressed", p]
    <3>1. PICK l \in {"stop", "done"} : Goto("Released", p, l) BY <2>1 DEF BeginReleased
    <3> QED BY <3>1, Kinds DEF Goto, DispatchTypes
  <2>4. ASSUME pc["Pressed", p] = "sent" PROVE OvertakenByReleased(hotkey', p)
    <3>1. hotkey.held.id # p /\ ~Stoppable(hotkey, p, phase)
      BY <1>1, <2>4 DEF HeldIs, Stoppable
    <3> QED BY <1>0, <2>2, <3>1 DEF ReleasedEffect
  <2>5. ASSUME NoUi', Deciding(p), Given(p)' PROVE ~modifier' /\ OvertakenByReleased(hotkey', p)
    <3>1. phase = "Idle" BY <1>1, <2>5, UiStays DEF OpenIs
    <3>2. ~Stoppable(hotkey, p, phase) BY <3>1 DEF Stoppable
    <3>3. CASE hotkey.held.id = p
      <4>1. hotkey.held.accepted /\ ~Chord(p)
        BY <1>1, <2>5, <3>3 DEF HeldIs, Deciding
      <4>2. hotkey'.held = NotHeld BY <2>2, <3>3 DEF ReleasedEffect
      <4>3. hotkey'.session # p BY <1>0, <1>1, <2>2, <3>2, <3>3, <4>1 DEF ReleasedEffect
      <4>4. hotkey'.held.id # p BY <1>1, <4>2 DEF NotHeld
      <4> QED BY <2>5, <4>3, <4>4 DEF Given
    <3>4. CASE hotkey.held.id # p
      <4>1. OvertakenByReleased(hotkey', p) BY <1>0, <2>2, <3>2, <3>4 DEF ReleasedEffect
      <4>2. hotkey'.held = hotkey.held BY <2>2, <3>4 DEF ReleasedEffect
      <4> QED BY <2>5, <3>4, <4>1, <4>2 DEF Given
    <3> QED BY <3>3, <3>4
  <2> QED BY <2>3, <2>4, <2>5 DEF Deciding
<1>3. CASE Dispatched("Released", p)
  <2>1. ASSUME pc'["Pressed", p] = "sent" PROVE OvertakenByReleased(hotkey', p)
    <3>1. pc["Pressed", p] = "sent" BY <1>3, <2>1, StillSent
    <3>2. KeyUpFirst(p) BY <1>0, <1>1, <1>3, <3>1 DEF ReleaseIs
    <3>3. ~PressedEffect(p) BY <2>1 DEF PressedEffect
    <3>4. ~Drops(p) BY <1>1, <3>1 DEF Drops, BoundIs
    <3> QED BY <3>1, <3>2, <3>3, <3>4, MarkersKept
  <2>2. ASSUME NoUi', Deciding(p)', Given(p)'
        PROVE  ~modifier' /\ OvertakenByReleased(hotkey', p)
    <3>1. Deciding(p)
      <4>1. ASSUME ~Deciding(p) PROVE FALSE
        <5>1. pc["Pressed", p] = "sent" /\ PressedEffect(p) /\ pc'["Pressed", p] = "arm"
          BY <2>2, <4>1, DecidesNow
        <5> QED BY <1>0, <1>1, <1>3, <5>1 DEF ReleaseIs, PressedEffect
      <4> QED BY <4>1
    <3>2. Given(p) /\ NoUi BY <2>2, <3>1, GivenStays, UiStays
    <3>3. ~modifier /\ KeyUpFirst(p) BY <1>0, <1>1, <1>3, <3>1, <3>2 DEF ReleaseIs
    <3>4. pc["Pressed", p] \in {"arm", "reserve"} BY <1>1, <3>1, <3>3 DEF Deciding, EdgeIs
    <3>5. ~PressedEffect(p) BY <3>4 DEF PressedEffect
    <3>6. ~Drops(p) BY <1>0, <2>2, <3>3 DEF Drops, Given
    <3> QED BY <1>0, <3>3, <3>4, <3>5, <3>6, MarkersKept
  <2> QED BY <2>1, <2>2
<1> QED BY <1>2, <1>3

(* A press that is given a start came after the cooldown.                   *)
CoolIs(p) == Deciding(p) /\ Given(p) => at["Pressed", p] >= hotkey.cooldown

CoolInv == \A p \in Press : CoolIs(p)

LEMMA CoolStep ==
    ASSUME DispatchTypes, EdgeInv, HeldInv, CoolInv, Moves, Constant, Effects
    PROVE  CoolInv'
<1> SUFFICES ASSUME NEW p \in Press, Deciding(p)', Given(p)'
             PROVE  at'["Pressed", p] >= hotkey'.cooldown
  BY DEF CoolInv, CoolIs
<1>0. PICK t \in Nat : t = at["Pressed", p] BY DEF DispatchTypes
<1>1. pc["Pressed", p] # "idle" => at'["Pressed", p] = at["Pressed", p] BY DEF Constant
<1>2. CASE Deciding(p)
  <2>1. Given(p) BY <1>2, GivenStays
  <2>2. at["Pressed", p] >= hotkey.cooldown BY <1>2, <2>1 DEF CoolInv, CoolIs
  <2>3. ~ResetEffect
    BY Numbers DEF ResetEffect, Given
  <2>4. hotkey'.cooldown \in {hotkey.cooldown, 0} BY <2>3, Gains
  <2>5. at'["Pressed", p] = t BY <1>0, <1>1, <1>2 DEF Deciding
  <2>6. CASE hotkey'.cooldown = hotkey.cooldown BY <1>0, <2>2, <2>5, <2>6
  <2>7. CASE hotkey'.cooldown = 0
    <3>1. t >= 0 OBVIOUS
    <3> QED BY <2>5, <2>7, <3>1
  <2> QED BY <2>4, <2>6, <2>7
<1>3. CASE ~Deciding(p)
  <2>1. pc["Pressed", p] = "sent" /\ PressedEffect(p) /\ pc'["Pressed", p] = "arm"
    BY <1>3, DecidesNow
  <2> QED BY <1>1, <2>1 DEF PressedEffect
<1> QED BY <1>2, <1>3

----------------------------------------------------------------------------
(* How a session of press p begins.                                         *)
LEMMA Beginning ==
    ASSUME DispatchTypes, EdgeInv, NEW p \in Press,
           Reserve(p) \/ GraceExpires(p), pc'["Pressed", p] = "starting"
    PROVE  /\ Deciding(p) /\ Given(p) /\ phase = "Idle"
           /\ ~modifier => ~Chord(p) /\ ~KeyUpFirst(p)
           /\ hotkey'.session = p /\ hotkey'.held = hotkey.held
<1>1. CASE Reserve(p)
  <2>1. pc["Pressed", p] = "reserve" /\ hotkey.session = p /\ UNCHANGED hotkey
        /\ ~Chord(p) /\ ~KeyUpFirst(p)
    BY <1>1, ReserveEffects
  <2>2. ~modifier BY <2>1 DEF EdgeInv, EdgeIs
  <2>3. sid = 0
    <3>1. CASE CanReserve BY <3>1 DEF CanReserve
    <3>2. CASE ~CanReserve
      <4>1. Goto("Pressed", p, "failed") \/ Goto("Pressed", p, "cleanup")
        BY <1>1, <3>2 DEF Reserve, ReserveFor
      <4>2. pc'["Pressed", p] \in {"failed", "cleanup"}
        BY <4>1, Kinds DEF Goto, DispatchTypes
      <4> QED BY <4>2
    <3> QED BY <3>1, <3>2
  <2> QED BY <2>1, <2>2, <2>3 DEF Deciding, Given, DispatchTypes
<1>2. CASE GraceExpires(p)
  <2>1. GraceEffect(p) BY <1>2, GraceEffects
  <2>2. modifier BY <2>1 DEF GraceEffect, EdgeInv, EdgeIs
  <2> QED BY <2>1, <2>2 DEF GraceEffect, Deciding, Given
<1> QED BY <1>1, <1>2

(* An active session is owned by the interpreter, or about to be aborted; a *)
(* companion key that was dispatched is about to cancel it.                 *)
OwnIs(p) ==
    Active(p) =>
        /\ hotkey.session = p \/ pc["Pressed", p] = "abort"
        /\ Dispatched("Combined", p) =>
              \/ pc["Combined", p] = "cancel"
              \/ pc["Combined", p] = "cancelling" /\ target["Combined", p] = sid

OwnInv == \A p \in Press : OwnIs(p)

(* What may take the session from the press that has it.                    *)
LEMMA Loses ==
    ASSUME DispatchTypes, Effects, NEW p \in Press, hotkey.session = p, hotkey'.session # p
    PROVE  \/ phase \in {"Idle", "Finalizing"}
           \/ FinishStart(p) /\ FinishEffect(p)
           \/ ReleasedEffect(p) /\ ~Stoppable(hotkey, p, phase)
           \/ Drops(p)
<1>0. p # 0 BY Numbers
<1>1. CASE UNCHANGED hotkey BY <1>1
<1>2. CASE ResetEffect BY <1>2 DEF ResetEffect
<1>3. ASSUME NEW q \in Press, PressedEffect(q) PROVE phase = "Idle"
  BY <1>3 DEF PressedEffect
<1>4. ASSUME NEW q \in Press, ReleasedEffect(q) PROVE q = p /\ ~Stoppable(hotkey, p, phase)
  BY <1>4 DEF ReleasedEffect
<1>5. ASSUME NEW q \in Press, CombinedEffect(q) PROVE FALSE
  BY <1>5 DEF CombinedEffect
<1>6. ASSUME NEW q \in Press, GraceEffect(q) PROVE phase = "Idle"
  BY <1>6 DEF GraceEffect
<1>7. ASSUME NEW q \in Press, SettleEffect(q) PROVE q = p
  BY <1>7 DEF SettleEffect
<1> QED BY <1>1, <1>2, <1>3, <1>4, <1>5, <1>6, <1>7 DEF Effects, FinishEffect, Drops

(* The cancellation of a companion key, step by step.                       *)
LEMMA CombinedGoes ==
    ASSUME DispatchTypes, Moves, Targets, NEW p \in Press, sid # 0, sid' = sid,
           pc["Combined", p] = "cancel" \/ (pc["Combined", p] = "cancelling"
                                            /\ target["Combined", p] = sid)
    PROVE  pc'["Combined", p] = "cancel" \/ (pc'["Combined", p] = "cancelling"
                                             /\ target'["Combined", p] = sid)
<1>1. \/ pc'["Combined", p] = pc["Combined", p]
      \/ CombinedMove(pc["Combined", p], pc'["Combined", p]) /\ Moved("Combined", p)
  BY KindMoves
<1>2. \/ target'["Combined", p] = target["Combined", p]
      \/ target'["Combined", p] = 0 /\ pc'["Combined", p] = "done"
      \/ target'["Combined", p] = sid
  BY Kinds DEF Targets
<1>3. CASE pc'["Combined", p] = pc["Combined", p] BY <1>2, <1>3
<1>4. CASE pc'["Combined", p] # pc["Combined", p] /\ pc["Combined", p] = "cancel"
  <2>1. SnapshotCombined(p)
    BY <1>1, <1>4 DEF Moved, Companion, CombinedStep, BeginCombined, MayBegin, CancelCombined,
                      FinishCombo
  <2>2. /\ target' = [target EXCEPT ![<<"Combined", p>>] = sid]
        /\ Goto("Combined", p, "cancelling")
    BY <1>4, <2>1 DEF SnapshotCombined
  <2> QED BY <2>2, Kinds DEF Goto, DispatchTypes
<1>5. CASE pc'["Combined", p] # pc["Combined", p] /\ pc["Combined", p] = "cancelling"
  <2>1. CancelCombined(p)
    BY <1>1, <1>5 DEF Moved, Companion, CombinedStep, BeginCombined, MayBegin, SnapshotCombined,
                      FinishCombo
  <2>2. sid' = 0 BY <1>5, <2>1 DEF CancelCombined, CancelLogically
  <2> QED BY <2>2
<1> QED BY <1>3, <1>4, <1>5

LEMMA OwnStep ==
    ASSUME DispatchTypes, StartsInv, EdgeInv, HeldInv, BoundInv, OpenInv, CompanionInv, OwnInv,
           Moves, Sessions, Targets, Effects
    PROVE  OwnInv'
<1> SUFFICES ASSUME NEW p \in Press, Active(p)'
             PROVE  /\ hotkey'.session = p \/ pc'["Pressed", p] = "abort"
                    /\ Dispatched("Combined", p)' =>
                          \/ pc'["Combined", p] = "cancel"
                          \/ pc'["Combined", p] = "cancelling" /\ target'["Combined", p] = sid'
  BY DEF OwnInv, OwnIs
<1>0. HeldIs(p) /\ BoundIs(p) /\ OpenIs(p) /\ CompanionIs(p) /\ OwnIs(p)
  BY DEF HeldInv, BoundInv, OpenInv, CompanionInv, OwnInv
<1>1. CASE Begins(p) /\ (Reserve(p) \/ GraceExpires(p)) /\ pc'["Pressed", p] = "starting"
  <2>1. /\ Deciding(p) /\ Given(p) /\ hotkey'.session = p
        /\ ~modifier => ~Chord(p)
    BY <1>1, Beginning
  <2>2. ~Dispatched("Combined", p) BY <1>0, <2>1 DEF CompanionIs
  <2>3. ~BeginCombined(p)
    <3>1. ASSUME BeginCombined(p) PROVE FALSE
      <4>1. opener' = opener BY <3>1, CombinedEffects DEF CombinedEffect, core
      <4> QED BY <1>1, <4>1, Appended
    <3> QED BY <3>1
  <2>4. ~Dispatched("Combined", p)' BY <2>2, <2>3, Begun
  <2> QED BY <2>1, <2>4
<1>2. CASE Active(p) /\ NoneBegins /\ sid' = sid
  <2>0. phase \in {"Starting", "Recording"} /\ sid # 0 /\ opener[sid] = p
    BY <1>2 DEF Active, DispatchTypes
  <2>1. \/ pc'["Pressed", p] = pc["Pressed", p]
        \/ PressedMove(pc["Pressed", p], pc'["Pressed", p]) /\ Moved("Pressed", p)
    BY KindMoves
  <2>2. ~Drops(p)
    <3>1. pc["Pressed", p] # "cleanup" BY <1>0, <1>2 DEF OpenIs
    <3>2. pc["Combined", p] # "cleanup" BY <1>0, <1>2 DEF OwnIs, Dispatched
    <3>3. sid \in DOMAIN opener BY <2>0 DEF DispatchTypes
    <3>4. pc["Pressed", p] # "reserve" BY <2>0, <3>3 DEF StartsInv
    <3> QED BY <3>1, <3>2, <3>4 DEF Drops
  <2>3. hotkey'.session = p \/ pc'["Pressed", p] = "abort"
    <3>1. CASE hotkey.session = p /\ hotkey'.session # p
      <4>1. Stoppable(hotkey, p, phase) BY <2>0, <3>1 DEF Stoppable
      <4>2. FinishEffect(p) BY <2>0, <2>2, <3>1, <4>1, Loses
      <4>3. pc["Pressed", p] # "failed" BY <1>0, <1>2 DEF OpenIs
      <4>4. Chord(p) /\ pc["Pressed", p] = "started" BY <3>1, <4>2, <4>3 DEF FinishEffect
      <4> QED BY <4>2, <4>4 DEF FinishEffect
    <3>2. CASE hotkey.session # p
      <4>1. pc["Pressed", p] = "abort" BY <1>0, <1>2, <3>2 DEF OwnIs
      <4>2. ASSUME pc'["Pressed", p] # "abort" PROVE FALSE
        <5>1. Moved("Pressed", p) BY <2>1, <4>1, <4>2
        <5>2. PressedMove("abort", pc'["Pressed", p]) BY <2>1, <4>1, <4>2
        <5>3. ASSUME NEW s \in DOMAIN opener, opener[s] = p, StartReturns(s) PROVE FALSE
          <6>1. PICK l \in {"started", "failed"} : Goto("Pressed", p, l)
            BY <5>3, Numbers DEF StartReturns
          <6>2. pc'["Pressed", p] = l BY <6>1, Kinds DEF Goto, DispatchTypes
          <6> QED BY <5>2, <6>2 DEF PressedMove
        <5>4. AbortStart(p)
          BY <4>1, <5>1, <5>3 DEF Moved, KeyDown, PressedStep, BeginPressed, MayBegin, Arm,
                        Reserve, GraceExpires, FinishStart, Stop, FinishStop, FinishCombo
        <5>5. sid' = 0 BY <2>0, <5>4 DEF AbortStart, CancelLogically
        <5> QED BY <1>2, <2>0, <5>5
      <4> QED BY <4>2
    <3> QED BY <3>1, <3>2
  <2>4. ASSUME Dispatched("Combined", p)'
        PROVE  \/ pc'["Combined", p] = "cancel"
               \/ pc'["Combined", p] = "cancelling" /\ target'["Combined", p] = sid'
    <3>1. CASE Dispatched("Combined", p)
      <4>1. \/ pc["Combined", p] = "cancel"
            \/ pc["Combined", p] = "cancelling" /\ target["Combined", p] = sid
        BY <1>0, <1>2, <3>1 DEF OwnIs
      <4> QED BY <1>2, <2>0, <4>1, CombinedGoes
    <3>2. CASE ~Dispatched("Combined", p)
      <4>1. CombinedEffect(p) BY <2>4, <3>2, Begun, CombinedEffects
      <4>2. pc["Pressed", p] # "abort" BY <1>0, <3>2 DEF BoundIs
      <4>3. hotkey.session = p BY <1>0, <1>2, <4>2 DEF OwnIs
      <4> QED BY <4>1, <4>3 DEF CombinedEffect
    <3> QED BY <3>1, <3>2
  <2> QED BY <2>3, <2>4
<1> QED BY <1>1, <1>2, ActiveStays

(* Unless the key is held to talk, a press that is being decided or whose   *)
(* session is active is held until an edge that follows it is dispatched.   *)
HoldIs(p) ==
    /\ mode # "Hold" /\ NoUi /\ (Deciding(p) \/ Active(p))
    /\ ~Dispatched("Combined", p) /\ pc["Released", p] \in {"idle", "sent"}
    => hotkey.held.id = p

HoldInv == \A p \in Press : HoldIs(p)

LEMMA HoldStep ==
    ASSUME DispatchTypes, StartsInv, EdgeInv, SerialInv, HeldInv, BoundInv, OpenInv, OwnInv, HoldInv,
           Moves, Sessions, Constant, Effects
    PROVE  HoldInv'
<1> SUFFICES ASSUME NEW p \in Press, mode' # "Hold", NoUi', (Deciding(p) \/ Active(p))',
                    ~Dispatched("Combined", p)', pc'["Released", p] \in {"idle", "sent"}
             PROVE  hotkey'.held.id = p
  BY DEF HoldInv, HoldIs
<1>0. /\ HeldIs(p) /\ BoundIs(p) /\ OpenIs(p) /\ OwnIs(p) /\ HoldIs(p) /\ EdgeIs(p)
      /\ p # 0
  BY Numbers DEF HeldInv, BoundInv, OpenInv, OwnInv, HoldInv, EdgeInv
<1>1. mode # "Hold" /\ NoUi BY UiStays DEF Constant, settings
<1>2. ~Dispatched("Combined", p) BY Begun, Kinds
<1>3. pc["Released", p] \in {"idle", "sent"}
  <2>1. \/ pc'["Released", p] = pc["Released", p]
        \/ ReleasedMove(pc["Released", p], pc'["Released", p])
    BY KindMoves
  <2> QED BY <2>1 DEF ReleasedMove
<1>4. CASE Deciding(p)' /\ ~Deciding(p)
  <2>1. PressedEffect(p) /\ pc'["Pressed", p] = "arm" BY <1>4, DecidesNow
  <2> QED BY <2>1 DEF PressedEffect
<1>5. CASE Deciding(p) \/ Active(p)
  <2>0. hotkey.held.id = p BY <1>0, <1>1, <1>2, <1>3, <1>5 DEF HoldIs
  <2>1. CASE UNCHANGED hotkey BY <2>0, <2>1
  <2>2. ASSUME ResetEffect PROVE FALSE
    <3>1. phase = "Finalizing" /\ phase' = "Idle" BY <2>2 DEF ResetEffect
    <3>2. Deciding(p) BY <1>5, <3>1 DEF Active
    <3> QED BY <1>0, <1>1, <3>1, <3>2 DEF OpenIs
  <2>3. ASSUME NEW q \in Press, BeginPressed(q), PressedEffect(q) PROVE FALSE
    <3>1. pc["Pressed", q] = "sent" /\ MayBegin("Pressed", q)
      BY <2>3 DEF PressedEffect, BeginPressed
    <3>2. Dispatched("Pressed", p) BY <1>0, <2>0 DEF HeldIs, EdgeIs, Dispatched
    <3>3. q # p BY <3>1, <3>2 DEF Dispatched
    <3>5. CASE q < p BY <1>1, <3>1, <3>2, <3>5 DEF SerialInv
    <3>6. CASE p < q BY <1>1, <1>3, <3>1, <3>6 DEF MayBegin, Ended
    <3>7. q < p \/ p < q BY <3>3, InOrder
    <3> QED BY <3>5, <3>6, <3>7
  <2>4. ASSUME NEW q \in Press, BeginReleased(q), ReleasedEffect(q) PROVE hotkey'.held.id = p
    <3>1. q # p
      <4>1. ASSUME q = p PROVE FALSE
        <5>1. pc'["Released", p] \in {"stop", "done"} BY <2>4, <4>1 DEF ReleasedEffect
        <5> QED BY <5>1
      <4> QED BY <4>1
    <3> QED BY <2>0, <2>4, <3>1 DEF ReleasedEffect
  <2>5. ASSUME NEW q \in Press, BeginCombined(q), CombinedEffect(q) PROVE hotkey'.held.id = p
    <3>1. q # p
      <4>1. ASSUME q = p PROVE FALSE
        <5>1. pc'["Combined", p] \in {"cancel", "discard"} BY <2>5, <4>1 DEF CombinedEffect
        <5> QED BY <5>1 DEF Dispatched
      <4> QED BY <4>1
    <3> QED BY <2>0, <2>5, <3>1 DEF CombinedEffect
  <2>6. ASSUME NEW q \in Press, GraceExpires(q), GraceEffect(q) PROVE hotkey'.held.id = p
    <3>1. CASE hotkey'.held = hotkey.held BY <2>0, <3>1
    <3>2. CASE hotkey'.held # hotkey.held
      <4>1. pc["Pressed", q] = "grace" /\ pc'["Pressed", q] = "done" BY <2>6, <3>2 DEF GraceEffect
      <4>2. CASE q = p
        <5>1. ~Deciding(p)' BY <4>1, <4>2 DEF Deciding
        <5>2. Active(p)' BY <5>1
        <5>3. Active(p) BY <4>1, <4>2, <5>2, ActiveStays
        <5>4. sid \in DOMAIN opener /\ opener[sid] = p BY <5>3 DEF Active, DispatchTypes
        <5> QED BY <4>1, <4>2, <5>4 DEF StartsInv
      <4>3. CASE q # p BY <2>0, <2>6, <3>2, <4>3 DEF GraceEffect
      <4> QED BY <4>2, <4>3
    <3> QED BY <3>1, <3>2
  <2>7. ASSUME NEW q \in Press, FinishEffect(q) PROVE hotkey'.held.id = p
    BY <2>0, <2>7 DEF FinishEffect
  <2>8. ASSUME NEW q \in Press, Drops(q) PROVE hotkey'.held.id = p
    <3>1. CASE q # p BY <2>0, <2>8, <3>1 DEF Drops, SettleEffect
    <3>2. CASE q = p
      <4>1. ~(pc["Combined", p] = "cleanup") BY <1>2 DEF Dispatched
      <4>2. CASE pc["Pressed", p] = "cleanup"
        BY <1>0, <1>5, <4>2 DEF OpenIs, Deciding
      <4>3. CASE pc["Pressed", p] = "reserve" /\ pc'["Pressed", p] = "done"
        <5>1. Active(p)' BY <4>3 DEF Deciding
        <5>2. Active(p) BY <4>3, <5>1, ActiveStays
        <5>3. sid \in DOMAIN opener /\ opener[sid] = p BY <5>2 DEF Active, DispatchTypes
        <5> QED BY <4>3, <5>3 DEF StartsInv
      <4> QED BY <2>8, <3>2, <4>1, <4>2, <4>3 DEF Drops
    <3> QED BY <3>1, <3>2
  <2> QED BY <2>1, <2>2, <2>3, <2>4, <2>5, <2>6, <2>7, <2>8 DEF Effects
<1>6. Active(p)' => Active(p) \/ Deciding(p)
  <2>1. ASSUME Reserve(p) \/ GraceExpires(p) PROVE Deciding(p)
    BY <2>1 DEF Reserve, GraceExpires, Deciding
  <2> QED BY <2>1, ActiveStays
<1> QED BY <1>4, <1>5, <1>6

----------------------------------------------------------------------------
(* A press whose start is about to be aborted stays there until its session *)
(* is gone.                                                                 *)
LEMMA AbortGoes ==
    ASSUME DispatchTypes, Moves, NEW p \in Press, pc["Pressed", p] = "abort", Active(p),
           sid' = sid
    PROVE  pc'["Pressed", p] = "abort"
<1>0. sid # 0 /\ opener[sid] = p BY DEF Active, DispatchTypes
<1> SUFFICES ASSUME pc'["Pressed", p] # "abort" PROVE FALSE OBVIOUS
<1>1. Moved("Pressed", p) /\ PressedMove("abort", pc'["Pressed", p]) BY KindMoves
<1>2. ASSUME NEW s \in DOMAIN opener, opener[s] = p, StartReturns(s) PROVE FALSE
  <2>1. PICK l \in {"started", "failed"} : Goto("Pressed", p, l)
    BY <1>2, Numbers DEF StartReturns
  <2>2. pc'["Pressed", p] = l BY <2>1, Kinds DEF Goto, DispatchTypes
  <2> QED BY <1>1, <2>2 DEF PressedMove
<1>3. AbortStart(p)
  BY <1>1, <1>2 DEF Moved, KeyDown, PressedStep, BeginPressed, MayBegin, Arm, Reserve,
                    GraceExpires, FinishStart, Stop, FinishStop, FinishCombo
<1>4. sid' = 0 BY <1>0, <1>3 DEF AbortStart, CancelLogically
<1> QED BY <1>0, <1>4

(* A key-up that ends its press, once dispatched, is about to stop the      *)
(* session of the press, unless a companion key is about to abort it.       *)
EndsPress(p) ==
    /\ NoUi /\ Dispatched("Released", p)
    /\ \/ mode = "Hold"
       \/ /\ mode = "Auto" /\ at["Released", p] - at["Pressed", p] >= AutoHold
          /\ ~Dispatched("Combined", p)

EndIs(p) ==
    Active(p) /\ EndsPress(p) =>
        \/ pc["Released", p] = "stop"
        \/ pc["Released", p] = "waiting" /\ target["Released", p] = sid
        \/ pc["Pressed", p] = "abort"

EndInv == \A p \in Press : EndIs(p)

(* The stop of a key-up, step by step.                                      *)
LEMMA StopGoes ==
    ASSUME DispatchTypes, BoundInv, Moves, Targets, NEW p \in Press, Active(p), Active(p)',
           sid' = sid,
           pc["Released", p] = "stop" \/ (pc["Released", p] = "waiting"
                                          /\ target["Released", p] = sid)
    PROVE  pc'["Released", p] = "stop" \/ (pc'["Released", p] = "waiting"
                                           /\ target'["Released", p] = sid)
<1>0. sid # 0 /\ phase \in {"Starting", "Recording"} /\ phase' \in {"Starting", "Recording"}
  BY DEF Active, DispatchTypes
<1>1. \/ pc'["Released", p] = pc["Released", p]
      \/ ReleasedMove(pc["Released", p], pc'["Released", p]) /\ Moved("Released", p)
  BY KindMoves
<1>2. \/ target'["Released", p] = target["Released", p]
      \/ target'["Released", p] = 0 /\ pc'["Released", p] = "done"
      \/ target'["Released", p] = sid
  BY Kinds DEF Targets
<1>3. CASE pc'["Released", p] = pc["Released", p] BY <1>2, <1>3
<1>4. CASE pc'["Released", p] # pc["Released", p]
  <2>1. Stop("Released", p)
    BY <1>1, <1>4 DEF Moved, KeyUp, IsDown, ReleasedStep, BeginReleased, MayBegin, FinishStop
  <2>2. target["Released", p] \in {0, sid} BY DEF BoundInv, BoundIs
  <2>3. /\ target' = [target EXCEPT ![<<"Released", p>>] = sid]
        /\ phase = "Recording" => phase' = "Finalizing"
        /\ phase # "Recording" => Goto("Released", p, "waiting")
    BY <1>0, <2>1, <2>2 DEF Stop
  <2>4. Goto("Released", p, "waiting") BY <1>0, <2>3
  <2> QED BY <2>3, <2>4, Kinds DEF Goto, DispatchTypes
<1> QED BY <1>3, <1>4

LEMMA EndStep ==
    ASSUME DispatchTypes, StartsInv, EdgeInv, SerialInv, HeldInv, BoundInv, ReleaseInv, OwnInv, HoldInv,
           EndInv, Moves, Sessions, Constant, Targets, Effects
    PROVE  EndInv'
<1> SUFFICES ASSUME NEW p \in Press, Active(p)', EndsPress(p)'
             PROVE  \/ pc'["Released", p] = "stop"
                    \/ pc'["Released", p] = "waiting" /\ target'["Released", p] = sid'
                    \/ pc'["Pressed", p] = "abort"
  BY DEF EndInv, EndIs
<1>0. HeldIs(p) /\ EdgeIs(p) /\ ReleaseIs(p) /\ OwnIs(p) /\ HoldIs(p) /\ EndIs(p)
  BY DEF HeldInv, EdgeInv, ReleaseInv, OwnInv, HoldInv, EndInv
<1>1. mode' = mode /\ NoUi /\ Dispatched("Released", p)'
  <2>1. NoUi' BY DEF EndsPress
  <2> QED BY <2>1, UiStays DEF Constant, settings, EndsPress
<1>2. CASE Begins(p) /\ (Reserve(p) \/ GraceExpires(p)) /\ pc'["Pressed", p] = "starting"
  <2>1. Deciding(p) /\ Given(p) /\ (~modifier => ~KeyUpFirst(p)) BY <1>2, Beginning
  <2>2. Dispatched("Released", p)
    <3>1. ASSUME BeginReleased(p) PROVE FALSE
      <4>1. opener' = opener BY <3>1, ReleasedEffects DEF ReleasedEffect, core
      <4> QED BY <1>2, <4>1, Appended
    <3> QED BY <1>1, <3>1, Begun
  <2>3. mode # "Hold" BY <1>0, <1>1, <2>1, <2>2 DEF ReleaseIs
  <2>4. pc["Pressed", p] = "done" BY <2>2, <2>3 DEF SerialInv
  <2> QED BY <2>1, <2>4 DEF Deciding
<1>3. CASE Active(p) /\ NoneBegins /\ sid' = sid
  <2>1. CASE Dispatched("Released", p)
    <3>1. /\ at'["Pressed", p] = at["Pressed", p] /\ at'["Released", p] = at["Released", p]
      BY <1>0, <2>1 DEF Constant, Dispatched, EdgeIs
    <3>2. Dispatched("Combined", p) => Dispatched("Combined", p)' BY Begun, Kinds
    <3>3. EndsPress(p) BY <1>1, <2>1, <3>1, <3>2 DEF EndsPress
    <3>4. CASE pc["Pressed", p] = "abort" BY <1>3, <3>4, AbortGoes
    <3>5. CASE \/ pc["Released", p] = "stop"
               \/ pc["Released", p] = "waiting" /\ target["Released", p] = sid
      BY <1>3, <3>5, StopGoes
    <3> QED BY <1>0, <1>3, <3>3, <3>4, <3>5 DEF EndIs
  <2>2. CASE ~Dispatched("Released", p)
    <3>1. BeginReleased(p) BY <1>1, <2>2, Begun
    <3>2. ReleasedEffect(p) BY <3>1, ReleasedEffects
    <3>3. CASE pc["Pressed", p] = "abort" BY <1>3, <3>3, AbortGoes
    <3>4. CASE hotkey.session = p
      <4>1. Stoppable(hotkey, p, phase) BY <1>3, <3>4 DEF Stoppable, Active
      <4>2. sid \in DOMAIN opener /\ opener[sid] = p BY <1>3 DEF Active, DispatchTypes
      <4>3. hotkey.held.id = p => hotkey.held.accepted /\ ~Chord(p)
        BY <1>0, <4>2 DEF HeldIs
      <4>4. \/ mode = "Hold"
            \/ /\ mode = "Auto" /\ hotkey.held.id = p
               /\ at["Released", p] - hotkey.held.at >= AutoHold
        <5>1. CASE mode = "Hold" BY <5>1
        <5>2. CASE mode # "Hold"
          <6>1. /\ at' = at /\ mode = "Auto"
                /\ at'["Released", p] - at'["Pressed", p] >= AutoHold
                /\ ~Dispatched("Combined", p)'
            BY <1>1, <3>2, <5>2 DEF EndsPress, ReleasedEffect, edges
          <6>2. ~Dispatched("Combined", p) BY <6>1, Begun, Kinds
          <6>3. pc["Released", p] = "sent" BY <3>2 DEF ReleasedEffect
          <6>4. hotkey.held.id = p BY <1>0, <1>1, <1>3, <5>2, <6>2, <6>3 DEF HoldIs
          <6>5. hotkey.held.at = at["Pressed", p] BY <1>0, <6>4 DEF HeldIs
          <6> QED BY <6>1, <6>4, <6>5
        <5> QED BY <5>1, <5>2
      <4> QED BY <3>2, <4>1, <4>3, <4>4 DEF ReleasedEffect
    <3> QED BY <1>0, <1>3, <3>3, <3>4 DEF OwnIs
  <2> QED BY <2>1, <2>2
<1> QED BY <1>2, <1>3, ActiveStays

----------------------------------------------------------------------------
(* The microphone.                                                          *)
LEMMA CapturesStep ==
    ASSUME DispatchNext, NEW p \in captures', p \in Press
    PROVE  p \in captures \/ Arm(p)
<1>1. CASE Keyboard
  BY <1>1 DEF Keyboard, Tick, KeyDown, KeyUp, Companion
<1>2. CASE SessionStep
  BY <1>2 DEF SessionStep, EngineReady, Fail, Reset, StartReturns, CleanupDone, UiStart, UiStop,
              UiCancel
<1>3. ASSUME NEW q \in Press, PressedStep(q) PROVE p \in captures \/ Arm(p)
  <2>1. CASE Arm(q) BY <2>1 DEF Arm
  <2>2. CASE Reserve(q) \/ GraceExpires(q) BY <2>2 DEF Reserve, GraceExpires, Discard
  <2>3. CASE BeginPressed(q) \/ FinishStart(q) \/ AbortStart(q)
    BY <2>3 DEF BeginPressed, FinishStart, AbortStart
  <2>4. CASE Stop("Pressed", q) \/ FinishStop("Pressed", q) BY <2>4 DEF Stop, FinishStop
  <2>5. ASSUME NEW failed \in BOOLEAN, FinishCombo("Pressed", q, failed) PROVE p \in captures
    BY <2>5 DEF FinishCombo
  <2> QED BY <1>3, <2>1, <2>2, <2>3, <2>4, <2>5 DEF PressedStep
<1>4. ASSUME NEW q \in Press, ReleasedStep(q) PROVE p \in captures
  BY <1>4 DEF ReleasedStep, BeginReleased, Stop, FinishStop
<1>5. ASSUME NEW q \in Press, CombinedStep(q) PROVE p \in captures
  BY <1>5 DEF CombinedStep, BeginCombined, SnapshotCombined, Discard, CancelCombined, FinishCombo
<1> QED BY <1>1, <1>2, <1>3, <1>4, <1>5 DEF DispatchNext

LEMMA MicrophoneStep ==
    ASSUME DispatchTypes, StartsInv, ProvisionalMicrophone, Moves, Targets, DispatchNext
    PROVE  ProvisionalMicrophone'
<1> SUFFICES ASSUME NEW p \in captures' PROVE pc'["Pressed", p] \in {"reserve", "grace"}
  BY DEF ProvisionalMicrophone
<1>0. p \in Press BY DEF Targets
<1>1. CASE Arm(p)
  <2>1. PICK l \in {"reserve", "grace"} : Goto("Pressed", p, l) BY <1>1 DEF Arm
  <2> QED BY <1>0, <2>1, Kinds DEF Goto, DispatchTypes
<1>2. CASE p \in captures
  <2>1. pc["Pressed", p] \in {"reserve", "grace"} BY <1>2 DEF ProvisionalMicrophone
  <2>2. ~Reserve(p) /\ ~GraceExpires(p) BY DEF Reserve, GraceExpires, Discard
  <2>3. \A s \in DOMAIN opener : opener[s] # p BY <1>0, <2>1 DEF StartsInv
  <2>4. ~Moved("Pressed", p)
    BY <2>1, <2>2, <2>3 DEF Moved, KeyDown, PressedStep, BeginPressed, MayBegin, Arm, FinishStart,
                            AbortStart, Stop, FinishStop, FinishCombo
  <2> QED BY <1>0, <2>1, <2>4, KindMoves
<1> QED BY <1>0, <1>1, <1>2, CapturesStep

----------------------------------------------------------------------------
(* The inductive invariant of the dispatch.                                 *)
DispatchInv ==
    /\ DispatchTypes /\ StartsInv /\ EdgeInv /\ SerialInv
    /\ HeldInv /\ BoundInv /\ OpenInv
    /\ CompanionInv /\ ReleaseInv /\ CoolInv
    /\ OwnInv /\ HoldInv /\ EndInv
    /\ ProvisionalMicrophone

LEMMA DispatchInitial == ASSUME DispatchInit PROVE DispatchInv
<1>1. /\ \A k \in EdgeKind, p \in Press : pc[k, p] = "idle" /\ target[k, p] = 0
      /\ pc \in [EdgeKind \X Press -> PcState] /\ target \in [EdgeKind \X Press -> Nat]
      /\ at \in [{"Pressed", "Released"} \X Press -> Nat]
  BY DEF DispatchInit, PcState
<1>2. \A p \in Press : /\ pc["Pressed", p] = "idle" /\ pc["Released", p] = "idle"
                       /\ pc["Combined", p] = "idle" /\ target["Released", p] = 0
  BY <1>1, Kinds
<1>3. /\ phase = "Idle" /\ sid = 0 /\ opener = <<>> /\ inStart = {} /\ captures = {}
      /\ now = 0 /\ hotkey = InitInterpreter
  BY DEF DispatchInit
<1>4. hotkey \in Interpreter
  <2>1. <<>> \in Markers BY DEF Markers, Once
  <2> QED BY <1>3, <2>1, Numbers DEF InitInterpreter, Interpreter, NotHeld, NoDispatch
<1>5. /\ hotkey.held.id = 0 /\ hotkey.session = 0
      /\ hotkey.pendingCombined = <<>> /\ hotkey.pendingReleased = <<>>
  BY <1>3 DEF InitInterpreter, NotHeld
<1>6. \A p \in Press : ~Chord(p) /\ ~KeyUpFirst(p) /\ p # 0
  BY <1>5, Numbers DEF Chord, KeyUpFirst, OvertakenByCombined, OvertakenByReleased, Contains
<1>7. mode \in HotkeyMode /\ modifier \in BOOLEAN
  BY DispatchAssumption DEF DispatchInit
<1>8. \A p \in Press : /\ ~Active(p) /\ ~Deciding(p)
                       /\ \A k \in EdgeKind : ~Dispatched(k, p)
  BY <1>1, <1>2, <1>3 DEF Active, Deciding, Dispatched
<1>9. DispatchTypes
  <2>1. opener \in Seq(Press \cup {0}) /\ DOMAIN opener = {} BY <1>3
  <2> QED BY <1>1, <1>3, <1>4, <1>7, <2>1 DEF DispatchTypes
<1>10. StartsInv BY <1>3 DEF StartsInv
<1>11. EdgeInv BY <1>2 DEF EdgeInv, EdgeIs
<1>12. SerialInv BY <1>8, Kinds DEF SerialInv
<1>13. HeldInv BY <1>5, <1>6 DEF HeldInv, HeldIs
<1>14. BoundInv BY <1>2 DEF BoundInv, BoundIs
<1>15. OpenInv BY <1>8 DEF OpenInv, OpenIs
<1>16. CompanionInv /\ ReleaseInv BY <1>8, Kinds DEF CompanionInv, CompanionIs, ReleaseInv, ReleaseIs
<1>17. CoolInv /\ OwnInv /\ HoldInv /\ EndInv
  BY <1>8 DEF CoolInv, CoolIs, OwnInv, OwnIs, HoldInv, HoldIs, EndInv, EndIs
<1>18. ProvisionalMicrophone BY <1>3 DEF ProvisionalMicrophone
<1> QED BY <1>9, <1>10, <1>11, <1>12, <1>13, <1>14, <1>15, <1>16, <1>17, <1>18 DEF DispatchInv

LEMMA DispatchStep ==
    ASSUME DispatchInv, RoomForMarkers, DispatchNext
    PROVE  DispatchInv'
<1> USE DEF DispatchInv
<1>1. Moves /\ Sessions /\ Constant /\ Targets /\ Effects
  BY MovesStep, SessionsStep, ConstantStep, TargetsStep, EffectsStep
<1>2. DispatchTypes' /\ StartsInv' /\ EdgeInv' /\ SerialInv'
  BY <1>1, TypesStep, StartsStep, EdgeStep, SerialStep
<1>3. HeldInv' /\ BoundInv' /\ OpenInv' BY <1>1, HeldStep, BoundStep, OpenStep
<1>4. CompanionInv' /\ ReleaseInv' /\ CoolInv'
  BY <1>1, CompanionInvStep, ReleaseInvStep, CoolStep
<1>5. OwnInv' /\ HoldInv' /\ EndInv' BY <1>1, OwnStep, HoldStep, EndStep
<1>6. ProvisionalMicrophone' BY <1>1, MicrophoneStep
<1> QED BY <1>2, <1>3, <1>4, <1>5, <1>6

LEMMA DispatchStutters == ASSUME DispatchInv, UNCHANGED dispatchVars PROVE DispatchInv'
<1>1. /\ mode' = mode /\ modifier' = modifier /\ now' = now /\ at' = at /\ pc' = pc
      /\ target' = target /\ hotkey' = hotkey /\ captures' = captures /\ phase' = phase
      /\ sid' = sid /\ opener' = opener /\ inStart' = inStart
  BY DEF dispatchVars, settings, edges, tasks, core
<1>2. DispatchTypes' /\ StartsInv' /\ EdgeInv' /\ SerialInv'
  <2>1. DispatchTypes' BY <1>1 DEF DispatchInv, DispatchTypes
  <2>2. StartsInv' BY <1>1 DEF DispatchInv, StartsInv
  <2>3. EdgeInv' BY <1>1 DEF DispatchInv, EdgeInv, EdgeIs
  <2>4. SerialInv' BY <1>1 DEF DispatchInv, SerialInv, Dispatched, Ended
  <2> QED BY <2>1, <2>2, <2>3, <2>4
<1>3. \A p \in Press :
         /\ Chord(p)' <=> Chord(p)
         /\ KeyUpFirst(p)' <=> KeyUpFirst(p)
         /\ Active(p)' <=> Active(p)
         /\ Deciding(p)' <=> Deciding(p)
         /\ Given(p)' <=> Given(p)
         /\ Dispatched("Combined", p)' <=> Dispatched("Combined", p)
         /\ Dispatched("Released", p)' <=> Dispatched("Released", p)
  BY <1>1 DEF Chord, KeyUpFirst, Active, Deciding, Given, Dispatched
<1>4. NoUi' <=> NoUi BY <1>1 DEF NoUi, UiOpened
<1>5. HeldInv' BY <1>1, <1>3 DEF DispatchInv, HeldInv, HeldIs
<1>6. BoundInv' BY <1>1, <1>3 DEF DispatchInv, BoundInv, BoundIs
<1>7. OpenInv' BY <1>1, <1>3, <1>4 DEF DispatchInv, OpenInv, OpenIs
<1>8. CompanionInv' BY <1>1, <1>3 DEF DispatchInv, CompanionInv, CompanionIs
<1>9. ReleaseInv' BY <1>1, <1>3, <1>4 DEF DispatchInv, ReleaseInv, ReleaseIs
<1>10. CoolInv' BY <1>1, <1>3 DEF DispatchInv, CoolInv, CoolIs
<1>11. OwnInv' BY <1>1, <1>3 DEF DispatchInv, OwnInv, OwnIs
<1>12. HoldInv' BY <1>1, <1>3, <1>4 DEF DispatchInv, HoldInv, HoldIs
<1>13. EndInv' BY <1>1, <1>3, <1>4 DEF DispatchInv, EndInv, EndIs, EndsPress
<1>14. ProvisionalMicrophone' BY <1>1 DEF DispatchInv, ProvisionalMicrophone
<1> QED BY <1>2, <1>5, <1>6, <1>7, <1>8, <1>9, <1>10, <1>11, <1>12, <1>13, <1>14 DEF DispatchInv

LEMMA OwnsNothing == ASSUME DispatchInv PROVE EndedPressOwnsNothing
<1> USE DEF DispatchInv
<1>1. ASSUME NEW p \in Press, UiOpened = {}, pc["Pressed", p] = "done",
             pc["Released", p] = "done",
             \/ mode = "Hold"
             \/ /\ mode = "Auto" /\ at["Released", p] - at["Pressed", p] >= AutoHold
                /\ ~Dispatched("Combined", p)
      PROVE  ~Active(p)
  <2>1. EndsPress(p) BY <1>1 DEF EndsPress, NoUi, Dispatched
  <2>2. EndIs(p) BY DEF EndInv
  <2> QED BY <1>1, <2>1, <2>2 DEF EndIs
<1>2. KeyUpEndsSession BY <1>1 DEF KeyUpEndsSession
<1>3. ASSUME NEW p \in Press, pc["Pressed", p] = "done", pc["Combined", p] = "done"
      PROVE  ~Active(p)
  <2>1. OwnIs(p) BY DEF OwnInv
  <2> QED BY <1>3, <2>1 DEF OwnIs, Dispatched
<1>4. ComboEndsSession BY <1>3 DEF ComboEndsSession
<1> QED BY <1>2, <1>4 DEF EndedPressOwnsNothing

LEMMA OpensFresh ==
    ASSUME DispatchInv, DispatchNext, NEW p \in Press, Opens(p)
    PROVE  /\ ~Dispatched("Combined", p)
           /\ mode = "Hold" /\ UiOpened = {} => ~Dispatched("Released", p)
           /\ at["Pressed", p] >= hotkey.cooldown
<1> USE DEF DispatchInv
<1>1. Sessions BY SessionsStep
<1>2. opener \in Seq(Press \cup {0}) BY DEF DispatchTypes
<1>3. Begins(p) /\ (Reserve(p) \/ GraceExpires(p)) /\ pc'["Pressed", p] = "starting"
  <2>1. CASE NoneBegins
    <3>1. opener' = opener BY <2>1 DEF NoneBegins
    <3>2. PICK n \in Nat : n = Len(opener) BY <1>2
    <3>3. Len(opener') > Len(opener) BY DEF Opens
    <3>4. FALSE BY <3>1, <3>2, <3>3
    <3> QED BY <3>4
  <2>2. ASSUME NEW q \in Press \cup {0}, Begins(q) PROVE q = p
    <3>1. opener' = Append(opener, q) BY <2>2 DEF Begins
    <3>2. opener'[Len(opener')] = q BY <1>2, <3>1, AppendProperties
    <3> QED BY <3>2 DEF Opens
  <2>3. p # 0 BY Numbers
  <2> QED BY <1>1, <2>1, <2>2, <2>3 DEF Sessions
<1>4. Deciding(p) /\ Given(p) /\ (~modifier => ~Chord(p) /\ ~KeyUpFirst(p))
  BY <1>3, Beginning
<1>5. CompanionIs(p) /\ ReleaseIs(p) /\ CoolIs(p) BY DEF CompanionInv, ReleaseInv, CoolInv
<1>6. ~Dispatched("Combined", p) BY <1>4, <1>5 DEF CompanionIs
<1>7. mode = "Hold" /\ NoUi => ~Dispatched("Released", p) BY <1>4, <1>5 DEF ReleaseIs
<1>8. at["Pressed", p] >= hotkey.cooldown BY <1>4, <1>5 DEF CoolIs
<1> QED BY <1>6, <1>7, <1>8 DEF NoUi

(* With no more presses than a queue has places there is room.              *)
LEMMA Places ==
    ASSUME MaxPress <= MaxPending, NEW queue \in Markers, NEW p \in Press
    PROVE  Room(queue, p)
<1> SUFFICES ASSUME ~Contains(queue, p) PROVE Len(queue) < MaxPending BY DEF Room
<1>1. /\ queue \in Seq(Press) /\ Len(queue) \in Nat /\ Once(queue)
      /\ MaxPress \in Nat /\ MaxPending \in Nat
  BY InterpreterAssumption, DispatchAssumption DEF Markers
<1>2. PICK n \in Nat : n = Len(queue) BY <1>1
<1>3. queue \in [1..n -> Press \ {p}]
  <2>1. queue \in [1..n -> Press] BY <1>1, <1>2
  <2>2. \A k \in 1..n : queue[k] # p BY <1>2 DEF Contains
  <2> QED BY <2>1, <2>2
<1>4. queue \in Injection(1..n, Press \ {p})
  BY <1>1, <1>2, <1>3 DEF Injection, IsInjective, Once
<1>5. IsFiniteSet(Press) /\ Cardinality(Press) = MaxPress
  BY <1>1, FS_Interval DEF Press
<1>6. /\ IsFiniteSet(Press \ {p}) /\ Cardinality(Press \ {p}) = MaxPress - 1
  BY <1>5, FS_RemoveElement
<1>7. Cardinality(1..n) <= MaxPress - 1 BY <1>4, <1>6, FS_Injection
<1>8. Cardinality(1..n) = n BY FS_Interval
<1> QED BY <1>1, <1>2, <1>7, <1>8

LEMMA RoomForFew == ASSUME MaxPress <= MaxPending, DispatchTypes PROVE RoomForMarkers
<1>1. hotkey.pendingCombined \in Markers /\ hotkey.pendingReleased \in Markers
  BY DEF DispatchTypes, Interpreter
<1> QED BY <1>1, Places DEF RoomForMarkers

(* The inductive invariant holds while dispatch_dictation_hotkey_edge keeps *)
(* the marker of every press it has still to decide.                        *)
THEOREM DispatchInductive == DispatchSpec /\ []RoomForMarkers => []DispatchInv
<1>1. DispatchInit => DispatchInv BY DispatchInitial
<1>2. DispatchInv /\ RoomForMarkers /\ [DispatchNext]_dispatchVars => DispatchInv'
  BY DispatchStep, DispatchStutters
<1> QED BY <1>1, <1>2, PTL DEF DispatchSpec

(* A press that is over, by its key-up, a companion key or its decision,    *)
(* has neither an armed microphone nor a session that starts or records,    *)
(* whichever of its three edge tasks of dispatch_dictation_hotkey_edge ran  *)
(* first. As in the property, a key-up that a session of the UI took is not *)
(* counted.                                                                 *)
THEOREM EndedPresses == DispatchSpec /\ []RoomForMarkers => []EndedPressOwnsNothing
<1>1. DispatchInv => EndedPressOwnsNothing BY OwnsNothing
<1> QED BY <1>1, DispatchInductive, PTL

(* A press opens a session only if no companion key had been dispatched for *)
(* it, its key had not come up in the Hold mode, and the press is not of    *)
(* the cooldown after an earlier session's end (reserve_dictation,          *)
(* bind_session).                                                           *)
THEOREM FreshStarts == DispatchSpec /\ []RoomForMarkers => NoStaleStart
<1> DEFINE Fresh ==
      \A p \in Press : Opens(p) =>
          /\ ~Dispatched("Combined", p)
          /\ mode = "Hold" /\ UiOpened = {} => ~Dispatched("Released", p)
          /\ at["Pressed", p] >= hotkey.cooldown
<1>1. DispatchInv /\ [DispatchNext]_dispatchVars => [Fresh]_dispatchVars BY OpensFresh
<1>2. DispatchSpec => [][DispatchNext]_dispatchVars BY DEF DispatchSpec
<1>3. DispatchInv /\ [DispatchNext]_dispatchVars => [Fresh]_dispatchVars BY <1>1
<1> HIDE DEF Fresh
<1>4. DispatchSpec /\ []RoomForMarkers => [][Fresh]_dispatchVars
  BY <1>2, <1>3, DispatchInductive, PTL
<1> QED BY <1>4 DEF NoStaleStart, Fresh

(* The hypothesis of these theorems holds by itself while there are no more *)
(* presses than places in pending_combined and pending_released: a marker   *)
(* is stored once, so only the marker of another press can evict it.        *)
THEOREM EnoughRoom == MaxPress <= MaxPending /\ DispatchSpec => []RoomForMarkers
<1> SUFFICES ASSUME MaxPress <= MaxPending PROVE DispatchSpec => []RoomForMarkers OBVIOUS
<1>1. DispatchInit => DispatchInv BY DispatchInitial
<1>2. DispatchInv => RoomForMarkers BY RoomForFew DEF DispatchInv
<1>3. DispatchInv /\ [DispatchNext]_dispatchVars => DispatchInv'
  BY <1>2, DispatchStep, DispatchStutters
<1> QED BY <1>1, <1>2, <1>3, PTL DEF DispatchSpec
=============================================================================
