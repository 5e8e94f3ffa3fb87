------------------------ MODULE SyncWriteGateProofs ------------------------
(* Proofs about SyncWriteGate for any writers, readers and bounds. The      *)
(* inductive invariant has five layers: what the gate's own fields say of   *)
(* each other and of the disk, which of the two copies accounts for data    *)
(* the generation does not stand for, what a reader's sample implies, which *)
(* generations have been announced, and which have been named.              *)
EXTENDS SyncWriteGate, TLAPS

(* Memory and disk differ only behind a fault; an open permit has its       *)
(* intent in both, unless its own save has failed.                          *)
MemoryIsDisk    == ~fault => stored = disk
LeaseIsAlone    == lease # "none" => active = {}
NormalLeaseClean == lease = "normal" => stored.incomplete = {}
NoRestoreAround ==
    active # {} => stored.restore = "none" /\ disk.restore = "none"
PermitsRegistered ==
    \A w \in active :
        /\ w \in stored.incomplete
        /\ effect[w] # "failed" => w \in disk.incomplete

GateInv ==
    /\ MemoryIsDisk
    /\ RuntimeFlagExact
    /\ LeaseIsAlone
    /\ NormalLeaseClean
    /\ NoRestoreAround
    /\ PermitsRegistered
    /\ RestoreExcludesIntents

(* An intent that may stand for data: its operation is gone, or has written. *)
Suspect(x) == x \notin active \/ effect[x] \in {"synced", "unknown", "failed"}
Accounts(st) == st.restore = "ready" \/ \E x \in st.incomplete : Suspect(x)

(* Both copies account for unrecorded data: a later save of the one in      *)
(* memory may replace the other.                                            *)
DataInv ==
    /\ content # recorded => Accounts(stored) /\ Accounts(disk)
    /\ disk.restore # "none" => before = recorded

(* While the epoch a reader sampled is current, nothing has started.        *)
ReadInv ==
    \A r \in Reader :
        token[r] # NoToken =>
            /\ token[r].epoch <= epoch
            /\ token[r].epoch = epoch =>
                   active = {} /\ lease = "none" /\ token[r].read \subseteq {content}

(* The generations a subscriber, the memory and the disk know of, in order. *)
NotifyInv ==
    /\ channel.generation <= stored.generation
    /\ stored.generation <= disk.generation
    /\ \A n \in sending : n.generation <= stored.generation

(* A generation a capture was accepted under stands for the data, unless    *)
(* that copy of the state accounts for the change itself: an uncertain write*)
(* may leave memory and disk at different generations, each with its intent.*)
StandsFor(st) == named[st.generation] \in {Unseen, content} \/ Accounts(st)

(* Generations are named once reached and the counter only advances past    *)
(* them; what a pending restore would put back is what its generation names.*)
NameInv ==
    /\ stored.generation <= MaxGen /\ disk.generation <= MaxGen
    /\ \A g \in 0..MaxGen : named[g] # Unseen => g <= stored.generation
    /\ StandsFor(stored) /\ StandsFor(disk)
    /\ disk.restore # "none" => named[disk.generation] \in {Unseen, before}

IInv == TypeOK /\ GateInv /\ DataInv /\ ReadInv /\ NotifyInv /\ NameInv

----------------------------------------------------------------------------
(* The records a save may write, field by field.                            *)
Shape(st, g, i, r) ==
    /\ st \in Persisted
    /\ st.generation = g /\ st.incomplete = i /\ st.restore = r

(* Advancing the generation leaves the other fields alone.                  *)
LEMMA AdvancedShape ==
    ASSUME NEW st \in Persisted
    PROVE  Shape(Advanced(st), st.generation + 1, st.incomplete, st.restore)
  BY DEF Persisted, Shape, Advanced

(* Every record the actions save, by its fields.                            *)
LEMMA Records ==
    ASSUME TypeOK
    PROVE  /\ \A w \in Writer :
               /\ Shape(Registered(w), stored.generation, stored.incomplete \cup {w}, stored.restore)
               /\ Shape(Cleared(w), stored.generation, stored.incomplete \ {w}, stored.restore)
               /\ Shape(Advanced(Cleared(w)), stored.generation + 1,
                        stored.incomplete \ {w}, stored.restore)
           /\ Shape(Reconciled, stored.generation + 1, {}, stored.restore)
           /\ Shape(MarkedPending, stored.generation, stored.incomplete, "pending")
           /\ Shape(MarkedReady, stored.generation, stored.incomplete, "ready")
           /\ Shape(Finished(TRUE), stored.generation + 1, stored.incomplete, "none")
           /\ Shape(Finished(FALSE), stored.generation, stored.incomplete, "none")
           /\ \A k \in BOOLEAN :
               Finished(k).generation \in {stored.generation, stored.generation + 1}
<1> USE DEF Persisted, Shape
<1>1. /\ DOMAIN stored = {"generation", "incomplete", "restore"}
      /\ stored.generation \in Nat
      /\ stored.incomplete \in SUBSET Writer
      /\ stored.restore \in {"none", "pending", "ready"}
  BY DEF TypeOK
<1>2. stored = [generation |-> stored.generation, incomplete |-> stored.incomplete,
                restore |-> stored.restore]
  BY DEF TypeOK
<1>3. ASSUME NEW w \in Writer
      PROVE  Shape(Registered(w), stored.generation, stored.incomplete \cup {w}, stored.restore)
  BY <1>1, <1>2 DEF Registered
<1>4. ASSUME NEW w \in Writer
      PROVE  Shape(Cleared(w), stored.generation, stored.incomplete \ {w}, stored.restore)
  BY <1>1, <1>2 DEF Cleared
<1>5. ASSUME NEW w \in Writer
      PROVE  Shape(Advanced(Cleared(w)), stored.generation + 1,
                   stored.incomplete \ {w}, stored.restore)
  BY <1>1, <1>4 DEF Advanced
<1>6. Shape(Reconciled, stored.generation + 1, {}, stored.restore)
  <2>1. Shape([stored EXCEPT !.incomplete = {}], stored.generation, {}, stored.restore)
    BY <1>1, <1>2
  <2>q. QED
    BY <2>1, AdvancedShape DEF Reconciled
<1>7. /\ Shape(MarkedPending, stored.generation, stored.incomplete, "pending")
      /\ Shape(MarkedReady, stored.generation, stored.incomplete, "ready")
  BY <1>1, <1>2 DEF MarkedPending, MarkedReady
<1>8. Shape(Finished(TRUE), stored.generation + 1, stored.incomplete, "none")
  <2>1. Shape(Advanced(stored), stored.generation + 1, stored.incomplete, stored.restore)
    BY <1>1, <1>2 DEF Advanced
  <2>q. QED
    BY <1>1, <2>1 DEF Finished
<1>9. Shape(Finished(FALSE), stored.generation, stored.incomplete, "none")
  BY <1>1, <1>2 DEF Finished
<1>10. ASSUME NEW k \in BOOLEAN
       PROVE  Finished(k).generation \in {stored.generation, stored.generation + 1}
  <2>1. CASE k = TRUE
    BY <1>8, <2>1
  <2>2. CASE k = FALSE
    BY <1>9, <2>2
  <2>q. QED
    BY <2>1, <2>2, Zenon
<1>q. QED
  BY <1>3, <1>4, <1>5, <1>6, <1>7, <1>8, <1>9, <1>10

(* The types the later layers need.                                         *)
LEMMA Typed ==
    ASSUME TypeOK
    PROVE  /\ disk \in Persisted /\ stored \in Persisted
           /\ active \subseteq Writer
           /\ effect \in [Writer -> Effect]
           /\ epoch \in Nat
           /\ token \in [Reader -> [generation : Nat \cup {Unseen}, epoch : Nat,
                                    read : SUBSET Nat]]
  BY DEF TypeOK

(* Generations are numbers the table of names has a place for.              *)
LEMMA Names ==
    ASSUME TypeOK
    PROVE  /\ stored.generation \in Nat /\ disk.generation \in Nat
           /\ MaxGen \in Nat
           /\ named \in [0..MaxGen -> Nat \cup {Unseen}]
  BY GateAssumption DEF TypeOK, Persisted

(* The runtime flag is a truth value, however it was computed.              *)
LEMMA FlagIsBoolean ==
    /\ \A st, act, flt : RuntimeFlag(st, act, flt) \in BOOLEAN
    /\ (disk.incomplete # {} \/ disk.restore # "none") \in BOOLEAN
  BY Zenon DEF RuntimeFlag, Orphaned

(* The flag as an action assigns it.                                        *)
LEMMA FlagTyped ==
    ASSUME NEW st, NEW act, NEW flt, blocked' = RuntimeFlag(st, act, flt)
    PROVE  blocked' \in BOOLEAN
  BY Zenon DEF RuntimeFlag, Orphaned

(* An announcement is a well-formed change.                                 *)
LEMMA AnnounceTyped ==
    ASSUME TypeOK, stored' \in Persisted, NEW o \in Origin, Announce(o)
    PROVE  sending' \in SUBSET Change
<1>1. stored'.generation \in Nat
  BY DEF Persisted
<1>2. [generation |-> stored'.generation, origin |-> o] \in Change
  BY <1>1 DEF Change
<1>q. QED
  BY <1>2 DEF Announce, TypeOK

(* A permit that leaves `active` keeps the types.                           *)
LEMMA FinishTyped ==
    ASSUME TypeOK, NEW w \in Writer, NEW p \in Origin \cup {"none"},
           stored' \in Persisted, Finish(w, p)
    PROVE  /\ active' \in SUBSET Writer
           /\ blocked' \in BOOLEAN
           /\ change' \in Origin \cup {"none"}
           /\ sending' \in SUBSET Change
<1>1. blocked' \in BOOLEAN
  BY FlagTyped DEF Finish
<1>2. stored'.generation \in Nat
  BY DEF Persisted
<1>3. ASSUME p # "none"
      PROVE  [generation |-> stored'.generation, origin |-> p] \in Change
  BY <1>2, <1>3 DEF Change
<1>q. QED
  BY <1>1, <1>3 DEF Finish, TypeOK

----------------------------------------------------------------------------
USE DEF vars, fileVars, readVars, notifyVars

(* Every step keeps the variables in their types.                            *)
LEMMA TypeStep == TypeOK /\ [Next]_vars => TypeOK'
<1> SUFFICES ASSUME TypeOK, [Next]_vars PROVE TypeOK'
  OBVIOUS
<1> USE DEF TypeOK, Change, Origin, Effect, Shape
<1>1. ASSUME NEW w \in Writer, BeginMutation(w) PROVE TypeOK'
  <2>1. stored' \in Persisted /\ disk' \in Persisted
    BY <1>1, Records, Typed DEF BeginMutation, Save
  <2>2. blocked' \in BOOLEAN
    BY <1>1, FlagTyped DEF BeginMutation
  <2>q. QED
    BY <1>1, <2>1, <2>2 DEF BeginMutation, MayBegin
<1>2. ASSUME NEW w \in Writer, BeginFails(w) PROVE TypeOK'
  BY <1>2, Records, GateAssumption DEF BeginFails, MayBegin, SaveFails
<1>3. ASSUME NEW w \in Writer, WriteSynced(w) PROVE TypeOK'
  BY <1>3, Records, GateAssumption DEF WriteSynced
<1>4. ASSUME NEW w \in Writer, WriteLocal(w) PROVE TypeOK'
  BY <1>4, Records, GateAssumption DEF WriteLocal
<1>5. ASSUME NEW w \in Writer, NEW o \in CommitOrigin, Commit(w, o) PROVE TypeOK'
  <2>1. stored' \in Persisted /\ disk' \in Persisted
    BY <1>5, Records, Typed DEF Commit, Save
  <2>2. /\ active' \in SUBSET Writer /\ blocked' \in BOOLEAN
        /\ change' \in Origin \cup {"none"} /\ sending' \in SUBSET Change
    BY <1>5, <2>1, FinishTyped, OriginAssumption DEF Commit
  <2>3. lastUser' \in Nat
    BY <1>5, <2>1 DEF Commit, Persisted
  <2>q. QED
    BY <1>5, <2>1, <2>2, <2>3 DEF Commit, Finish
<1>6. ASSUME NEW w \in Writer, CommitLocalOnly(w) PROVE TypeOK'
  <2>1. stored' \in Persisted /\ disk' \in Persisted
    BY <1>6, Records, Typed DEF CommitLocalOnly, Save
  <2>2. /\ active' \in SUBSET Writer /\ blocked' \in BOOLEAN
        /\ change' \in Origin \cup {"none"} /\ sending' \in SUBSET Change
    BY <1>6, <2>1, FinishTyped DEF CommitLocalOnly
  <2>q. QED
    BY <1>6, <2>1, <2>2 DEF CommitLocalOnly, Finish
<1>7. ASSUME NEW w \in Writer, CommitFails(w) PROVE TypeOK'
  BY <1>7, Records, GateAssumption DEF CommitFails, SaveFails, RecordIfLanded
<1>8. ASSUME NEW w \in Writer, AbortUnmodified(w) PROVE TypeOK'
  <2>1. stored' \in Persisted /\ disk' \in Persisted
    BY <1>8, Records, Typed DEF AbortUnmodified, Save
  <2>2. /\ active' \in SUBSET Writer /\ blocked' \in BOOLEAN
        /\ change' \in Origin \cup {"none"} /\ sending' \in SUBSET Change
    BY <1>8, <2>1, FinishTyped DEF AbortUnmodified
  <2>q. QED
    BY <1>8, <2>1, <2>2 DEF AbortUnmodified, Finish
<1>9. ASSUME NEW w \in Writer, AbortFails(w) PROVE TypeOK'
  BY <1>9, Records, GateAssumption DEF AbortFails, SaveFails
<1>10. ASSUME NEW w \in Writer, DropPermit(w) PROVE TypeOK'
  BY <1>10, Records, GateAssumption DEF DropPermit
<1>11. CASE TryExclusive
  BY <1>11, Records, GateAssumption DEF TryExclusive, Exclusive
<1>12. CASE TryExclusiveRecovery
  <2>1. Exclusive("recovery")
    BY <1>12, Zenon DEF TryExclusiveRecovery
  <2>2. blocked' \in BOOLEAN
    BY <1>12, FlagTyped DEF TryExclusiveRecovery
  <2>3. stored' \in Persisted
    BY <1>12, Typed, Zenon DEF TryExclusiveRecovery
  <2>4. fault' \in BOOLEAN
    BY <1>12, Zenon DEF TryExclusiveRecovery
  <2>q. QED
    BY <2>1, <2>2, <2>3, <2>4 DEF Exclusive
<1>13. CASE ReleaseExclusive
  BY <1>13, Records, GateAssumption DEF ReleaseExclusive
<1>14. CASE AcceptReconciledCapture
  <2>1. stored' \in Persisted /\ disk' \in Persisted
    BY <1>14, Records, Typed DEF AcceptReconciledCapture, ExclusiveSave, Save
  <2>2. blocked' \in BOOLEAN
    BY <1>14, FlagTyped DEF AcceptReconciledCapture, ExclusiveSave
  <2>3. sending' \in SUBSET Change
    BY <1>14, <2>1, AnnounceTyped DEF AcceptReconciledCapture
  <2>q. QED
    BY <1>14, <2>1, <2>2, <2>3 DEF AcceptReconciledCapture, ExclusiveSave
<1>15. CASE ReconcileFails
  BY <1>15, Records, GateAssumption DEF ReconcileFails, MayReconcile, RecordIfLanded, ExclusiveSaveFails, Holding, SaveFails
<1>16. CASE MarkRestorePending
  <2>1. CASE ExclusiveSave(MarkedPending) /\ UNCHANGED sending
    <3>1. stored' \in Persisted /\ disk' \in Persisted
      BY <2>1, Records DEF ExclusiveSave, Save
    <3>2. blocked' \in BOOLEAN
      BY <2>1, FlagTyped DEF ExclusiveSave
    <3>q. QED
      BY <1>16, <2>1, <3>1, <3>2 DEF MarkRestorePending, ExclusiveSave
  <2>2. CASE ExclusiveSaveFails(MarkedPending)
    <3>1. disk' \in Persisted
      BY <2>2, Records, Typed DEF ExclusiveSaveFails, SaveFails
    <3>q. QED
      BY <1>16, <2>2, <3>1 DEF MarkRestorePending, ExclusiveSaveFails, SaveFails
  <2>q. QED
    BY <1>16, <2>1, <2>2 DEF MarkRestorePending
<1>17. CASE MarkJournalReady
  <2>1. CASE ExclusiveSave(MarkedReady) /\ UNCHANGED sending
    <3>1. stored' \in Persisted /\ disk' \in Persisted
      BY <2>1, Records DEF ExclusiveSave, Save
    <3>2. blocked' \in BOOLEAN
      BY <2>1, FlagTyped DEF ExclusiveSave
    <3>q. QED
      BY <1>17, <2>1, <3>1, <3>2 DEF MarkJournalReady, ExclusiveSave
  <2>2. CASE ExclusiveSaveFails(MarkedReady)
    <3>1. disk' \in Persisted
      BY <2>2, Records, Typed DEF ExclusiveSaveFails, SaveFails
    <3>q. QED
      BY <1>17, <2>2, <3>1 DEF MarkJournalReady, ExclusiveSaveFails, SaveFails
  <2>q. QED
    BY <1>17, <2>1, <2>2 DEF MarkJournalReady
<1>18. CASE Replace
  BY <1>18, Records, GateAssumption DEF Replace, Holding
<1>19. ASSUME NEW k \in BOOLEAN, FinishRestore(k) PROVE TypeOK'
  <2>1. stored' \in Persisted /\ disk' \in Persisted
    BY <1>19, Records, Typed DEF FinishRestore, ExclusiveSave, Save
  <2>2. blocked' \in BOOLEAN
    BY <1>19, FlagTyped DEF FinishRestore, ExclusiveSave
  <2>3. sending' \in SUBSET Change
    BY <1>19, <2>1, AnnounceTyped DEF FinishRestore
  <2>q. QED
    BY <1>19, <2>1, <2>2, <2>3 DEF FinishRestore, ExclusiveSave
<1>20. ASSUME NEW k \in BOOLEAN, FinishFails(k) PROVE TypeOK'
  <2>1. stored' \in Persisted /\ disk' \in Persisted
    BY <1>20, Records, Typed DEF FinishFails, ExclusiveSaveFails, SaveFails
  <2>q. QED
    BY <1>20, <2>1 DEF FinishFails, ExclusiveSaveFails, SaveFails, RecordIfLanded
<1>21. ASSUME NEW n \in sending, Publish(n) PROVE TypeOK'
  BY <1>21, Records, GateAssumption DEF Publish
<1>22. ASSUME NEW r \in Reader, Sample(r) PROVE TypeOK'
  <2>1. stored.generation \in Nat
    BY Typed DEF Persisted
  <2>q. QED
    BY <1>22, <2>1 DEF Sample, NoToken
<1>23. ASSUME NEW r \in Reader, ReadFile(r) PROVE TypeOK'
  <2>. DEFINE Token == [generation : Nat \cup {Unseen}, epoch : Nat, read : SUBSET Nat]
  <2>1. token \in [Reader -> Token]
    OBVIOUS
  <2>. HIDE DEF TypeOK
  <2>2. token[r] \in Token
    BY <2>1
  <2>3. content \in Nat
    BY DEF TypeOK
  <2>4. token[r].read \cup {content} \in SUBSET Nat
    BY <2>2, <2>3
  <2>5. [token[r] EXCEPT !.read = @ \cup {content}] \in Token
    BY <2>2, <2>4
  <2>6. token' = [token EXCEPT ![r] = [token[r] EXCEPT !.read = @ \cup {content}]]
    BY <1>23, <2>1 DEF ReadFile
  <2>. HIDE DEF Token
  <2>7. token' \in [Reader -> Token]
    BY <2>1, <2>5, <2>6
  <2>q. QED
    BY <1>23, <2>7 DEF ReadFile, Token, TypeOK
<1>24. ASSUME NEW r \in Reader, EndCapture(r) PROVE TypeOK'
  BY <1>24, GateAssumption DEF EndCapture, NoToken
<1>25. CASE Restart
  <2>1. blocked' \in BOOLEAN
    BY <1>25, FlagIsBoolean, Zenon DEF Restart
  <2>2. [generation |-> disk.generation, origin |-> "Recovery"] \in Change
    BY Typed DEF Persisted, Change, Origin
  <2>q. QED
    BY <1>25, <2>1, <2>2 DEF Restart, NoToken
<1>26. CASE UNCHANGED vars
  BY <1>26
<1>q. QED
  BY <1>1, <1>2, <1>3, <1>4, <1>5, <1>6, <1>7, <1>8, <1>9, <1>10, <1>11, <1>12, <1>13, <1>14, <1>15, <1>16, <1>17, <1>18, <1>19, <1>20, <1>21, <1>22, <1>23, <1>24, <1>25, <1>26
     DEF Next, WriterStep, ExclusiveStep

(* The gate and the disk, layer one.                                         *)
LEMMA GateStep == TypeOK /\ GateInv /\ [Next]_vars => GateInv'
<1> SUFFICES ASSUME TypeOK, GateInv, [Next]_vars PROVE GateInv'
  OBVIOUS
<1> USE DEF GateInv, MemoryIsDisk, RuntimeFlagExact, LeaseIsAlone, NormalLeaseClean,
           NoRestoreAround, PermitsRegistered, RestoreExcludesIntents, RuntimeFlag, Orphaned, Shape
<1>1. ASSUME NEW w \in Writer, BeginMutation(w) PROVE GateInv'
  BY <1>1, Records, Typed DEF BeginMutation, MayBegin, Unhealthy, Orphaned, Save, RuntimeFlag
<1>2. ASSUME NEW w \in Writer, BeginFails(w) PROVE GateInv'
  BY <1>2, Records, Typed DEF BeginFails, MayBegin, SaveFails, Unhealthy, Orphaned
<1>3. ASSUME NEW w \in Writer, WriteSynced(w) PROVE GateInv'
  BY <1>3, Records, Typed DEF WriteSynced
<1>4. ASSUME NEW w \in Writer, WriteLocal(w) PROVE GateInv'
  BY <1>4, Records, Typed DEF WriteLocal
<1>5. ASSUME NEW w \in Writer, NEW o \in CommitOrigin, Commit(w, o) PROVE GateInv'
  BY <1>5, Records, Typed DEF Commit, Save, Finish, RuntimeFlag
<1>6. ASSUME NEW w \in Writer, CommitLocalOnly(w) PROVE GateInv'
  BY <1>6, Records, Typed DEF CommitLocalOnly, Save, Finish, RuntimeFlag
<1>7. ASSUME NEW w \in Writer, CommitFails(w) PROVE GateInv'
  BY <1>7, Records, Typed DEF CommitFails, SaveFails, RecordIfLanded
<1>8. ASSUME NEW w \in Writer, AbortUnmodified(w) PROVE GateInv'
  BY <1>8, Records, Typed DEF AbortUnmodified, Save, Finish, RuntimeFlag
<1>9. ASSUME NEW w \in Writer, AbortFails(w) PROVE GateInv'
  BY <1>9, Records, Typed DEF AbortFails, SaveFails
<1>10. ASSUME NEW w \in Writer, DropPermit(w) PROVE GateInv'
  BY <1>10, Records, Typed DEF DropPermit
<1>11. CASE TryExclusive
  BY <1>11, Records, Typed DEF TryExclusive, Exclusive, Unhealthy, Orphaned
<1>12. CASE TryExclusiveRecovery
  BY <1>12, Records, Typed DEF TryExclusiveRecovery, Exclusive, RuntimeFlag, Orphaned
<1>13. CASE ReleaseExclusive
  BY <1>13, Records, Typed DEF ReleaseExclusive
<1>14. CASE AcceptReconciledCapture
  BY <1>14, Records, Typed DEF AcceptReconciledCapture, MayReconcile, Announce, ExclusiveSave, Holding, Save, RuntimeFlag
<1>15. CASE ReconcileFails
  BY <1>15, Records, Typed DEF ReconcileFails, MayReconcile, RecordIfLanded, ExclusiveSaveFails, Holding, SaveFails
<1>16. CASE MarkRestorePending
  BY <1>16, Records, Typed DEF MarkRestorePending, MayMark, ExclusiveSave, ExclusiveSaveFails, Holding, Save, SaveFails, RuntimeFlag
<1>17. CASE MarkJournalReady
  BY <1>17, Records, Typed DEF MarkJournalReady, ExclusiveSave, ExclusiveSaveFails, Holding, Save, SaveFails, RuntimeFlag
<1>18. CASE Replace
  BY <1>18, Records, Typed DEF Replace, Holding
<1>19. ASSUME NEW k \in BOOLEAN, FinishRestore(k) PROVE GateInv'
  BY <1>19, Records, Typed DEF FinishRestore, MayFinish, Announce, ExclusiveSave, Holding, Save, RuntimeFlag
<1>20. ASSUME NEW k \in BOOLEAN, FinishFails(k) PROVE GateInv'
  BY <1>20, Records, Typed DEF FinishFails, MayFinish, RecordIfLanded, ExclusiveSaveFails, Holding, SaveFails
<1>21. ASSUME NEW n \in sending, Publish(n) PROVE GateInv'
  BY <1>21, Records, Typed DEF Publish
<1>22. ASSUME NEW r \in Reader, Sample(r) PROVE GateInv'
  BY <1>22, Records, Typed DEF Sample, Coherent, Unhealthy, NoToken
<1>23. ASSUME NEW r \in Reader, ReadFile(r) PROVE GateInv'
  BY <1>23, Records, Typed DEF ReadFile, NoToken
<1>24. ASSUME NEW r \in Reader, EndCapture(r) PROVE GateInv'
  BY <1>24, Records, Typed DEF EndCapture, NoToken
<1>25. CASE Restart
  BY <1>25, Records, Typed DEF Restart, NoToken, RuntimeFlag, Orphaned
<1>26. CASE UNCHANGED vars
  BY <1>26
<1>q. QED
  BY <1>1, <1>2, <1>3, <1>4, <1>5, <1>6, <1>7, <1>8, <1>9, <1>10, <1>11, <1>12, <1>13, <1>14, <1>15, <1>16, <1>17, <1>18, <1>19, <1>20, <1>21, <1>22, <1>23, <1>24, <1>25, <1>26
     DEF Next, WriterStep, ExclusiveStep

(* The data and the disk, layer two.                                         *)
LEMMA DataStep == TypeOK /\ GateInv /\ DataInv /\ [Next]_vars => DataInv'
<1> SUFFICES ASSUME TypeOK, GateInv, DataInv, [Next]_vars PROVE DataInv'
  OBVIOUS
<1> USE DEF DataInv, Accounts, Suspect, GateInv, MemoryIsDisk, LeaseIsAlone, NormalLeaseClean,
           NoRestoreAround, PermitsRegistered, RestoreExcludesIntents, Shape
<1>1. ASSUME NEW w \in Writer, BeginMutation(w) PROVE DataInv'
  BY <1>1, Records, Typed DEF BeginMutation, MayBegin, Unhealthy, Orphaned, Save, RuntimeFlag
<1>2. ASSUME NEW w \in Writer, BeginFails(w) PROVE DataInv'
  BY <1>2, Records, Typed DEF BeginFails, MayBegin, SaveFails, Unhealthy, Orphaned
<1>3. ASSUME NEW w \in Writer, WriteSynced(w) PROVE DataInv'
  BY <1>3, Records, Typed DEF WriteSynced
<1>4. ASSUME NEW w \in Writer, WriteLocal(w) PROVE DataInv'
  BY <1>4, Records, Typed DEF WriteLocal
<1>5. ASSUME NEW w \in Writer, NEW o \in CommitOrigin, Commit(w, o) PROVE DataInv'
  BY <1>5, Records, Typed DEF Commit, Save, Finish, RuntimeFlag
<1>6. ASSUME NEW w \in Writer, CommitLocalOnly(w) PROVE DataInv'
  BY <1>6, Records, Typed DEF CommitLocalOnly, Save, Finish, RuntimeFlag
<1>7. ASSUME NEW w \in Writer, CommitFails(w) PROVE DataInv'
  BY <1>7, Records, Typed DEF CommitFails, SaveFails, RecordIfLanded
<1>8. ASSUME NEW w \in Writer, AbortUnmodified(w) PROVE DataInv'
  BY <1>8, Records, Typed DEF AbortUnmodified, Save, Finish, RuntimeFlag
<1>9. ASSUME NEW w \in Writer, AbortFails(w) PROVE DataInv'
  BY <1>9, Records, Typed DEF AbortFails, SaveFails
<1>10. ASSUME NEW w \in Writer, DropPermit(w) PROVE DataInv'
  BY <1>10, Records, Typed DEF DropPermit
<1>11. CASE TryExclusive
  BY <1>11, Records, Typed DEF TryExclusive, Exclusive, Unhealthy, Orphaned
<1>12. CASE TryExclusiveRecovery
  BY <1>12, Records, Typed DEF TryExclusiveRecovery, Exclusive, RuntimeFlag, Orphaned
<1>13. CASE ReleaseExclusive
  BY <1>13, Records, Typed DEF ReleaseExclusive
<1>14. CASE AcceptReconciledCapture
  BY <1>14, Records, Typed DEF AcceptReconciledCapture, MayReconcile, Announce, ExclusiveSave, Holding, Save, RuntimeFlag
<1>15. CASE ReconcileFails
  BY <1>15, Records, Typed DEF ReconcileFails, MayReconcile, RecordIfLanded, ExclusiveSaveFails, Holding, SaveFails
<1>16. CASE MarkRestorePending
  BY <1>16, Records, Typed DEF MarkRestorePending, MayMark, ExclusiveSave, ExclusiveSaveFails, Holding, Save, SaveFails, RuntimeFlag
<1>17. CASE MarkJournalReady
  BY <1>17, Records, Typed DEF MarkJournalReady, ExclusiveSave, ExclusiveSaveFails, Holding, Save, SaveFails, RuntimeFlag
<1>18. CASE Replace
  BY <1>18, Records, Typed DEF Replace, Holding
<1>19. ASSUME NEW k \in BOOLEAN, FinishRestore(k) PROVE DataInv'
  BY <1>19, Records, Typed DEF FinishRestore, MayFinish, Announce, ExclusiveSave, Holding, Save, RuntimeFlag
<1>20. ASSUME NEW k \in BOOLEAN, FinishFails(k) PROVE DataInv'
  BY <1>20, Records, Typed DEF FinishFails, MayFinish, RecordIfLanded, ExclusiveSaveFails, Holding, SaveFails
<1>21. ASSUME NEW n \in sending, Publish(n) PROVE DataInv'
  BY <1>21, Records, Typed DEF Publish
<1>22. ASSUME NEW r \in Reader, Sample(r) PROVE DataInv'
  BY <1>22, Records, Typed DEF Sample, Coherent, Unhealthy, NoToken
<1>23. ASSUME NEW r \in Reader, ReadFile(r) PROVE DataInv'
  BY <1>23, Records, Typed DEF ReadFile, NoToken
<1>24. ASSUME NEW r \in Reader, EndCapture(r) PROVE DataInv'
  BY <1>24, Records, Typed DEF EndCapture, NoToken
<1>25. CASE Restart
  BY <1>25, Records, Typed DEF Restart, NoToken, RuntimeFlag, Orphaned
<1>26. CASE UNCHANGED vars
  BY <1>26
<1>q. QED
  BY <1>1, <1>2, <1>3, <1>4, <1>5, <1>6, <1>7, <1>8, <1>9, <1>10, <1>11, <1>12, <1>13, <1>14, <1>15, <1>16, <1>17, <1>18, <1>19, <1>20, <1>21, <1>22, <1>23, <1>24, <1>25, <1>26
     DEF Next, WriterStep, ExclusiveStep

(* The readers, layer three.                                                 *)
LEMMA ReadStep == TypeOK /\ GateInv /\ ReadInv /\ [Next]_vars => ReadInv'
<1> SUFFICES ASSUME TypeOK, GateInv, ReadInv, [Next]_vars PROVE ReadInv'
  OBVIOUS
<1> USE DEF ReadInv, Shape
<1>1. ASSUME NEW w \in Writer, BeginMutation(w) PROVE ReadInv'
  BY <1>1, Typed DEF BeginMutation, MayBegin, Unhealthy, Orphaned, Save, RuntimeFlag
<1>2. ASSUME NEW w \in Writer, BeginFails(w) PROVE ReadInv'
  BY <1>2, Typed DEF BeginFails, MayBegin, SaveFails, Unhealthy, Orphaned
<1>3. ASSUME NEW w \in Writer, WriteSynced(w) PROVE ReadInv'
  BY <1>3, Typed DEF WriteSynced
<1>4. ASSUME NEW w \in Writer, WriteLocal(w) PROVE ReadInv'
  BY <1>4, Typed DEF WriteLocal
<1>5. ASSUME NEW w \in Writer, NEW o \in CommitOrigin, Commit(w, o) PROVE ReadInv'
  BY <1>5, Typed DEF Commit, Save, Finish, RuntimeFlag
<1>6. ASSUME NEW w \in Writer, CommitLocalOnly(w) PROVE ReadInv'
  BY <1>6, Typed DEF CommitLocalOnly, Save, Finish, RuntimeFlag
<1>7. ASSUME NEW w \in Writer, CommitFails(w) PROVE ReadInv'
  BY <1>7, Typed DEF CommitFails, SaveFails, RecordIfLanded
<1>8. ASSUME NEW w \in Writer, AbortUnmodified(w) PROVE ReadInv'
  BY <1>8, Typed DEF AbortUnmodified, Save, Finish, RuntimeFlag
<1>9. ASSUME NEW w \in Writer, AbortFails(w) PROVE ReadInv'
  BY <1>9, Typed DEF AbortFails, SaveFails
<1>10. ASSUME NEW w \in Writer, DropPermit(w) PROVE ReadInv'
  BY <1>10, Typed DEF DropPermit
<1>11. CASE TryExclusive
  BY <1>11, Typed DEF TryExclusive, Exclusive, Unhealthy, Orphaned
<1>12. CASE TryExclusiveRecovery
  BY <1>12, Typed DEF TryExclusiveRecovery, Exclusive, RuntimeFlag, Orphaned
<1>13. CASE ReleaseExclusive
  BY <1>13, Typed DEF ReleaseExclusive
<1>14. CASE AcceptReconciledCapture
  BY <1>14, Typed DEF AcceptReconciledCapture, MayReconcile, Announce, ExclusiveSave, Holding, Save, RuntimeFlag
<1>15. CASE ReconcileFails
  BY <1>15, Typed DEF ReconcileFails, MayReconcile, RecordIfLanded, ExclusiveSaveFails, Holding, SaveFails
<1>16. CASE MarkRestorePending
  BY <1>16, Typed DEF MarkRestorePending, MayMark, ExclusiveSave, ExclusiveSaveFails, Holding, Save, SaveFails, RuntimeFlag
<1>17. CASE MarkJournalReady
  BY <1>17, Typed DEF MarkJournalReady, ExclusiveSave, ExclusiveSaveFails, Holding, Save, SaveFails, RuntimeFlag
<1>18. CASE Replace
  BY <1>18, Typed DEF Replace, Holding
<1>19. ASSUME NEW k \in BOOLEAN, FinishRestore(k) PROVE ReadInv'
  BY <1>19, Typed DEF FinishRestore, MayFinish, Announce, ExclusiveSave, Holding, Save, RuntimeFlag
<1>20. ASSUME NEW k \in BOOLEAN, FinishFails(k) PROVE ReadInv'
  BY <1>20, Typed DEF FinishFails, MayFinish, RecordIfLanded, ExclusiveSaveFails, Holding, SaveFails
<1>21. ASSUME NEW n \in sending, Publish(n) PROVE ReadInv'
  BY <1>21, Typed DEF Publish
<1>22. ASSUME NEW r \in Reader, Sample(r) PROVE ReadInv'
  BY <1>22, Typed DEF Sample, Coherent, Unhealthy, NoToken
<1>23. ASSUME NEW r \in Reader, ReadFile(r) PROVE ReadInv'
  BY <1>23, Typed DEF ReadFile, NoToken
<1>24. ASSUME NEW r \in Reader, EndCapture(r) PROVE ReadInv'
  BY <1>24, Typed DEF EndCapture, NoToken
<1>25. CASE Restart
  BY <1>25, Typed DEF Restart, NoToken, RuntimeFlag, Orphaned
<1>26. CASE UNCHANGED vars
  BY <1>26
<1>q. QED
  BY <1>1, <1>2, <1>3, <1>4, <1>5, <1>6, <1>7, <1>8, <1>9, <1>10, <1>11, <1>12, <1>13, <1>14, <1>15, <1>16, <1>17, <1>18, <1>19, <1>20, <1>21, <1>22, <1>23, <1>24, <1>25, <1>26
     DEF Next, WriterStep, ExclusiveStep

(* The notifications, layer four.                                            *)
LEMMA NotifyStep == TypeOK /\ GateInv /\ NotifyInv /\ [Next]_vars => NotifyInv'
<1> SUFFICES ASSUME TypeOK, GateInv, NotifyInv, [Next]_vars PROVE NotifyInv'
  OBVIOUS
<1> USE DEF NotifyInv, Persisted, Change, GateInv, MemoryIsDisk, Shape
<1>1. ASSUME NEW w \in Writer, BeginMutation(w) PROVE NotifyInv'
  BY <1>1, Records, Typed DEF BeginMutation, MayBegin, Unhealthy, Orphaned, Save, RuntimeFlag
<1>2. ASSUME NEW w \in Writer, BeginFails(w) PROVE NotifyInv'
  BY <1>2, Records, Typed DEF BeginFails, MayBegin, SaveFails, Unhealthy, Orphaned
<1>3. ASSUME NEW w \in Writer, WriteSynced(w) PROVE NotifyInv'
  BY <1>3, Records, Typed DEF WriteSynced
<1>4. ASSUME NEW w \in Writer, WriteLocal(w) PROVE NotifyInv'
  BY <1>4, Records, Typed DEF WriteLocal
<1>5. ASSUME NEW w \in Writer, NEW o \in CommitOrigin, Commit(w, o) PROVE NotifyInv'
  <2>1. channel.generation \in Nat /\ stored.generation \in Nat /\ disk.generation \in Nat
        /\ \A n \in sending : n.generation \in Nat
    BY DEF TypeOK, Persisted, Change
  <2>2. stored'.generation = stored.generation + 1 /\ disk'.generation = stored'.generation
    BY <1>5, Records, Typed DEF Commit, Save
  <2>3. channel' = channel /\ \A n \in sending' : n \in sending \/ n.generation = stored'.generation
    BY <1>5 DEF Commit, Finish
  <2>q. QED
    BY <2>1, <2>2, <2>3 DEF NotifyInv
<1>6. ASSUME NEW w \in Writer, CommitLocalOnly(w) PROVE NotifyInv'
  BY <1>6, Records, Typed DEF CommitLocalOnly, Save, Finish, RuntimeFlag
<1>7. ASSUME NEW w \in Writer, CommitFails(w) PROVE NotifyInv'
  BY <1>7, Records, Typed DEF CommitFails, SaveFails, RecordIfLanded
<1>8. ASSUME NEW w \in Writer, AbortUnmodified(w) PROVE NotifyInv'
  BY <1>8, Records, Typed DEF AbortUnmodified, Save, Finish, RuntimeFlag
<1>9. ASSUME NEW w \in Writer, AbortFails(w) PROVE NotifyInv'
  BY <1>9, Records, Typed DEF AbortFails, SaveFails
<1>10. ASSUME NEW w \in Writer, DropPermit(w) PROVE NotifyInv'
  BY <1>10, Records, Typed DEF DropPermit
<1>11. CASE TryExclusive
  BY <1>11, Records, Typed DEF TryExclusive, Exclusive, Unhealthy, Orphaned
<1>12. CASE TryExclusiveRecovery
  <2>1. channel.generation \in Nat /\ stored.generation \in Nat /\ disk.generation \in Nat
        /\ \A n \in sending : n.generation \in Nat
    BY DEF TypeOK, Persisted, Change
  <2>2. stored' = disk /\ disk' = disk /\ channel' = channel /\ sending' = sending
    BY <1>12, Zenon DEF TryExclusiveRecovery, Exclusive
  <2>q. QED
    BY <2>1, <2>2 DEF NotifyInv
<1>13. CASE ReleaseExclusive
  BY <1>13, Records, Typed DEF ReleaseExclusive
<1>14. CASE AcceptReconciledCapture
  <2>1. channel.generation \in Nat /\ stored.generation \in Nat /\ disk.generation \in Nat
        /\ \A n \in sending : n.generation \in Nat
    BY DEF TypeOK, Persisted, Change
  <2>2. stored'.generation = stored.generation + 1 /\ disk'.generation = stored'.generation
    BY <1>14, Records, Typed DEF AcceptReconciledCapture, ExclusiveSave, Save
  <2>3. channel' = channel /\ \A n \in sending' : n \in sending \/ n.generation = stored'.generation
    BY <1>14 DEF AcceptReconciledCapture, ExclusiveSave, Announce
  <2>q. QED
    BY <2>1, <2>2, <2>3 DEF NotifyInv
<1>15. CASE ReconcileFails
  BY <1>15, Records, Typed DEF ReconcileFails, MayReconcile, RecordIfLanded, ExclusiveSaveFails, Holding, SaveFails
<1>16. CASE MarkRestorePending
  BY <1>16, Records, Typed DEF MarkRestorePending, MayMark, ExclusiveSave, ExclusiveSaveFails, Holding, Save, SaveFails, RuntimeFlag
<1>17. CASE MarkJournalReady
  BY <1>17, Records, Typed DEF MarkJournalReady, ExclusiveSave, ExclusiveSaveFails, Holding, Save, SaveFails, RuntimeFlag
<1>18. CASE Replace
  BY <1>18, Records, Typed DEF Replace, Holding
<1>19. ASSUME NEW k \in BOOLEAN, FinishRestore(k) PROVE NotifyInv'
  <2>1. channel.generation \in Nat /\ stored.generation \in Nat /\ disk.generation \in Nat
        /\ \A n \in sending : n.generation \in Nat
    BY DEF TypeOK, Persisted, Change
  <2>2. stored'.generation >= stored.generation /\ disk'.generation = stored'.generation
        /\ stored'.generation \in Nat
    BY <1>19, <2>1, Records, Typed DEF FinishRestore, ExclusiveSave, Save
  <2>3. channel' = channel /\ \A n \in sending' : n \in sending \/ n.generation = stored'.generation
    BY <1>19 DEF FinishRestore, ExclusiveSave, Announce
  <2>q. QED
    BY <2>1, <2>2, <2>3 DEF NotifyInv
<1>20. ASSUME NEW k \in BOOLEAN, FinishFails(k) PROVE NotifyInv'
  <2>1. channel.generation \in Nat /\ stored.generation \in Nat /\ disk.generation \in Nat
        /\ \A n \in sending : n.generation \in Nat
    BY DEF TypeOK, Persisted, Change
  <2>2. disk'.generation \in Nat /\ disk'.generation >= stored.generation
        /\ stored' = stored /\ channel' = channel /\ sending' = sending
    BY <1>20, <2>1, Records, Typed DEF FinishFails, ExclusiveSaveFails, SaveFails
  <2>q. QED
    BY <2>1, <2>2 DEF NotifyInv
<1>21. ASSUME NEW n \in sending, Publish(n) PROVE NotifyInv'
  BY <1>21, Records, Typed DEF Publish
<1>22. ASSUME NEW r \in Reader, Sample(r) PROVE NotifyInv'
  BY <1>22, Records, Typed DEF Sample, Coherent, Unhealthy, NoToken
<1>23. ASSUME NEW r \in Reader, ReadFile(r) PROVE NotifyInv'
  BY <1>23, Records, Typed DEF ReadFile, NoToken
<1>24. ASSUME NEW r \in Reader, EndCapture(r) PROVE NotifyInv'
  BY <1>24, Records, Typed DEF EndCapture, NoToken
<1>25. CASE Restart
  BY <1>25, Records, Typed DEF Restart, NoToken, RuntimeFlag, Orphaned
<1>26. CASE UNCHANGED vars
  BY <1>26
<1>q. QED
  BY <1>1, <1>2, <1>3, <1>4, <1>5, <1>6, <1>7, <1>8, <1>9, <1>10, <1>11, <1>12, <1>13, <1>14, <1>15, <1>16, <1>17, <1>18, <1>19, <1>20, <1>21, <1>22, <1>23, <1>24, <1>25, <1>26
     DEF Next, WriterStep, ExclusiveStep

(* The named generations, layer five.                                       *)
LEMMA NameStep ==
    TypeOK /\ GateInv /\ DataInv /\ ReadInv /\ NotifyInv /\ NameInv /\ [Next]_vars => NameInv'
<1> SUFFICES ASSUME TypeOK, GateInv, DataInv, ReadInv, NotifyInv, NameInv, [Next]_vars PROVE NameInv'
  OBVIOUS
<1> USE DEF NameInv, StandsFor, Accounts, Suspect, GateInv, MemoryIsDisk, LeaseIsAlone, NormalLeaseClean,
           NoRestoreAround, PermitsRegistered, RestoreExcludesIntents, Shape
<1>1. ASSUME NEW w \in Writer, BeginMutation(w) PROVE NameInv'
  BY <1>1, Records, Typed, Names DEF BeginMutation, MayBegin, Unhealthy, Orphaned, Save, RuntimeFlag
<1>2. ASSUME NEW w \in Writer, BeginFails(w) PROVE NameInv'
  BY <1>2, Records, Typed, Names DEF BeginFails, MayBegin, SaveFails, Unhealthy, Orphaned
<1>3. ASSUME NEW w \in Writer, WriteSynced(w) PROVE NameInv'
  BY <1>3, Records, Typed, Names DEF WriteSynced
<1>4. ASSUME NEW w \in Writer, WriteLocal(w) PROVE NameInv'
  BY <1>4, Records, Typed, Names DEF WriteLocal
<1>5. ASSUME NEW w \in Writer, NEW o \in CommitOrigin, Commit(w, o) PROVE NameInv'
  BY <1>5, Records, Typed, Names DEF Commit, Save, Finish, RuntimeFlag
<1>6. ASSUME NEW w \in Writer, CommitLocalOnly(w) PROVE NameInv'
  BY <1>6, Records, Typed, Names DEF CommitLocalOnly, Save, Finish, RuntimeFlag
<1>7. ASSUME NEW w \in Writer, CommitFails(w) PROVE NameInv'
  BY <1>7, Records, Typed, Names DEF CommitFails, SaveFails, RecordIfLanded
<1>8. ASSUME NEW w \in Writer, AbortUnmodified(w) PROVE NameInv'
  BY <1>8, Records, Typed, Names DEF AbortUnmodified, Save, Finish, RuntimeFlag
<1>9. ASSUME NEW w \in Writer, AbortFails(w) PROVE NameInv'
  BY <1>9, Records, Typed, Names DEF AbortFails, SaveFails
<1>10. ASSUME NEW w \in Writer, DropPermit(w) PROVE NameInv'
  BY <1>10, Records, Typed, Names DEF DropPermit
<1>11. CASE TryExclusive
  BY <1>11, Records, Typed, Names DEF TryExclusive, Exclusive, Unhealthy, Orphaned
<1>12. CASE TryExclusiveRecovery
  <2>1. /\ stored' = disk /\ disk' = disk /\ active = {} /\ active' = active
        /\ content' = content /\ named' = named /\ before' = before
    BY <1>12, Zenon DEF TryExclusiveRecovery, Exclusive
  <2>2. stored.generation <= disk.generation
    BY DEF NotifyInv
  <2>q. QED
    BY <2>1, <2>2, Typed, Names
<1>13. CASE ReleaseExclusive
  BY <1>13, Records, Typed, Names DEF ReleaseExclusive
<1>14. CASE AcceptReconciledCapture
  BY <1>14, Records, Typed, Names DEF AcceptReconciledCapture, MayReconcile, Announce, ExclusiveSave, Holding, Save, RuntimeFlag
<1>15. CASE ReconcileFails
  BY <1>15, Records, Typed, Names DEF ReconcileFails, MayReconcile, RecordIfLanded, ExclusiveSaveFails, Holding, SaveFails
<1>16. CASE MarkRestorePending
  BY <1>16, Records, Typed, Names DEF MarkRestorePending, MayMark, ExclusiveSave, ExclusiveSaveFails, Holding, Save, SaveFails, RuntimeFlag
<1>17. CASE MarkJournalReady
  BY <1>17, Records, Typed, Names DEF MarkJournalReady, ExclusiveSave, ExclusiveSaveFails, Holding, Save, SaveFails, RuntimeFlag
<1>18. CASE Replace
  BY <1>18, Records, Typed, Names DEF Replace, Holding
<1>19. ASSUME NEW k \in BOOLEAN, FinishRestore(k) PROVE NameInv'
  <2>1. CASE k = TRUE
    <3>1. /\ stored' = Finished(TRUE) /\ disk' = Finished(TRUE) /\ named' = named
          /\ stored.generation < MaxGen
      BY <1>19, <2>1, Zenon DEF FinishRestore, MayFinish, ExclusiveSave, Save
    <3>2. /\ stored'.generation = stored.generation + 1 /\ stored'.restore = "none"
          /\ disk' = stored'
      BY <3>1, Records
    <3>3. named' = named /\ stored.generation < MaxGen
      BY <3>1
    <3>q. QED
      BY <3>2, <3>3, Names
  <2>2. CASE k = FALSE
    BY <1>19, <2>2, Records, Typed, Names
       DEF FinishRestore, MayFinish, ExclusiveSave, Holding, Save
  <2>q. QED
    BY <2>1, <2>2, Zenon
<1>20. ASSUME NEW k \in BOOLEAN, FinishFails(k) PROVE NameInv'
  <2>1. CASE k = TRUE
    <3>1. /\ stored' = stored /\ disk' \in {disk, Finished(TRUE)} /\ named' = named
          /\ stored.generation < MaxGen /\ content' = content /\ before' = before
          /\ active' = active /\ effect' = effect
      <4>1. MayFinish(TRUE) /\ ExclusiveSaveFails(Finished(TRUE)) /\ UNCHANGED before
        BY <1>20, <2>1, Zenon DEF FinishFails
      <4>q. QED
        BY ONLY <4>1 DEF MayFinish, ExclusiveSaveFails, SaveFails, readVars
    <3>2. /\ stored' = stored /\ named' = named /\ stored.generation < MaxGen
          /\ content' = content /\ before' = before
          /\ active' = active /\ effect' = effect
      BY <3>1
    <3>3. \/ disk' = disk
          \/ disk'.generation = stored.generation + 1 /\ disk'.restore = "none"
      BY <3>1, Records
    <3>q. QED
      BY <3>2, <3>3, Names
  <2>2. CASE k = FALSE
    BY <1>20, <2>2, Records, Typed, Names
       DEF FinishFails, MayFinish, ExclusiveSaveFails, Holding, SaveFails
  <2>q. QED
    BY <2>1, <2>2, Zenon
<1>21. ASSUME NEW n \in sending, Publish(n) PROVE NameInv'
  BY <1>21, Records, Typed, Names DEF Publish
<1>22. ASSUME NEW r \in Reader, Sample(r) PROVE NameInv'
  BY <1>22, Records, Typed, Names DEF Sample, Coherent, Unhealthy, NoToken
<1>23. ASSUME NEW r \in Reader, ReadFile(r) PROVE NameInv'
  BY <1>23, Records, Typed, Names DEF ReadFile, NoToken
<1>24. ASSUME NEW r \in Reader, EndCapture(r) PROVE NameInv'
  <2>1. CASE SameToken(r) /\ token[r].read # {}
    <3>1. /\ ~fault /\ stored = disk /\ active = {} /\ stored.incomplete = {}
          /\ stored.restore = "none"
      BY <2>1 DEF SameToken, Coherent, Unhealthy, Orphaned
    <3>2. token[r].read = {content}
      BY <1>24, <2>1 DEF EndCapture, SameToken, ReadInv
    <3>3. (CHOOSE c \in token[r].read : TRUE) = content
      BY <3>2
    <3>4. named' = [named EXCEPT ![stored.generation] = content]
      BY <1>24, <2>1, <3>3 DEF EndCapture
    <3>q. QED
      BY <1>24, <3>1, <3>4, Typed, Names DEF EndCapture
  <2>2. CASE ~(SameToken(r) /\ token[r].read # {})
    BY <1>24, <2>2, Typed, Names DEF EndCapture
  <2>q. QED
    BY <2>1, <2>2
<1>25. CASE Restart
  <2>1. /\ stored' = disk /\ disk' = disk /\ active' = {}
        /\ content' = content /\ named' = named /\ before' = before
    BY <1>25, Zenon DEF Restart
  <2>2. stored.generation <= disk.generation
    BY DEF NotifyInv
  <2>3. StandsFor(disk)'
    BY <2>1
  <2>q. QED
    BY <2>1, <2>2, <2>3, Typed, Names
<1>26. CASE UNCHANGED vars
  BY <1>26
<1>q. QED
  BY <1>1, <1>2, <1>3, <1>4, <1>5, <1>6, <1>7, <1>8, <1>9, <1>10, <1>11, <1>12, <1>13, <1>14, <1>15, <1>16, <1>17, <1>18, <1>19, <1>20, <1>21, <1>22, <1>23, <1>24, <1>25, <1>26
     DEF Next, WriterStep, ExclusiveStep

----------------------------------------------------------------------------
(* The initial state: a fresh counter file and a quiet gate.                *)
LEMMA InitInv == Init => IInv
<1> SUFFICES ASSUME Init PROVE IInv
  OBVIOUS
<1>1. disk \in Persisted
  BY DEF Init, Persisted
<1>2. TypeOK
  BY <1>1, GateAssumption DEF Init, TypeOK, Change, Origin, Effect, NoToken
<1>3. GateInv
  <2>1. disk.incomplete = {} /\ disk.restore = "none" /\ stored = disk
    BY DEF Init
  <2>2. RuntimeFlagExact
    BY <2>1 DEF Init, RuntimeFlagExact, RuntimeFlag, Orphaned
  <2>q. QED
    BY <2>1, <2>2 DEF Init, GateInv, MemoryIsDisk, LeaseIsAlone, NormalLeaseClean,
          NoRestoreAround, PermitsRegistered, RestoreExcludesIntents
<1>4. DataInv
  BY DEF Init, DataInv
<1>5. ReadInv
  BY DEF Init, ReadInv
<1>6. NotifyInv
  BY DEF Init, NotifyInv
<1>7. NameInv
  BY GateAssumption DEF Init, NameInv, StandsFor
<1>q. QED
  BY <1>2, <1>3, <1>4, <1>5, <1>6, <1>7 DEF IInv

(* Every behaviour of the gate keeps the five layers.                      *)
THEOREM Inductive == Spec => []IInv
<1>1. IInv /\ [Next]_vars => IInv'
  BY TypeStep, GateStep, DataStep, ReadStep, NotifyStep, NameStep DEF IInv
<1>q. QED
  BY InitInv, <1>1, PTL DEF Spec

(* The variables keep their types.                                          *)
THEOREM TypeCorrect == Spec => []TypeOK
<1>1. IInv => TypeOK
  BY DEF IInv
<1>q. QED
  BY Inductive, <1>1, PTL

(* Crash safety of the counter: data it does not stand for always has its   *)
(* intent, or its ready restore journal, on disk; recovery finds a restore  *)
(* or interrupted writes, never both.                                       *)
THEOREM NoSilentChange == Spec => []UncertainIsAnnounced
<1>1. IInv => UncertainWriteHasIntent
  BY DEF IInv, DataInv, Accounts, UncertainWriteHasIntent
<1>2. IInv => UncertainIsAnnounced
  BY <1>1 DEF IInv, GateInv, UncertainIsAnnounced
<1>q. QED
  BY Inductive, <1>2, PTL

(* The lock-free flag is exact at every release of the mutex, and what      *)
(* admits ordinary runtime work again is a reconciled store.                *)
THEOREM AdmissionIsReconciled == Spec => []UnblockedIsSound
<1>1. IInv => UnblockedMeansReconciled
  <2> SUFFICES ASSUME IInv, ~blocked, active = {}, lease = "none"
               PROVE  stored = disk /\ content = recorded
    BY DEF UnblockedMeansReconciled
  <2>1. ~fault /\ stored.incomplete = {} /\ stored.restore = "none"
    BY DEF IInv, GateInv, RuntimeFlagExact, RuntimeFlag, Orphaned
  <2>2. stored = disk
    BY <2>1 DEF IInv, GateInv, MemoryIsDisk
  <2>3. content = recorded
    BY <2>1 DEF IInv, DataInv, Accounts
  <2>q. QED
    BY <2>2, <2>3
<1>2. IInv => UnblockedIsSound
  BY <1>1 DEF IInv, GateInv, UnblockedIsSound
<1>q. QED
  BY Inductive, <1>2, PTL

(* An accepted optimistic capture has read one version of the data.         *)
THEOREM CaptureIsCoherent == Spec => []TokenSound
<1>1. IInv => TokenSound
  BY DEF IInv, ReadInv, TokenSound, SameToken
<1>q. QED
  BY Inductive, <1>1, PTL

(* A generation names one version of the data: what a capture was accepted  *)
(* under never comes to stand for other data, whatever saves failed, writes *)
(* were interrupted and restores rolled back in between.                    *)
THEOREM GenerationsNameData == Spec => []GenerationNamesData
<1>1. IInv => GenerationNamesData
  <2> SUFFICES ASSUME IInv, Coherent, named[stored.generation] # Unseen
               PROVE  content = named[stored.generation]
    BY DEF GenerationNamesData
  <2>1. stored.incomplete = {} /\ stored.restore = "none"
    BY DEF Coherent, Unhealthy, Orphaned
  <2>2. ~Accounts(stored)
    BY <2>1 DEF Accounts
  <2>q. QED
    BY <2>2 DEF IInv, NameInv, StandsFor
<1>q. QED
  BY Inductive, <1>1, PTL

(* No subscriber sees the generation go back, not even across a restart.    *)
THEOREM NotificationsMonotone == Spec => NotificationsNeverGoBack
<1>1. IInv /\ [Next]_vars => [channel'.generation >= channel.generation]_channel
  <2> SUFFICES ASSUME IInv, Next, channel' # channel
               PROVE  channel'.generation >= channel.generation
    BY DEF vars, notifyVars
  <2>1. channel.generation \in Nat /\ disk.generation \in Nat /\ stored.generation \in Nat
    BY DEF IInv, TypeOK, Persisted, Change
  <2>2. ASSUME NEW n \in sending, Publish(n) PROVE channel'.generation >= channel.generation
    BY <2>2 DEF Publish, Supersedes
  <2>3. CASE Restart
    BY <2>1, <2>3 DEF Restart, IInv, NotifyInv
  <2>4. ASSUME NEW w \in Writer, WriterStep(w) PROVE FALSE
    BY <2>4 DEF WriterStep, BeginMutation, BeginFails, WriteSynced, WriteLocal, Commit,
       CommitLocalOnly, CommitFails, AbortUnmodified, AbortFails, DropPermit, Finish, SaveFails
  <2>5. CASE ExclusiveStep
    BY <2>5 DEF ExclusiveStep, TryExclusive, TryExclusiveRecovery, Exclusive, ReleaseExclusive,
       AcceptReconciledCapture, ReconcileFails, MarkRestorePending, MarkJournalReady, Replace,
       FinishRestore, FinishFails, ExclusiveSave, ExclusiveSaveFails, SaveFails
  <2>6. ASSUME NEW r \in Reader, Sample(r) \/ ReadFile(r) \/ EndCapture(r) PROVE FALSE
    BY <2>6 DEF Sample, ReadFile, EndCapture
  <2>q. QED
    BY <2>2, <2>3, <2>4, <2>5, <2>6 DEF Next
<1>q. QED
  BY Inductive, <1>1, PTL DEF Spec, NotificationsNeverGoBack

=============================================================================
