--------------------------- MODULE SyncCycleProofs --------------------------
(***************************************************************************)
(* Proofs about the sync cycle, for any number of devices and documents,   *)
(* any revision and any budget of edits and faults: an operation commits   *)
(* only while its device holds it as pending, what is reported as synced   *)
(* is what was agreed, the vault and the baselines implement VaultLog, and *)
(* nothing a user wrote is lost.                                           *)
(*                                                                         *)
(* The argument. The head's revision counts the commits, so the committed  *)
(* operations are the versions of the vault, one per revision. A device    *)
(* gives a pending operation up only when it is committed, was refused, or *)
(* is based on a revision that If-Match will never accept again. Each copy *)
(* of a baseline is a version, `known` never ahead of `stored`, and what   *)
(* is stored next, the proposal or the remote set, is not older. A flag in *)
(* `current` says of a recorded image that it is the present one, and that *)
(* its tombstones were written back: then a newer registered baseline with *)
(* the same documents does not change what is captured. Last, every copy   *)
(* of a baseline is covered by what the device's documents stand for; so   *)
(* of two entries the merge drops the one that is the baseline's, which    *)
(* the device on the other side had seen.                                  *)
(***************************************************************************)
EXTENDS SyncCycle, TLAPS

(* NoBaseline, or a version of a vault in which these operations committed.  *)
Version(b, ops) ==
    \/ b = NoBaseline
    \/ b = First
    \/ \E op \in ops : b = [rev |-> op.base + 1, docs |-> op.docs]

Fields(h) == [remote |-> h.remote, mine |-> h.mine, want |-> h.want]

Shape ==
    /\ pc = [d \in Devices |-> pc[d]] /\ mode = [d \in Devices |-> mode[d]]
    /\ hand = [d \in Devices |-> Fields(hand[d])]
    /\ stored = [d \in Devices |-> stored[d]] /\ registry = [d \in Devices |-> registry[d]]
    /\ known = [d \in Devices |-> known[d]] /\ pending = [d \in Devices |-> pending[d]]
    /\ preview = [d \in Devices |-> preview[d]] /\ current = [d \in Devices |-> current[d]]
    /\ local = [d \in Devices |-> local[d]] /\ marks = [d \in Devices |-> marks[d]]

(* The committed operations are the versions after the first.               *)
VaultInv ==
    /\ head.rev \in Nat \ {0} /\ Version(head, committed)
    /\ \A op \in requests \cup committed : op.by \in Devices /\ op.base \in 1..head.rev
    /\ \A op \in committed : op.base < head.rev
    /\ \A o, p \in committed : o.base = p.base => o = p
    /\ \A r \in 1..(head.rev - 1) : \E op \in committed : op.base = r

(* What a device gave up can no longer win its compare-and-swap.            *)
RequestInv ==
    \A op \in requests \ committed : pending[op.by] = {op} \/ op.base < head.rev

Captured == {"record", "recordData", "upload"}
Deciding == Captured \cup {"preview", "restore"}
Accepting == {"acceptData", "acceptDone"}

PendingInv(d) ==
    /\ \A op \in pending[d] :
          op.by = d /\ op.base \in 1..head.rev /\ stored[d].rev <= op.base + 1
    /\ \A o, p \in pending[d] : o = p
    /\ pc[d] \in Deciding => pending[d] = {}
    /\ pc[d] = "fetch" /\ mode[d] = "sync" => pending[d] = {}
    /\ pc[d] \in Accepting => pending[d] \subseteq committed

BaselineInv(d) ==
    /\ Version(stored[d], committed) /\ Version(registry[d], committed)
    /\ Version(known[d], committed)
    /\ known[d].rev <= stored[d].rev
    /\ pc[d] = "acceptData" => stored[d].rev # 0

HandInv(d) ==
    /\ pc[d] \in Deciding => /\ Version(hand[d].remote, committed) /\ hand[d].remote.rev # 0
                             /\ stored[d].rev <= hand[d].remote.rev
    /\ pc[d] = "recordData" => stored[d] = hand[d].remote
    /\ \A p \in preview[d] : Version(p.remote, committed) /\ p.remote.rev # 0

DeviceInv(d) == PendingInv(d) /\ BaselineInv(d) /\ HandInv(d)

LogInv == Shape /\ VaultInv /\ RequestInv /\ \A d \in Devices : DeviceInv(d)

(* What an action of one device, of the server or of the user leaves alone. *)
Kept(d) ==
    /\ UNCHANGED <<pc[d], mode[d], hand[d], stored[d], registry[d], known[d], pending[d],
                   local[d], marks[d], current[d]>>
    /\ preview'[d] \subseteq preview[d]

----------------------------------------------------------------------------
(* Helpers of the fields.                                                   *)

LEMMA RevisionOf ==
    ASSUME VaultInv, NEW b, Version(b, committed)
    PROVE  b.rev \in 0..head.rev
  BY DEF VaultInv, Version, NoBaseline, First

(* A step that changes the maps at one device only.                         *)
StepOf(d) ==
    /\ pc' = [pc EXCEPT ![d] = pc'[d]] /\ mode' = [mode EXCEPT ![d] = mode'[d]]
    /\ hand' = [hand EXCEPT ![d] = hand'[d]] /\ hand'[d] = Fields(hand'[d])
    /\ stored' = [stored EXCEPT ![d] = stored'[d]]
    /\ registry' = [registry EXCEPT ![d] = registry'[d]]
    /\ known' = [known EXCEPT ![d] = known'[d]]
    /\ pending' = [pending EXCEPT ![d] = pending'[d]]
    /\ preview' = [preview EXCEPT ![d] = preview'[d]]
    /\ current' = [current EXCEPT ![d] = current'[d]]
    /\ local' = [local EXCEPT ![d] = local'[d]]
    /\ marks' = [marks EXCEPT ![d] = marks'[d]]

LEMMA OneDevice ==
    ASSUME Shape, NEW d \in Devices, StepOf(d)
    PROVE  Shape' /\ \A e \in Devices : e # d => Kept(e)
<1>1. \A e \in Devices : e # d => Kept(e)
  BY DEF Shape, StepOf, Kept
<1>2. hand' = [e \in Devices |-> Fields(hand'[e])]
  BY DEF Shape, StepOf
<1>q. QED
  BY <1>1, <1>2 DEF Shape, StepOf

(* A device's task changes the maps at that device.                         *)
LEMMA TaskShape ==
    ASSUME Shape, NEW d \in Devices, Task(d)
    PROVE  StepOf(d)
<1> USE DEF Shape, StepOf, Fields, durableVars, taskVars, serverVars
<1>1. CASE Begin(d)
  BY <1>1 DEF Begin, AcceptStore, Goto, Step
<1>2. CASE Answered(d)
  BY <1>2 DEF Answered, AcceptStore, Goto, Step
<1>3. CASE Rejected(d)
  BY <1>3 DEF Rejected, Discard, Forget, Return, NoHand, Goto, Step
<1>4. CASE Refused(d)
  BY <1>4 DEF Refused, Discard, Forget, Return, NoHand, Goto, Step
<1>5. CASE RetryRejected(d)
  <2>1. hand' = [hand EXCEPT ![d] = hand'[d]] /\ hand'[d] = Fields(hand'[d])
    BY <1>5 DEF RetryRejected, Unknown, Forget, Return, NoHand, Goto, Step
  <2>2. current' = [current EXCEPT ![d] = current'[d]]
    BY <1>5 DEF RetryRejected, Unknown, Forget, Return, NoHand, Goto, Step
  <2>3. pc' = [pc EXCEPT ![d] = pc'[d]] /\ mode' = [mode EXCEPT ![d] = mode'[d]]
    BY <1>5 DEF RetryRejected, Unknown, Forget, Return, NoHand, Goto, Step
  <2>q. QED
    BY <1>5, <2>1, <2>2, <2>3 DEF RetryRejected, Unknown, Forget, Return, NoHand, Goto, Step
<1>6. CASE Unanswered(d)
  <2>1. hand' = [hand EXCEPT ![d] = hand'[d]] /\ hand'[d] = Fields(hand'[d])
    BY <1>6 DEF Unanswered, Unknown, Forget, Return, NoHand, Goto, Step
  <2>2. current' = [current EXCEPT ![d] = current'[d]]
    BY <1>6 DEF Unanswered, Unknown, Forget, Return, NoHand, Goto, Step
  <2>3. pc' = [pc EXCEPT ![d] = pc'[d]] /\ mode' = [mode EXCEPT ![d] = mode'[d]]
    BY <1>6 DEF Unanswered, Unknown, Forget, Return, NoHand, Goto, Step
  <2>q. QED
    BY <1>6, <2>1, <2>2, <2>3 DEF Unanswered, Unknown, Forget, Return, NoHand, Goto, Step
<1>7. CASE AcceptData(d)
  BY <1>7 DEF AcceptData, Goto, Step
<1>8. CASE AcceptDone(d)
  <2>1. hand' = [hand EXCEPT ![d] = hand'[d]] /\ hand'[d] = Fields(hand'[d])
    BY <1>8 DEF AcceptDone, Synced, Return, NoHand, Goto, Step
  <2>2. current' = [current EXCEPT ![d] = current'[d]]
    BY <1>8 DEF AcceptDone, Synced, Return, NoHand, Goto, Step
  <2>3. pc' = [pc EXCEPT ![d] = pc'[d]] /\ mode' = [mode EXCEPT ![d] = mode'[d]]
    BY <1>8 DEF AcceptDone, Synced, Return, NoHand, Goto, Step
  <2>q. QED
    BY <1>8, <2>1, <2>2, <2>3 DEF AcceptDone, Synced, Return, NoHand, Goto, Step
<1>9. CASE Merge(d)
  <2>1. hand' = [hand EXCEPT ![d] = hand'[d]] /\ hand'[d] = Fields(hand'[d])
    BY <1>9 DEF Merge, Export, Settled, Return, NoHand, Goto, Step
  <2>2. current' = [current EXCEPT ![d] = current'[d]]
    BY <1>9 DEF Merge, Export, Settled, Return, NoHand, Goto, Step
  <2>3. pc' = [pc EXCEPT ![d] = pc'[d]] /\ mode' = [mode EXCEPT ![d] = mode'[d]]
    BY <1>9 DEF Merge, Export, Settled, Return, NoHand, Goto, Step
  <2>q. QED
    BY <1>9, <2>1, <2>2, <2>3 DEF Merge, Export, Settled, Return, NoHand, Goto, Step
<1>10. CASE MakePreview(d)
  BY <1>10 DEF MakePreview, Show, Export, Return, NoHand, Goto, Step
<1>11. CASE ShowConflict(d)
  BY <1>11 DEF ShowConflict, Show, Export, Return, NoHand, Goto, Step
<1>12. CASE Apply(d)
  <2>1. hand' = [hand EXCEPT ![d] = hand'[d]] /\ hand'[d] = Fields(hand'[d])
    BY <1>12 DEF Apply, Decide, Goto, Step
  <2>2. current' = [current EXCEPT ![d] = current'[d]]
    BY <1>12 DEF Apply, Decide, Goto, Step
  <2>3. pc' = [pc EXCEPT ![d] = pc'[d]] /\ mode' = [mode EXCEPT ![d] = mode'[d]]
    BY <1>12 DEF Apply, Decide, Goto, Step
  <2>q. QED
    BY <1>12, <2>1, <2>2, <2>3 DEF Apply, Decide, Goto, Step
<1>13. CASE Restore(d)
  <2>1. hand' = [hand EXCEPT ![d] = hand'[d]] /\ hand'[d] = Fields(hand'[d])
    BY <1>13 DEF Restore, Replace, Outdate, Settled, Return, NoHand, Goto, Step
  <2>2. current' = [current EXCEPT ![d] = current'[d]]
    BY <1>13 DEF Restore, Replace, Outdate, Settled, Return, NoHand, Goto, Step
  <2>3. pc' = [pc EXCEPT ![d] = pc'[d]] /\ mode' = [mode EXCEPT ![d] = mode'[d]]
    BY <1>13 DEF Restore, Replace, Outdate, Settled, Return, NoHand, Goto, Step
  <2>q. QED
    BY <1>13, <2>1, <2>2, <2>3 DEF Restore, Replace, Outdate, Settled, Return, NoHand, Goto, Step
<1>14. CASE Record(d)
  BY <1>14 DEF Record, Goto, Step
<1>15. CASE RecordData(d)
  <2>1. hand' = [hand EXCEPT ![d] = hand'[d]] /\ hand'[d] = Fields(hand'[d])
    BY <1>15 DEF RecordData, Synced, Return, NoHand, Goto, Step
  <2>2. current' = [current EXCEPT ![d] = current'[d]]
    BY <1>15 DEF RecordData, Synced, Return, NoHand, Goto, Step
  <2>3. pc' = [pc EXCEPT ![d] = pc'[d]] /\ mode' = [mode EXCEPT ![d] = mode'[d]]
    BY <1>15 DEF RecordData, Synced, Return, NoHand, Goto, Step
  <2>q. QED
    BY <1>15, <2>1, <2>2, <2>3 DEF RecordData, Synced, Return, NoHand, Goto, Step
<1>16. CASE Upload(d)
  <2>1. hand' = [hand EXCEPT ![d] = hand'[d]] /\ hand'[d] = Fields(hand'[d])
    BY <1>16 DEF Upload, Goto, Step
  <2>2. current' = [current EXCEPT ![d] = current'[d]]
    BY <1>16 DEF Upload, Goto, Step
  <2>3. pc' = [pc EXCEPT ![d] = pc'[d]] /\ mode' = [mode EXCEPT ![d] = mode'[d]]
    BY <1>16 DEF Upload, Goto, Step
  <2>q. QED
    BY <1>16, <2>1, <2>2, <2>3 DEF Upload, Goto, Step
<1>17. CASE Fail(d)
  BY <1>17 DEF Fail, Forget, Return, NoHand, Goto, Step
<1>18. CASE Crash(d)
  BY <1>18 DEF Crash, Forget, Return, NoHand, Goto, Step
<1>q. QED
  BY <1>1, <1>2, <1>3, <1>4, <1>5, <1>6, <1>7, <1>8, <1>9, <1>10,
     <1>11, <1>12, <1>13, <1>14, <1>15, <1>16, <1>17, <1>18 DEF Task

----------------------------------------------------------------------------
(* Frames.                                                                  *)

LEMMA DeviceKept ==
    ASSUME VaultInv, VaultInv', NEW e \in Devices, DeviceInv(e), Kept(e),
           committed \subseteq committed', head.rev <= head'.rev
    PROVE  DeviceInv(e)'
<1>1. PendingInv(e)'
  BY DEF DeviceInv, PendingInv, Kept, VaultInv
<1>2. \A b : Version(b, committed) => Version(b, committed')
  BY DEF Version
<1>3. BaselineInv(e)'
  BY <1>2 DEF DeviceInv, BaselineInv, Kept
<1>4. HandInv(e)'
  BY <1>2 DEF DeviceInv, HandInv, Kept
<1>q. QED
  BY <1>1, <1>3, <1>4 DEF DeviceInv

(* A device may submit its pending operation, and give one up that is       *)
(* committed, refused or outdated.                                          *)
LEMMA RequestsKept ==
    ASSUME VaultInv, RequestInv, NEW d \in Devices, UNCHANGED <<head, committed>>,
           \A op \in requests' :
               op \in requests \/ (op \in pending'[d] /\ op.by = d /\ op.base \in 1..head.rev),
           \A e \in Devices : e # d => pending'[e] = pending[e],
           \A o, p \in pending'[d] : o = p,
           \A op \in pending[d] :
               \/ op \in pending'[d] \/ op \notin requests'
               \/ op \in committed \/ op.base < head.rev
    PROVE  VaultInv' /\ RequestInv'
<1>1. VaultInv'
  BY DEF VaultInv
<1>2. ASSUME NEW op \in requests' \ committed'
      PROVE  pending'[op.by] = {op} \/ op.base < head.rev
  <2>1. CASE op \in pending'[d] /\ op.by = d
    BY <2>1
  <2>2. CASE op \in requests /\ op.by # d
    BY <1>2, <2>2 DEF RequestInv, VaultInv
  <2>3. CASE op \in requests /\ op.by = d
    BY <1>2, <2>3 DEF RequestInv
  <2>q. QED
    BY <1>2, <2>1, <2>2, <2>3
<1>q. QED
  BY <1>1, <1>2 DEF RequestInv

(* What a step of one device has to show.                                   *)
LEMMA LogStep ==
    ASSUME LogInv, NEW d \in Devices, StepOf(d), VaultInv', RequestInv',
           UNCHANGED <<head, committed>>, DeviceInv(d)'
    PROVE  LogInv'
<1>1. Shape' /\ \A e \in Devices : e # d => Kept(e)
  BY OneDevice DEF LogInv
<1>2. \A e \in Devices : e # d => DeviceInv(e)'
  <2>1. head.rev <= head'.rev
    BY DEF LogInv, VaultInv
  <2>q. QED
    BY <1>1, <2>1, DeviceKept DEF LogInv
<1>q. QED
  BY <1>1, <1>2 DEF LogInv

----------------------------------------------------------------------------
(* The actions of a device.                                                 *)

LEMMA Accepted ==
    ASSUME LogInv, NEW d \in Devices, AcceptStore(d)
    PROVE  \E op \in pending[d] :
               /\ pending[d] = {op} /\ op \in committed
               /\ Version(stored'[d], committed) /\ stored'[d].rev = op.base + 1
               /\ stored'[d].docs = op.docs
               /\ stored[d].rev <= op.base + 1 /\ op.base \in Nat
               /\ pc'[d] = "acceptData"
               /\ UNCHANGED <<registry, pending>>
<1>1. PICK op \in pending[d] :
          stored' = [stored EXCEPT ![d] = [rev |-> op.base + 1, docs |-> op.docs]]
  BY DEF AcceptStore
<1>2. pending[d] = {op} /\ op \in committed
  BY <1>1 DEF AcceptStore, Receipts, LogInv, DeviceInv, PendingInv
<1>3. stored[d].rev <= op.base + 1 /\ op.base \in Nat
  BY <1>1 DEF LogInv, DeviceInv, PendingInv
<1>4. stored'[d] = [rev |-> op.base + 1, docs |-> op.docs]
  BY <1>1 DEF LogInv, Shape
<1>5. Version(stored'[d], committed)
  BY <1>2, <1>4 DEF Version
<1>q. QED
  BY <1>2, <1>3, <1>4, <1>5 DEF AcceptStore, Goto, LogInv, Shape

LEMMA BeginLog ==
    ASSUME LogInv, NEW d \in Devices, Begin(d)
    PROVE  VaultInv' /\ RequestInv' /\ DeviceInv(d)'
<1>1. /\ DeviceInv(d) /\ VaultInv /\ RequestInv /\ Shape
      /\ pc[d] = "idle" /\ UNCHANGED <<head, committed, hand, preview>>
  BY DEF LogInv, Begin
<1>2. known'[d] \in {known[d], stored[d]}
  BY <1>1 DEF Begin, Shape
<1>3. UNCHANGED <<pending, registry>>
  BY DEF Begin, AcceptStore, durableVars
<1>4. VaultInv' /\ RequestInv'
  <2>1. \A op \in requests' : op \in requests \/ op \in pending'[d]
    BY <1>3 DEF Begin
  <2>q. QED
    BY <1>1, <1>3, <2>1, RequestsKept DEF DeviceInv, PendingInv
<1>6. known[d].rev \in Nat /\ stored[d].rev \in Nat
  BY <1>1, RevisionOf DEF DeviceInv, BaselineInv, VaultInv
<1>7. CASE AcceptStore(d)
  <2>1. PICK op \in pending[d] :
               /\ pending[d] = {op} /\ op \in committed
               /\ Version(stored'[d], committed) /\ stored'[d].rev = op.base + 1
               /\ stored'[d].docs = op.docs
               /\ stored[d].rev <= op.base + 1 /\ op.base \in Nat
               /\ pc'[d] = "acceptData"
    BY <1>7, Accepted
  <2>2. PendingInv(d)'
    BY <1>1, <1>3, <2>1 DEF DeviceInv, PendingInv, Deciding, Captured
  <2>3. BaselineInv(d)'
    BY <1>1, <1>2, <1>3, <1>6, <2>1 DEF DeviceInv, BaselineInv
  <2>4. HandInv(d)'
    BY <1>1, <2>1 DEF DeviceInv, HandInv, Deciding, Captured
  <2>q. QED
    BY <1>4, <2>2, <2>3, <2>4 DEF DeviceInv
<1>8. CASE /\ UNCHANGED stored
           /\ \/ pending[d] = {} /\ pc'[d] = "fetch"
              \/ pc'[d] = "resent"
  <2>2. PendingInv(d)'
    BY <1>1, <1>3, <1>8 DEF DeviceInv, PendingInv, Deciding, Captured, Accepting
  <2>3. BaselineInv(d)'
    BY <1>1, <1>2, <1>3, <1>6, <1>8 DEF DeviceInv, BaselineInv
  <2>4. HandInv(d)'
    BY <1>1, <1>8 DEF DeviceInv, HandInv, Deciding, Captured
  <2>q. QED
    BY <1>4, <2>2, <2>3, <2>4 DEF DeviceInv
<1>q. QED
  BY <1>1, <1>7, <1>8 DEF Begin, Goto, Shape, durableVars

LEMMA AnsweredLog ==
    ASSUME LogInv, NEW d \in Devices, Answered(d)
    PROVE  VaultInv' /\ RequestInv' /\ DeviceInv(d)'
<1>1. /\ DeviceInv(d) /\ VaultInv /\ RequestInv /\ Shape
      /\ UNCHANGED <<head, requests, committed, hand, known, preview, mode>>
  BY DEF LogInv, Answered, serverVars
<1>2. PICK op \in pending[d] :
               /\ pending[d] = {op} /\ op \in committed
               /\ Version(stored'[d], committed) /\ stored'[d].rev = op.base + 1
               /\ stored'[d].docs = op.docs
               /\ stored[d].rev <= op.base + 1 /\ op.base \in Nat
               /\ pc'[d] = "acceptData"
               /\ UNCHANGED <<registry, pending>>
  BY Accepted DEF Answered
<1>3. VaultInv' /\ RequestInv'
  BY <1>1, <1>2, RequestsKept DEF DeviceInv, PendingInv
<1>5. known[d].rev \in Nat /\ stored[d].rev \in Nat
  BY <1>1, RevisionOf DEF DeviceInv, BaselineInv, VaultInv
<1>6. PendingInv(d)'
  BY <1>1, <1>2 DEF DeviceInv, PendingInv, Deciding, Captured
<1>7. BaselineInv(d)'
  BY <1>1, <1>2, <1>5 DEF DeviceInv, BaselineInv
<1>8. HandInv(d)'
  BY <1>1, <1>2 DEF DeviceInv, HandInv, Deciding, Captured
<1>q. QED
  BY <1>3, <1>6, <1>7, <1>8 DEF DeviceInv

(* The steps that may give the pending operation up, or only end the task.  *)
LEMMA EndingLog ==
    ASSUME LogInv, NEW d \in Devices, StepOf(d),
           pc'[d] \in {"idle", "fetch"},
           pc'[d] = "fetch" => pending'[d] = {} \/ mode'[d] = "review",
           \/ pending'[d] = pending[d]
           \/ /\ pending'[d] = {}
              /\ \A op \in pending[d] :
                    op \notin requests' \/ op \in committed \/ op.base < head.rev,
           known'[d] \in {known[d], stored[d]}, preview'[d] \subseteq preview[d],
           UNCHANGED <<head, committed, stored, registry>>, requests' \subseteq requests
    PROVE  VaultInv' /\ RequestInv' /\ DeviceInv(d)'
<1>1. DeviceInv(d) /\ VaultInv /\ RequestInv /\ Shape
  BY DEF LogInv
<1>2. VaultInv' /\ RequestInv'
  <2>1. \A e \in Devices : e # d => pending'[e] = pending[e]
    BY <1>1, OneDevice DEF Kept
  <2>2. \A o, p \in pending'[d] : o = p
    BY <1>1 DEF DeviceInv, PendingInv
  <2>3. \A op \in pending[d] :
            op \in pending'[d] \/ op \notin requests' \/ op \in committed \/ op.base < head.rev
    OBVIOUS
  <2>4. \A op \in requests' : op \in requests
    OBVIOUS
  <2>q. QED
    BY <1>1, <2>1, <2>2, <2>3, <2>4, RequestsKept
<1>3. PendingInv(d)'
  BY <1>1 DEF DeviceInv, PendingInv, Deciding, Captured, Accepting
<1>4. BaselineInv(d)'
  <2>1. known[d].rev \in Nat /\ stored[d].rev \in Nat
    BY <1>1, RevisionOf DEF DeviceInv, BaselineInv, VaultInv
  <2>q. QED
    BY <1>1, <2>1 DEF DeviceInv, BaselineInv
<1>5. HandInv(d)'
  BY <1>1 DEF DeviceInv, HandInv, Deciding, Captured
<1>q. QED
  BY <1>2, <1>3, <1>4, <1>5 DEF DeviceInv

LEMMA EndLog ==
    ASSUME LogInv, NEW d \in Devices, StepOf(d),
           Rejected(d) \/ Refused(d) \/ RetryRejected(d) \/ Unanswered(d) \/ Fail(d) \/ Crash(d)
    PROVE  VaultInv' /\ RequestInv' /\ DeviceInv(d)'
<1>1. Shape /\ VaultInv /\ DeviceInv(d)
  BY DEF LogInv
<1>2. CASE Rejected(d) \/ Refused(d)
  <2>1. /\ pc'[d] = "idle" /\ pending'[d] = {} /\ known' = known /\ preview' = preview
        /\ UNCHANGED <<head, committed, stored, registry>> /\ requests' \subseteq requests
    BY <1>1, <1>2 DEF Rejected, Refused, Discard, Return, Goto, Shape, serverVars
  <2>2. \A op \in pending[d] : op \notin requests' \/ op \in committed \/ op.base < head.rev
    BY <1>1, <1>2 DEF Rejected, Refused, Conflicting, DeviceInv, PendingInv, VaultInv
  <2>q. QED
    BY <2>1, <2>2, EndingLog
<1>3. CASE RetryRejected(d) \/ Unanswered(d)
  <2>1. /\ pc'[d] = "idle" \/ (pc'[d] = "fetch" /\ mode'[d] = "review")
        /\ pending' = pending /\ known' = known /\ preview' = preview
        /\ UNCHANGED <<head, committed, stored, registry, requests>>
    BY <1>1, <1>3 DEF RetryRejected, Unanswered, Unknown, Return, Goto, Shape, serverVars,
                      durableVars
  <2>q. QED
    BY <2>1, EndingLog
<1>4. CASE Fail(d) \/ Crash(d)
  <2>1. /\ pc'[d] = "idle" /\ pending' = pending
        /\ known'[d] \in {known[d], stored[d]} /\ preview'[d] \subseteq preview[d]
        /\ UNCHANGED <<head, committed, stored, registry, requests>>
    BY <1>1, <1>4 DEF Fail, Crash, Return, Goto, Shape, serverVars, durableVars
  <2>q. QED
    BY <2>1, EndingLog
<1>q. QED
  BY <1>2, <1>3, <1>4

(* A preview is made of the head, or of the version a sync has fetched.     *)
LEMMA ShowLog ==
    ASSUME LogInv, NEW d \in Devices, StepOf(d), MakePreview(d) \/ ShowConflict(d)
    PROVE  VaultInv' /\ RequestInv' /\ DeviceInv(d)'
<1>1. Shape /\ VaultInv /\ RequestInv /\ DeviceInv(d)
  BY DEF LogInv
<1>2. PICK remote : /\ Show(d, remote)
                    /\ Version(remote, committed) /\ remote.rev # 0
  BY <1>1 DEF MakePreview, ShowConflict, VaultInv, DeviceInv, HandInv, Deciding
<1>3. /\ pc'[d] = "idle"
      /\ UNCHANGED <<head, committed, requests, stored, registry, known, pending>>
  BY <1>1, <1>2 DEF Show, Return, Goto, Shape, serverVars
<1>4. \A p \in preview'[d] : p \in preview[d] \/ p.remote = remote
  <2> DEFINE made == [remote |-> remote, mine |-> ImageOf(d), base |-> known[d],
                      reviewed |-> pending[d]]
  <2>1. preview'[d] \in {preview[d], {made}, {}}
    BY <1>1, <1>2 DEF Show, Shape
  <2>2. made.remote = remote
    OBVIOUS
  <2>q. QED
    BY <2>1, <2>2
<1>5. VaultInv' /\ RequestInv'
  BY <1>1, <1>3, RequestsKept DEF DeviceInv, PendingInv
<1>6. PendingInv(d)'
  BY <1>1, <1>3 DEF DeviceInv, PendingInv, Deciding, Captured, Accepting
<1>7. BaselineInv(d)'
  BY <1>1, <1>3 DEF DeviceInv, BaselineInv
<1>8. HandInv(d)'
  BY <1>1, <1>2, <1>3, <1>4 DEF DeviceInv, HandInv, Deciding, Captured
<1>q. QED
  BY <1>5, <1>6, <1>7, <1>8 DEF DeviceInv

LEMMA AcceptDataLog ==
    ASSUME LogInv, NEW d \in Devices, AcceptData(d)
    PROVE  VaultInv' /\ RequestInv' /\ DeviceInv(d)'
<1>1. Shape /\ VaultInv /\ RequestInv /\ DeviceInv(d)
  BY DEF LogInv
<1>2. /\ pc[d] = "acceptData" /\ pc'[d] = "acceptDone"
      /\ registry'[d] = stored[d] /\ known'[d] = stored[d]
      /\ UNCHANGED <<head, committed, requests, stored, pending, preview, mode, hand>>
  BY <1>1 DEF AcceptData, Goto, Shape, serverVars
<1>3. VaultInv' /\ RequestInv'
  BY <1>1, <1>2, RequestsKept DEF DeviceInv, PendingInv
<1>4. stored[d].rev \in Nat
  BY <1>1, RevisionOf DEF DeviceInv, BaselineInv, VaultInv
<1>5. PendingInv(d)'
  BY <1>1, <1>2 DEF DeviceInv, PendingInv, Deciding, Captured, Accepting
<1>6. BaselineInv(d)'
  BY <1>1, <1>2, <1>4 DEF DeviceInv, BaselineInv
<1>7. HandInv(d)'
  BY <1>1, <1>2 DEF DeviceInv, HandInv, Deciding, Captured
<1>q. QED
  BY <1>3, <1>5, <1>6, <1>7 DEF DeviceInv

LEMMA AcceptDoneLog ==
    ASSUME LogInv, NEW d \in Devices, StepOf(d), AcceptDone(d)
    PROVE  VaultInv' /\ RequestInv' /\ DeviceInv(d)'
<1>1. Shape /\ VaultInv /\ RequestInv /\ DeviceInv(d)
  BY DEF LogInv
<1>2. /\ pc'[d] \in {"idle", "fetch"} /\ pending'[d] = {}
      /\ UNCHANGED <<head, committed, requests, stored, registry, known, preview>>
  BY <1>1 DEF AcceptDone, Return, Goto, Shape, serverVars
<1>3. pending[d] \subseteq committed
  BY <1>1 DEF AcceptDone, DeviceInv, PendingInv, Accepting
<1>q. QED
  BY <1>2, <1>3, EndingLog

(* A step on from a fetched version, with nothing pending.                  *)
LEMMA HoldingLog ==
    ASSUME LogInv, NEW d \in Devices, StepOf(d), pc'[d] \in Deciding \ {"recordData"},
           pending'[d] = {}, \A op \in pending[d] : op.base < head.rev,
           UNCHANGED <<head, committed, requests, stored, registry, known>>,
           Version(hand'[d].remote, committed), hand'[d].remote.rev # 0,
           stored[d].rev <= hand'[d].remote.rev, preview'[d] \subseteq preview[d]
    PROVE  VaultInv' /\ RequestInv' /\ DeviceInv(d)'
<1>1. Shape /\ VaultInv /\ RequestInv /\ DeviceInv(d)
  BY DEF LogInv
<1>2. VaultInv' /\ RequestInv'
  <2>1. \A e \in Devices : e # d => pending'[e] = pending[e]
    BY <1>1, OneDevice DEF Kept
  <2>q. QED
    BY <1>1, <2>1, RequestsKept
<1>3. PendingInv(d)'
  BY <1>1 DEF DeviceInv, PendingInv, Deciding, Captured, Accepting
<1>4. BaselineInv(d)'
  BY <1>1 DEF DeviceInv, BaselineInv, Deciding, Captured
<1>5. HandInv(d)'
  BY <1>1 DEF DeviceInv, HandInv
<1>q. QED
  BY <1>2, <1>3, <1>4, <1>5 DEF DeviceInv

LEMMA MergeLog ==
    ASSUME LogInv, NEW d \in Devices, StepOf(d), Merge(d)
    PROVE  VaultInv' /\ RequestInv' /\ DeviceInv(d)'
<1>1. Shape /\ VaultInv /\ RequestInv /\ DeviceInv(d)
  BY DEF LogInv
<1>2. /\ pc[d] = "fetch" /\ mode[d] = "sync"
      /\ UNCHANGED <<head, committed, requests, stored, registry, known, pending, preview>>
  BY DEF Merge, serverVars
<1>3. pending[d] = {}
  BY <1>1, <1>2 DEF DeviceInv, PendingInv
<1>4. CASE Return(d)
  <2>1. pc'[d] = "idle"
    BY <1>1, <1>4 DEF Return, Goto, Shape
  <2>q. QED
    BY <1>2, <1>3, <2>1, EndingLog
<1>5. CASE pc'[d] \in Deciding \ {"recordData"} /\ hand'[d].remote = head
  <2>1. stored[d].rev <= head.rev /\ head.rev # 0
    BY <1>1, RevisionOf DEF DeviceInv, BaselineInv, VaultInv
  <2>q. QED
    BY <1>1, <1>2, <1>3, <1>5, <2>1, HoldingLog DEF VaultInv
<1>6. ~Return(d) => pc'[d] \in Deciding \ {"recordData"} /\ hand'[d].remote = head
  BY <1>1 DEF Merge, Goto, Shape, Fields, Settled, Deciding, Captured
<1>q. QED
  BY <1>4, <1>5, <1>6

LEMMA ApplyLog ==
    ASSUME LogInv, NEW d \in Devices, StepOf(d), Apply(d)
    PROVE  VaultInv' /\ RequestInv' /\ DeviceInv(d)'
<1>1. Shape /\ VaultInv /\ RequestInv /\ DeviceInv(d)
  BY DEF LogInv
<1>2. PICK p \in preview[d] :
          /\ head.rev = p.remote.rev /\ Reviewable(d, head.rev)
          /\ hand'[d].remote = p.remote
  BY <1>1 DEF Apply, Decide, Shape
<1>3. /\ pc'[d] = "restore" /\ pending'[d] = {}
      /\ UNCHANGED <<head, committed, requests, stored, registry, known, preview>>
  BY <1>1 DEF Apply, Goto, Shape, serverVars
<1>4. \A op \in pending[d] : op.base < head.rev
  BY <1>1, <1>2 DEF Reviewable, DeviceInv, PendingInv, VaultInv
<1>5. Version(p.remote, committed) /\ p.remote.rev # 0
  BY <1>1, <1>2 DEF DeviceInv, HandInv
<1>6. stored[d].rev <= p.remote.rev
  BY <1>1, <1>2, RevisionOf DEF DeviceInv, BaselineInv, VaultInv
<1>q. QED
  BY <1>2, <1>3, <1>4, <1>5, <1>6, HoldingLog DEF Deciding, Captured

LEMMA RestoreLog ==
    ASSUME LogInv, NEW d \in Devices, StepOf(d), Restore(d)
    PROVE  VaultInv' /\ RequestInv' /\ DeviceInv(d)'
<1>1. Shape /\ VaultInv /\ RequestInv /\ DeviceInv(d)
  BY DEF LogInv
<1>2. /\ pc[d] = "restore"
      /\ UNCHANGED <<head, committed, requests, stored, registry, known, pending>>
  BY DEF Restore, serverVars
<1>3. pending[d] = {}
  BY <1>1, <1>2 DEF DeviceInv, PendingInv, Deciding
<1>4. CASE "hand" \notin current[d]
  <2>1. pc'[d] = "idle" /\ preview' = preview
    BY <1>1, <1>4 DEF Restore, Return, Goto, Shape
  <2>q. QED
    BY <1>2, <1>3, <2>1, EndingLog
<1>5. CASE "hand" \in current[d]
  <2>1. Replace(d, hand[d].want)
    BY <1>5 DEF Restore
  <2>2. preview'[d] = {}
    BY <1>1, <2>1 DEF Replace, Outdate, Shape
  <2>3. pc'[d] \in {"record", "upload"}
    BY <1>1, <2>1 DEF Replace, Settled, Goto, Shape
  <2>4. hand'[d].remote = hand[d].remote
    BY <1>1, <2>1 DEF Replace, Shape, Fields
  <2>5. /\ Version(hand[d].remote, committed) /\ hand[d].remote.rev # 0
        /\ stored[d].rev <= hand[d].remote.rev
    BY <1>1, <1>2 DEF DeviceInv, HandInv, Deciding
  <2>q. QED
    BY <1>2, <1>3, <2>2, <2>3, <2>4, <2>5, HoldingLog DEF Deciding, Captured
<1>q. QED
  BY <1>4, <1>5

LEMMA RecordLog ==
    ASSUME LogInv, NEW d \in Devices, Record(d)
    PROVE  VaultInv' /\ RequestInv' /\ DeviceInv(d)'
<1>1. Shape /\ VaultInv /\ RequestInv /\ DeviceInv(d)
  BY DEF LogInv
<1>2. /\ pc[d] = "record" /\ pc'[d] = "recordData" /\ stored'[d] = hand[d].remote
      /\ UNCHANGED <<head, committed, requests, registry, known, pending, preview, hand>>
  BY <1>1 DEF Record, Goto, Shape, serverVars
<1>3. /\ pending[d] = {} /\ Version(hand[d].remote, committed) /\ hand[d].remote.rev # 0
      /\ stored[d].rev <= hand[d].remote.rev
  BY <1>1, <1>2 DEF DeviceInv, PendingInv, HandInv, Deciding, Captured
<1>4. known[d].rev \in Nat /\ stored[d].rev \in Nat /\ hand[d].remote.rev \in Nat
  BY <1>1, <1>3, RevisionOf DEF DeviceInv, BaselineInv, VaultInv
<1>5. VaultInv' /\ RequestInv'
  BY <1>1, <1>2, RequestsKept DEF DeviceInv, PendingInv
<1>6. PendingInv(d)'
  BY <1>1, <1>2, <1>3 DEF DeviceInv, PendingInv, Accepting
<1>7. BaselineInv(d)'
  BY <1>1, <1>2, <1>3, <1>4 DEF DeviceInv, BaselineInv
<1>8. HandInv(d)'
  BY <1>1, <1>2, <1>3, <1>4 DEF DeviceInv, HandInv
<1>q. QED
  BY <1>5, <1>6, <1>7, <1>8 DEF DeviceInv

LEMMA RecordDataLog ==
    ASSUME LogInv, NEW d \in Devices, StepOf(d), RecordData(d)
    PROVE  VaultInv' /\ RequestInv' /\ DeviceInv(d)'
<1>1. Shape /\ VaultInv /\ RequestInv /\ DeviceInv(d)
  BY DEF LogInv
<1>2. /\ pc[d] = "recordData" /\ pc'[d] \in {"idle", "fetch"}
      /\ registry'[d] = hand[d].remote /\ known'[d] = hand[d].remote
      /\ UNCHANGED <<head, committed, requests, stored, pending, preview>>
  BY <1>1 DEF RecordData, Return, Goto, Shape, serverVars
<1>3. pending[d] = {} /\ Version(hand[d].remote, committed) /\ stored[d] = hand[d].remote
  BY <1>1, <1>2 DEF DeviceInv, PendingInv, HandInv, Deciding, Captured
<1>4. hand[d].remote.rev \in Nat
  BY <1>1, <1>3, RevisionOf DEF VaultInv
<1>5. VaultInv' /\ RequestInv'
  BY <1>1, <1>2, RequestsKept DEF DeviceInv, PendingInv
<1>6. PendingInv(d)'
  BY <1>1, <1>2, <1>3 DEF DeviceInv, PendingInv, Accepting, Deciding, Captured
<1>7. BaselineInv(d)'
  BY <1>1, <1>2, <1>3, <1>4 DEF DeviceInv, BaselineInv
<1>8. HandInv(d)'
  BY <1>1, <1>2, <1>3 DEF DeviceInv, HandInv, Deciding, Captured
<1>q. QED
  BY <1>5, <1>6, <1>7, <1>8 DEF DeviceInv

LEMMA UploadLog ==
    ASSUME LogInv, NEW d \in Devices, StepOf(d), Upload(d)
    PROVE  VaultInv' /\ RequestInv' /\ DeviceInv(d)'
<1> DEFINE op == [by |-> d, base |-> hand[d].remote.rev, docs |-> hand[d].mine]
<1>1. Shape /\ VaultInv /\ RequestInv /\ DeviceInv(d)
  BY DEF LogInv
<1>2. /\ pc[d] = "upload" /\ pc'[d] = "sent" /\ pending'[d] = {op}
      /\ requests' = requests \cup {op}
      /\ UNCHANGED <<head, committed, stored, registry, known, preview>>
  BY <1>1 DEF Upload, Goto, Shape
<1>3. /\ pending[d] = {} /\ Version(hand[d].remote, committed) /\ hand[d].remote.rev # 0
      /\ stored[d].rev <= hand[d].remote.rev
  BY <1>1, <1>2 DEF DeviceInv, PendingInv, HandInv, Deciding, Captured
<1>4. hand[d].remote.rev \in 1..head.rev /\ stored[d].rev \in Nat
  BY <1>1, <1>3, RevisionOf DEF DeviceInv, BaselineInv, VaultInv
<1>5. op.by = d /\ op.base \in 1..head.rev /\ stored[d].rev <= op.base + 1
  BY <1>1, <1>3, <1>4 DEF VaultInv
<1> HIDE DEF op
<1>6. VaultInv' /\ RequestInv'
  <2>1. \A e \in Devices : e # d => pending'[e] = pending[e]
    BY <1>1, OneDevice DEF Kept
  <2>2. \A o \in requests' :
            o \in requests \/ (o \in pending'[d] /\ o.by = d /\ o.base \in 1..head.rev)
    BY <1>2, <1>5
  <2>q. QED
    BY <1>1, <1>2, <1>3, <2>1, <2>2, RequestsKept
<1>7. PendingInv(d)'
  BY <1>1, <1>2, <1>5 DEF DeviceInv, PendingInv, Accepting, Deciding, Captured
<1>8. BaselineInv(d)'
  BY <1>1, <1>2 DEF DeviceInv, BaselineInv
<1>9. HandInv(d)'
  BY <1>1, <1>2 DEF DeviceInv, HandInv, Deciding, Captured
<1>q. QED
  BY <1>6, <1>7, <1>8, <1>9 DEF DeviceInv

----------------------------------------------------------------------------
(* The server and the user.                                                 *)

(* The compare-and-swap: what commits is a device's pending operation, and   *)
(* all that was based on the old head is out.                               *)
LEMMA DeliverLog ==
    ASSUME LogInv, NEW op \in requests, Deliver(op)
    PROVE  LogInv' /\ pending[op.by] = {op} /\ (\A d \in Devices : Kept(d))
<1>1. Shape /\ VaultInv /\ RequestInv
  BY DEF LogInv
<1>2. /\ op \notin committed /\ op.base = head.rev
      /\ head' = [rev |-> head.rev + 1, docs |-> op.docs]
      /\ committed' = committed \cup {op}
      /\ preview' = [d \in Devices |-> {}]
      /\ UNCHANGED <<requests, local, marks, registry, stored, pending, known, pc, mode, hand,
                     current>>
  BY DEF Deliver, durableVars, taskVars
<1>3. pending[op.by] = {op} /\ op.by \in Devices /\ head.rev \in Nat \ {0}
  BY <1>1, <1>2 DEF RequestInv, VaultInv
<1>4. Shape'
  BY <1>1, <1>2 DEF Shape
<1>5. \A d \in Devices : Kept(d)
  BY <1>2 DEF Kept
<1>6. VaultInv'
  <2>1. Version(head', committed')
    BY <1>2 DEF Version
  <2>2. head'.rev = head.rev + 1
    BY <1>2
  <2>3. \A o \in requests' \cup committed' : o.by \in Devices /\ o.base \in 1..head'.rev
    BY <1>1, <1>2, <1>3, <2>2 DEF VaultInv
  <2>4. \A o \in committed' : o.base < head'.rev
    BY <1>1, <1>2, <1>3, <2>2 DEF VaultInv
  <2>5. \A o, p \in committed' : o.base = p.base => o = p
    BY <1>1, <1>2, <1>3 DEF VaultInv
  <2>6. ASSUME NEW r \in 1..(head'.rev - 1)
        PROVE  \E o \in committed' : o.base = r
    <3>1. r \in 1..(head.rev - 1) \/ r = head.rev
      BY <1>3, <2>2
    <3>q. QED
      BY <1>1, <1>2, <3>1 DEF VaultInv
  <2>q. QED
    BY <1>3, <2>1, <2>2, <2>3, <2>4, <2>5, <2>6 DEF VaultInv
<1>7. RequestInv'
  <2>1. \A o \in requests' \ committed' : o.base \in 1..head.rev
    BY <1>1, <1>2 DEF VaultInv
  <2>2. \A o \in requests' \ committed' : o.base < head'.rev
    BY <1>2, <1>3, <2>1
  <2>q. QED
    BY <2>2 DEF RequestInv
<1>8. \A d \in Devices : DeviceInv(d)'
  <2>1. head.rev <= head'.rev /\ committed \subseteq committed'
    BY <1>2, <1>3
  <2>q. QED
    BY <1>1, <1>5, <1>6, <2>1, DeviceKept DEF LogInv
<1>q. QED
  BY <1>3, <1>4, <1>5, <1>6, <1>7, <1>8 DEF LogInv

LEMMA WriteLog ==
    ASSUME LogInv, NEW d \in Devices, NEW x \in Docs, NEW entry, Write(d, x, entry)
    PROVE  LogInv'
<1>1. Shape /\ VaultInv /\ DeviceInv(d)
  BY DEF LogInv
<1>2. /\ local' = [local EXCEPT ![d] = local'[d]]
      /\ current' = [current EXCEPT ![d] = current'[d]]
      /\ preview' = [preview EXCEPT ![d] = {}]
      /\ UNCHANGED <<head, committed, requests, marks, registry, stored, pending, known, pc,
                     mode, hand>>
  BY <1>1 DEF Write, Outdate, Shape, serverVars, durableVars, taskVars
<1>3. StepOf(d)
  BY <1>1, <1>2 DEF StepOf, Shape, Fields
<1>4. DeviceInv(d)'
  BY <1>1, <1>2 DEF Shape, DeviceInv, PendingInv, BaselineInv, HandInv
<1>5. VaultInv' /\ RequestInv'
  BY <1>2 DEF LogInv, VaultInv, RequestInv
<1>q. QED
  BY <1>2, <1>3, <1>4, <1>5, LogStep

LEMMA StillLog ==
    ASSUME LogInv,
           UNCHANGED <<head, requests, committed, local, marks, registry, stored, pending, known,
                       preview, pc, mode, hand, current>>
    PROVE  LogInv'
<1>1. Shape' /\ VaultInv' /\ RequestInv'
  BY DEF LogInv, Shape, VaultInv, RequestInv
<1>2. \A d \in Devices : DeviceInv(d)'
  BY DEF LogInv, DeviceInv, PendingInv, BaselineInv, HandInv
<1>q. QED
  BY <1>1, <1>2 DEF LogInv

LEMMA TaskLog ==
    ASSUME LogInv, NEW d \in Devices, Task(d)
    PROVE  LogInv' /\ StepOf(d) /\ UNCHANGED <<head, committed>>
<1>1. StepOf(d)
  BY TaskShape DEF LogInv
<1>2. UNCHANGED <<head, committed>>
  BY DEF Task, serverVars, Begin, Answered, Rejected, Refused, RetryRejected, Unanswered,
         Unknown, AcceptData, AcceptDone, Merge, MakePreview, ShowConflict, Show, Apply, Restore,
         Record, RecordData, Upload, Fail, Crash
<1>3. VaultInv' /\ RequestInv' /\ DeviceInv(d)'
  BY <1>1, BeginLog, AnsweredLog, EndLog, AcceptDataLog, AcceptDoneLog, MergeLog, ShowLog,
     ApplyLog, RestoreLog, RecordLog, RecordDataLog, UploadLog DEF Task
<1>q. QED
  BY <1>1, <1>2, <1>3, LogStep

LEMMA InitLog == Init => LogInv
<1> SUFFICES ASSUME Init PROVE LogInv
  OBVIOUS
<1>1. \A d \in Devices : registry[d] \in {NoBaseline, First} /\ stored[d] = registry[d]
                         /\ known[d] = registry[d]
  BY DEF Init
<1>2. Shape
  BY DEF Init, Shape, Fields, NoHand
<1>3. VaultInv /\ RequestInv
  BY DEF Init, VaultInv, RequestInv, Version, First
<1>4. ASSUME NEW d \in Devices PROVE DeviceInv(d)
  <2>1. pending[d] = {} /\ preview[d] = {} /\ pc[d] = "idle"
    BY DEF Init
  <2>2. registry[d].rev \in Nat
    BY <1>1 DEF NoBaseline, First
  <2>q. QED
    BY <1>1, <2>1, <2>2 DEF DeviceInv, PendingInv, BaselineInv, HandInv, Version, Deciding,
                            Captured, Accepting
<1>q. QED
  BY <1>2, <1>3, <1>4 DEF LogInv

LEMMA NextLog == LogInv /\ [Next]_vars => LogInv'
<1> SUFFICES ASSUME LogInv, [Next]_vars PROVE LogInv'
  OBVIOUS
<1>1. CASE \E d \in Devices : Task(d)
  BY <1>1, TaskLog
<1>2. CASE \E d \in Devices, x \in Docs : Edit(d, x) \/ Remove(d, x)
  BY <1>2, WriteLog DEF Edit, Remove
<1>3. CASE \E op \in requests : Deliver(op)
  BY <1>3, DeliverLog
<1>4. CASE \E op \in requests : Expire(op)
  BY <1>4, StillLog DEF Expire, durableVars, taskVars
<1>5. CASE UNCHANGED vars
  BY <1>5, StillLog DEF vars, serverVars, durableVars, taskVars
<1>q. QED
  BY <1>1, <1>2, <1>3, <1>4, <1>5 DEF Next

(* The strengthening: the committed operations are the versions of the      *)
(* vault, and what a device gave up can never commit.                       *)
THEOREM VersionsInvariant == Spec => []LogInv
<1>1. Init => LogInv
  BY InitLog
<1>2. LogInv /\ [Next]_vars => LogInv'
  BY NextLog
<1>q. QED
  BY <1>1, <1>2, PTL DEF Spec

(* A pending record that was dropped stays dropped: the server commits an    *)
(* operation only while its device still holds it (If-Match, and the        *)
(* conditions under which service.rs gives a pending operation up).         *)
THEOREM DroppedNeverCommits == Spec => OnlyPendingCommits
<1>1. LogInv /\ [Next]_vars =>
          [\A op \in committed' \ committed : pending[op.by] = {op}]_vars
  <2> SUFFICES ASSUME LogInv, [Next]_vars, NEW op \in committed' \ committed
               PROVE  pending[op.by] = {op}
    OBVIOUS
  <2>1. CASE \E d \in Devices : Task(d)
    BY <2>1, TaskLog
  <2>2. CASE \E d \in Devices, x \in Docs : Edit(d, x) \/ Remove(d, x)
    BY <2>2 DEF Edit, Remove, Write, serverVars
  <2>3. CASE \E o \in requests : Deliver(o)
    <3>1. PICK o \in requests : Deliver(o)
      BY <2>3
    <3>2. op = o
      BY <3>1 DEF Deliver
    <3>q. QED
      BY <3>1, <3>2, DeliverLog
  <2>4. CASE \E o \in requests : Expire(o)
    BY <2>4 DEF Expire
  <2>5. CASE UNCHANGED vars
    BY <2>5 DEF vars, serverVars
  <2>q. QED
    BY <2>1, <2>2, <2>3, <2>4, <2>5 DEF Next
<1>q. QED
  BY <1>1, VersionsInvariant, PTL DEF Spec, OnlyPendingCommits

----------------------------------------------------------------------------
(* The refinement of VaultLog.                                              *)

Agreed == [d \in Devices |-> Copies(d)]

(* The operation of a revision is the only one.                             *)
LEMMA ChosenVersion ==
    ASSUME NEW ops, NEW op \in ops, \A o \in ops : o.base \in Nat,
           \A o, p \in ops : o.base = p.base => o = p
    PROVE  (CHOOSE o \in ops : o.base + 1 = op.base + 1) = op
<1>1. \E o \in ops : o.base + 1 = op.base + 1
  OBVIOUS
<1>2. \A o \in ops : o.base + 1 = op.base + 1 => o = op
  OBVIOUS
<1>q. QED
  BY <1>1, <1>2

LEMMA OneVersion ==
    ASSUME VaultInv, NEW op \in committed
    PROVE  VersionAt(op.base + 1) = op.docs
<1>1. op.base + 1 # 1
  BY DEF VaultInv
<1>2. \A o \in committed : o.base \in Nat
  BY DEF VaultInv
<1>q. QED
  BY <1>1, <1>2, ChosenVersion DEF VersionAt, VaultInv

LEMMA VersionInLog ==
    ASSUME VaultInv, NEW b, Version(b, committed), b.rev # 0
    PROVE  b = [rev |-> b.rev, docs |-> Versions[b.rev]] /\ b.rev \in 1..head.rev
<1>1. b.rev \in 1..head.rev
  BY RevisionOf
<1>2. CASE b = First
  <2>1. b.rev = 1 /\ Versions[1] = Empty
    BY <1>1, <1>2 DEF First, Versions, VersionAt
  <2>q. QED
    BY <1>1, <1>2, <2>1 DEF First
<1>3. CASE \E op \in committed : b = [rev |-> op.base + 1, docs |-> op.docs]
  <2>1. PICK op \in committed : b = [rev |-> op.base + 1, docs |-> op.docs]
    BY <1>3
  <2>2. b.rev = op.base + 1 /\ b.docs = op.docs
    BY <2>1
  <2>3. Versions[b.rev] = op.docs
    BY <1>1, <2>2, OneVersion DEF Versions
  <2>q. QED
    BY <1>1, <2>1, <2>2, <2>3
<1>q. QED
  BY <1>2, <1>3 DEF Version, NoBaseline

LEMMA VersionsLength ==
    ASSUME VaultInv
    PROVE  Len(Versions) = head.rev
  BY DEF VaultInv, Versions

LEMMA InitRefines == Init => Vault!Init
<1> SUFFICES ASSUME Init PROVE Vault!Init
  OBVIOUS
<1>1. Versions = <<Empty>>
  <2>1. head.rev = 1 /\ VersionAt(1) = Empty
    BY DEF Init, First, VersionAt
  <2>q. QED
    BY <2>1 DEF Versions
<1> DEFINE joined == {d \in Devices : registry[d] = First}
<1>2. \A d \in Devices :
          Copies(d) = [c \in Vault!Copy |-> IF d \in joined THEN Vault!At(1) ELSE NoBaseline]
  <2>1. Vault!At(1) = First
    BY <1>1 DEF Vault!At, First
  <2>2. \A d \in Devices : registry[d] = (IF d \in joined THEN First ELSE NoBaseline)
                           /\ stored[d] = registry[d] /\ known[d] = registry[d]
    BY DEF Init
  <2>q. QED
    BY <2>1, <2>2 DEF Copies, Vault!Copy
<1>q. QED
  BY <1>1, <1>2 DEF Vault!Init

LEMMA GrowthRefines ==
    ASSUME LogInv, LogInv', NEW op \in requests, Deliver(op)
    PROVE  Vault!Next
<1>1. /\ head'.rev = head.rev + 1 /\ committed' = committed \cup {op}
      /\ head.rev \in Nat \ {0}
      /\ UNCHANGED <<stored, registry, known>>
  BY DEF Deliver, LogInv, VaultInv, durableVars
<1>2. ASSUME NEW r \in 1..head.rev PROVE VersionAt(r)' = VersionAt(r)
  <2>1. CASE r = 1
    BY <2>1 DEF VersionAt
  <2>2. CASE r # 1
    <3>1. r - 1 \in 1..(head.rev - 1)
      BY <1>1, <2>2
    <3>2. PICK o \in committed : o.base = r - 1
      BY <3>1 DEF LogInv, VaultInv
    <3>3. r = o.base + 1 /\ o \in committed'
      BY <1>1, <3>2
    <3>4. VersionAt(r) = o.docs
      BY <3>3, OneVersion DEF LogInv
    <3>5. \A p \in committed' : p.base \in Nat
      BY DEF LogInv, VaultInv
    <3>6. (CHOOSE p \in committed' : p.base + 1 = o.base + 1) = o
      BY <3>3, <3>5, ChosenVersion DEF LogInv, VaultInv
    <3>7. VersionAt(r)' = o.docs
      BY <2>2, <3>3, <3>6 DEF VersionAt
    <3>q. QED
      BY <3>4, <3>7
  <2>q. QED
    BY <2>1, <2>2
<1>3. Len(Versions') = Len(Versions) + 1
  BY <1>1, VersionsLength DEF LogInv, VaultInv, Versions
<1>4. SubSeq(Versions', 1, Len(Versions)) = Versions
  BY <1>1, <1>2, VersionsLength DEF LogInv, Versions
<1>5. [d \in Devices |-> Copies(d)]' = [d \in Devices |-> Copies(d)]
  BY <1>1 DEF Copies
<1>q. QED
  BY <1>3, <1>4, <1>5 DEF Vault!Next, Vault!Grow

(* A device's copies only move forward, each by itself.                     *)
Forward(d) ==
    /\ \/ stored'[d] = stored[d]
       \/ /\ Version(stored'[d], committed) /\ stored'[d].rev # 0
          /\ stored[d].rev <= stored'[d].rev
    /\ \/ registry'[d] = registry[d]
       \/ /\ Version(registry'[d], committed) /\ registry'[d].rev # 0
          /\ registry[d].rev <= registry'[d].rev
    /\ \/ known'[d] = known[d]
       \/ /\ Version(known'[d], committed) /\ known'[d].rev # 0
          /\ known[d].rev <= known'[d].rev

LEMMA TaskForward ==
    ASSUME LogInv, NEW d \in Devices, Task(d)
    PROVE  Forward(d)
<1>1. Shape /\ VaultInv /\ DeviceInv(d)
  BY DEF LogInv
<1>2. /\ Version(stored[d], committed) /\ Version(registry[d], committed)
      /\ Version(known[d], committed) /\ known[d].rev <= stored[d].rev
      /\ stored[d].rev \in Nat /\ registry[d].rev \in Nat /\ known[d].rev \in Nat
  BY <1>1, RevisionOf DEF DeviceInv, BaselineInv, VaultInv
<1>3. stored[d].rev = 0 => known[d] = stored[d]
  <2>1. \A b : Version(b, committed) /\ b.rev = 0 => b = NoBaseline
    BY <1>1 DEF Version, NoBaseline, First, VaultInv
  <2>q. QED
    BY <1>2, <2>1
<1>4. known'[d] \in {known[d], stored[d]}
          => known'[d] = known[d] \/ (stored[d].rev # 0 /\ known'[d] = stored[d])
  BY <1>3
<1>5. CASE UNCHANGED <<stored, registry>> /\ known'[d] \in {known[d], stored[d]}
  BY <1>2, <1>4, <1>5 DEF Forward
<1>6. CASE AcceptStore(d) /\ known'[d] \in {known[d], stored[d]}
  <2>1. PICK op \in pending[d] :
               /\ Version(stored'[d], committed) /\ stored'[d].rev = op.base + 1
               /\ stored[d].rev <= op.base + 1 /\ op.base \in Nat
               /\ UNCHANGED <<registry, pending>>
    BY <1>6, Accepted
  <2>q. QED
    BY <1>2, <1>4, <1>6, <2>1 DEF Forward
<1>7. CASE AcceptData(d)
  <2>1. /\ UNCHANGED stored /\ stored[d].rev # 0
        /\ registry'[d] = stored[d] /\ known'[d] = stored[d]
        /\ registry[d].rev <= stored[d].rev
    BY <1>1, <1>2, <1>7 DEF AcceptData, Shape, DeviceInv, BaselineInv
  <2>q. QED
    BY <1>2, <2>1 DEF Forward
<1>8. CASE Record(d) \/ RecordData(d)
  <2>1. /\ Version(hand[d].remote, committed) /\ hand[d].remote.rev # 0
        /\ stored[d].rev <= hand[d].remote.rev
    BY <1>1, <1>8 DEF Record, RecordData, DeviceInv, HandInv, Deciding, Captured
  <2>2. hand[d].remote.rev \in Nat
    BY <1>1, <2>1, RevisionOf DEF VaultInv
  <2>3. CASE Record(d)
    BY <1>1, <1>2, <2>1, <2>3 DEF Record, Shape, Forward
  <2>4. CASE RecordData(d)
    <3>1. /\ UNCHANGED stored
          /\ registry'[d] = hand[d].remote /\ known'[d] = hand[d].remote
          /\ registry[d].rev <= hand[d].remote.rev
      BY <1>1, <1>2, <2>2, <2>4 DEF RecordData, Shape
    <3>q. QED
      BY <1>2, <2>1, <2>2, <3>1 DEF Forward
  <2>q. QED
    BY <1>8, <2>3, <2>4
<1>9. Task(d) => \/ UNCHANGED <<stored, registry>> /\ known'[d] \in {known[d], stored[d]}
                 \/ AcceptStore(d) /\ known'[d] \in {known[d], stored[d]}
                 \/ AcceptData(d) \/ Record(d) \/ RecordData(d)
  <2>1. Begin(d) => \/ UNCHANGED <<stored, registry>> /\ known'[d] \in {known[d], stored[d]}
                    \/ AcceptStore(d) /\ known'[d] \in {known[d], stored[d]}
    BY <1>1 DEF Begin, Shape, durableVars
  <2>2. Answered(d) => AcceptStore(d) /\ known' = known
    BY DEF Answered
  <2>3. Crash(d) => UNCHANGED <<stored, registry>> /\ known'[d] = stored[d]
    BY <1>1 DEF Crash, Shape, durableVars
  <2>4. Rejected(d) \/ Refused(d) \/ RetryRejected(d) \/ Unanswered(d) \/ AcceptDone(d) \/ Merge(d)
        \/ MakePreview(d) \/ ShowConflict(d) \/ Apply(d) \/ Restore(d) \/ Upload(d) \/ Fail(d)
        => UNCHANGED <<stored, registry, known>>
    BY DEF Rejected, Refused, Discard, RetryRejected, Unanswered, Unknown, AcceptDone, Merge,
           MakePreview, ShowConflict, Show, Apply, Restore, Upload, Fail, durableVars
  <2>q. QED
    BY <2>1, <2>2, <2>3, <2>4 DEF Task
<1>q. QED
  BY <1>5, <1>6, <1>7, <1>8, <1>9

LEMMA ForwardRefines ==
    ASSUME LogInv, NEW d \in Devices, StepOf(d), Forward(d), UNCHANGED <<head, committed>>
    PROVE  Vault!Next
<1>1. Shape /\ VaultInv
  BY DEF LogInv
<1>2. Versions' = Versions
  BY DEF Versions, VersionAt
<1>3. \A b : Version(b, committed) /\ b.rev # 0 =>
          \E r \in 1..Len(Versions) : b = Vault!At(r) /\ r = b.rev
  BY <1>1, VersionInLog, VersionsLength DEF Vault!At
<1>4. \A e \in Devices : e # d => Copies(e)' = Copies(e)
  BY <1>1, OneDevice DEF Copies, Kept
<1>5. Agreed' = [Agreed EXCEPT ![d] = Copies(d)']
  BY <1>4 DEF Agreed
<1>6. ASSUME NEW c \in Vault!Copy
      PROVE  Vault!Advances(Copies(d)[c], Copies(d)'[c])
  <2>1. CASE c = "stored"
    <3>1. Copies(d)[c] = stored[d] /\ Copies(d)'[c] = stored'[d]
      BY <2>1 DEF Copies
    <3>q. QED
      BY <1>3, <3>1 DEF Vault!Advances, Forward
  <2>2. CASE c = "registry"
    <3>1. Copies(d)[c] = registry[d] /\ Copies(d)'[c] = registry'[d]
      BY <2>2 DEF Copies
    <3>q. QED
      BY <1>3, <3>1 DEF Vault!Advances, Forward
  <2>3. CASE c = "known"
    <3>1. Copies(d)[c] = known[d] /\ Copies(d)'[c] = known'[d]
      BY <2>3 DEF Copies
    <3>q. QED
      BY <1>3, <3>1 DEF Vault!Advances, Forward
  <2>q. QED
    BY <2>1, <2>2, <2>3 DEF Vault!Copy
<1>7. Vault!Agree(d)
  BY <1>2, <1>5, <1>6 DEF Vault!Agree, Agreed
<1>q. QED
  BY <1>7 DEF Vault!Next

(* The vault and every copy of a baseline implement VaultLog: whatever is    *)
(* lost, answered twice or crashes between two writes, a device's baselines  *)
(* are versions of the vault and never go back.                             *)
THEOREM BaselinesFollowTheVault == Spec => ImplementsVaultLog
<1>1. Init => Vault!Init
  BY InitRefines
<1>2. LogInv /\ LogInv' /\ [Next]_vars
        => [Vault!Next]_<<Versions, [d \in Devices |-> Copies(d)]>>
  <2> SUFFICES ASSUME LogInv, LogInv', [Next]_vars
               PROVE  \/ Vault!Next
                      \/ UNCHANGED <<Versions, [d \in Devices |-> Copies(d)]>>
    OBVIOUS
  <2>1. CASE \E d \in Devices : Task(d)
    BY <2>1, TaskLog, TaskForward, ForwardRefines
  <2>2. CASE \E op \in requests : Deliver(op)
    BY <2>2, GrowthRefines
  <2>3. CASE UNCHANGED <<head, committed, stored, registry, known>>
    BY <2>3 DEF Versions, VersionAt, Copies
  <2>4. CASE \E d \in Devices, x \in Docs : Edit(d, x) \/ Remove(d, x)
    BY <2>3, <2>4 DEF Edit, Remove, Write, serverVars, durableVars
  <2>5. CASE \E op \in requests : Expire(op)
    BY <2>3, <2>5 DEF Expire, durableVars
  <2>6. CASE UNCHANGED vars
    BY <2>3, <2>6 DEF vars, serverVars, durableVars
  <2>q. QED
    BY <2>1, <2>2, <2>4, <2>5, <2>6 DEF Next
<1>q. QED
  BY <1>1, <1>2, VersionsInvariant, PTL DEF Spec, ImplementsVaultLog, Vault!Spec

----------------------------------------------------------------------------
(* What a device reports as synced.                                         *)

(* Capturing again after the tombstones were written back, or over a newer   *)
(* registered baseline with the captured documents, gives the same image.   *)
LEMMA CaptureAgain ==
    ASSUME NEW native, NEW written, NEW base
    PROVE  Capture(native, Tombstones(Capture(native, written, base)), base)
               = Capture(native, written, base)
<1> DEFINE image == Capture(native, written, base)
<1> SUFFICES ASSUME NEW x \in Docs
             PROVE  CaptureEntry(native[x], Tombstones(image)[x], base, x) = image[x]
  BY DEF Capture
<1>1. image[x] = CaptureEntry(native[x], written[x], base, x)
  BY DEF Capture
<1>2. Tombstones(image)[x] = IF IsDeleted(image[x]) THEN image[x] ELSE Nothing
  BY DEF Tombstones
<1> HIDE DEF image
<1>q. QED
  BY <1>1, <1>2 DEF CaptureEntry, IsLive, IsDeleted, Nothing, Tombstone

LEMMA CaptureNext ==
    ASSUME NEW native, NEW written, NEW base, NEW next,
           written = Tombstones(Capture(native, written, base)),
           next.docs = Capture(native, written, base)
    PROVE  Capture(native, written, next) = Capture(native, written, base)
<1> DEFINE image == Capture(native, written, base)
<1> SUFFICES ASSUME NEW x \in Docs
             PROVE  CaptureEntry(native[x], written[x], next, x) = image[x]
  BY DEF Capture
<1>1. image[x] = CaptureEntry(native[x], written[x], base, x) /\ next.docs[x] = image[x]
  BY DEF Capture
<1>2. written[x] = IF IsDeleted(image[x]) THEN image[x] ELSE Nothing
  BY DEF Tombstones
<1> HIDE DEF image
<1>q. QED
  BY <1>1, <1>2 DEF CaptureEntry, IsLive, IsDeleted, Nothing, Tombstone

Written(d) == marks[d] = Tombstones(ImageOf(d))

PendingImage(d) ==
    "pending" \in current[d] =>
        /\ Written(d) /\ pending[d] # {}
        /\ \A op \in pending[d] : op.docs = ImageOf(d)

SyncedImage(d) ==
    "synced" \in current[d] =>
        /\ Written(d) /\ ImageOf(d) = stored[d].docs
        /\ pending[d] # {} => "pending" \in current[d]
        /\ pc[d] \in Captured => "hand" \in current[d]
        /\ pc[d] = "record" => ImageOf(d) = hand[d].remote.docs

HandImage(d) ==
    /\ "hand" \in current[d] /\ pc[d] \in Captured => Written(d) /\ hand[d].mine = ImageOf(d)
    /\ pc[d] \in {"idle", "fetch", "preview", "resent"} => "hand" \notin current[d]

TaskImage(d) ==
    /\ pc[d] \in {"upload", "sent"} => mode[d] # "review"
    /\ pc[d] \in Accepting => \A op \in pending[d] : stored[d].docs = op.docs

ImageInv(d) == PendingImage(d) /\ SyncedImage(d) /\ HandImage(d) /\ TaskImage(d)

CycleInv == LogInv /\ \A d \in Devices : ImageInv(d)

LEMMA ImageKept ==
    ASSUME NEW e \in Devices, ImageInv(e), Kept(e)
    PROVE  ImageInv(e)'
<1>1. ImageOf(e)' = ImageOf(e) /\ (Written(e)' <=> Written(e))
  BY DEF Kept, ImageOf, Written
<1>q. QED
  BY <1>1 DEF ImageInv, PendingImage, SyncedImage, HandImage, TaskImage, Kept

(* A step that leaves the captured image alone.                             *)
SameImage(d) == UNCHANGED <<local[d], marks[d], registry[d]>>

LEMMA SameImageKept ==
    ASSUME NEW d \in Devices, SameImage(d)
    PROVE  ImageOf(d)' = ImageOf(d) /\ (Written(d)' <=> Written(d))
  BY DEF SameImage, ImageOf, Written

(* The export does not change what is captured.                             *)
LEMMA ExportKept ==
    ASSUME Shape, NEW d \in Devices, Export(d), UNCHANGED <<local, registry>>
    PROVE  ImageOf(d)' = ImageOf(d) /\ Written(d)'
<1>1. marks'[d] = Tombstones(ImageOf(d))
  BY DEF Export, Shape
<1>2. ImageOf(d)' = ImageOf(d)
  BY <1>1, CaptureAgain DEF ImageOf
<1>q. QED
  BY <1>1, <1>2 DEF Written

(* A registered baseline with the captured documents does not either.       *)
LEMMA RegisterKept ==
    ASSUME Shape, NEW d \in Devices, UNCHANGED <<local, marks>>, Written(d),
           registry'[d].docs = ImageOf(d)
    PROVE  ImageOf(d)' = ImageOf(d) /\ Written(d)'
<1>1. ImageOf(d)' = ImageOf(d)
  BY CaptureNext DEF ImageOf, Written
<1>q. QED
  BY <1>1 DEF Written

(* The image that is stored when an answer arrives.                         *)
LEMMA AcceptedImage ==
    ASSUME CycleInv, NEW d \in Devices, AcceptStore(d), SameImage(d),
           UNCHANGED <<mode, hand, current>>
    PROVE  ImageInv(d)'
<1>1. Shape /\ ImageInv(d) /\ DeviceInv(d)
  BY DEF CycleInv, LogInv
<1>2. PICK op \in pending[d] :
          /\ pending[d] = {op} /\ stored'[d].docs = op.docs
          /\ pc'[d] = "acceptData" /\ UNCHANGED pending
  BY Accepted DEF CycleInv
<1>3. ImageOf(d)' = ImageOf(d) /\ (Written(d)' <=> Written(d))
  BY SameImageKept
<1>4. PendingImage(d)'
  BY <1>1, <1>2, <1>3 DEF ImageInv, PendingImage
<1>5. SyncedImage(d)'
  BY <1>1, <1>2, <1>3 DEF ImageInv, PendingImage, SyncedImage, Captured
<1>6. HandImage(d)' /\ TaskImage(d)'
  BY <1>1, <1>2 DEF ImageInv, HandImage, TaskImage, Captured
<1>q. QED
  BY <1>4, <1>5, <1>6 DEF ImageInv

LEMMA BeginImage ==
    ASSUME CycleInv, NEW d \in Devices, Begin(d)
    PROVE  ImageInv(d)'
<1>1. Shape /\ ImageInv(d)
  BY DEF CycleInv, LogInv
<1>2. pc[d] = "idle" /\ SameImage(d) /\ UNCHANGED <<hand, current, pending>>
  BY DEF Begin, SameImage, AcceptStore, durableVars
<1>3. ImageOf(d)' = ImageOf(d) /\ (Written(d)' <=> Written(d))
  BY <1>2, SameImageKept
<1>4. "hand" \notin current[d]
  BY <1>1, <1>2 DEF ImageInv, HandImage
<1>5. CASE AcceptStore(d)
  <2>1. PICK op \in pending[d] :
          pending[d] = {op} /\ stored'[d].docs = op.docs /\ pc'[d] = "acceptData"
    BY <1>5, Accepted DEF CycleInv
  <2>2. PendingImage(d)'
    BY <1>1, <1>2, <1>3 DEF ImageInv, PendingImage
  <2>3. SyncedImage(d)'
    BY <1>1, <1>2, <1>3, <2>1 DEF ImageInv, PendingImage, SyncedImage, Captured
  <2>4. HandImage(d)' /\ TaskImage(d)'
    BY <1>2, <1>4, <2>1 DEF HandImage, TaskImage, Captured
  <2>q. QED
    BY <2>2, <2>3, <2>4 DEF ImageInv
<1>6. CASE UNCHANGED stored /\ pc'[d] \in {"fetch", "resent"}
  <2>2. PendingImage(d)'
    BY <1>1, <1>2, <1>3 DEF ImageInv, PendingImage
  <2>3. SyncedImage(d)'
    BY <1>1, <1>2, <1>3, <1>6 DEF ImageInv, SyncedImage, Captured
  <2>4. HandImage(d)' /\ TaskImage(d)'
    BY <1>2, <1>4, <1>6 DEF HandImage, TaskImage, Captured, Accepting
  <2>q. QED
    BY <2>2, <2>3, <2>4 DEF ImageInv
<1>q. QED
  BY <1>1, <1>5, <1>6 DEF Begin, Goto, Shape, durableVars

(* A task that ends, or a review that goes on, drops what it captured.      *)
LEMMA EndImage ==
    ASSUME CycleInv, NEW d \in Devices, SameImage(d), UNCHANGED stored,
           pc'[d] \in {"idle", "fetch"},
           \/ pending'[d] = {} /\ "pending" \notin current'[d]
           \/ pending'[d] = pending[d] /\ ("pending" \in current'[d] <=> "pending" \in current[d]),
           "hand" \notin current'[d], "synced" \in current'[d] => "synced" \in current[d]
    PROVE  ImageInv(d)'
<1>1. ImageInv(d)
  BY DEF CycleInv
<1>2. ImageOf(d)' = ImageOf(d) /\ (Written(d)' <=> Written(d))
  BY SameImageKept
<1>3. PendingImage(d)'
  BY <1>1, <1>2 DEF ImageInv, PendingImage
<1>4. SyncedImage(d)'
  BY <1>1, <1>2 DEF ImageInv, SyncedImage, Captured
<1>5. HandImage(d)' /\ TaskImage(d)'
  BY <1>1 DEF HandImage, TaskImage, Captured, Accepting
<1>q. QED
  BY <1>3, <1>4, <1>5 DEF ImageInv

LEMMA EndingImage ==
    ASSUME CycleInv, NEW d \in Devices,
           Rejected(d) \/ Refused(d) \/ RetryRejected(d) \/ Unanswered(d) \/ Fail(d) \/ Crash(d)
    PROVE  ImageInv(d)'
<1>1. Shape /\ ImageInv(d)
  BY DEF CycleInv, LogInv
<1>2. CASE Rejected(d) \/ Refused(d)
  <2>1. /\ SameImage(d) /\ UNCHANGED stored /\ pc'[d] = "idle" /\ pending'[d] = {}
        /\ current'[d] = current[d] \ {"hand", "pending"}
    BY <1>1, <1>2 DEF Rejected, Refused, Discard, Return, Goto, Forget, SameImage, Shape
  <2>q. QED
    BY <2>1, EndImage
<1>3. CASE RetryRejected(d) \/ Unanswered(d)
  <2>1. /\ SameImage(d) /\ UNCHANGED <<stored, pending>> /\ pc'[d] \in {"idle", "fetch"}
        /\ \/ current'[d] = current[d] \ {"hand"}
           \/ current' = current /\ mode[d] = "review"
    BY <1>1, <1>3 DEF RetryRejected, Unanswered, Unknown, Return, Goto, Forget, SameImage, Shape,
                      durableVars
  <2>2. mode[d] = "review" => "hand" \notin current[d]
    BY <1>1, <1>3 DEF RetryRejected, Unanswered, ImageInv, HandImage, TaskImage
  <2>q. QED
    BY <2>1, <2>2, EndImage
<1>4. CASE Fail(d) \/ Crash(d)
  <2>1. /\ SameImage(d) /\ UNCHANGED <<stored, pending>> /\ pc'[d] = "idle"
        /\ current'[d] = current[d] \ {"hand"}
    BY <1>1, <1>4 DEF Fail, Crash, Return, Goto, Forget, SameImage, Shape, durableVars
  <2>q. QED
    BY <2>1, EndImage
<1>q. QED
  BY <1>2, <1>3, <1>4

LEMMA AcceptDataImage ==
    ASSUME CycleInv, NEW d \in Devices, AcceptData(d)
    PROVE  ImageInv(d)'
<1>1. Shape /\ ImageInv(d) /\ DeviceInv(d)
  BY DEF CycleInv, LogInv
<1>2. /\ pc[d] = "acceptData" /\ pc'[d] = "acceptDone" /\ registry'[d] = stored[d]
      /\ UNCHANGED <<local, marks, stored, pending, mode, hand, current>>
  BY <1>1 DEF AcceptData, Goto, Shape
<1>3. CASE "pending" \in current[d] \/ "synced" \in current[d]
  <2>1. Written(d) /\ stored[d].docs = ImageOf(d)
    BY <1>1, <1>2, <1>3 DEF ImageInv, PendingImage, SyncedImage, TaskImage, Accepting
  <2>2. ImageOf(d)' = ImageOf(d) /\ Written(d)'
    BY <1>1, <1>2, <2>1, RegisterKept
  <2>3. PendingImage(d)' /\ SyncedImage(d)'
    BY <1>1, <1>2, <2>1, <2>2 DEF ImageInv, PendingImage, SyncedImage, Captured
  <2>q. QED
    BY <1>1, <1>2, <2>3 DEF ImageInv, HandImage, TaskImage, Captured, Accepting
<1>4. CASE "pending" \notin current[d] /\ "synced" \notin current[d]
  BY <1>1, <1>2, <1>4 DEF ImageInv, PendingImage, SyncedImage, HandImage, TaskImage, Captured,
                          Accepting
<1>q. QED
  BY <1>3, <1>4

LEMMA AcceptDoneImage ==
    ASSUME CycleInv, NEW d \in Devices, AcceptDone(d)
    PROVE  ImageInv(d)'
<1>1. Shape /\ ImageInv(d)
  BY DEF CycleInv, LogInv
<1>2. /\ pc[d] = "acceptDone" /\ pc'[d] \in {"idle", "fetch"} /\ pending'[d] = {}
      /\ SameImage(d) /\ UNCHANGED stored
  BY <1>1 DEF AcceptDone, Return, Goto, SameImage, Shape
<1>3. /\ "hand" \notin current'[d] /\ "pending" \notin current'[d]
      /\ "synced" \in current'[d] => "pending" \in current[d]
  BY <1>1 DEF AcceptDone, Synced, Shape
<1>4. ImageOf(d)' = ImageOf(d) /\ (Written(d)' <=> Written(d))
  BY <1>2, SameImageKept
<1>5. "pending" \in current[d] => Written(d) /\ ImageOf(d) = stored[d].docs
  BY <1>1, <1>2 DEF ImageInv, PendingImage, TaskImage, Accepting
<1>6. SyncedImage(d)'
  BY <1>2, <1>3, <1>4, <1>5 DEF SyncedImage, Captured
<1>q. QED
  BY <1>2, <1>3, <1>6 DEF ImageInv, PendingImage, HandImage, TaskImage, Captured, Accepting

LEMMA MergeImage ==
    ASSUME CycleInv, NEW d \in Devices, Merge(d)
    PROVE  ImageInv(d)'
<1>1. Shape /\ ImageInv(d) /\ DeviceInv(d)
  BY DEF CycleInv, LogInv
<1>2. /\ pc[d] = "fetch" /\ mode[d] = "sync" /\ pending[d] = {} /\ "hand" \notin current[d]
      /\ UNCHANGED <<local, registry, stored, pending>>
  BY <1>1 DEF Merge, DeviceInv, PendingInv, ImageInv, HandImage
<1>3. ImageOf(d)' = ImageOf(d) /\ Written(d)'
  BY <1>1, <1>2, ExportKept DEF Merge
<1>4. CASE Return(d) /\ UNCHANGED current
  <2>1. pc'[d] = "idle"
    BY <1>1, <1>4 DEF Return, Goto, Shape
  <2>q. QED
    BY <1>1, <1>2, <1>3, <1>4, <2>1 DEF ImageInv, PendingImage, SyncedImage, HandImage, TaskImage,
                                        Captured, Accepting
<1>5. CASE pc'[d] = "preview" /\ UNCHANGED current
  BY <1>1, <1>2, <1>3, <1>5 DEF ImageInv, PendingImage, SyncedImage, HandImage, TaskImage,
                                Captured, Accepting
<1>6. CASE /\ hand'[d].remote = head /\ hand'[d].mine = ImageOf(d)
           /\ current'[d] = current[d] \cup {"hand"} /\ mode' = mode
           /\ pc'[d] \in {"restore", "upload"} \/ (pc'[d] = "record" /\ ImageOf(d) = head.docs)
  <2>1. PendingImage(d)'
    BY <1>1, <1>2, <1>6 DEF ImageInv, PendingImage
  <2>2. SyncedImage(d)'
    BY <1>1, <1>2, <1>3, <1>6 DEF ImageInv, SyncedImage
  <2>3. HandImage(d)' /\ TaskImage(d)'
    BY <1>2, <1>3, <1>6 DEF HandImage, TaskImage, Accepting
  <2>q. QED
    BY <2>1, <2>2, <2>3 DEF ImageInv
<1>q. QED
  BY <1>1, <1>4, <1>5, <1>6 DEF Merge, Goto, Settled, Shape

LEMMA ShowImage ==
    ASSUME CycleInv, NEW d \in Devices, MakePreview(d) \/ ShowConflict(d)
    PROVE  ImageInv(d)'
<1>1. Shape /\ ImageInv(d)
  BY DEF CycleInv, LogInv
<1>2. PICK remote : Show(d, remote)
  BY DEF MakePreview, ShowConflict
<1>3. /\ pc[d] \in {"fetch", "preview"} /\ pc'[d] = "idle"
      /\ Export(d) /\ UNCHANGED <<local, registry, stored, pending, current>>
  BY <1>1, <1>2 DEF MakePreview, ShowConflict, Show, Return, Goto, Shape
<1>4. ImageOf(d)' = ImageOf(d) /\ Written(d)'
  BY <1>1, <1>3, ExportKept
<1>q. QED
  BY <1>1, <1>3, <1>4 DEF ImageInv, PendingImage, SyncedImage, HandImage, TaskImage, Captured,
                          Accepting

LEMMA ApplyImage ==
    ASSUME CycleInv, NEW d \in Devices, Apply(d)
    PROVE  ImageInv(d)'
<1>1. Shape /\ ImageInv(d)
  BY DEF CycleInv, LogInv
<1>2. /\ pc'[d] = "restore" /\ pending'[d] = {} /\ SameImage(d) /\ UNCHANGED stored
      /\ current'[d] = (current[d] \cup {"hand"}) \ {"pending"}
  BY <1>1 DEF Apply, Goto, SameImage, Shape
<1>3. ImageOf(d)' = ImageOf(d) /\ (Written(d)' <=> Written(d))
  BY <1>2, SameImageKept
<1>q. QED
  BY <1>1, <1>2, <1>3 DEF ImageInv, PendingImage, SyncedImage, HandImage, TaskImage, Captured,
                          Accepting

LEMMA RestoreImage ==
    ASSUME CycleInv, NEW d \in Devices, Restore(d)
    PROVE  ImageInv(d)'
<1>1. Shape /\ ImageInv(d) /\ DeviceInv(d)
  BY DEF CycleInv, LogInv
<1>2. pc[d] = "restore" /\ pending[d] = {} /\ UNCHANGED <<registry, stored, pending>>
  BY <1>1 DEF Restore, DeviceInv, PendingInv, Deciding
<1>3. CASE "hand" \notin current[d]
  <2>1. pc'[d] = "idle" /\ UNCHANGED <<local, marks, current>>
    BY <1>1, <1>3 DEF Restore, Return, Goto, Shape
  <2>q. QED
    BY <1>2, <1>3, <2>1, EndImage DEF SameImage
<1>4. CASE "hand" \in current[d]
  <2> DEFINE native == Native(d, hand[d].want)
             restored == Capture(native, Tombstones(hand[d].want), registry[d])
  <2>1. Replace(d, hand[d].want) /\ mode' = mode
    BY <1>4 DEF Restore
  <2>2. local'[d] = native /\ marks'[d] = Tombstones(restored) /\ hand'[d].mine = restored
    BY <1>1, <2>1 DEF Replace, Shape, Fields
  <2>3. current'[d] = {"hand"}
    BY <1>1, <2>1 DEF Replace, Outdate, Shape
  <2>4. pc'[d] \in {"record", "upload"} /\ (mode[d] = "review" => pc'[d] = "record")
    BY <1>1, <2>1 DEF Replace, Settled, Goto, Shape
  <2> HIDE DEF native
  <2>5. ImageOf(d)' = restored
    BY <1>2, <2>2, CaptureAgain DEF ImageOf
  <2>6. Written(d)'
    BY <2>2, <2>5 DEF Written
  <2> HIDE DEF restored
  <2>7. HandImage(d)' /\ TaskImage(d)'
    BY <2>1, <2>2, <2>3, <2>4, <2>5, <2>6 DEF HandImage, TaskImage, Accepting
  <2>q. QED
    BY <2>3, <2>7 DEF ImageInv, PendingImage, SyncedImage
<1>q. QED
  BY <1>3, <1>4

LEMMA RecordImage ==
    ASSUME CycleInv, NEW d \in Devices, Record(d)
    PROVE  ImageInv(d)'
<1>1. Shape /\ ImageInv(d) /\ DeviceInv(d)
  BY DEF CycleInv, LogInv
<1>2. /\ pc[d] = "record" /\ pc'[d] = "recordData" /\ stored'[d] = hand[d].remote
      /\ SameImage(d) /\ UNCHANGED <<pending, mode, hand, current>>
  BY <1>1 DEF Record, Goto, SameImage, Shape
<1>3. ImageOf(d)' = ImageOf(d) /\ (Written(d)' <=> Written(d))
  BY <1>2, SameImageKept
<1>4. PendingImage(d)'
  BY <1>1, <1>2, <1>3 DEF ImageInv, PendingImage
<1>5. SyncedImage(d)'
  BY <1>1, <1>2, <1>3 DEF ImageInv, SyncedImage, Captured
<1>6. HandImage(d)' /\ TaskImage(d)'
  BY <1>1, <1>2, <1>3 DEF ImageInv, HandImage, TaskImage, Captured, Accepting
<1>q. QED
  BY <1>4, <1>5, <1>6 DEF ImageInv

LEMMA RecordDataImage ==
    ASSUME CycleInv, NEW d \in Devices, RecordData(d)
    PROVE  ImageInv(d)'
<1>1. Shape /\ ImageInv(d) /\ DeviceInv(d)
  BY DEF CycleInv, LogInv
<1>2. /\ pc[d] = "recordData" /\ pc'[d] \in {"idle", "fetch"} /\ registry'[d] = hand[d].remote
      /\ UNCHANGED <<local, marks, stored, pending>>
      /\ pending[d] = {} /\ stored[d] = hand[d].remote
  BY <1>1 DEF RecordData, Return, Goto, Shape, DeviceInv, PendingInv, HandInv, Deciding, Captured
<1>3. /\ "hand" \notin current'[d]
      /\ "pending" \in current'[d] => "pending" \in current[d]
      /\ "synced" \in current'[d] => "hand" \in current[d] /\ hand[d].mine = hand[d].remote.docs
  BY <1>1 DEF RecordData, Synced, Shape
<1>4. "pending" \notin current'[d]
  BY <1>1, <1>2, <1>3 DEF ImageInv, PendingImage
<1>5. CASE "synced" \in current'[d]
  <2>1. Written(d) /\ ImageOf(d) = hand[d].remote.docs
    BY <1>1, <1>2, <1>3, <1>5 DEF ImageInv, HandImage, Captured
  <2>2. ImageOf(d)' = ImageOf(d) /\ Written(d)'
    BY <1>1, <1>2, <2>1, RegisterKept
  <2>q. QED
    BY <1>2, <1>3, <1>4, <2>1, <2>2 DEF ImageInv, PendingImage, SyncedImage, HandImage, TaskImage,
                                        Captured, Accepting
<1>6. CASE "synced" \notin current'[d]
  BY <1>2, <1>3, <1>4, <1>6 DEF ImageInv, PendingImage, SyncedImage, HandImage, TaskImage,
                                Captured, Accepting
<1>q. QED
  BY <1>5, <1>6

LEMMA UploadImage ==
    ASSUME CycleInv, NEW d \in Devices, Upload(d)
    PROVE  ImageInv(d)'
<1> DEFINE op == [by |-> d, base |-> hand[d].remote.rev, docs |-> hand[d].mine]
<1>1. Shape /\ ImageInv(d) /\ DeviceInv(d)
  BY DEF CycleInv, LogInv
<1>2. /\ pc[d] = "upload" /\ pc'[d] = "sent" /\ pending'[d] = {op}
      /\ SameImage(d) /\ UNCHANGED <<stored, mode>> /\ pending[d] = {}
  BY <1>1 DEF Upload, Goto, SameImage, Shape, DeviceInv, PendingInv, Deciding, Captured
<1>3. /\ "pending" \in current'[d] <=> "hand" \in current[d]
      /\ "synced" \in current'[d] <=> "synced" \in current[d]
  BY <1>1 DEF Upload, Shape
<1>4. ImageOf(d)' = ImageOf(d) /\ (Written(d)' <=> Written(d))
  BY <1>2, SameImageKept
<1>5. op.docs = hand[d].mine
  OBVIOUS
<1> HIDE DEF op
<1>6. PendingImage(d)'
  BY <1>1, <1>2, <1>3, <1>4, <1>5 DEF ImageInv, HandImage, PendingImage, Captured
<1>7. SyncedImage(d)'
  BY <1>1, <1>2, <1>3, <1>4 DEF ImageInv, SyncedImage, Captured
<1>8. HandImage(d)' /\ TaskImage(d)'
  BY <1>1, <1>2 DEF ImageInv, HandImage, TaskImage, Captured, Accepting
<1>q. QED
  BY <1>6, <1>7, <1>8 DEF ImageInv

LEMMA TaskImages ==
    ASSUME CycleInv, NEW d \in Devices, Task(d)
    PROVE  \A e \in Devices : ImageInv(e)'
<1>1. ImageInv(d)'
  <2>1. Answered(d) => ImageInv(d)'
    <3>1. Answered(d) => AcceptStore(d) /\ SameImage(d) /\ UNCHANGED <<mode, hand, current>>
      BY DEF Answered, AcceptStore, SameImage
    <3>q. QED
      BY <3>1, AcceptedImage
  <2>q. QED
    BY <2>1, BeginImage, EndingImage, AcceptDataImage, AcceptDoneImage, MergeImage, ShowImage,
       ApplyImage, RestoreImage, RecordImage, RecordDataImage, UploadImage DEF Task
<1>2. \A e \in Devices : e # d => Kept(e)
  BY TaskLog, OneDevice DEF CycleInv, LogInv
<1>q. QED
  BY <1>1, <1>2, ImageKept DEF CycleInv

LEMMA WriteImages ==
    ASSUME CycleInv, NEW d \in Devices, NEW x \in Docs, NEW entry, Write(d, x, entry)
    PROVE  \A e \in Devices : ImageInv(e)'
<1>1. Shape /\ ImageInv(d)
  BY DEF CycleInv, LogInv
<1>2. /\ current'[d] = {}
      /\ UNCHANGED <<pc, mode, hand, stored, registry, known, pending, marks>>
      /\ \A e \in Devices : e # d => local'[e] = local[e] /\ current'[e] = current[e]
                                     /\ preview'[e] = preview[e]
  BY <1>1 DEF Write, Outdate, Shape, durableVars, taskVars
<1>3. ImageInv(d)'
  BY <1>1, <1>2 DEF ImageInv, PendingImage, SyncedImage, HandImage, TaskImage
<1>4. \A e \in Devices : e # d => Kept(e)
  BY <1>2 DEF Kept
<1>q. QED
  BY <1>3, <1>4, ImageKept DEF CycleInv

LEMMA InitCycle == Init => CycleInv
<1> SUFFICES ASSUME Init PROVE CycleInv
  OBVIOUS
<1>1. ASSUME NEW d \in Devices PROVE ImageInv(d)
  <2>1. current[d] = {} /\ pc[d] = "idle" /\ mode[d] = "sync"
    BY DEF Init
  <2>q. QED
    BY <2>1 DEF ImageInv, PendingImage, SyncedImage, HandImage, TaskImage, Accepting
<1>q. QED
  BY <1>1, InitLog DEF CycleInv

LEMMA NextCycle == CycleInv /\ [Next]_vars => CycleInv'
<1> SUFFICES ASSUME CycleInv, [Next]_vars PROVE CycleInv'
  OBVIOUS
<1>1. LogInv'
  BY NextLog DEF CycleInv
<1>2. CASE \E d \in Devices : Task(d)
  BY <1>1, <1>2, TaskImages DEF CycleInv
<1>3. CASE \E d \in Devices, x \in Docs : Edit(d, x) \/ Remove(d, x)
  BY <1>1, <1>3, WriteImages DEF Edit, Remove, CycleInv
<1>4. CASE \E op \in requests : Deliver(op)
  BY <1>1, <1>4, DeliverLog, ImageKept DEF CycleInv
<1>5. CASE \A d \in Devices : Kept(d)
  BY <1>1, <1>5, ImageKept DEF CycleInv
<1>6. CASE \E op \in requests : Expire(op)
  BY <1>5, <1>6 DEF Expire, Kept, durableVars, taskVars
<1>7. CASE UNCHANGED vars
  BY <1>5, <1>7 DEF vars, Kept, serverVars, durableVars, taskVars
<1>q. QED
  BY <1>2, <1>3, <1>4, <1>6, <1>7 DEF Next

(* A device that reports Ready holds what it last agreed on: the recorded    *)
(* generations (last_synced, the pending record's and the task's) speak of   *)
(* the present image, through every crash and every concurrent edit.        *)
THEOREM ReadyIsCommitted == Spec => []SyncedMeansCommitted
<1>1. Init => CycleInv
  BY InitCycle
<1>2. CycleInv /\ [Next]_vars => CycleInv'
  BY NextCycle
<1>3. CycleInv => SyncedMeansCommitted
  BY DEF CycleInv, ImageInv, SyncedImage, SyncedMeansCommitted
<1>q. QED
  BY <1>1, <1>2, <1>3, PTL DEF Spec

----------------------------------------------------------------------------
(* What the documents stand for.                                            *)

Below(v, w) == \A x \in Docs : v[x] \subseteq w[x]

(* A live document stands for the edit that wrote it.                       *)
Fits(docs, h) == \A x \in Docs : IsLive(docs[x]) => docs[x].edit \in h[x]

(* A baseline is covered by what stands for all that its version stood for. *)
Covered(b, h) == b.rev # 0 => Below(view[b.rev], h)

HistoryType ==
    /\ saw \in [Devices -> History] /\ intent \in [Devices -> History]
    /\ view \in Seq(History) /\ edits \in Nat

ViewInv ==
    /\ Len(view) = head.rev
    /\ \A r \in 1..head.rev : Below(view[r], view[head.rev])
    /\ Fits(head.docs, view[head.rev])
    /\ \A op \in committed : Fits(op.docs, view[op.base + 1])

LocalSeen(d) ==
    /\ local[d] = [x \in Docs |-> local[d][x]] /\ Fits(local[d], saw[d])
    /\ \A b \in {stored[d], registry[d], known[d]} : Covered(b, saw[d])

PendingSeen(d) ==
    \A op \in pending[d] :
        /\ Fits(op.docs, intent[d])
        /\ Below(view[op.base], intent[d]) /\ Below(intent[d], saw[d])
        /\ op \in committed => Below(view[op.base + 1], saw[d])

HandSeen(d) ==
    /\ pc[d] = "restore" => /\ Fits(hand[d].want, intent[d])
                            /\ Covered(hand[d].remote, intent[d])
                            /\ "hand" \in current[d] => Below(saw[d], intent[d])
    /\ pc[d] = "upload" => /\ Fits(hand[d].mine, intent[d])
                           /\ Covered(hand[d].remote, intent[d])
                           /\ Below(intent[d], saw[d])
    /\ pc[d] \in {"record", "recordData"} => Covered(hand[d].remote, saw[d])
    /\ pc[d] \in Deciding =>
          \A op \in committed : op.by = d => op.base < hand[d].remote.rev

PreviewSeen(d) ==
    \A p \in preview[d] :
        /\ p.remote = head /\ Fits(p.mine, saw[d])
        /\ Version(p.base, committed) /\ Covered(p.base, saw[d])
        /\ ~MissingTombstone(p.base, p.mine, p.remote.docs)

SeenInv(d) == LocalSeen(d) /\ PendingSeen(d) /\ HandSeen(d) /\ PreviewSeen(d)

HistInv == LogInv /\ HistoryType /\ ViewInv /\ \A d \in Devices : SeenInv(d)

(* Whichever entry the merge chooses, what it inherits is all that either   *)
(* side stood for: the one it replaces is the baseline's, which the other   *)
(* side had seen, or is nothing at all.                                     *)
LEMMA ChosenInherits ==
    ASSUME NEW base, NEW x \in Docs, NEW l, NEW r, NEW here, NEW there,
           NEW e, e \in Chosen(base, l, r, x),
           (base.rev # 0 /\ IsLive(base.docs[x])) =>
               (base.docs[x].edit \in here /\ base.docs[x].edit \in there),
           ~IsNone(base.docs[x]) => ~IsNone(l) /\ ~IsNone(r)
    PROVE  IF e = l THEN Inherited(r, there, l, here) = here \cup there
           ELSE e = r /\ Inherited(l, here, r, there) = here \cup there
<1>1. CASE Equivalent(l, r)
  <2>1. Equivalent(r, l) /\ (e = l \/ e = r)
    BY <1>1 DEF Chosen, Preferred, Equivalent, IsLive
  <2>q. QED
    BY <1>1, <2>1 DEF Inherited
<1>2. CASE ~Equivalent(l, r) /\ base.rev = 0
  BY <1>2 DEF Chosen, Inherited
<1>3. CASE ~Equivalent(l, r) /\ base.rev # 0
  <2> DEFINE b == base.docs[x]
  <2>1. ~(IsDeleted(b) /\ (IsLive(l) \/ IsLive(r)))
    BY <1>3 DEF Chosen
  <2>2. \/ e = r /\ Equivalent(l, b)
        \/ e = l /\ Equivalent(r, b)
    BY <1>3, <2>1 DEF Chosen
  <2>3. CASE e = r /\ Equivalent(l, b)
    <3>1. CASE IsLive(l)
      BY <1>3, <2>3, <3>1 DEF Equivalent, IsLive, Inherited
    <3>2. CASE IsDeleted(l)
      BY <1>3, <2>1, <2>3, <3>2 DEF Equivalent, IsLive, IsDeleted, IsNone
    <3>3. CASE IsNone(l)
      BY <1>3, <2>3, <3>3 DEF Inherited, Equivalent
    <3>q. QED
      BY <3>1, <3>2, <3>3 DEF IsNone
  <2>4. CASE e = l /\ Equivalent(r, b)
    <3>1. CASE IsLive(r)
      BY <1>3, <2>4, <3>1 DEF Equivalent, IsLive, Inherited
    <3>2. CASE IsDeleted(r)
      BY <1>3, <2>1, <2>4, <3>2 DEF Equivalent, IsLive, IsDeleted, IsNone
    <3>3. CASE IsNone(r)
      BY <1>3, <2>4, <3>3 DEF Inherited, Equivalent
    <3>q. QED
      BY <3>1, <3>2, <3>3 DEF IsNone
  <2>q. QED
    BY <2>2, <2>3, <2>4
<1>q. QED
  BY <1>1, <1>2, <1>3

LEMMA Picked == ASSUME NEW S, S # {} PROVE (CHOOSE e \in S : TRUE) \in S
  OBVIOUS

LEMMA Resolved ==
    ASSUME NEW base, NEW mine, NEW remote, NEW choice, NEW x \in Docs
    PROVE  LET want == Resolve(base, mine, remote, choice)[x] IN
           IF x \in Conflicts(base, mine, remote) THEN want = mine[x] \/ want = remote[x]
           ELSE want \in Chosen(base, mine[x], remote[x], x)
<1>1. CASE x \in Conflicts(base, mine, remote)
  BY <1>1 DEF Resolve
<1>2. CASE x \notin Conflicts(base, mine, remote)
  <2> DEFINE S == Chosen(base, mine[x], remote[x], x)
  <2>1. S # {}
    BY <1>2 DEF Conflicts
  <2>2. Resolve(base, mine, remote, choice)[x] = CHOOSE e \in S : TRUE
    BY <1>2 DEF Resolve
  <2> HIDE DEF S
  <2>3. (CHOOSE e \in S : TRUE) \in S
    BY <2>1, Picked
  <2>4. Resolve(base, mine, remote, choice)[x] \in S
    BY <2>2, <2>3
  <2>q. QED
    BY <1>2, <2>4 DEF S
<1>q. QED
  BY <1>1, <1>2

(* What is captured stands for no more than the native documents do.        *)
LEMMA CaptureFits ==
    ASSUME NEW native, NEW written, NEW base, NEW h, Fits(native, h)
    PROVE  Fits(Capture(native, written, base), h)
<1> SUFFICES ASSUME NEW x \in Docs, IsLive(CaptureEntry(native[x], written[x], base, x))
             PROVE  CaptureEntry(native[x], written[x], base, x).edit \in h[x]
  BY DEF Fits, Capture
<1>1. CaptureEntry(native[x], written[x], base, x) = native[x] /\ IsLive(native[x])
  BY DEF CaptureEntry, IsLive, IsDeleted, Tombstone, Nothing
<1>q. QED
  BY <1>1 DEF Fits

(* Each version, as a baseline, stands for its live documents.              *)
LEMMA VersionFits ==
    ASSUME LogInv, ViewInv, NEW b, Version(b, committed), b.rev # 0
    PROVE  /\ b.rev \in 1..head.rev /\ Fits(b.docs, view[b.rev])
           /\ Below(view[b.rev], view[head.rev])
           /\ b.rev = head.rev => b = head
<1>1. b = [rev |-> b.rev, docs |-> Versions[b.rev]] /\ b.rev \in 1..head.rev
  BY VersionInLog DEF LogInv
<1>2. head = [rev |-> head.rev, docs |-> Versions[head.rev]]
  BY VersionInLog DEF LogInv, VaultInv
<1>3. Fits(b.docs, view[b.rev])
  <2>1. CASE b = First
    BY <2>1 DEF First, Fits, Empty, Nothing, IsLive
  <2>2. CASE b # First
    <3>1. PICK op \in committed : b = [rev |-> op.base + 1, docs |-> op.docs]
      BY <2>2 DEF Version, NoBaseline
    <3>2. b.rev = op.base + 1 /\ b.docs = op.docs
      BY <3>1
    <3>q. QED
      BY <3>2 DEF ViewInv
  <2>q. QED
    BY <2>1, <2>2
<1>q. QED
  BY <1>1, <1>2, <1>3 DEF ViewInv

(* What a device settles on stands for all that its documents and the       *)
(* vault's stood for.                                                       *)
LEMMA SettledCovers ==
    ASSUME HistInv, NEW d \in Devices, NEW base, Version(base, committed),
           Covered(base, saw[d]), NEW mine, Fits(mine, saw[d]), NEW want, NEW decided,
           ~MissingTombstone(base, mine, head.docs),
           \A x \in Docs :
               IF x \in decided THEN want[x] = mine[x] \/ want[x] = head.docs[x]
               ELSE want[x] \in Chosen(base, mine[x], head.docs[x], x),
           Settle(d, mine, head.docs, want, decided)
    PROVE  /\ intent' \in [Devices -> History]
           /\ \A e \in Devices : e # d => intent'[e] = intent[e]
           /\ Below(saw[d], intent'[d]) /\ Below(view[head.rev], intent'[d])
           /\ Fits(want, intent'[d])
<1> DEFINE here == saw[d]
           there == view[head.rev]
<1>1. here \in History /\ there \in History
  <2>1. head.rev \in 1..Len(view) /\ view \in Seq(History)
    BY DEF HistInv, HistoryType, ViewInv, LogInv, VaultInv
  <2>q. QED
    BY <2>1 DEF HistInv, HistoryType
<1>2. intent'[d] = [x \in Docs |->
            IF x \in decided THEN here[x] \cup there[x]
            ELSE IF want[x] = mine[x] THEN Inherited(head.docs[x], there[x], mine[x], here[x])
            ELSE Inherited(mine[x], here[x], head.docs[x], there[x])]
      /\ \A e \in Devices : e # d => intent'[e] = intent[e]
  BY DEF Settle, HistInv, HistoryType
<1>3. ASSUME NEW x \in Docs
      PROVE  /\ want[x] = mine[x] \/ want[x] = head.docs[x]
             /\ intent'[d][x] = here[x] \cup there[x]
  <2>1. CASE x \in decided
    BY <1>2, <2>1
  <2>2. CASE x \notin decided
    <3>1. want[x] \in Chosen(base, mine[x], head.docs[x], x)
      BY <2>2
    <3> DEFINE l == mine[x]
               r == head.docs[x]
               e == want[x]
               vs == here[x]
               ws == there[x]
    <3>2. base.rev # 0 /\ IsLive(base.docs[x]) =>
               base.docs[x].edit \in vs /\ base.docs[x].edit \in ws
      BY VersionFits DEF HistInv, Covered, Below, Fits
    <3>3. ~IsNone(base.docs[x]) => ~IsNone(mine[x]) /\ ~IsNone(head.docs[x])
      BY DEF MissingTombstone
    <3>4. e \in Chosen(base, l, r, x) /\ (~IsNone(base.docs[x]) => ~IsNone(l) /\ ~IsNone(r))
      BY <3>1, <3>3
    <3> HIDE DEF l, r, e, vs, ws
    <3>5. IF e = l THEN Inherited(r, ws, l, vs) = vs \cup ws
          ELSE e = r /\ Inherited(l, vs, r, ws) = vs \cup ws
      BY ONLY <3>2, <3>4, x \in Docs, ChosenInherits
    <3> USE DEF l, r, e, vs, ws
    <3>q. QED
      BY <1>2, <2>2, <3>5
  <2>q. QED
    BY <2>1, <2>2
<1>4. intent'[d] \in History
  <2>1. \A x \in Docs : here[x] \cup there[x] \in SUBSET Nat
    BY <1>1 DEF History
  <2>2. \A x \in Docs : intent'[d][x] \in SUBSET Nat
    BY <1>3, <2>1
  <2>3. intent'[d] = [x \in Docs |-> intent'[d][x]]
    BY <1>2
  <2>q. QED
    BY <2>2, <2>3 DEF History
<1>5. intent' \in [Devices -> History]
  <2>1. intent' = [intent EXCEPT ![d] = intent'[d]]
    BY DEF Settle, HistInv, HistoryType
  <2>q. QED
    BY <1>4, <2>1 DEF HistInv, HistoryType
<1>6. Below(here, intent'[d]) /\ Below(there, intent'[d])
  BY <1>3 DEF Below
<1>7. Fits(want, intent'[d])
  <2>1. Fits(mine, here) /\ Fits(head.docs, there)
    BY DEF HistInv, ViewInv
  <2> HIDE DEF here, there
  <2>q. QED
    BY <1>3, <2>1 DEF Fits
<1>q. QED
  BY <1>2, <1>5, <1>6, <1>7
----------------------------------------------------------------------------
(* Histories: frames.                                                       *)

LEMMA SeenKept ==
    ASSUME NEW e \in Devices, SeenInv(e), Kept(e),
           UNCHANGED <<saw[e], intent[e], view, head, committed>>
    PROVE  SeenInv(e)'
<1>1. LocalSeen(e)'
  BY DEF SeenInv, LocalSeen, Covered, Kept
<1>2. PendingSeen(e)'
  BY DEF SeenInv, PendingSeen, Kept
<1>3. HandSeen(e)'
  BY DEF SeenInv, HandSeen, Covered, Kept
<1>4. PreviewSeen(e)'
  BY DEF SeenInv, PreviewSeen, Covered, Kept
<1>q. QED
  BY <1>1, <1>2, <1>3, <1>4 DEF SeenInv

(* A step that writes neither documents nor a decision: its baselines must   *)
(* be ones the device has seen.                                             *)
LEMMA QuietSeen ==
    ASSUME NEW d \in Devices, SeenInv(d),
           UNCHANGED <<saw, intent, view, head, committed, local>>,
           preview'[d] \subseteq preview[d], pending'[d] \subseteq pending[d],
           pc'[d] \notin Deciding,
           \A b \in {stored'[d], registry'[d], known'[d]} : Covered(b, saw[d])
    PROVE  SeenInv(d)'
<1>1. LocalSeen(d)'
  BY DEF SeenInv, LocalSeen, Covered
<1>2. PendingSeen(d)'
  BY DEF SeenInv, PendingSeen
<1>3. HandSeen(d)'
  BY DEF HandSeen, Deciding, Captured
<1>4. PreviewSeen(d)'
  BY DEF SeenInv, PreviewSeen, Covered
<1>q. QED
  BY <1>1, <1>2, <1>3, <1>4 DEF SeenInv

(* A step of a device's task leaves the histories of the others alone.      *)
Remembers(d) ==
    /\ UNCHANGED <<edits, view>>
    /\ saw' \in [Devices -> History] /\ intent' \in [Devices -> History]
    /\ \A e \in Devices : e # d => UNCHANGED <<saw[e], intent[e]>>
    /\ Below(saw[d], saw'[d])

LEMMA Still ==
    ASSUME HistoryType, NEW d \in Devices, UNCHANGED historyVars
    PROVE  Remembers(d)
  BY DEF HistoryType, historyVars, Remembers, Below

----------------------------------------------------------------------------
(* Histories: the actions of a device.                                      *)

LEMMA AcceptedSeen ==
    ASSUME HistInv, NEW d \in Devices, AcceptStore(d)
    PROVE  /\ Covered(stored'[d], saw[d])
           /\ UNCHANGED <<registry, pending>> /\ pc'[d] = "acceptData"
<1>1. PICK op \in pending[d] :
          /\ op \in committed /\ stored'[d].rev = op.base + 1
          /\ pc'[d] = "acceptData" /\ UNCHANGED <<registry, pending>>
  BY Accepted DEF HistInv
<1>2. Below(view[op.base + 1], saw[d])
  BY <1>1 DEF HistInv, SeenInv, PendingSeen
<1>q. QED
  BY <1>1, <1>2 DEF Covered

LEMMA BeginSeen ==
    ASSUME HistInv, NEW d \in Devices, Begin(d)
    PROVE  SeenInv(d)' /\ Remembers(d)
<1>1. Shape /\ SeenInv(d) /\ HistoryType
  BY DEF HistInv, LogInv
<1>2. /\ UNCHANGED <<historyVars, head, committed, local, preview>>
      /\ UNCHANGED <<pending, registry>>
      /\ known'[d] \in {known[d], stored[d]}
  BY <1>1 DEF Begin, AcceptStore, Shape, durableVars
<1>3. Covered(stored'[d], saw[d]) /\ pc'[d] \notin Deciding
  <2>1. CASE AcceptStore(d)
    BY <2>1, AcceptedSeen DEF Deciding, Captured
  <2>2. CASE UNCHANGED stored /\ pc'[d] \in {"fetch", "resent"}
    BY <1>1, <2>2 DEF SeenInv, LocalSeen, Deciding, Captured
  <2>q. QED
    BY <1>1, <2>1, <2>2 DEF Begin, Goto, Shape, durableVars
<1>4. SeenInv(d)'
  BY <1>1, <1>2, <1>3, QuietSeen DEF historyVars, SeenInv, LocalSeen
<1>q. QED
  BY <1>1, <1>2, <1>4, Still

LEMMA AnsweredSeen ==
    ASSUME HistInv, NEW d \in Devices, Answered(d)
    PROVE  SeenInv(d)' /\ Remembers(d)
<1>1. Shape /\ SeenInv(d) /\ HistoryType
  BY DEF HistInv, LogInv
<1>2. UNCHANGED <<historyVars, head, committed, local, preview, known>> /\ AcceptStore(d)
  BY DEF Answered, serverVars
<1>3. /\ Covered(stored'[d], saw[d]) /\ pc'[d] \notin Deciding
      /\ UNCHANGED <<registry, pending>>
  BY <1>2, AcceptedSeen DEF Deciding, Captured
<1>4. SeenInv(d)'
  BY <1>1, <1>2, <1>3, QuietSeen DEF historyVars, SeenInv, LocalSeen
<1>q. QED
  BY <1>1, <1>2, <1>4, Still

LEMMA EndingSeen ==
    ASSUME HistInv, NEW d \in Devices,
           Rejected(d) \/ Refused(d) \/ RetryRejected(d) \/ Unanswered(d) \/ Fail(d) \/ Crash(d)
    PROVE  SeenInv(d)' /\ Remembers(d)
<1>1. Shape /\ SeenInv(d) /\ HistoryType
  BY DEF HistInv, LogInv
<1>2. /\ UNCHANGED <<historyVars, head, committed, local, stored, registry>>
      /\ preview'[d] \subseteq preview[d] /\ pending'[d] \subseteq pending[d]
      /\ known'[d] \in {known[d], stored[d]}
      /\ pc'[d] \in {"idle", "fetch"}
  <2>1. CASE Rejected(d) \/ Refused(d)
    BY <1>1, <2>1 DEF Rejected, Refused, Discard, Return, Goto, Shape, serverVars
  <2>2. CASE RetryRejected(d) \/ Unanswered(d)
    BY <1>1, <2>2 DEF RetryRejected, Unanswered, Unknown, Return, Goto, Shape, serverVars,
                      durableVars
  <2>3. CASE Fail(d) \/ Crash(d)
    BY <1>1, <2>3 DEF Fail, Crash, Return, Goto, Shape, serverVars, durableVars
  <2>q. QED
    BY <2>1, <2>2, <2>3
<1>3. SeenInv(d)'
  BY <1>1, <1>2, QuietSeen DEF historyVars, SeenInv, LocalSeen, Deciding, Captured
<1>q. QED
  BY <1>1, <1>2, <1>3, Still

LEMMA AcceptingSeen ==
    ASSUME HistInv, NEW d \in Devices, AcceptData(d) \/ AcceptDone(d)
    PROVE  SeenInv(d)' /\ Remembers(d)
<1>1. Shape /\ SeenInv(d) /\ HistoryType
  BY DEF HistInv, LogInv
<1>2. /\ UNCHANGED <<historyVars, head, committed, local, stored, preview>>
      /\ pending'[d] \subseteq pending[d]
      /\ known'[d] \in {known[d], stored[d]} /\ registry'[d] \in {registry[d], stored[d]}
      /\ pc'[d] \in {"acceptDone", "idle", "fetch"}
  BY <1>1 DEF AcceptData, AcceptDone, Return, Goto, Shape, serverVars
<1>3. SeenInv(d)'
  BY <1>1, <1>2, QuietSeen DEF historyVars, SeenInv, LocalSeen, Deciding, Captured
<1>q. QED
  BY <1>1, <1>2, <1>3, Still

LEMMA RecordSeen ==
    ASSUME HistInv, NEW d \in Devices, Record(d) \/ RecordData(d)
    PROVE  SeenInv(d)' /\ Remembers(d)
<1>1. Shape /\ SeenInv(d) /\ HistoryType
  BY DEF HistInv, LogInv
<1>2. Covered(hand[d].remote, saw[d])
  BY <1>1 DEF Record, RecordData, SeenInv, HandSeen
<1>3. CASE Record(d)
  <2>1. /\ UNCHANGED <<historyVars, head, committed, local, registry, known, pending, preview,
                       hand, current>>
        /\ stored'[d] = hand[d].remote /\ pc[d] = "record" /\ pc'[d] = "recordData"
    BY <1>1, <1>3 DEF Record, Goto, Shape, serverVars
  <2>2. LocalSeen(d)'
    BY <1>1, <1>2, <2>1 DEF SeenInv, LocalSeen, Covered, historyVars
  <2>3. PendingSeen(d)'
    BY <1>1, <2>1 DEF SeenInv, PendingSeen, historyVars
  <2>4. HandSeen(d)'
    BY <1>1, <1>2, <2>1 DEF SeenInv, HandSeen, Covered, historyVars, Deciding, Captured
  <2>5. PreviewSeen(d)'
    BY <1>1, <2>1 DEF SeenInv, PreviewSeen, Covered, historyVars
  <2>q. QED
    BY <1>1, <2>1, <2>2, <2>3, <2>4, <2>5, Still DEF SeenInv
<1>4. CASE RecordData(d)
  <2>1. /\ UNCHANGED <<historyVars, head, committed, local, stored, pending, preview>>
        /\ registry'[d] = hand[d].remote /\ known'[d] = hand[d].remote
        /\ pc'[d] \in {"idle", "fetch"}
    BY <1>1, <1>4 DEF RecordData, Return, Goto, Shape, serverVars
  <2>2. SeenInv(d)'
    BY <1>1, <1>2, <2>1, QuietSeen DEF historyVars, SeenInv, LocalSeen, Deciding, Captured
  <2>q. QED
    BY <1>1, <2>1, <2>2, Still
<1>q. QED
  BY <1>3, <1>4

LEMMA UploadSeen ==
    ASSUME HistInv, NEW d \in Devices, Upload(d)
    PROVE  SeenInv(d)' /\ Remembers(d)
<1> DEFINE op == [by |-> d, base |-> hand[d].remote.rev, docs |-> hand[d].mine]
<1>1. Shape /\ SeenInv(d) /\ HistoryType /\ DeviceInv(d) /\ VaultInv
  BY DEF HistInv, LogInv
<1>2. /\ pc[d] = "upload" /\ pc'[d] = "sent" /\ pending'[d] = {op}
      /\ UNCHANGED <<historyVars, head, committed, local, stored, registry, known, preview>>
  BY <1>1 DEF Upload, Goto, Shape
<1>3. /\ Fits(hand[d].mine, intent[d]) /\ Covered(hand[d].remote, intent[d])
      /\ Below(intent[d], saw[d])
      /\ \A o \in committed : o.by = d => o.base < hand[d].remote.rev
  BY <1>1, <1>2 DEF SeenInv, HandSeen, Deciding, Captured
<1>4. hand[d].remote.rev # 0 /\ hand[d].remote.rev \in Nat
  BY <1>1, <1>2, RevisionOf DEF DeviceInv, HandInv, Deciding, Captured, VaultInv
<1>5. /\ Fits(op.docs, intent[d]) /\ Below(view[op.base], intent[d])
      /\ op \notin committed
  BY <1>3, <1>4 DEF Covered
<1> HIDE DEF op
<1>6. PendingSeen(d)'
  BY <1>2, <1>3, <1>5 DEF PendingSeen, historyVars
<1>7. LocalSeen(d)' /\ HandSeen(d)' /\ PreviewSeen(d)'
  <2>1. LocalSeen(d)'
    BY <1>1, <1>2 DEF SeenInv, LocalSeen, Covered, historyVars
  <2>2. HandSeen(d)'
    BY <1>2 DEF HandSeen, Deciding, Captured
  <2>3. PreviewSeen(d)'
    BY <1>1, <1>2 DEF SeenInv, PreviewSeen, Covered, historyVars
  <2>q. QED
    BY <2>1, <2>2, <2>3
<1>q. QED
  BY <1>1, <1>2, <1>6, <1>7, Still DEF SeenInv

LEMMA LaterThanCommitted ==
    ASSUME LogInv
    PROVE  \A op \in committed : op.base < head.rev
  BY DEF LogInv, VaultInv

(* A sync that stops, or lets the user decide, has only written tombstones; *)
(* one that goes on has settled on all that either side stood for.          *)
LEMMA MergeSeen ==
    ASSUME HistInv, NEW d \in Devices, Merge(d)
    PROVE  SeenInv(d)' /\ Remembers(d)
<1> DEFINE mine == ImageOf(d)
           want == Resolve(known[d], mine, head.docs, [x \in {} |-> ""])
<1>1. Shape /\ SeenInv(d) /\ HistoryType /\ DeviceInv(d) /\ LogInv
  BY DEF HistInv, LogInv
<1>2. /\ UNCHANGED <<head, committed, local, registry, stored, pending, known, preview,
                     edits, view>>
      /\ pending[d] = {} /\ pc[d] = "fetch"
  BY <1>1 DEF Merge, serverVars, DeviceInv, PendingInv
<1>3. /\ Fits(mine, saw[d]) /\ Fits(local[d], saw[d])
      /\ Covered(known[d], saw[d]) /\ Version(known[d], committed)
  BY <1>1, CaptureFits DEF ImageOf, SeenInv, LocalSeen, DeviceInv, BaselineInv
<1> HIDE DEF mine, want
<1>4. CASE Return(d) /\ UNCHANGED <<current, saw, intent>>
  <2>1. pc'[d] = "idle"
    BY <1>1, <1>4 DEF Return, Goto, Shape
  <2>2. SeenInv(d)'
    BY <1>1, <1>2, <1>4, <2>1, QuietSeen DEF SeenInv, LocalSeen, Deciding, Captured
  <2>q. QED
    BY <1>1, <1>2, <1>4, <2>2, Still DEF historyVars
<1>5. CASE /\ Goto(d, "preview") /\ hand' = [hand EXCEPT ![d].remote = head]
           /\ UNCHANGED <<mode, current, saw, intent>>
  <2>1. pc'[d] = "preview" /\ hand'[d].remote = head
    BY <1>1, <1>5 DEF Goto, Shape, Fields
  <2>2. LocalSeen(d)' /\ PendingSeen(d)' /\ PreviewSeen(d)'
    BY <1>1, <1>2, <1>5 DEF SeenInv, LocalSeen, PendingSeen, PreviewSeen, Covered
  <2>3. HandSeen(d)'
    BY <1>1, <1>2, <2>1, LaterThanCommitted DEF HandSeen
  <2>q. QED
    BY <1>1, <1>2, <1>5, <2>2, <2>3, Still DEF historyVars, SeenInv
<1>6. CASE /\ ~MissingTombstone(known[d], mine, head.docs)
           /\ Conflicts(known[d], mine, head.docs) = {}
           /\ hand' = [hand EXCEPT ![d] =
                  [remote |-> head, mine |-> mine,
                   want |-> IF mine = want THEN Empty ELSE want]]
           /\ Goto(d, IF mine = want THEN Settled(mine, head) ELSE "restore")
           /\ Settle(d, mine, head.docs, want, {})
           /\ saw' = IF mine = want THEN [saw EXCEPT ![d] = intent'[d]] ELSE saw
  <2>1. \A x \in Docs : want[x] \in Chosen(known[d], mine[x], head.docs[x], x)
    BY <1>6, Resolved DEF want
  <2>2. /\ intent' \in [Devices -> History]
        /\ \A e \in Devices : e # d => intent'[e] = intent[e]
        /\ Below(saw[d], intent'[d]) /\ Below(view[head.rev], intent'[d])
        /\ Fits(want, intent'[d])
    BY <1>3, <1>6, <2>1, SettledCovers
  <2>3. hand'[d].remote = head /\ hand'[d].mine = mine
        /\ (mine # want => hand'[d].want = want)
    BY <1>1, <1>6 DEF Shape
  <2>4. \A op \in committed : op.base < hand'[d].remote.rev
    BY <1>1, <2>3, LaterThanCommitted
  <2>5. CASE mine = want
    <3>1. /\ saw' = [saw EXCEPT ![d] = intent'[d]] /\ saw'[d] = intent'[d]
          /\ pc'[d] \in {"record", "upload"}
      BY <1>1, <1>6, <2>5 DEF Goto, Settled, Shape, HistoryType
    <3>2. Remembers(d)
      BY <1>1, <1>2, <2>2, <3>1 DEF Remembers, HistoryType
    <3>3. LocalSeen(d)'
      <4>1. Fits(local'[d], saw'[d])
        BY <1>1, <1>2, <2>2, <3>1 DEF SeenInv, LocalSeen, Fits, Below
      <4>2. \A b \in {stored[d], registry[d], known[d]} : Covered(b, saw'[d])
        BY <1>1, <2>2, <3>1 DEF SeenInv, LocalSeen, Covered, Below
      <4>q. QED
        BY <1>1, <1>2, <4>1, <4>2 DEF SeenInv, LocalSeen, Covered
    <3>4. PendingSeen(d)'
      BY <1>2 DEF PendingSeen
    <3>5. HandSeen(d)'
      <4>1. Fits(hand'[d].mine, intent'[d]) /\ Below(intent'[d], saw'[d])
        BY <2>2, <2>3, <2>5, <3>1 DEF Below
      <4>2. Below(view[hand'[d].remote.rev], intent'[d]) /\ Below(view[hand'[d].remote.rev], saw'[d])
        BY <2>2, <2>3, <3>1
      <4>q. QED
        BY <1>2, <2>4, <3>1, <4>1, <4>2 DEF HandSeen, Covered
    <3>6. PreviewSeen(d)'
      <4>1. ASSUME NEW p \in preview[d]
            PROVE  Fits(p.mine, saw'[d]) /\ Covered(p.base, saw'[d])
        BY <1>1, <2>2, <3>1 DEF SeenInv, PreviewSeen, Covered, Fits, Below
      <4>q. QED
        BY <1>1, <1>2, <4>1 DEF SeenInv, PreviewSeen, Covered
    <3>q. QED
      BY <3>2, <3>3, <3>4, <3>5, <3>6 DEF SeenInv
  <2>6. CASE mine # want
    <3>1. saw' = saw /\ pc'[d] = "restore"
      BY <1>1, <1>6, <2>6 DEF Goto, Shape
    <3>2. Remembers(d)
      BY <1>1, <1>2, <2>2, <3>1 DEF Remembers, HistoryType, Below
    <3>3. LocalSeen(d)' /\ PendingSeen(d)' /\ PreviewSeen(d)'
      BY <1>1, <1>2, <3>1 DEF SeenInv, LocalSeen, PendingSeen, PreviewSeen, Covered
    <3>4. HandSeen(d)'
      BY <1>2, <2>2, <2>3, <2>4, <2>6, <3>1 DEF HandSeen, Covered
    <3>q. QED
      BY <3>2, <3>3, <3>4 DEF SeenInv
  <2>q. QED
    BY <2>5, <2>6
<1>q. QED
  BY <1>4, <1>5, <1>6 DEF Merge, mine, want

LEMMA ShowSeen ==
    ASSUME HistInv, NEW d \in Devices, MakePreview(d) \/ ShowConflict(d)
    PROVE  SeenInv(d)' /\ Remembers(d)
<1> DEFINE mine == ImageOf(d)
<1>1. Shape /\ SeenInv(d) /\ HistoryType /\ DeviceInv(d) /\ LogInv /\ VaultInv
  BY DEF HistInv, LogInv
<1>2. PICK remote : Show(d, remote) /\ Version(remote, committed) /\ remote.rev # 0
  <2>1. CASE MakePreview(d)
    BY <1>1, <2>1 DEF MakePreview, VaultInv
  <2>2. CASE ShowConflict(d)
    BY <1>1, <2>2 DEF ShowConflict, DeviceInv, HandInv, Deciding
  <2>q. QED
    BY <2>1, <2>2
<1>3. /\ UNCHANGED <<historyVars, head, committed, local, registry, stored, known, pending>>
      /\ pc'[d] = "idle"
  BY <1>1, <1>2 DEF Show, Return, Goto, Shape, serverVars
<1>4. /\ Fits(mine, saw[d])
      /\ Covered(known[d], saw[d]) /\ Version(known[d], committed)
  BY <1>1, CaptureFits DEF ImageOf, SeenInv, LocalSeen, DeviceInv, BaselineInv
<1>5. remote.rev = head.rev => remote = head
  BY <1>1, <1>2, VersionFits DEF HistInv
<1> HIDE DEF mine
<1>6. ASSUME NEW p \in preview'[d], p \notin preview[d]
      PROVE  /\ p.remote = head /\ p.mine = mine /\ p.base = known[d]
             /\ ~MissingTombstone(p.base, p.mine, p.remote.docs)
  <2>1. /\ ~MissingTombstone(known[d], mine, remote.docs)
        /\ preview'[d] = (IF remote.rev = head.rev
                          THEN {[remote |-> remote, mine |-> mine, base |-> known[d],
                                 reviewed |-> pending[d]]}
                          ELSE {})
    BY <1>1, <1>2, <1>6 DEF Show, Shape, mine
  <2>2. p = [remote |-> remote, mine |-> mine, base |-> known[d], reviewed |-> pending[d]]
        /\ remote = head
    BY <1>5, <1>6, <2>1
  <2>q. QED
    BY <2>1, <2>2
<1>7. PreviewSeen(d)'
  <2>1. ASSUME NEW p \in preview'[d]
        PROVE  /\ p.remote = head /\ Fits(p.mine, saw[d])
               /\ Version(p.base, committed) /\ Covered(p.base, saw[d])
               /\ ~MissingTombstone(p.base, p.mine, p.remote.docs)
    <3>1. CASE p \in preview[d]
      BY <1>1, <3>1 DEF SeenInv, PreviewSeen
    <3>2. CASE p \notin preview[d]
      BY <1>4, <1>6, <3>2
    <3>q. QED
      BY <3>1, <3>2
  <2>q. QED
    BY <1>3, <2>1 DEF PreviewSeen, Covered, historyVars
<1>8. LocalSeen(d)' /\ PendingSeen(d)'
  BY <1>1, <1>3 DEF SeenInv, LocalSeen, PendingSeen, Covered, historyVars
<1>9. HandSeen(d)'
  BY <1>3 DEF HandSeen, Deciding, Captured
<1>q. QED
  BY <1>1, <1>3, <1>7, <1>8, <1>9, Still DEF SeenInv

LEMMA ApplySeen ==
    ASSUME HistInv, NEW d \in Devices, Apply(d)
    PROVE  SeenInv(d)' /\ Remembers(d)
<1>1. Shape /\ SeenInv(d) /\ HistoryType /\ LogInv
  BY DEF HistInv, LogInv
<1>2. PICK p \in preview[d] :
          \/ Decide(d, p, p.remote.docs, Docs)
          \/ \E want \in Resolutions(p.base, p.mine, p.remote.docs) :
                 Decide(d, p, want, Conflicts(p.base, p.mine, p.remote.docs))
  BY DEF Apply
<1>3. /\ UNCHANGED <<head, committed, local, registry, stored, known, preview, edits, saw, view>>
      /\ pending'[d] = {} /\ pc'[d] = "restore"
  BY <1>1 DEF Apply, Goto, Shape, serverVars
<1>4. /\ p.remote = head /\ Fits(p.mine, saw[d])
      /\ Version(p.base, committed) /\ Covered(p.base, saw[d])
      /\ ~MissingTombstone(p.base, p.mine, head.docs)
  BY <1>1 DEF SeenInv, PreviewSeen
<1>5. \E want, decided :
          /\ Decide(d, p, want, decided)
          /\ \A x \in Docs :
               IF x \in decided THEN want[x] = p.mine[x] \/ want[x] = head.docs[x]
               ELSE want[x] \in Chosen(p.base, p.mine[x], head.docs[x], x)
  <2>1. CASE Decide(d, p, p.remote.docs, Docs)
    <3>1. \A x \in Docs :
               IF x \in Docs THEN head.docs[x] = p.mine[x] \/ head.docs[x] = head.docs[x]
               ELSE head.docs[x] \in Chosen(p.base, p.mine[x], head.docs[x], x)
      OBVIOUS
    <3>q. QED
      BY <1>4, <2>1, <3>1
  <2>2. CASE \E want \in Resolutions(p.base, p.mine, p.remote.docs) :
                 Decide(d, p, want, Conflicts(p.base, p.mine, p.remote.docs))
    <3>1. PICK want \in Resolutions(p.base, p.mine, head.docs) :
                 Decide(d, p, want, Conflicts(p.base, p.mine, head.docs))
      BY <1>4, <2>2
    <3>2. PICK choice : want = Resolve(p.base, p.mine, head.docs, choice)
      BY <3>1 DEF Resolutions
    <3>3. \A x \in Docs :
               IF x \in Conflicts(p.base, p.mine, head.docs)
               THEN want[x] = p.mine[x] \/ want[x] = head.docs[x]
               ELSE want[x] \in Chosen(p.base, p.mine[x], head.docs[x], x)
      BY <3>2, Resolved
    <3>q. QED
      BY <3>1, <3>3
  <2>q. QED
    BY <1>2, <2>1, <2>2
<1>6. PICK want, decided :
          /\ Decide(d, p, want, decided)
          /\ \A x \in Docs :
               IF x \in decided THEN want[x] = p.mine[x] \/ want[x] = head.docs[x]
               ELSE want[x] \in Chosen(p.base, p.mine[x], head.docs[x], x)
  BY <1>5
<1>7. /\ hand'[d].remote = head /\ hand'[d].want = want
      /\ Settle(d, p.mine, head.docs, want, decided)
  BY <1>1, <1>4, <1>6 DEF Decide, Shape
<1>8. /\ intent' \in [Devices -> History]
      /\ \A e \in Devices : e # d => intent'[e] = intent[e]
      /\ Below(saw[d], intent'[d]) /\ Below(view[head.rev], intent'[d])
      /\ Fits(want, intent'[d])
  BY <1>4, <1>6, <1>7, SettledCovers
<1>9. Remembers(d)
  BY <1>1, <1>3, <1>8 DEF Remembers, HistoryType, Below
<1>10. LocalSeen(d)' /\ PreviewSeen(d)'
  BY <1>1, <1>3 DEF SeenInv, LocalSeen, PreviewSeen, Covered
<1>11. PendingSeen(d)'
  BY <1>3 DEF PendingSeen
<1>12. \A op \in committed : op.base < hand'[d].remote.rev
  BY <1>1, <1>7, LaterThanCommitted
<1>13. HandSeen(d)'
  BY <1>3, <1>7, <1>8, <1>12 DEF HandSeen, Covered
<1>q. QED
  BY <1>9, <1>10, <1>11, <1>13 DEF SeenInv

LEMMA RestoreSeen ==
    ASSUME HistInv, NEW d \in Devices, Restore(d)
    PROVE  SeenInv(d)' /\ Remembers(d)
<1>1. Shape /\ SeenInv(d) /\ HistoryType /\ DeviceInv(d)
  BY DEF HistInv, LogInv
<1>2. /\ pc[d] = "restore" /\ pending[d] = {}
      /\ UNCHANGED <<head, committed, registry, stored, known, pending, edits, intent, view>>
  BY <1>1 DEF Restore, serverVars, DeviceInv, PendingInv, Deciding
<1>3. CASE "hand" \notin current[d]
  <2>1. pc'[d] = "idle" /\ UNCHANGED <<local, preview, saw>>
    BY <1>1, <1>3 DEF Restore, Return, Goto, Shape
  <2>2. SeenInv(d)'
    BY <1>1, <1>2, <2>1, QuietSeen DEF SeenInv, LocalSeen, Deciding, Captured
  <2>q. QED
    BY <1>1, <1>2, <2>1, <2>2, Still DEF historyVars
<1>4. CASE "hand" \in current[d]
  <2> DEFINE native == Native(d, hand[d].want)
             restored == Capture(native, Tombstones(hand[d].want), registry[d])
  <2>1. Replace(d, hand[d].want)
    BY <1>4 DEF Restore
  <2>2. /\ local'[d] = native /\ hand'[d].mine = restored
        /\ hand'[d].remote = hand[d].remote
        /\ preview'[d] = {}
        /\ pc'[d] \in {"record", "upload"}
    BY <1>1, <2>1 DEF Replace, Outdate, Settled, Goto, Shape, Fields
  <2>3. saw' = [saw EXCEPT ![d] = intent[d]] /\ saw'[d] = intent[d]
    BY <1>1, <2>1 DEF Replace, HistoryType
  <2>4. /\ Fits(hand[d].want, intent[d]) /\ Covered(hand[d].remote, intent[d])
        /\ Below(saw[d], intent[d])
        /\ \A op \in committed : op.by = d => op.base < hand[d].remote.rev
    BY <1>1, <1>2, <1>4 DEF SeenInv, HandSeen, Deciding
  <2>5. Fits(native, intent[d])
    <3> SUFFICES ASSUME NEW x \in Docs, IsLive(native[x])
                 PROVE  native[x].edit \in intent[d][x]
      BY DEF Fits
    <3>1. native[x] = hand[d].want[x] /\ IsLive(hand[d].want[x])
      BY DEF Native, Gone, IsLive
    <3>q. QED
      BY <2>4, <3>1 DEF Fits
  <2>6. Fits(restored, intent[d])
    BY <2>5, CaptureFits
  <2>7. native = [x \in Docs |-> native[x]]
    BY DEF Native
  <2> HIDE DEF native, restored
  <2>8. Remembers(d)
    BY <1>1, <1>2, <2>3, <2>4 DEF Remembers, HistoryType
  <2>9. LocalSeen(d)'
    <3>1. \A b \in {stored[d], registry[d], known[d]} : Covered(b, intent[d])
      BY <1>1, <2>4 DEF SeenInv, LocalSeen, Covered, Below
    <3>q. QED
      BY <1>2, <2>2, <2>3, <2>5, <2>7, <3>1 DEF LocalSeen, Covered
  <2>10. PendingSeen(d)' /\ PreviewSeen(d)'
    BY <1>2, <2>2 DEF PendingSeen, PreviewSeen
  <2>11. HandSeen(d)'
    <3>1. Below(intent[d], saw'[d])
      BY <2>3 DEF Below
    <3>q. QED
      BY <1>2, <2>2, <2>3, <2>4, <2>6, <3>1 DEF HandSeen, Covered
  <2>q. QED
    BY <2>8, <2>9, <2>10, <2>11 DEF SeenInv
<1>q. QED
  BY <1>3, <1>4

----------------------------------------------------------------------------
(* Histories: tasks, the server and the user.                               *)

LEMMA TaskSeen ==
    ASSUME HistInv, NEW d \in Devices, Task(d)
    PROVE  HistInv' /\ Remembers(d) /\ UNCHANGED head
<1>1. LogInv' /\ StepOf(d) /\ UNCHANGED <<head, committed>>
  BY TaskLog DEF HistInv
<1>2. SeenInv(d)' /\ Remembers(d)
  BY BeginSeen, AnsweredSeen, EndingSeen, AcceptingSeen, MergeSeen, ShowSeen, ApplySeen,
     RestoreSeen, RecordSeen, UploadSeen DEF Task
<1>3. \A e \in Devices : e # d => Kept(e)
  BY <1>1, OneDevice DEF HistInv, LogInv
<1>4. \A e \in Devices : e # d => SeenInv(e)'
  BY <1>1, <1>2, <1>3, SeenKept DEF HistInv, Remembers
<1>5. HistoryType' /\ ViewInv'
  BY <1>1, <1>2 DEF HistInv, HistoryType, ViewInv, Remembers
<1>q. QED
  BY <1>1, <1>2, <1>4, <1>5 DEF HistInv

(* What commits stands for all that its device settled on, which includes    *)
(* what the head it was based on stood for.                                 *)
LEMMA DeliverSeen ==
    ASSUME HistInv, NEW op \in requests, Deliver(op)
    PROVE  /\ HistInv' /\ saw' = saw
           /\ Below(view[head.rev], view'[head'.rev])
<1>1. /\ LogInv /\ HistoryType /\ ViewInv /\ Shape /\ VaultInv
      /\ \A e \in Devices : SeenInv(e) /\ DeviceInv(e)
  BY DEF HistInv, LogInv
<1>2. LogInv' /\ pending[op.by] = {op} /\ (\A d \in Devices : Kept(d))
  BY <1>1, DeliverLog
<1>3. /\ op \notin committed /\ op.base = head.rev
      /\ head' = [rev |-> head.rev + 1, docs |-> op.docs]
      /\ committed' = committed \cup {op}
      /\ preview' = [d \in Devices |-> {}]
      /\ view' = Append(view, intent[op.by])
      /\ UNCHANGED <<local, stored, registry, pending, known, pc, hand, current,
                     edits, saw, intent>>
  BY DEF Deliver, durableVars, taskVars
<1>4. op.by \in Devices /\ head.rev \in Nat \ {0} /\ intent[op.by] \in History
  BY <1>1 DEF VaultInv, HistoryType
<1>5. /\ Fits(op.docs, intent[op.by]) /\ Below(view[head.rev], intent[op.by])
      /\ Below(intent[op.by], saw[op.by])
  BY <1>1, <1>2, <1>3, <1>4 DEF SeenInv, PendingSeen
<1>6. /\ Len(view') = head.rev + 1 /\ view' \in Seq(History)
      /\ view'[head.rev + 1] = intent[op.by]
      /\ \A r \in 1..head.rev : view'[r] = view[r]
  BY <1>1, <1>3, <1>4 DEF ViewInv, HistoryType
<1>7. head'.rev = head.rev + 1 /\ head'.docs = op.docs
  BY <1>3
<1>8. HistoryType'
  BY <1>1, <1>3, <1>6 DEF HistoryType
<1>9. ViewInv'
  <2>1. \A r \in 1..head'.rev : Below(view'[r], view'[head'.rev])
    <3>1. ASSUME NEW r \in 1..head.rev PROVE Below(view'[r], intent[op.by])
      BY <1>1, <1>5, <1>6 DEF ViewInv, Below
    <3>2. Below(intent[op.by], intent[op.by])
      BY DEF Below
    <3>q. QED
      BY <1>4, <1>6, <1>7, <3>1, <3>2
  <2>2. Fits(head'.docs, view'[head'.rev])
    BY <1>5, <1>6, <1>7
  <2>3. ASSUME NEW o \in committed' PROVE Fits(o.docs, view'[o.base + 1])
    <3>1. CASE o = op
      BY <1>3, <1>5, <1>6, <3>1
    <3>2. CASE o \in committed
      <4>1. o.base + 1 \in 1..head.rev
        BY <1>1, <1>4, <3>2 DEF VaultInv
      <4>q. QED
        BY <1>1, <1>6, <3>2, <4>1 DEF ViewInv
    <3>q. QED
      BY <1>3, <3>1, <3>2
  <2>q. QED
    BY <1>6, <1>7, <2>1, <2>2, <2>3 DEF ViewInv
<1>10. ASSUME NEW b, Version(b, committed), NEW h, Covered(b, h)
       PROVE  b.rev # 0 => Below(view'[b.rev], h)
  <2>1. b.rev \in 0..head.rev
    BY <1>1, <1>10, RevisionOf
  <2>q. QED
    BY <1>4, <1>6, <1>10, <2>1 DEF Covered
<1>11. ASSUME NEW e \in Devices PROVE SeenInv(e)'
  <2>1. LocalSeen(e)'
    <3>1. \A b \in {stored[e], registry[e], known[e]} :
              Version(b, committed) /\ Covered(b, saw[e])
      BY <1>1 DEF SeenInv, LocalSeen, DeviceInv, BaselineInv
    <3>2. \A b \in {stored[e], registry[e], known[e]} :
              b.rev # 0 => Below(view'[b.rev], saw[e])
      BY <1>10, <3>1
    <3>q. QED
      BY <1>1, <1>3, <3>2 DEF SeenInv, LocalSeen, Covered
  <2>2. PendingSeen(e)'
    <3>1. ASSUME NEW o \in pending[e]
          PROVE  /\ Fits(o.docs, intent[e])
                 /\ Below(view'[o.base], intent[e]) /\ Below(intent[e], saw[e])
                 /\ o \in committed' => Below(view'[o.base + 1], saw[e])
      <4>1. o.by = e /\ o.base \in 1..head.rev
        BY <1>1 DEF DeviceInv, PendingInv
      <4>2. /\ Fits(o.docs, intent[e]) /\ Below(view[o.base], intent[e])
            /\ Below(intent[e], saw[e])
            /\ o \in committed => Below(view[o.base + 1], saw[e])
        BY <1>1 DEF SeenInv, PendingSeen
      <4>3. o \in committed => o.base + 1 \in 1..head.rev
        BY <1>1, <1>4, <4>1 DEF VaultInv
      <4>4. o = op => Below(view'[o.base + 1], saw[e])
        BY <1>3, <1>5, <1>6, <4>1
      <4>q. QED
        BY <1>3, <1>6, <4>1, <4>2, <4>3, <4>4
    <3>q. QED
      BY <1>3, <3>1 DEF PendingSeen
  <2>3. HandSeen(e)'
    <3>1. pc[e] \in Deciding => Version(hand[e].remote, committed) /\ e # op.by
      BY <1>1, <1>2 DEF DeviceInv, HandInv, PendingInv
    <3>2. pc[e] \in Deciding /\ Covered(hand[e].remote, intent[e]) =>
              Covered(hand[e].remote, intent[e])'
      BY <1>3, <1>10, <3>1 DEF Covered
    <3>3. pc[e] \in Deciding /\ Covered(hand[e].remote, saw[e]) =>
              Covered(hand[e].remote, saw[e])'
      BY <1>3, <1>10, <3>1 DEF Covered
    <3>4. pc[e] \in {"restore", "upload", "record", "recordData"} => pc[e] \in Deciding
      BY DEF Deciding, Captured
    <3>5. pc[e] \in Deciding =>
              \A o \in committed' : o.by = e => o.base < hand[e].remote.rev
      BY <1>1, <1>3, <3>1 DEF SeenInv, HandSeen
    <3>q. QED
      BY <1>1, <1>3, <3>2, <3>3, <3>4, <3>5 DEF SeenInv, HandSeen
  <2>4. PreviewSeen(e)'
    BY <1>3 DEF PreviewSeen
  <2>q. QED
    BY <2>1, <2>2, <2>3, <2>4 DEF SeenInv
<1>q. QED
  BY <1>2, <1>3, <1>5, <1>6, <1>7, <1>8, <1>9, <1>11 DEF HistInv

LEMMA WriteSeen ==
    ASSUME HistInv, NEW d \in Devices, NEW x \in Docs, NEW entry, Write(d, x, entry),
           IsLive(entry) => entry.edit = NewEdit
    PROVE  HistInv' /\ UNCHANGED <<head, view>> /\ (\A e \in Devices : Below(saw[e], saw'[e]))
<1>1. Shape /\ SeenInv(d) /\ HistoryType /\ LogInv
  BY DEF HistInv, LogInv
<1>2. /\ local' = [local EXCEPT ![d][x] = entry]
      /\ saw' = [saw EXCEPT ![d][x] = @ \cup {NewEdit}] /\ edits' = NewEdit
      /\ current'[d] = {} /\ preview'[d] = {}
      /\ \A e \in Devices : e # d => current'[e] = current[e] /\ preview'[e] = preview[e]
      /\ UNCHANGED <<head, committed, marks, registry, stored, pending, known, pc, mode, hand,
                     intent, view>>
  BY <1>1 DEF Write, Outdate, Shape, serverVars, durableVars, taskVars
<1>3. NewEdit \in Nat
  BY <1>1 DEF HistoryType, NewEdit
<1> HIDE DEF NewEdit
<1>4. /\ \A e \in Devices : e # d => local'[e] = local[e] /\ saw'[e] = saw[e]
      /\ local'[d] = [local[d] EXCEPT ![x] = entry]
      /\ saw'[d] = [saw[d] EXCEPT ![x] = @ \cup {NewEdit}]
  BY <1>1, <1>2 DEF Shape, HistoryType
<1>5. saw[d] \in History
  BY <1>1 DEF HistoryType
<1>6. /\ saw'[d] \in History /\ saw'[d][x] = saw[d][x] \cup {NewEdit}
      /\ \A y \in Docs : y # x => saw'[d][y] = saw[d][y]
  BY <1>3, <1>4, <1>5 DEF History
<1>7. Below(saw[d], saw'[d])
  BY <1>6 DEF Below
<1>8. HistoryType'
  <2>1. saw' = [saw EXCEPT ![d] = saw'[d]]
    BY <1>1, <1>2, <1>4 DEF HistoryType
  <2>2. saw' \in [Devices -> History]
    BY <1>1, <1>6, <2>1 DEF HistoryType
  <2>q. QED
    BY <1>1, <1>2, <1>3, <2>2 DEF HistoryType
<1>9. LocalSeen(d)'
  <2>1. local[d] = [y \in Docs |-> local[d][y]] /\ Fits(local[d], saw[d])
    BY <1>1 DEF SeenInv, LocalSeen
  <2>2. /\ local'[d] = [y \in Docs |-> local'[d][y]] /\ local'[d][x] = entry
        /\ \A y \in Docs : y # x => local'[d][y] = local[d][y]
    BY <1>4, <2>1
  <2>3. Fits(local'[d], saw'[d])
    BY <1>6, <2>1, <2>2 DEF Fits
  <2>4. \A b \in {stored[d], registry[d], known[d]} : Covered(b, saw'[d])
    BY <1>1, <1>7 DEF SeenInv, LocalSeen, Covered, Below
  <2>q. QED
    BY <1>2, <2>2, <2>3, <2>4 DEF LocalSeen, Covered
<1>10. PendingSeen(d)'
  <2>1. \A op \in pending[d] :
            /\ Below(intent[d], saw'[d])
            /\ op \in committed => Below(view[op.base + 1], saw'[d])
    BY <1>1, <1>7 DEF SeenInv, PendingSeen, Below
  <2>q. QED
    BY <1>1, <1>2, <2>1 DEF SeenInv, PendingSeen
<1>11. HandSeen(d)'
  <2>1. /\ pc[d] = "upload" => Below(intent[d], saw'[d])
        /\ pc[d] \in {"record", "recordData"} => Covered(hand[d].remote, saw'[d])
    BY <1>1, <1>7 DEF SeenInv, HandSeen, Covered, Below
  <2>q. QED
    BY <1>1, <1>2, <2>1 DEF SeenInv, HandSeen, Covered
<1>12. SeenInv(d)'
  BY <1>2, <1>9, <1>10, <1>11 DEF SeenInv, PreviewSeen
<1>13. \A e \in Devices : e # d => SeenInv(e)'
  <2>1. \A e \in Devices : e # d => Kept(e)
    BY <1>2, <1>4 DEF Kept
  <2>q. QED
    BY <1>2, <1>4, <2>1, SeenKept DEF HistInv
<1>14. LogInv' /\ ViewInv'
  BY <1>1, <1>2, WriteLog DEF HistInv, ViewInv
<1>15. \A e \in Devices : Below(saw[e], saw'[e])
  BY <1>4, <1>7 DEF Below
<1>q. QED
  BY <1>2, <1>8, <1>12, <1>13, <1>14, <1>15 DEF HistInv

LEMMA StillSeen ==
    ASSUME HistInv, UNCHANGED historyVars,
           UNCHANGED <<head, requests, committed, local, marks, registry, stored, pending, known,
                       preview, pc, mode, hand, current>>
    PROVE  HistInv'
<1>1. LogInv' /\ \A e \in Devices : Kept(e)
  BY StillLog DEF HistInv, Kept
<1>2. \A e \in Devices : SeenInv(e)'
  BY <1>1, SeenKept DEF HistInv, historyVars
<1>3. HistoryType' /\ ViewInv'
  BY DEF HistInv, HistoryType, ViewInv, historyVars
<1>q. QED
  BY <1>1, <1>2, <1>3 DEF HistInv

LEMMA InitSeen == Init => HistInv
<1> SUFFICES ASSUME Init PROVE HistInv
  OBVIOUS
<1>1. LogInv
  BY InitLog
<1>2. NoHistory \in History /\ \A x \in Docs : NoHistory[x] = {}
  BY DEF NoHistory, History
<1>3. /\ saw = [d \in Devices |-> NoHistory] /\ intent = saw
      /\ view = <<NoHistory>> /\ edits = 0
      /\ head = First /\ committed = {}
  BY DEF Init
<1>4. HistoryType
  BY <1>2, <1>3 DEF HistoryType
<1>5. head.rev = 1 /\ Len(view) = 1 /\ view[1] = NoHistory
  BY <1>3 DEF First
<1>6. \A x \in Docs : ~IsLive(Empty[x])
  BY DEF Empty, Nothing, IsLive
<1>7. ViewInv
  <2>1. Fits(head.docs, view[head.rev])
    BY <1>3, <1>5, <1>6 DEF First, Fits
  <2>q. QED
    BY <1>3, <1>5, <2>1 DEF ViewInv, Below
<1>8. ASSUME NEW d \in Devices PROVE SeenInv(d)
  <2>1. /\ local[d] = Empty /\ pending[d] = {} /\ preview[d] = {} /\ pc[d] = "idle"
        /\ saw[d] = NoHistory
        /\ \A b \in {stored[d], registry[d], known[d]} : b = NoBaseline \/ b = First
    BY DEF Init
  <2>2. \A b \in {stored[d], registry[d], known[d]} : Covered(b, saw[d])
    <3>1. Below(view[1], saw[d])
      BY <1>5, <2>1 DEF Below
    <3>2. NoBaseline.rev = 0 /\ First.rev = 1
      BY DEF NoBaseline, First
    <3>q. QED
      BY <2>1, <3>1, <3>2 DEF Covered
  <2>3. LocalSeen(d)
    BY <1>6, <2>1, <2>2 DEF LocalSeen, Fits, Empty
  <2>q. QED
    BY <2>1, <2>3 DEF SeenInv, PendingSeen, HandSeen, PreviewSeen, Deciding, Captured
<1>q. QED
  BY <1>1, <1>4, <1>7, <1>8 DEF HistInv

(* A step loses nothing.                                                    *)
Survived ==
    \A x \in Docs : /\ view[head.rev][x] \subseteq view'[head'.rev][x]
                    /\ \A d \in Devices : saw[d][x] \subseteq saw'[d][x]

LEMMA NextSeen ==
    ASSUME HistInv, [Next]_vars
    PROVE  HistInv' /\ Survived
<1>1. CASE \E d \in Devices : Task(d)
  <2>1. PICK d \in Devices : Task(d)
    BY <1>1
  <2>2. HistInv' /\ Remembers(d) /\ UNCHANGED head
    BY <2>1, TaskSeen
  <2>q. QED
    BY <2>2 DEF Remembers, Below, Survived
<1>2. CASE \E d \in Devices, x \in Docs : Edit(d, x) \/ Remove(d, x)
  <2>1. PICK d \in Devices, x \in Docs : Edit(d, x) \/ Remove(d, x)
    BY <1>2
  <2>2. HistInv' /\ UNCHANGED <<head, view>> /\ (\A e \in Devices : Below(saw[e], saw'[e]))
    BY <2>1, WriteSeen DEF Edit, Remove, Live, Gone, IsLive
  <2>q. QED
    BY <2>2 DEF Below, Survived
<1>3. CASE \E op \in requests : Deliver(op)
  BY <1>3, DeliverSeen DEF Below, Survived
<1>4. CASE \E op \in requests : Expire(op)
  <2>1. HistInv' /\ UNCHANGED <<head, historyVars>>
    BY <1>4, StillSeen DEF Expire, durableVars, taskVars
  <2>q. QED
    BY <2>1 DEF Survived, historyVars
<1>5. CASE UNCHANGED vars
  <2>1. HistInv' /\ UNCHANGED <<head, historyVars>>
    BY <1>5, StillSeen DEF vars, serverVars, durableVars, taskVars
  <2>q. QED
    BY <2>1 DEF Survived, historyVars
<1>q. QED
  BY <1>1, <1>2, <1>3, <1>4, <1>5 DEF Next

(* Nothing a user wrote or deleted is lost, on a device or in the vault:     *)
(* what diff_sync_documents merges on its own, over whatever baseline       *)
(* crashes and lost answers left behind, was made in view of what it        *)
(* replaces, or a user decided on it.                                       *)
THEOREM NothingIsLost == Spec => EditsSurvive
<1>1. Init => HistInv
  BY InitSeen
<1>2. HistInv /\ [Next]_vars => HistInv' /\ Survived
  BY NextSeen
<1>3. HistInv /\ [Next]_vars =>
        [\A x \in Docs : /\ view[head.rev][x] \subseteq view'[head'.rev][x]
                         /\ \A d \in Devices : saw[d][x] \subseteq saw'[d][x]]_vars
  BY <1>2 DEF Survived
<1>q. QED
  BY <1>1, <1>2, <1>3, PTL DEF Spec, EditsSurvive
=============================================================================
