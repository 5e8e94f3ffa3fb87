------------------------ MODULE RestoreJournalProofs -----------------------
(* Proofs about RestoreJournal for any scopes and bounds: its invariants,   *)
(* and that it implements AtomicRestore. The inductive invariant says what  *)
(* the files say of each other whatever happened (StateInv), and what the   *)
(* running restore or recovery knows of them at each position (CursorInv).  *)
EXTENDS RestoreJournal, FiniteSetTheorems, SequenceTheorems, TLAPS

(* The inductive invariant.                                                 *)

(* Outside a fault, which only an idle position survives, memory is disk.   *)
MemoryInv == (pc \notin Idle => ~fault) /\ (~fault => stored = disk)

(* Half replaced data has its journal.                                      *)
WholeInv == content = Torn => Underway

(* A pending restore is undecided for its callers and still fits the data   *)
(* its preview showed; the journal of its scope, if any, is its own.        *)
PendingInv ==
    disk.pending # Null =>
        /\ preview[disk.pending.op] # Null
        /\ preview[disk.pending.op].generation = disk.generation
        /\ ended[disk.pending.op] = "open"
        /\ disk.pending.op \notin plans
        /\ journal[disk.pending.scope] # Null
             => journal[disk.pending.scope].op = disk.pending.op

PlanInv ==
    /\ \A o \in plans : preview[o] # Null /\ ended[o] = "open"
    /\ \A o \in Version : IF preview[o] = Null THEN ended[o] = "open" ELSE o <= latest

ReceiptInv ==
    \A s \in Scope : disk.receipts[s] # Null =>
        ended[disk.receipts[s].op] = Verdict(disk.receipts[s].committed)

Mine == disk.pending.op = cur.op /\ disk.pending.scope = cur.scope
Kept == journal[cur.scope] = Entry(cur.phase)

Deciding == {"ready", "replace", "undo", "replay", "refuse", "decide", "finish"}
Visiting == {"open", "orphan", "forgetScope"}
InWork   == Positions \ (Idle \cup Visiting)

(* What each position knows about the journal in hand.                      *)
PositionInv ==
    /\ pc = "idle" => ~Recovering
    /\ pc \in Visiting => Recovering
    /\ pc = "open" => journal[Head(todo)] # Null
    /\ pc \in {"orphan", "forgetScope"} => journal[Head(todo)] = Null
    /\ pc \in InWork => cur # Null

BeginInv ==
    pc = "mark" /\ ~Recovering =>
        /\ disk.pending = Null
        /\ journal[cur.scope] = Null
        /\ cur.before = content
        /\ cur.phase = "prepared"
        /\ preview[cur.op] # Null
        /\ preview[cur.op].generation = disk.generation
        /\ ended[cur.op] = "open"
        /\ cur.op \notin plans

PrepareInv ==
    pc = "prepare" =>
        /\ ~Recovering
        /\ Mine
        /\ journal[cur.scope] = Null
        /\ cur.before = content

DecideInv ==
    /\ pc \in Deciding \/ (pc = "mark" /\ Recovering) => Mine /\ Kept
    /\ pc \in {"replace", "decide"} \/ (pc = "ready" /\ ~Recovering) => cur.phase = "prepared"
    /\ pc \in {"undo", "refuse"} => cur.phase # "committed"
    /\ pc = "replay" => Recovering
    /\ pc = "decide" => content = cur.op
    /\ pc = "refuse" => content = cur.before
    /\ pc = "finish" => content = IF cur.phase = "committed" THEN cur.op ELSE cur.before

ClearInv ==
    /\ pc = "clear" => journal[cur.scope].op = cur.op
    /\ pc = "forget" => journal[cur.scope] = Null
    /\ pc \in {"clear", "forget"} =>
          /\ disk.pending.op # cur.op
          /\ disk.receipts[cur.scope].op = cur.op
          /\ ~Recovering => ended[cur.op] = Verdict(cur.phase = "committed")

(* What is on disk, whatever the position, and what the position adds.      *)
StateInv  == /\ WholeInv /\ PendingInv /\ PlanInv /\ ReceiptInv
             /\ EveryJournalRegistered /\ ReceiptAgreesWithJournal
CursorInv == PositionInv /\ BeginInv /\ PrepareInv /\ DecideInv /\ ClearInv

JournalInv == TypeOK /\ MemoryInv /\ StateInv /\ CursorInv

----------------------------------------------------------------------------
(* Null is told from any real record by its operation.                      *)
LEMMA NullIsNoOperation ==
    /\ Null.op = 0
    /\ \A m \in Marker : m # Null /\ m.op \in Version /\ m.op # 0 /\ m.scope \in Scope
    /\ \A r \in Receipt : r # Null /\ r.op \in Version /\ r.op # 0 /\ r.committed \in BOOLEAN
    /\ \A j \in Journal : j # Null /\ j.op \in Version /\ j.op # 0
    /\ \A p \in Planned : p # Null /\ p.scope \in Scope /\ p.generation \in Nat
    /\ \A c \in InHand : c # Null /\ c.op \in Version /\ c.op # 0 /\ c.scope \in Scope
  BY JournalAssumption DEF Null, Version, Marker, Receipt, Journal, Planned, InHand

(* The fields of every record the gate may be made to save.                 *)
LEMMA SavedRecords ==
    ASSUME stored \in Persisted
    PROVE  /\ [stored EXCEPT !.generation = @ + 1] \in Persisted
           /\ [stored EXCEPT !.generation = @ + 1].generation = stored.generation + 1
           /\ [stored EXCEPT !.generation = @ + 1].pending = stored.pending
           /\ [stored EXCEPT !.generation = @ + 1].receipts = stored.receipts
           /\ \A s \in Scope :
                /\ Forgotten(s) \in Persisted
                /\ Forgotten(s).generation = stored.generation
                /\ Forgotten(s).pending = stored.pending
                /\ Forgotten(s).receipts = [stored.receipts EXCEPT ![s] = Null]
           /\ \A o \in Version, s \in Scope, c \in BOOLEAN :
                /\ Finished(o, s, c) \in Persisted
                /\ Finished(o, s, c).generation =
                     IF c THEN stored.generation + 1 ELSE stored.generation
                /\ Finished(o, s, c).pending = Null
                /\ Finished(o, s, c).receipts =
                     [stored.receipts EXCEPT ![s] = [op |-> o, committed |-> c]]
           /\ cur \in InHand => \A r \in BOOLEAN :
                /\ Marked(r) \in Persisted
                /\ Marked(r).generation = stored.generation
                /\ Marked(r).pending = [op |-> cur.op, scope |-> cur.scope, ready |-> r]
                /\ Marked(r).receipts = stored.receipts
<1>1. /\ [stored EXCEPT !.generation = @ + 1] \in Persisted
      /\ [stored EXCEPT !.generation = @ + 1].generation = stored.generation + 1
      /\ [stored EXCEPT !.generation = @ + 1].pending = stored.pending
      /\ [stored EXCEPT !.generation = @ + 1].receipts = stored.receipts
  BY DEF Persisted
<1>2. ASSUME NEW s \in Scope
      PROVE  /\ Forgotten(s) \in Persisted
             /\ Forgotten(s).generation = stored.generation
             /\ Forgotten(s).pending = stored.pending
             /\ Forgotten(s).receipts = [stored.receipts EXCEPT ![s] = Null]
  BY <1>2 DEF Persisted, Forgotten
<1>3. ASSUME NEW o \in Version, NEW s \in Scope, NEW c \in BOOLEAN
      PROVE  /\ Finished(o, s, c) \in Persisted
             /\ Finished(o, s, c).generation =
                  IF c THEN stored.generation + 1 ELSE stored.generation
             /\ Finished(o, s, c).pending = Null
             /\ Finished(o, s, c).receipts =
                  [stored.receipts EXCEPT ![s] = [op |-> o, committed |-> c]]
  <2>1. [op |-> o, committed |-> c] \in Receipt
    BY DEF Receipt
  <2>q. QED
    BY <2>1 DEF Persisted, Finished
<1>4. ASSUME cur \in InHand, NEW r \in BOOLEAN
      PROVE  /\ Marked(r) \in Persisted
             /\ Marked(r).generation = stored.generation
             /\ Marked(r).pending = [op |-> cur.op, scope |-> cur.scope, ready |-> r]
             /\ Marked(r).receipts = stored.receipts
  <2>1. [op |-> cur.op, scope |-> cur.scope, ready |-> r] \in Marker
    BY <1>4, NullIsNoOperation DEF Marker
  <2>q. QED
    BY <2>1 DEF Persisted, Marked
<1>q. QED
  BY <1>1, <1>2, <1>3, <1>4

----------------------------------------------------------------------------
(* The invariant holds initially and in every step, action by action.       *)
LEMMA Initially == Init => JournalInv
<1> SUFFICES ASSUME Init PROVE JournalInv
  OBVIOUS
<1>1. TypeOK
  <2>1. disk \in Persisted
    BY DEF Init, Persisted
  <2>2. preview \in [Version -> Planned \cup {Null}]
        /\ ended \in [Version -> Outcome] /\ told \in [Version -> Outcome]
    BY DEF Init, Outcome
  <2>3. journal \in [Scope -> Journal \cup {Null}] /\ todo \in Seq(Scope)
        /\ asked \in SUBSET Seq(Scope)
    BY DEF Init
  <2>4. stored \in Persisted /\ fault \in BOOLEAN /\ plans \in SUBSET Version
        /\ pc \in Positions /\ cur \in InHand \cup {Null}
    BY <2>1 DEF Init, Positions, Idle
  <2>5. content \in Nat /\ latest \in 0..MaxVersion /\ faults \in 0..MaxFaults
    BY JournalAssumption DEF Init
  <2>q. QED
    BY <2>1, <2>2, <2>3, <2>4, <2>5 DEF TypeOK
<1>2. MemoryInv /\ StateInv
  BY NullIsNoOperation
     DEF Init, MemoryInv, StateInv, WholeInv, PendingInv, PlanInv, ReceiptInv, Torn,
         EveryJournalRegistered, ReceiptAgreesWithJournal
<1>3. CursorInv
  BY DEF Init, CursorInv, PositionInv, BeginInv, PrepareInv, DecideInv, ClearInv,
         Visiting, InWork, Positions, Idle, Deciding, Recovering
<1>q. QED
  BY <1>1, <1>2, <1>3 DEF JournalInv

(* A position that does not hold the permit knows nothing.                  *)
LEMMA IdleCursor ==
    ASSUME pc' = "scope" \/ (pc' = "idle" /\ todo' = <<>>)
    PROVE  CursorInv'
  BY DEF CursorInv, PositionInv, BeginInv, PrepareInv, DecideInv, ClearInv,
         Visiting, InWork, Positions, Idle, Deciding, Recovering

LEMMA GivenUp ==
    ASSUME GiveUp
    PROVE  /\ CursorInv'
           /\ pc' = "idle" /\ cur' = Null /\ todo' = <<>>
  BY IdleCursor DEF GiveUp

(* StateInv only speaks of files and history.                               *)
LEMMA StateFrame ==
    ASSUME StateInv,
           UNCHANGED <<disk, journal, content, latest, preview, plans, ended>>
    PROVE  StateInv'
  BY DEF StateInv, WholeInv, PendingInv, PlanInv, ReceiptInv, Underway,
         EveryJournalRegistered, ReceiptAgreesWithJournal

(* CursorInv speaks of what its position relies on, and of no plans to come. *)
LEMMA CursorFrame ==
    ASSUME CursorInv,
           UNCHANGED <<disk, journal, content, preview, plans, pc, cur, todo, ended>>
    PROVE  CursorInv'
  BY DEF CursorInv, PositionInv, BeginInv, PrepareInv, DecideInv, ClearInv,
         Recovering, Mine, Kept, Entry

(* What every position that holds the permit can rely on.                   *)
LEMMA Holding ==
    ASSUME JournalInv, pc \notin Idle
    PROVE  /\ ~fault /\ stored = disk
           /\ pc \in InWork => cur \in InHand
           /\ pc \in Visiting => todo # <<>> /\ Head(todo) \in Scope /\ Tail(todo) \in Seq(Scope)
  BY DEF JournalInv, MemoryInv, CursorInv, PositionInv, TypeOK, Recovering

(* While the permit is free of a restore, nothing is pending anywhere.      *)
LEMMA WhenFree ==
    ASSUME JournalInv, Free
    PROVE  /\ ~fault /\ stored = disk /\ disk.pending = Null
           /\ content \in Nat
           /\ ~Underway
  BY NullIsNoOperation
     DEF JournalInv, MemoryInv, StateInv, WholeInv, Free, RecoveryRequired, TypeOK,
         Underway, Persisted, Torn

LEMMA EditStep ==
    ASSUME JournalInv, Edit
    PROVE  JournalInv'
<1> DEFINE next == [stored EXCEPT !.generation = @ + 1]
<1>1. /\ disk' = next /\ stored' = next /\ UNCHANGED <<fault, faults>>
      /\ latest' = latest + 1 /\ content' = latest' /\ latest < MaxVersion
      /\ UNCHANGED <<journal, preview, plans, asked, pc, cur, todo, ended, told>>
      /\ pc \in Idle
  BY DEF Edit, Save, Works, Free
<1>2. /\ next \in Persisted
      /\ next.pending = disk.pending /\ next.receipts = disk.receipts
  BY WhenFree, SavedRecords DEF Edit, JournalInv, TypeOK
<1> HIDE DEF next
<1>3. disk.pending = Null /\ content \in Nat /\ ~fault /\ latest \in Nat
  BY WhenFree DEF Edit, JournalInv, TypeOK
<1>4. TypeOK'
  BY <1>1, <1>2, <1>3, JournalAssumption DEF JournalInv, TypeOK
<1>5. MemoryInv'
  BY <1>1 DEF JournalInv, MemoryInv
<1>6. StateInv'
  <2>1. WholeInv' /\ PendingInv' /\ PlanInv'
    BY <1>1, <1>2, <1>3
       DEF JournalInv, StateInv, WholeInv, PendingInv, PlanInv, Torn, TypeOK, Version
  <2>2. ReceiptInv' /\ EveryJournalRegistered' /\ ReceiptAgreesWithJournal'
    BY <1>1, <1>2
       DEF JournalInv, StateInv, ReceiptInv, EveryJournalRegistered, ReceiptAgreesWithJournal
  <2>q. QED
    BY <2>1, <2>2 DEF StateInv
<1>7. CursorInv'
  BY <1>1, IdleCursor DEF JournalInv, CursorInv, PositionInv, Idle, Recovering
<1>q. QED
  BY <1>4, <1>5, <1>6, <1>7 DEF JournalInv

LEMMA PreviewStep ==
    ASSUME JournalInv, NEW s \in Scope, Preview(s)
    PROVE  JournalInv'
<1> DEFINE o == latest + 1
           plan == [op |-> o, scope |-> s, generation |-> stored.generation]
<1>1. /\ latest' = o /\ latest < MaxVersion
      /\ preview' = [preview EXCEPT ![o] = plan]
      /\ plans' = plans \cup {o}
      /\ pc = "idle"
      /\ UNCHANGED <<disk, stored, fault, journal, content, asked, pc, cur, todo, ended, told,
                     faults>>
  BY DEF Preview, gateVars
<1>2. o \in Version /\ disk.pending = Null /\ latest \in Nat
  BY <1>1, WhenFree, JournalAssumption DEF Preview, JournalInv, TypeOK, Version
<1>3. plan \in Planned /\ plan # Null
  BY <1>2, NullIsNoOperation DEF Planned, JournalInv, TypeOK, Persisted
<1> HIDE DEF plan
<1>4. TypeOK'
  BY <1>1, <1>2, <1>3, JournalAssumption DEF JournalInv, TypeOK
<1>5. MemoryInv'
  BY <1>1 DEF JournalInv, MemoryInv
<1>6. StateInv'
  <2>1. PlanInv'
    <3>1. ended[o] = "open"
      BY <1>2 DEF JournalInv, StateInv, PlanInv, Version
    <3>2. \A p \in Version : p # o => preview'[p] = preview[p]
      BY <1>1, <1>2 DEF JournalInv, TypeOK
    <3>3. preview'[o] # Null
      BY <1>1, <1>2, <1>3 DEF JournalInv, TypeOK
    <3>4. \A p \in plans' : preview'[p] # Null /\ ended'[p] = "open"
      BY <1>1, <3>1, <3>2, <3>3 DEF JournalInv, StateInv, PlanInv, TypeOK
    <3>5. \A p \in Version : IF preview'[p] = Null THEN ended'[p] = "open" ELSE p <= latest'
      BY <1>1, <1>2, <3>1, <3>2, <3>3 DEF JournalInv, StateInv, PlanInv, Version
    <3>q. QED
      BY <3>4, <3>5 DEF PlanInv
  <2>2. WholeInv' /\ PendingInv'
    BY <1>1, <1>2 DEF JournalInv, StateInv, WholeInv, PendingInv, Underway
  <2>3. ReceiptInv' /\ EveryJournalRegistered' /\ ReceiptAgreesWithJournal'
    BY <1>1
       DEF JournalInv, StateInv, ReceiptInv, EveryJournalRegistered, ReceiptAgreesWithJournal
  <2>q. QED
    BY <2>1, <2>2, <2>3 DEF StateInv
<1>7. CursorInv'
  BY <1>1, IdleCursor DEF JournalInv, CursorInv, PositionInv, Idle, Recovering
<1>q. QED
  BY <1>4, <1>5, <1>6, <1>7 DEF JournalInv

LEMMA ApplyStep ==
    ASSUME JournalInv, NEW o \in Version, Apply(o)
    PROVE  JournalInv'
<1> DEFINE hand == [op |-> o, scope |-> preview[o].scope, before |-> content,
                    phase |-> "prepared"]
<1>1. /\ pc = "idle" /\ pc' = "mark" /\ cur' = hand
      /\ o \in plans /\ plans' = plans \ {o}
      /\ journal[preview[o].scope] = Null
      /\ stored.generation = preview[o].generation
      /\ UNCHANGED <<disk, stored, fault, journal, content, latest, preview, asked, todo,
                     ended, told, faults>>
  BY DEF Apply, Begin, gateVars
<1>2. /\ ~fault /\ stored = disk /\ disk.pending = Null /\ content \in Nat
      /\ ~Recovering
  BY <1>1, WhenFree DEF Apply, JournalInv, CursorInv, PositionInv
<1>3. preview[o] \in Planned /\ preview[o] # Null /\ ended[o] = "open"
  BY <1>1 DEF JournalInv, StateInv, PlanInv, TypeOK
<1>4. hand \in InHand
  BY <1>2, <1>3, NullIsNoOperation DEF InHand, Phase
<1>5. hand.op = o /\ hand.scope = preview[o].scope /\ hand.before = content
      /\ hand.phase = "prepared"
  OBVIOUS
<1> HIDE DEF hand
<1>6. TypeOK'
  BY <1>1, <1>4 DEF JournalInv, TypeOK, Positions
<1>7. MemoryInv'
  BY <1>1, <1>2 DEF MemoryInv
<1>8. StateInv'
  BY <1>1, <1>2
     DEF JournalInv, StateInv, WholeInv, PendingInv, PlanInv, ReceiptInv, Underway,
         EveryJournalRegistered, ReceiptAgreesWithJournal
<1>9. CursorInv'
  <2>1. BeginInv'
    BY <1>1, <1>2, <1>3, <1>5 DEF BeginInv, JournalInv, StateInv
  <2>2. PositionInv' /\ PrepareInv' /\ DecideInv' /\ ClearInv'
    BY <1>1, <1>2, <1>4, NullIsNoOperation
       DEF PositionInv, PrepareInv, DecideInv, ClearInv, Recovering, Visiting, InWork,
           Positions, Idle, Deciding
  <2>q. QED
    BY <2>1, <2>2 DEF CursorInv
<1>q. QED
  BY <1>6, <1>7, <1>8, <1>9 DEF JournalInv

(* A save that fails leaves the file as it was or as it would have been.    *)
LEMMA SaveFailsStep ==
    ASSUME NEW next, TypeOK, next \in Persisted, SaveFails(next)
    PROVE  /\ disk' \in {disk, next} /\ disk' \in Persisted
           /\ fault' = TRUE /\ stored' = stored /\ faults' \in 0..MaxFaults
           /\ cur' = Null /\ todo' = <<>> /\ pc' = "idle"
           /\ todo' \in Seq(Scope) /\ pc' \in Positions
           /\ MemoryInv' /\ CursorInv'
  BY GivenUp, JournalAssumption DEF SaveFails, Fails, TypeOK, MemoryInv, Idle, GiveUp, Positions

(* The marker goes down before the journal, for a restore that may commit.  *)
LEMMA MarkPendingStep ==
    ASSUME JournalInv, MarkPending
    PROVE  JournalInv'
<1> DEFINE next == Marked(FALSE)
<1>1. /\ pc = "mark"
      /\ UNCHANGED <<journal, content, latest, preview, plans, asked, ended, told>>
  BY DEF MarkPending, planVars
<1>2. /\ ~fault /\ stored = disk /\ cur \in InHand
      /\ cur.op \in Version /\ cur.op # 0 /\ cur.scope \in Scope
  BY <1>1, Holding, NullIsNoOperation DEF Idle, InWork, Positions, Visiting
<1>3. TypeOK /\ StateInv /\ CursorInv
  BY DEF JournalInv
<1>4. CASE stored.pending = Null
  <2>1. ~Recovering
    BY <1>1, <1>2, <1>3, <1>4, NullIsNoOperation DEF CursorInv, DecideInv, Mine
  <2>2. /\ disk.pending = Null /\ journal[cur.scope] = Null /\ cur.before = content
        /\ preview[cur.op] # Null /\ preview[cur.op].generation = disk.generation
        /\ ended[cur.op] = "open" /\ cur.op \notin plans
    BY <1>1, <1>3, <2>1 DEF CursorInv, BeginInv
  <2>3. /\ next \in Persisted
        /\ next.generation = disk.generation
        /\ next.pending = [op |-> cur.op, scope |-> cur.scope, ready |-> FALSE]
        /\ next.receipts = disk.receipts
    BY <1>2, <1>3, SavedRecords DEF TypeOK
  <2> HIDE DEF next
  <2>4. next.pending.op = cur.op /\ next.pending.scope = cur.scope /\ next.pending # Null
    BY <1>2, <2>3, NullIsNoOperation
  <2>5. ASSUME disk' = next \/ disk' = disk
        PROVE  StateInv'
    <3>1. WholeInv' /\ PendingInv'
      BY <1>1, <1>3, <2>2, <2>3, <2>4, <2>5, NullIsNoOperation
         DEF StateInv, WholeInv, PendingInv, Underway
    <3>2. PlanInv' /\ ReceiptInv' /\ ReceiptAgreesWithJournal'
      BY <1>1, <1>3, <2>3, <2>5
         DEF StateInv, PlanInv, ReceiptInv, ReceiptAgreesWithJournal
    <3>3. EveryJournalRegistered'
      <4>1. \A s \in Scope : journal[s] # Null => disk.receipts[s].op = journal[s].op
        BY <1>3, <2>2, NullIsNoOperation DEF StateInv, EveryJournalRegistered, TypeOK
      <4>q. QED
        BY <1>1, <2>3, <2>5, <4>1 DEF EveryJournalRegistered
    <3>q. QED
      BY <3>1, <3>2, <3>3 DEF StateInv
  <2>6. CASE Save(next) /\ GoTo("prepare")
    <3>1. /\ disk' = next /\ stored' = next /\ UNCHANGED <<fault, faults>>
          /\ pc' = "prepare" /\ UNCHANGED <<cur, todo>>
      BY <2>6 DEF Save, Works, GoTo
    <3>2. TypeOK' /\ MemoryInv'
      BY <1>1, <1>2, <1>3, <2>3, <3>1 DEF TypeOK, MemoryInv, Positions
    <3>3. CursorInv'
      BY <1>1, <1>2, <2>1, <2>2, <2>4, <3>1, NullIsNoOperation
         DEF CursorInv, PositionInv, BeginInv, PrepareInv, DecideInv, ClearInv, Mine,
             Recovering, Visiting, InWork, Positions, Idle, Deciding
    <3>q. QED
      BY <2>5, <3>1, <3>2, <3>3 DEF JournalInv
  <2>7. CASE SaveFails(next)
    <3>1. /\ disk' \in {disk, next} /\ disk' \in Persisted
          /\ fault' = TRUE /\ stored' = stored /\ faults' \in 0..MaxFaults
          /\ cur' = Null /\ todo' \in Seq(Scope) /\ pc' \in Positions
          /\ MemoryInv' /\ CursorInv'
      BY <1>3, <2>3, <2>7, SaveFailsStep
    <3>2. TypeOK'
      BY <1>1, <1>3, <3>1 DEF TypeOK
    <3>q. QED
      BY <2>5, <3>1, <3>2 DEF JournalInv
  <2>q. QED
    BY <1>4, <1>2, <2>6, <2>7, NullIsNoOperation DEF MarkPending, next
<1>5. CASE stored.pending # Null
  <2>1. /\ GoTo("ready") /\ UNCHANGED <<disk, stored, fault, faults>>
    BY <1>5 DEF MarkPending, gateVars
  <2>2. pc' = "ready" /\ UNCHANGED <<cur, todo>>
    BY <2>1 DEF GoTo
  <2>3. Recovering /\ Mine /\ Kept
    BY <1>1, <1>2, <1>3, <1>5 DEF CursorInv, BeginInv, DecideInv
  <2>4. TypeOK' /\ MemoryInv'
    BY <1>1, <1>2, <1>3, <2>1, <2>2 DEF TypeOK, MemoryInv, Positions
  <2>5. StateInv'
    BY <1>1, <1>3, <2>1, StateFrame
  <2>6. CursorInv'
    <3>1. Recovering' /\ Mine' /\ Kept'
      BY <1>1, <2>1, <2>2, <2>3 DEF Recovering, Mine, Kept, Entry
    <3>q. QED
      BY <1>2, <2>2, <3>1, NullIsNoOperation
         DEF CursorInv, PositionInv, BeginInv, PrepareInv, DecideInv, ClearInv,
             Visiting, InWork, Positions, Idle, Deciding
  <2>q. QED
    BY <2>4, <2>5, <2>6 DEF JournalInv
<1>q. QED
  BY <1>4, <1>5


(* A journal is only ever written while its own marker is on disk, so it    *)
(* cannot contradict a receipt: that one would have ended the restore.      *)
LEMMA JournalSaved ==
    ASSUME TypeOK, StateInv, NEW phase \in Phase, cur \in InHand, Mine,
           journal' \in {journal, [journal EXCEPT ![cur.scope] = Entry(phase)]},
           UNCHANGED <<disk, content, latest, preview, plans, ended>>
    PROVE  journal' \in [Scope -> Journal \cup {Null}] /\ StateInv'
<1> DEFINE entry == Entry(phase)
<1>1. /\ cur.op \in Version /\ cur.op # 0 /\ cur.scope \in Scope
      /\ disk.pending.op = cur.op /\ disk.pending.scope = cur.scope
      /\ disk.pending # Null
  BY NullIsNoOperation DEF Mine
<1>2. entry \in Journal /\ entry.op = cur.op /\ entry # Null
  <2>1. cur.before \in Nat
    BY DEF InHand
  <2>q. QED
    BY <1>1, <2>1, NullIsNoOperation DEF Journal, Entry
<1> HIDE DEF entry
<1>3. journal' \in [Scope -> Journal \cup {Null}]
  BY <1>1, <1>2 DEF TypeOK, entry
<1>4. \A s \in Scope : journal'[s] = journal[s] \/ (s = cur.scope /\ journal'[s] = entry)
  BY <1>1 DEF TypeOK, entry
<1>5. WholeInv' /\ PendingInv' /\ PlanInv' /\ ReceiptInv'
  BY <1>1, <1>2, <1>4 DEF StateInv, WholeInv, PendingInv, PlanInv, ReceiptInv, Underway
<1>6. EveryJournalRegistered'
  BY <1>1, <1>2, <1>4 DEF StateInv, EveryJournalRegistered
<1>7. disk.receipts[cur.scope].op # cur.op
  <2>1. disk.receipts[cur.scope] \in Receipt \cup {Null}
    BY <1>1 DEF TypeOK, Persisted
  <2>2. ended[cur.op] = "open"
    BY <1>1 DEF StateInv, PendingInv
  <2>q. QED
    BY <1>1, <2>1, <2>2, NullIsNoOperation DEF StateInv, ReceiptInv, Verdict
<1>8. ReceiptAgreesWithJournal'
  BY <1>2, <1>4, <1>7 DEF StateInv, ReceiptAgreesWithJournal
<1>q. QED
  BY <1>3, <1>5, <1>6, <1>8 DEF StateInv

(* Saving the journal leaves it in hand as it is on disk, or gives up.      *)
LEMMA SaveJournalStep ==
    ASSUME JournalInv, NEW phase \in Phase, NEW next \in Positions,
           pc \in InWork, Mine, SaveJournal(phase, next),
           UNCHANGED <<gateVars, content, planVars, ended, told>>
    PROVE  /\ TypeOK' /\ MemoryInv' /\ StateInv'
           /\ \/ CursorInv'
              \/ /\ pc' = next /\ UNCHANGED todo /\ Mine' /\ Kept' /\ cur' # Null
                 /\ cur'.phase = phase /\ cur'.op = cur.op /\ cur'.before = cur.before
<1>1. /\ ~fault /\ stored = disk /\ cur \in InHand /\ cur.scope \in Scope
      /\ TypeOK /\ StateInv
  BY Holding, NullIsNoOperation DEF InWork, JournalInv
<1>2. UNCHANGED <<disk, stored, fault, content, latest, preview, plans, asked, ended, told>>
  BY DEF gateVars, planVars
<1>3. journal' \in {journal, [journal EXCEPT ![cur.scope] = Entry(phase)]}
  BY DEF SaveJournal
<1>4. journal' \in [Scope -> Journal \cup {Null}] /\ StateInv'
  BY <1>1, <1>2, <1>3, JournalSaved
<1>5. CASE /\ Works
           /\ journal' = [journal EXCEPT ![cur.scope] = Entry(phase)]
           /\ pc' = next /\ cur' = [cur EXCEPT !.phase = phase] /\ UNCHANGED todo
  <2>1. /\ cur' \in InHand /\ cur'.phase = phase /\ cur'.op = cur.op
        /\ cur'.scope = cur.scope /\ cur'.before = cur.before
    BY <1>1, <1>5 DEF InHand
  <2>2. TypeOK' /\ MemoryInv'
    BY <1>1, <1>2, <1>4, <1>5, <2>1 DEF TypeOK, MemoryInv, Works
  <2>3. Mine' /\ Kept' /\ cur' # Null
    BY <1>1, <1>2, <1>5, <2>1, NullIsNoOperation DEF Mine, Kept, Entry, TypeOK
  <2>q. QED
    BY <1>4, <1>5, <2>1, <2>2, <2>3
<1>6. CASE Fails /\ GiveUp
  <2>1. TypeOK' /\ MemoryInv'
    BY <1>1, <1>2, <1>4, <1>6, GivenUp, JournalAssumption
       DEF TypeOK, MemoryInv, Fails, Positions, Idle, GiveUp
  <2>q. QED
    BY <1>4, <1>6, <2>1, GivenUp
<1>q. QED
  BY <1>5, <1>6 DEF SaveJournal

LEMMA SavePreparedStep ==
    ASSUME JournalInv, SavePrepared
    PROVE  JournalInv'
<1>1. pc = "prepare" /\ Mine /\ ~Recovering
  BY DEF SavePrepared, JournalInv, CursorInv, PrepareInv
<1>2. /\ TypeOK' /\ MemoryInv' /\ StateInv'
      /\ \/ CursorInv'
         \/ /\ pc' = "ready" /\ UNCHANGED todo /\ Mine' /\ Kept' /\ cur' # Null
            /\ cur'.phase = "prepared"
  BY <1>1, SaveJournalStep DEF SavePrepared, InWork, Positions, Idle, Visiting, Phase
<1>3. CASE /\ pc' = "ready" /\ UNCHANGED todo /\ Mine' /\ Kept' /\ cur' # Null
           /\ cur'.phase = "prepared"
  <2>1. CursorInv'
    BY <1>1, <1>3
       DEF CursorInv, PositionInv, BeginInv, PrepareInv, DecideInv, ClearInv, Recovering,
           Visiting, InWork, Positions, Idle, Deciding
  <2>q. QED
    BY <1>2, <2>1 DEF JournalInv
<1>q. QED
  BY <1>2, <1>3 DEF JournalInv

LEMMA SaveRolledBackStep ==
    ASSUME JournalInv, SaveRolledBack
    PROVE  JournalInv'
<1>1. pc = "refuse" /\ Mine /\ content = cur.before
  BY DEF SaveRolledBack, JournalInv, CursorInv, DecideInv, Deciding
<1>2. /\ TypeOK' /\ MemoryInv' /\ StateInv'
      /\ \/ CursorInv'
         \/ /\ pc' = "finish" /\ Mine' /\ Kept' /\ cur' # Null
            /\ cur'.phase = "rolledBack" /\ cur'.before = cur.before
  BY <1>1, SaveJournalStep DEF SaveRolledBack, InWork, Positions, Idle, Visiting, Phase
<1>3. CASE /\ pc' = "finish" /\ Mine' /\ Kept' /\ cur' # Null
           /\ cur'.phase = "rolledBack" /\ cur'.before = cur.before
  <2>1. CursorInv'
    BY <1>1, <1>3
       DEF CursorInv, PositionInv, BeginInv, PrepareInv, DecideInv, ClearInv,
           Visiting, InWork, Positions, Idle, Deciding, SaveRolledBack
  <2>q. QED
    BY <1>2, <2>1 DEF JournalInv
<1>q. QED
  BY <1>2, <1>3 DEF JournalInv

LEMMA SaveCommittedStep ==
    ASSUME JournalInv, SaveCommitted
    PROVE  JournalInv'
<1>1. pc = "decide" /\ Mine /\ content = cur.op
  BY DEF SaveCommitted, JournalInv, CursorInv, DecideInv, Deciding
<1>2. /\ TypeOK' /\ MemoryInv' /\ StateInv'
      /\ \/ CursorInv'
         \/ /\ pc' = "finish" /\ Mine' /\ Kept' /\ cur' # Null
            /\ cur'.phase = "committed" /\ cur'.op = cur.op
  BY <1>1, SaveJournalStep DEF SaveCommitted, InWork, Positions, Idle, Visiting, Phase
<1>3. CASE /\ pc' = "finish" /\ Mine' /\ Kept' /\ cur' # Null
           /\ cur'.phase = "committed" /\ cur'.op = cur.op
  <2>1. CursorInv'
    BY <1>1, <1>3
       DEF CursorInv, PositionInv, BeginInv, PrepareInv, DecideInv, ClearInv,
           Visiting, InWork, Positions, Idle, Deciding, SaveCommitted
  <2>q. QED
    BY <1>2, <2>1 DEF JournalInv
<1>q. QED
  BY <1>2, <1>3 DEF JournalInv

(* The marker says that a journal exists, and nothing else changes.         *)
LEMMA MarkReadyStep ==
    ASSUME JournalInv, MarkReady
    PROVE  JournalInv'
<1> DEFINE next == Marked(TRUE)
           then == IF Recovering THEN "replay" ELSE "replace"
<1>1. /\ pc = "ready"
      /\ UNCHANGED <<journal, content, latest, preview, plans, asked, ended, told>>
  BY DEF MarkReady, planVars
<1>2. /\ ~fault /\ stored = disk /\ cur \in InHand
      /\ cur.op \in Version /\ cur.op # 0 /\ cur.scope \in Scope
  BY <1>1, Holding, NullIsNoOperation DEF Idle, InWork, Positions, Visiting
<1>3. TypeOK /\ StateInv /\ Mine /\ Kept /\ (~Recovering => cur.phase = "prepared")
  BY <1>1 DEF JournalInv, CursorInv, DecideInv, Deciding
<1>4. /\ next \in Persisted
      /\ next.generation = disk.generation
      /\ next.pending.op = disk.pending.op /\ next.pending.scope = disk.pending.scope
      /\ next.pending # Null /\ disk.pending # Null
      /\ next.receipts = disk.receipts
  <2>1. /\ next \in Persisted /\ next.generation = disk.generation
        /\ next.pending = [op |-> cur.op, scope |-> cur.scope, ready |-> TRUE]
        /\ next.receipts = disk.receipts
    BY <1>2, <1>3, SavedRecords DEF TypeOK
  <2> HIDE DEF next
  <2>q. QED
    BY <1>2, <1>3, <2>1, NullIsNoOperation DEF Mine
<1> HIDE DEF next
<1>5. ASSUME disk' \in {disk, next}
      PROVE  StateInv'
  BY <1>1, <1>3, <1>4, <1>5
     DEF StateInv, WholeInv, PendingInv, PlanInv, ReceiptInv, Underway,
         EveryJournalRegistered, ReceiptAgreesWithJournal
<1>6. CASE Save(next) /\ GoTo(then)
  <2>1. /\ disk' = next /\ stored' = next /\ UNCHANGED <<fault, faults>>
        /\ pc' = then /\ UNCHANGED <<cur, todo>>
    BY <1>6 DEF Save, Works, GoTo
  <2>2. TypeOK' /\ MemoryInv'
    BY <1>1, <1>2, <1>3, <1>4, <2>1 DEF TypeOK, MemoryInv, Positions
  <2>3. Mine' /\ Kept' /\ cur' # Null
    BY <1>1, <1>2, <1>3, <1>4, <2>1, NullIsNoOperation DEF Mine, Kept, Entry
  <2>4. CursorInv'
    BY <1>3, <2>1, <2>3
       DEF CursorInv, PositionInv, BeginInv, PrepareInv, DecideInv, ClearInv, Recovering,
           Visiting, InWork, Positions, Idle, Deciding
  <2>q. QED
    BY <1>5, <2>1, <2>2, <2>4 DEF JournalInv
<1>7. CASE SaveFails(next)
  <2>1. TypeOK' /\ MemoryInv' /\ CursorInv'
    BY <1>1, <1>3, <1>4, <1>7, SaveFailsStep DEF TypeOK
  <2>q. QED
    BY <1>3, <1>4, <1>5, <1>7, <2>1, SaveFailsStep DEF JournalInv
<1>q. QED
  BY <1>6, <1>7 DEF MarkReady, next


(* Data is replaced only while the journal that can undo it is on disk.     *)
LEMMA DataReplaced ==
    ASSUME JournalInv, pc \in InWork, Mine, Kept, NEW image \in Nat,
           content' \in {content, image, Torn},
           UNCHANGED <<gateVars, journal, planVars, ended, told>>,
           faults' \in 0..MaxFaults
    PROVE  /\ cur \in InHand /\ cur.op \in Nat /\ cur.before \in Nat
           /\ StateInv' /\ MemoryInv'
           /\ pc' \in Positions /\ cur' \in InHand \cup {Null} /\ todo' \in Seq(Scope)
                => TypeOK'
           /\ cur' = cur => Mine' /\ Kept' /\ cur' # Null
<1>1. /\ ~fault /\ stored = disk /\ cur \in InHand /\ cur.op \in Version
      /\ cur # Null /\ TypeOK /\ StateInv
  BY Holding, NullIsNoOperation DEF InWork, JournalInv
<1>2. UNCHANGED <<disk, stored, fault, journal, latest, preview, plans, asked, ended, told>>
  BY DEF gateVars, planVars
<1>3. Underway
  BY <1>1, NullIsNoOperation DEF Mine, Kept, Entry, Underway
<1>4. StateInv'
  BY <1>1, <1>2, <1>3
     DEF StateInv, WholeInv, PendingInv, PlanInv, ReceiptInv, Underway,
         EveryJournalRegistered, ReceiptAgreesWithJournal
<1>5. MemoryInv'
  BY <1>1, <1>2 DEF MemoryInv
<1>6. pc' \in Positions /\ cur' \in InHand \cup {Null} /\ todo' \in Seq(Scope) => TypeOK'
  BY <1>1, <1>2 DEF TypeOK
<1>7. cur' = cur => Mine' /\ Kept' /\ cur' # Null
  BY <1>1, <1>2 DEF Mine, Kept, Entry
<1>8. cur.op \in Nat /\ cur.before \in Nat
  BY <1>1 DEF InHand, Version
<1>q. QED
  BY <1>1, <1>4, <1>5, <1>6, <1>7, <1>8

LEMMA ReplaceStep ==
    ASSUME JournalInv, Replace
    PROVE  JournalInv'
<1>1. /\ pc = "replace" /\ pc \in InWork /\ Mine /\ Kept /\ cur.phase = "prepared"
      /\ UNCHANGED <<gateVars, journal, planVars, ended, told>> /\ TypeOK
  BY DEF Replace, JournalInv, CursorInv, DecideInv, Deciding, InWork, Positions, Idle, Visiting
<1>2. cur.op \in Nat
  BY <1>1, Holding, NullIsNoOperation DEF InWork, Version
<1>3. /\ content' \in {content, cur.op, Torn} /\ faults' \in 0..MaxFaults
      /\ UNCHANGED <<cur, todo>>
      /\ \/ pc' = "decide" /\ content' = cur.op
         \/ pc' = "undo"
  BY <1>1, JournalAssumption
     DEF Replace, ReplaceBy, ReplaceFails, Works, Fails, GoTo, TypeOK
<1>4. /\ StateInv' /\ MemoryInv' /\ TypeOK' /\ Mine' /\ Kept' /\ cur' # Null
  BY <1>1, <1>2, <1>3, DataReplaced DEF TypeOK, Positions
<1>5. CursorInv'
  BY <1>1, <1>3, <1>4
     DEF CursorInv, PositionInv, BeginInv, PrepareInv, DecideInv, ClearInv,
         Visiting, InWork, Positions, Idle, Deciding
<1>q. QED
  BY <1>4, <1>5 DEF JournalInv

LEMMA UndoStep ==
    ASSUME JournalInv, Undo
    PROVE  JournalInv'
<1>1. /\ pc = "undo" /\ pc \in InWork /\ Mine /\ Kept /\ cur.phase # "committed"
      /\ UNCHANGED <<gateVars, journal, planVars, ended, told>> /\ TypeOK
  BY DEF Undo, JournalInv, CursorInv, DecideInv, Deciding, InWork, Positions, Idle, Visiting
<1>2. cur.before \in Nat
  BY <1>1, Holding DEF InWork, InHand
<1>3. /\ content' \in {content, cur.before, Torn} /\ faults' \in 0..MaxFaults
      /\ \/ pc' = "refuse" /\ content' = cur.before /\ UNCHANGED <<cur, todo>>
         \/ GiveUp
  BY <1>1, JournalAssumption
     DEF Undo, ReplaceBy, ReplaceFails, Works, Fails, GoTo, TypeOK
<1>4. /\ pc' \in Positions /\ cur' \in InHand \cup {Null} /\ todo' \in Seq(Scope)
  <2>1. CASE GiveUp
    BY <2>1 DEF GiveUp, Positions, Idle
  <2>2. CASE pc' \in {"finish", "refuse"} /\ UNCHANGED <<cur, todo>>
    BY <1>1, <2>2 DEF TypeOK, Positions
  <2>q. QED
    BY <1>3, <2>1, <2>2
<1>5. /\ StateInv' /\ MemoryInv' /\ TypeOK'
      /\ cur' = cur => Mine' /\ Kept' /\ cur' # Null
  BY <1>1, <1>2, <1>3, <1>4, DataReplaced
<1>6. CASE pc' = "refuse" /\ content' = cur.before /\ UNCHANGED <<cur, todo>>
  <2>1. CursorInv'
    BY <1>1, <1>5, <1>6
       DEF CursorInv, PositionInv, BeginInv, PrepareInv, DecideInv, ClearInv,
           Visiting, InWork, Positions, Idle, Deciding
  <2>q. QED
    BY <1>5, <2>1 DEF JournalInv
<1>q. QED
  BY <1>3, <1>5, <1>6, GivenUp DEF JournalInv

LEMMA ReplayStep ==
    ASSUME JournalInv, Replay
    PROVE  JournalInv'
<1> DEFINE image == IF cur.phase = "committed" THEN cur.op ELSE cur.before
           then == IF cur.phase = "committed" THEN "finish" ELSE "refuse"
<1>1. /\ pc = "replay" /\ pc \in InWork /\ Mine /\ Kept /\ Recovering
      /\ UNCHANGED <<gateVars, journal, planVars, ended, told>> /\ TypeOK
  BY DEF Replay, JournalInv, CursorInv, DecideInv, Deciding, InWork, Positions, Idle, Visiting
<1>2. image \in Nat
  BY <1>1, Holding, NullIsNoOperation DEF InWork, InHand, Version
<1>3. /\ content' \in {content, image, Torn} /\ faults' \in 0..MaxFaults
      /\ \/ pc' = then /\ content' = image /\ UNCHANGED <<cur, todo>>
         \/ GiveUp
  BY <1>1, JournalAssumption
     DEF Replay, ReplaceBy, ReplaceFails, Works, Fails, GoTo, TypeOK
<1>4. /\ pc' \in Positions /\ cur' \in InHand \cup {Null} /\ todo' \in Seq(Scope)
  <2>1. CASE GiveUp
    BY <2>1 DEF GiveUp, Positions, Idle
  <2>2. CASE pc' \in {"finish", "refuse"} /\ UNCHANGED <<cur, todo>>
    BY <1>1, <2>2 DEF TypeOK, Positions
  <2>q. QED
    BY <1>3, <2>1, <2>2
<1> HIDE DEF image
<1>5. /\ StateInv' /\ MemoryInv' /\ TypeOK'
      /\ cur' = cur => Mine' /\ Kept' /\ cur' # Null
  BY <1>1, <1>2, <1>3, <1>4, DataReplaced
<1>6. CASE pc' = then /\ content' = image /\ UNCHANGED <<cur, todo>>
  <2>1. CursorInv'
    BY <1>1, <1>5, <1>6
       DEF CursorInv, PositionInv, BeginInv, PrepareInv, DecideInv, ClearInv,
           Visiting, InWork, Positions, Idle, Deciding, image
  <2>q. QED
    BY <1>5, <2>1 DEF JournalInv
<1>q. QED
  BY <1>3, <1>5, <1>6, GivenUp DEF JournalInv

(* The marker gives way to a receipt, which agrees with the journal left,   *)
(* with the caller's verdict, and with no other receipt.                    *)
LEMMA Receipted ==
    ASSUME TypeOK, StateInv, stored = disk, disk.pending # Null,
           NEW o \in Version, o = disk.pending.op,
           NEW s \in Scope, s = disk.pending.scope,
           NEW c \in BOOLEAN,
           content # Torn,
           journal[s] # Null => (journal[s].op = o /\ (c <=> journal[s].phase = "committed")),
           disk' \in {disk, Finished(o, s, c)}, Ending(o, c),
           UNCHANGED <<journal, content, latest, preview, plans>>
    PROVE  /\ Finished(o, s, c) \in Persisted /\ disk' \in Persisted
           /\ Finished(o, s, c).pending = Null
           /\ Finished(o, s, c).receipts[s].op = o
           /\ ended' \in [Version -> Outcome]
           /\ disk' = Finished(o, s, c) => ended'[o] = Verdict(c)
           /\ StateInv'
<1> DEFINE next == Finished(o, s, c)
<1>1. /\ next \in Persisted /\ next.pending = Null
      /\ next.receipts = [disk.receipts EXCEPT ![s] = [op |-> o, committed |-> c]]
  <2>1. stored \in Persisted
    BY DEF TypeOK
  <2>2. next \in Persisted
    BY <2>1, SavedRecords
  <2>3. /\ next.pending = Null
        /\ next.receipts = [disk.receipts EXCEPT ![s] = [op |-> o, committed |-> c]]
    BY DEF Finished
  <2>q. QED
    BY <2>2, <2>3
<1> HIDE DEF next
<1>2. /\ next.receipts[s] = [op |-> o, committed |-> c]
      /\ \A t \in Scope : t # s => next.receipts[t] = disk.receipts[t]
  BY <1>1 DEF TypeOK, Persisted
<1>3. /\ next.receipts[s].op = o /\ next.receipts[s].committed = c
      /\ next.receipts[s] # Null
  BY <1>2 DEF Null
<1>4. CASE disk' = disk
  <2>1. ended' = ended
    BY <1>4 DEF Ending
  <2>2. StateInv'
    BY <1>4, <2>1, StateFrame
  <2>3. disk # next
    BY <1>1
  <2>q. QED
    BY <1>1, <1>3, <1>4, <2>1, <2>2, <2>3 DEF TypeOK, next
<1>5. CASE disk' = next
  <2>1. ended' = [ended EXCEPT ![o] = Verdict(c)]
    BY <1>1, <1>5 DEF Ending
  <2>2. /\ ended' \in [Version -> Outcome] /\ ended'[o] = Verdict(c)
        /\ \A p \in Version : p # o => ended'[p] = ended[p]
    BY <2>1 DEF TypeOK, Outcome, Verdict
  <2>3. ended[o] = "open" /\ o \notin plans /\ preview[o] # Null
    BY DEF StateInv, PendingInv
  <2>4. WholeInv' /\ PendingInv' /\ PlanInv'
    BY <1>1, <1>5, <2>2, <2>3
       DEF StateInv, WholeInv, PendingInv, PlanInv, TypeOK
  <2>5. ReceiptInv'
    <3>1. ASSUME NEW t \in Scope, t # s, disk.receipts[t] # Null
          PROVE  ended'[disk.receipts[t].op] = Verdict(disk.receipts[t].committed)
      <4>1. disk.receipts[t].op \in Version /\ disk.receipts[t].op # o
        BY <2>3, <3>1, NullIsNoOperation
           DEF StateInv, ReceiptInv, Verdict, TypeOK, Persisted
      <4>q. QED
        BY <2>2, <3>1, <4>1 DEF StateInv, ReceiptInv
    <3>q. QED
      BY <1>2, <1>3, <1>5, <2>2, <3>1 DEF ReceiptInv
  <2>6. EveryJournalRegistered' /\ ReceiptAgreesWithJournal'
    BY <1>2, <1>3, <1>5
       DEF StateInv, EveryJournalRegistered, ReceiptAgreesWithJournal
  <2>q. QED
    BY <1>1, <1>3, <1>5, <2>2, <2>4, <2>5, <2>6 DEF StateInv, next
<1>q. QED
  BY <1>4, <1>5 DEF next

LEMMA FinishStep ==
    ASSUME JournalInv, Finish
    PROVE  JournalInv'
<1> DEFINE c == cur.phase = "committed"
           next == Finished(cur.op, cur.scope, c)
<1>1. /\ pc = "finish" /\ Mine /\ Kept
      /\ content = IF c THEN cur.op ELSE cur.before
      /\ UNCHANGED <<journal, content, latest, preview, plans, asked, told>>
      /\ Ending(cur.op, c)
      /\ TypeOK /\ StateInv
  BY DEF Finish, planVars, JournalInv, CursorInv, DecideInv, Deciding
<1>2. /\ ~fault /\ stored = disk /\ cur \in InHand /\ cur # Null
      /\ cur.op \in Version /\ cur.op # 0 /\ cur.scope \in Scope
  BY <1>1, Holding, NullIsNoOperation DEF Idle, InWork, Positions, Visiting
<1>3. /\ disk.pending # Null /\ disk.pending.op = cur.op /\ disk.pending.scope = cur.scope
      /\ content # Torn /\ c \in BOOLEAN
      /\ journal[cur.scope].op = cur.op
      /\ c <=> journal[cur.scope].phase = "committed"
  <2>1. content \in Nat
    BY <1>1, <1>2 DEF InHand, Version
  <2>q. QED
    BY <1>1, <1>2, <2>1, NullIsNoOperation DEF Mine, Kept, Entry, Torn
<1>4. disk' \in {disk, next}
  BY DEF Finish, Save, SaveFails
<1>5. /\ next \in Persisted /\ disk' \in Persisted
      /\ next.pending = Null /\ next.receipts[cur.scope].op = cur.op
      /\ ended' \in [Version -> Outcome]
      /\ disk' = next => ended'[cur.op] = Verdict(c)
      /\ StateInv'
  BY <1>1, <1>2, <1>3, <1>4, Receipted
<1> HIDE DEF next
<1>6. CASE Save(next) /\ GoTo("clear")
  <2>1. /\ disk' = next /\ stored' = next /\ UNCHANGED <<fault, faults>>
        /\ pc' = "clear" /\ UNCHANGED <<cur, todo>>
    BY <1>6 DEF Save, Works, GoTo
  <2>2. TypeOK' /\ MemoryInv'
    BY <1>1, <1>2, <1>5, <2>1 DEF TypeOK, MemoryInv, Positions
  <2>3. CursorInv'
    BY <1>1, <1>2, <1>3, <1>5, <2>1, NullIsNoOperation
       DEF CursorInv, PositionInv, BeginInv, PrepareInv, DecideInv, ClearInv,
           Visiting, InWork, Positions, Idle, Deciding
  <2>q. QED
    BY <1>5, <2>2, <2>3 DEF JournalInv
<1>7. CASE SaveFails(next)
  <2>1. /\ fault' = TRUE /\ stored' = stored /\ faults' \in 0..MaxFaults
        /\ cur' = Null /\ todo' \in Seq(Scope) /\ pc' \in Positions
        /\ MemoryInv' /\ CursorInv'
    BY <1>1, <1>5, <1>7, SaveFailsStep
  <2>2. TypeOK'
    BY <1>1, <1>5, <2>1 DEF TypeOK
  <2>q. QED
    BY <1>5, <2>1, <2>2 DEF JournalInv
<1>q. QED
  BY <1>6, <1>7 DEF Finish, next


(* A receipt may be forgotten once its journal is gone.                     *)
LEMMA ReceiptForgotten ==
    ASSUME TypeOK, StateInv, stored = disk, NEW s \in Scope, journal[s] = Null,
           disk' \in {disk, Forgotten(s)},
           UNCHANGED <<journal, content, latest, preview, plans, ended>>
    PROVE  Forgotten(s) \in Persisted /\ disk' \in Persisted /\ StateInv'
<1> DEFINE next == Forgotten(s)
<1>1. /\ next \in Persisted /\ next.generation = disk.generation
      /\ next.pending = disk.pending
      /\ next.receipts = [disk.receipts EXCEPT ![s] = Null]
  BY SavedRecords DEF TypeOK
<1> HIDE DEF next
<1>2. \A t \in Scope : \/ next.receipts[t] = disk.receipts[t]
                       \/ t = s /\ next.receipts[t] = Null
  BY <1>1 DEF TypeOK, Persisted
<1>3. disk' \in {disk, next}
  BY DEF next
<1>4. WholeInv' /\ PendingInv' /\ PlanInv'
  BY <1>1, <1>3 DEF StateInv, WholeInv, PendingInv, PlanInv, Underway
<1>5. ReceiptInv' /\ EveryJournalRegistered' /\ ReceiptAgreesWithJournal'
  <2>1. ReceiptInv'
    BY <1>2, <1>3 DEF StateInv, ReceiptInv
  <2>2. EveryJournalRegistered'
    <3>1. ASSUME NEW t \in Scope, journal[t] # Null
          PROVE  disk'.pending = disk.pending /\ disk'.receipts[t] = disk.receipts[t]
      BY <1>1, <1>2, <1>3, <3>1
    <3>q. QED
      BY <3>1 DEF StateInv, EveryJournalRegistered
  <2>3. ReceiptAgreesWithJournal'
    BY <1>2, <1>3 DEF StateInv, ReceiptAgreesWithJournal
  <2>q. QED
    BY <2>1, <2>2, <2>3
<1>q. QED
  BY <1>1, <1>3, <1>4, <1>5 DEF StateInv, TypeOK, next

(* The end of a restore leaves nothing in hand.                             *)
LEMMA Completing ==
    ASSUME JournalInv, pc \in {"clear", "forget"}, Complete
    PROVE  /\ cur' = Null /\ pc' \in Idle /\ pc' \in Positions
           /\ todo' \in Seq(Scope) /\ told' \in [Version -> Outcome]
           /\ CursorInv'
<1>1. TypeOK /\ cur \in InHand /\ cur.op \in Version
  BY Holding, NullIsNoOperation DEF JournalInv, Idle, InWork, Positions, Visiting
<1>2. CASE Recovering
  <2>1. cur' = Null /\ pc' = "scope" /\ todo' = Tail(todo) /\ told' = told
    BY <1>2 DEF Complete
  <2>2. todo' \in Seq(Scope)
    BY <1>1, <1>2, <2>1 DEF TypeOK, Recovering
  <2>q. QED
    BY <1>1, <2>1, <2>2, IdleCursor DEF TypeOK, Idle, Positions
<1>3. CASE ~Recovering
  <2>1. /\ cur' = Null /\ pc' = "idle" /\ todo' = <<>> /\ todo' = todo
        /\ told' = [told EXCEPT ![cur.op] = Verdict(cur.phase = "committed")]
    BY <1>3 DEF Complete, Recovering
  <2>q. QED
    BY <1>1, <2>1, IdleCursor DEF TypeOK, Idle, Positions, Outcome, Verdict
<1>q. QED
  BY <1>2, <1>3

LEMMA ClearStep ==
    ASSUME JournalInv, Clear
    PROVE  JournalInv'
<1>1. /\ pc = "clear" /\ TypeOK /\ StateInv
      /\ journal[cur.scope].op = cur.op /\ disk.pending.op # cur.op
      /\ disk.receipts[cur.scope].op = cur.op
      /\ ~Recovering => ended[cur.op] = Verdict(cur.phase = "committed")
      /\ UNCHANGED <<disk, stored, fault, content, latest, preview, plans, asked, ended>>
  BY DEF Clear, gateVars, planVars, JournalInv, CursorInv, ClearInv
<1>2. /\ ~fault /\ stored = disk /\ cur \in InHand /\ cur # Null
      /\ cur.scope \in Scope
  BY <1>1, Holding, NullIsNoOperation DEF Idle, InWork, Positions, Visiting
<1>3. journal' \in {journal, [journal EXCEPT ![cur.scope] = Null]}
  BY DEF Clear
<1>4. /\ \A s \in Scope : \/ journal'[s] = journal[s]
                          \/ s = cur.scope /\ journal'[s] = Null
      /\ journal' \in [Scope -> Journal \cup {Null}]
  BY <1>1, <1>3 DEF TypeOK
<1>5. StateInv'
  <2>1. journal[cur.scope] # Null
    BY <1>1, <1>2, NullIsNoOperation
  <2>2. disk.pending # Null => disk.pending.scope \in Scope
    BY <1>1, NullIsNoOperation DEF TypeOK, Persisted
  <2>3. disk.pending # Null => journal'[disk.pending.scope] = journal[disk.pending.scope]
    <3>1. disk.pending # Null => disk.pending.scope # cur.scope
      BY <1>1, <2>1 DEF StateInv, PendingInv
    <3>q. QED
      BY <1>4, <2>2, <3>1
  <2>4. WholeInv' /\ PendingInv' /\ PlanInv' /\ ReceiptInv'
    BY <1>1, <2>3 DEF StateInv, WholeInv, PendingInv, PlanInv, ReceiptInv, Underway
  <2>5. EveryJournalRegistered' /\ ReceiptAgreesWithJournal'
    BY <1>1, <1>4 DEF StateInv, EveryJournalRegistered, ReceiptAgreesWithJournal
  <2>q. QED
    BY <2>4, <2>5 DEF StateInv
<1>6. CASE /\ Works
           /\ journal' = [journal EXCEPT ![cur.scope] = Null]
           /\ GoTo("forget")
           /\ UNCHANGED told
  <2>1. pc' = "forget" /\ UNCHANGED <<cur, todo, told, faults>>
    BY <1>6 DEF GoTo, Works
  <2>2. TypeOK' /\ MemoryInv'
    BY <1>1, <1>2, <1>4, <2>1 DEF TypeOK, MemoryInv, Positions
  <2>3. journal'[cur.scope] = Null
    BY <1>1, <1>2, <1>6 DEF TypeOK
  <2>4. CursorInv'
    BY <1>1, <1>2, <2>1, <2>3
       DEF CursorInv, PositionInv, BeginInv, PrepareInv, DecideInv, ClearInv, Recovering,
           Visiting, InWork, Positions, Idle, Deciding
  <2>q. QED
    BY <1>5, <2>2, <2>4 DEF JournalInv
<1>7. CASE Fails /\ Complete
  <2>1. TypeOK' /\ MemoryInv'
    BY <1>1, <1>2, <1>4, <1>7, Completing, JournalAssumption DEF TypeOK, MemoryInv, Fails
  <2>q. QED
    BY <1>1, <1>5, <1>7, <2>1, Completing DEF JournalInv
<1>q. QED
  BY <1>6, <1>7 DEF Clear

LEMMA ForgetStep ==
    ASSUME JournalInv, Forget
    PROVE  JournalInv'
<1>1. /\ pc = "forget" /\ TypeOK /\ StateInv /\ journal[cur.scope] = Null /\ Complete
      /\ UNCHANGED <<journal, content, latest, preview, plans, asked, ended>>
  BY DEF Forget, planVars, JournalInv, CursorInv, ClearInv
<1>2. ~fault /\ stored = disk /\ cur.scope \in Scope
  BY <1>1, Holding, NullIsNoOperation DEF Idle, InWork, Positions, Visiting
<1>3. disk' \in {disk, Forgotten(cur.scope)}
  BY DEF Forget, Save
<1>4. Forgotten(cur.scope) \in Persisted /\ disk' \in Persisted /\ StateInv'
  BY <1>1, <1>2, <1>3, ReceiptForgotten
<1>5. /\ stored' \in Persisted /\ fault' \in BOOLEAN /\ faults' \in 0..MaxFaults
      /\ ~fault' => stored' = disk'
  <2>1. CASE Save(Forgotten(cur.scope))
    BY <1>1, <1>2, <1>4, <2>1 DEF Save, Works, TypeOK
  <2>2. CASE Fails /\ fault' = TRUE /\ UNCHANGED stored
    BY <1>1, <2>2, JournalAssumption DEF Fails, TypeOK
  <2>q. QED
    BY <2>1, <2>2 DEF Forget
<1>6. TypeOK' /\ MemoryInv' /\ CursorInv'
  BY <1>1, <1>4, <1>5, Completing DEF TypeOK, MemoryInv
<1>q. QED
  BY <1>4, <1>6 DEF JournalInv

LEMMA AskStep ==
    ASSUME JournalInv, Ask
    PROVE  JournalInv'
<1>1. /\ UNCHANGED <<disk, stored, fault, journal, content, latest, preview, plans, pc,
                     cur, todo, ended, told, faults>>
  BY DEF Ask, gateVars
<1>2. asked' \in SUBSET Seq(Scope)
  <2>1. PICK list \in RecoveryOrder : asked' = {list}
    BY DEF Ask
  <2>2. Registered \subseteq Scope
    BY DEF Registered
  <2>3. Cardinality(Registered) \in Nat
    BY <2>2, JournalAssumption, FS_Subset, FS_CardinalityType
  <2>4. list \in [1..Cardinality(Registered) -> Scope]
    BY <2>1, <2>2 DEF RecoveryOrder
  <2>5. list \in Seq(Scope)
    BY <2>3, <2>4, SeqDef
  <2>q. QED
    BY <2>1, <2>5
<1>3. TypeOK' /\ MemoryInv' /\ StateInv'
  BY <1>1, <1>2, StateFrame DEF JournalInv, TypeOK, MemoryInv
<1>4. CursorInv'
  BY <1>1, CursorFrame DEF JournalInv
<1>q. QED
  BY <1>3, <1>4 DEF JournalInv

LEMMA RecoverStep ==
    ASSUME JournalInv, Recover
    PROVE  JournalInv'
<1>1. /\ pc = "idle" /\ pc' = "scope" /\ todo' \in asked /\ asked' = {}
      /\ UNCHANGED <<disk, stored, fault, journal, content, latest, preview, plans,
                     cur, ended, told, faults>>
  BY DEF Recover, gateVars
<1>2. TypeOK' /\ MemoryInv' /\ StateInv'
  BY <1>1, StateFrame DEF JournalInv, TypeOK, MemoryInv, Positions, Idle
<1>q. QED
  BY <1>1, <1>2, IdleCursor DEF JournalInv

LEMMA VisitScopeStep ==
    ASSUME JournalInv, VisitScope
    PROVE  JournalInv'
<1> DEFINE then == IF journal[Head(todo)] = Null THEN "orphan" ELSE "open"
<1>1. /\ Recovering /\ pc = "scope" /\ pc' = then
      /\ stored' = disk /\ fault' = FALSE /\ disk' = disk
      /\ UNCHANGED <<cur, todo, journal, content, latest, preview, plans, asked, ended, told, faults>>
  BY DEF VisitScope, Reopen, GoTo, planVars
<1>2. TypeOK' /\ MemoryInv' /\ StateInv'
  BY <1>1, StateFrame DEF JournalInv, TypeOK, MemoryInv, Positions
<1>3. CursorInv'
  BY <1>1 DEF CursorInv, PositionInv, BeginInv, PrepareInv, DecideInv, ClearInv, Recovering,
              Visiting, InWork, Positions, Idle, Deciding
<1>q. QED
  BY <1>2, <1>3 DEF JournalInv

LEMMA FinishOrphanStep ==
    ASSUME JournalInv, FinishOrphan
    PROVE  JournalInv'
<1> DEFINE s == Head(todo)  mark == stored.pending
           next == Finished(mark.op, s, FALSE)
<1>1. /\ pc = "orphan" /\ TypeOK /\ StateInv /\ Recovering /\ journal[s] = Null
      /\ UNCHANGED <<journal, content, latest, preview, plans, asked, told>>
  BY DEF FinishOrphan, planVars, JournalInv, CursorInv, PositionInv, Visiting
<1>2. ~fault /\ stored = disk /\ s \in Scope
  BY <1>1, Holding DEF Idle, Visiting
<1>3. CASE mark = Null /\ GoTo("forgetScope") /\ UNCHANGED <<gateVars, ended, faults>>
  <2>1. /\ pc' = "forgetScope"
        /\ UNCHANGED <<cur, todo, disk, stored, fault, ended, faults>>
    BY <1>3 DEF GoTo, gateVars
  <2>2. TypeOK' /\ MemoryInv' /\ StateInv'
    BY <1>1, <1>2, <2>1, StateFrame DEF TypeOK, MemoryInv, Positions
  <2>3. CursorInv'
    BY <1>1, <2>1
       DEF CursorInv, PositionInv, BeginInv, PrepareInv, DecideInv, ClearInv, Recovering,
           Visiting, InWork, Positions, Idle, Deciding
  <2>q. QED
    BY <2>2, <2>3 DEF JournalInv
<1>4. CASE /\ mark # Null /\ mark.scope = s
           /\ (Save(next) /\ GoTo("forgetScope")) \/ SaveFails(next)
           /\ Ending(mark.op, FALSE)
  <2>1. mark.op \in Version /\ mark.op # 0
    BY <1>1, <1>4, NullIsNoOperation DEF TypeOK, Persisted
  <2>2. content # Torn
    BY <1>1, <1>2, <1>4, <2>1, NullIsNoOperation DEF StateInv, WholeInv, Underway
  <2>3. disk' \in {disk, next}
    BY <1>4 DEF Save, SaveFails
  <2>4. /\ next \in Persisted /\ disk' \in Persisted
        /\ ended' \in [Version -> Outcome] /\ StateInv'
    BY <1>1, <1>2, <1>4, <2>1, <2>2, <2>3, Receipted
  <2> HIDE DEF next
  <2>5. CASE Save(next) /\ GoTo("forgetScope")
    <3>1. /\ disk' = next /\ stored' = next /\ UNCHANGED <<fault, faults>>
          /\ pc' = "forgetScope" /\ UNCHANGED <<cur, todo>>
      BY <2>5 DEF Save, Works, GoTo
    <3>2. TypeOK' /\ MemoryInv'
      BY <1>1, <1>2, <2>4, <3>1 DEF TypeOK, MemoryInv, Positions
    <3>3. CursorInv'
      BY <1>1, <3>1
         DEF CursorInv, PositionInv, BeginInv, PrepareInv, DecideInv, ClearInv, Recovering,
             Visiting, InWork, Positions, Idle, Deciding
    <3>q. QED
      BY <2>4, <3>2, <3>3 DEF JournalInv
  <2>6. CASE SaveFails(next)
    <3>1. TypeOK' /\ MemoryInv' /\ CursorInv'
      BY <1>1, <2>4, <2>6, SaveFailsStep DEF TypeOK
    <3>q. QED
      BY <2>4, <3>1 DEF JournalInv
  <2>q. QED
    BY <1>4, <2>5, <2>6
<1>5. CASE GiveUp /\ UNCHANGED <<gateVars, ended, faults>>
  <2>1. UNCHANGED <<disk, stored, fault, ended, faults>>
    BY <1>5 DEF gateVars
  <2>2. TypeOK' /\ MemoryInv' /\ StateInv'
    BY <1>1, <1>2, <1>5, <2>1, StateFrame DEF TypeOK, MemoryInv, Positions, Idle, GiveUp
  <2>q. QED
    BY <1>5, <2>2, GivenUp DEF JournalInv
<1>q. QED
  BY <1>3, <1>4, <1>5 DEF FinishOrphan

LEMMA ForgetScopeStep ==
    ASSUME JournalInv, ForgetScope
    PROVE  JournalInv'
<1> DEFINE s == Head(todo)
<1>1. /\ pc = "forgetScope" /\ TypeOK /\ StateInv /\ Recovering /\ journal[s] = Null
      /\ UNCHANGED <<journal, content, latest, preview, plans, asked, ended, told>>
  BY DEF ForgetScope, planVars, JournalInv, CursorInv, PositionInv, Visiting
<1>2. ~fault /\ stored = disk /\ s \in Scope /\ Tail(todo) \in Seq(Scope)
  BY <1>1, Holding DEF Idle, Visiting
<1>3. disk' \in {disk, Forgotten(s)}
  BY DEF ForgetScope, Save, SaveFails, gateVars
<1>4. Forgotten(s) \in Persisted /\ disk' \in Persisted /\ StateInv'
  BY <1>1, <1>2, <1>3, ReceiptForgotten
<1>5. CASE /\ stored.receipts[s] # Null => Save(Forgotten(s))
           /\ stored.receipts[s] = Null => UNCHANGED <<gateVars, faults>>
           /\ pc' = "scope" /\ todo' = Tail(todo) /\ UNCHANGED cur
  <2>1. /\ stored' = disk' /\ UNCHANGED <<fault, faults>>
    BY <1>2, <1>5 DEF Save, Works, gateVars
  <2>2. TypeOK' /\ MemoryInv'
    BY <1>1, <1>2, <1>4, <1>5, <2>1 DEF TypeOK, MemoryInv, Positions, Idle
  <2>q. QED
    BY <1>4, <1>5, <2>2, IdleCursor DEF JournalInv
<1>6. CASE SaveFails(Forgotten(s))
  <2>1. TypeOK' /\ MemoryInv' /\ CursorInv'
    BY <1>1, <1>4, <1>6, SaveFailsStep DEF TypeOK
  <2>q. QED
    BY <1>4, <2>1 DEF JournalInv
<1>q. QED
  BY <1>5, <1>6 DEF ForgetScope

(* A journal without a receipt of its own is the pending one.               *)
LEMMA OpenJournalStep ==
    ASSUME JournalInv, OpenJournal
    PROVE  JournalInv'
<1> DEFINE s == Head(todo)
           hand == InHandOf(s)
           then == IF stored.receipts[s].op = journal[s].op THEN "clear" ELSE "mark"
<1>1. /\ pc = "open" /\ TypeOK /\ StateInv /\ Recovering /\ journal[s] # Null
      /\ UNCHANGED <<disk, stored, fault, journal, content, latest, preview, plans, asked,
                     ended, told>>
  BY DEF OpenJournal, gateVars, planVars, JournalInv, CursorInv, PositionInv, Visiting
<1>2. ~fault /\ stored = disk /\ s \in Scope
  BY <1>1, Holding DEF Idle, Visiting
<1>3. StateInv'
  BY <1>1, StateFrame
<1>4. CASE cur' = hand /\ pc' = then /\ UNCHANGED <<todo, faults>>
  <2>1. journal[s] \in Journal /\ journal[s].op \in Version /\ journal[s].op # 0
    BY <1>1, <1>2, NullIsNoOperation DEF TypeOK
  <2>2. /\ hand \in InHand /\ hand # Null
        /\ hand.op = journal[s].op /\ hand.scope = s
        /\ journal[s] = [op |-> hand.op, before |-> hand.before, phase |-> hand.phase]
    BY <1>2, <2>1, NullIsNoOperation DEF Journal, InHand, InHandOf
  <2> HIDE DEF hand
  <2>3. TypeOK' /\ MemoryInv'
    BY <1>1, <1>2, <1>4, <2>2 DEF TypeOK, MemoryInv, Positions
  <2>4. Recovering' /\ cur' # Null
    BY <1>1, <1>4, <2>2 DEF Recovering
  <2>5. CASE disk.receipts[s].op = journal[s].op
    <3>1. disk.pending.op # journal[s].op
      <4>1. ended[journal[s].op] # "open"
        <5>1. disk.receipts[s] # Null
          BY <2>1, <2>5 DEF Null
        <5>q. QED
          BY <1>1, <1>2, <2>5, <5>1 DEF StateInv, ReceiptInv, Verdict
      <4>2. disk.pending.op = journal[s].op => disk.pending # Null
        BY <2>1 DEF Null
      <4>q. QED
        BY <1>1, <4>1, <4>2 DEF StateInv, PendingInv
    <3>2. /\ pc' = "clear" /\ journal'[cur'.scope].op = cur'.op
          /\ disk'.pending.op # cur'.op /\ disk'.receipts[cur'.scope].op = cur'.op
      BY <1>1, <1>2, <1>4, <2>2, <2>5, <3>1
    <3>3. CursorInv'
      BY <2>4, <3>2
         DEF CursorInv, PositionInv, BeginInv, PrepareInv, DecideInv, ClearInv,
             Visiting, InWork, Positions, Idle, Deciding
    <3>q. QED
      BY <1>3, <2>3, <3>3 DEF JournalInv
  <2>6. CASE disk.receipts[s].op # journal[s].op
    <3>1. disk.pending.op = journal[s].op /\ disk.pending.scope = s
      BY <1>1, <1>2, <2>6 DEF StateInv, EveryJournalRegistered
    <3>2. pc' = "mark" /\ Mine' /\ Kept'
      BY <1>1, <1>2, <1>4, <2>2, <2>6, <3>1 DEF Mine, Kept, Entry
    <3>3. CursorInv'
      BY <2>4, <3>2
         DEF CursorInv, PositionInv, BeginInv, PrepareInv, DecideInv, ClearInv,
             Visiting, InWork, Positions, Idle, Deciding
    <3>q. QED
      BY <1>3, <2>3, <3>3 DEF JournalInv
  <2>q. QED
    BY <2>5, <2>6
<1>5. CASE Fails /\ GiveUp
  <2>1. TypeOK' /\ MemoryInv'
    BY <1>1, <1>2, <1>5, JournalAssumption
       DEF TypeOK, MemoryInv, Fails, Positions, Idle, GiveUp
  <2>q. QED
    BY <1>3, <1>5, <2>1, GivenUp DEF JournalInv
<1>q. QED
  BY <1>4, <1>5 DEF OpenJournal

LEMMA EndRecoveryStep ==
    ASSUME JournalInv, EndRecovery
    PROVE  JournalInv'
<1>1. /\ pc = "scope" /\ pc' = "idle" /\ todo = <<>> /\ todo' = <<>>
      /\ disk' = disk
      /\ (stored' = disk /\ fault' = FALSE) \/ UNCHANGED <<stored, fault>>
      /\ UNCHANGED <<journal, content, latest, preview, plans, asked, cur, ended, told, faults>>
  BY DEF EndRecovery, Reopen, Recovering, gateVars, planVars
<1>2. TypeOK' /\ MemoryInv' /\ StateInv'
  BY <1>1, StateFrame DEF JournalInv, TypeOK, MemoryInv, Positions, Idle
<1>q. QED
  BY <1>1, <1>2, IdleCursor DEF JournalInv

(* A crash takes the previews along and nothing that is on disk.            *)
LEMMA CrashStep ==
    ASSUME JournalInv, Crash
    PROVE  JournalInv'
<1>1. /\ stored' = disk /\ fault' = FALSE /\ disk' = disk /\ plans' = {} /\ asked' = {}
      /\ GiveUp /\ Fails
      /\ UNCHANGED <<journal, content, latest, preview, ended, told>>
      /\ TypeOK /\ StateInv
  BY DEF Crash, JournalInv
<1>2. TypeOK' /\ MemoryInv'
  <2>1. /\ pc' = "idle" /\ pc' \in Positions /\ cur' = Null /\ todo' \in Seq(Scope)
        /\ faults' \in 0..MaxFaults /\ plans' \in SUBSET Version
    BY <1>1, JournalAssumption DEF TypeOK, Fails, GiveUp, Positions, Idle
  <2>q. QED
    BY <1>1, <2>1 DEF TypeOK, MemoryInv, Idle
<1>3. StateInv'
  BY <1>1
     DEF StateInv, WholeInv, PendingInv, PlanInv, ReceiptInv, Underway,
         EveryJournalRegistered, ReceiptAgreesWithJournal
<1>q. QED
  BY <1>1, <1>2, <1>3, GivenUp DEF JournalInv

LEMMA StutteringStep ==
    ASSUME JournalInv, UNCHANGED vars
    PROVE  JournalInv'
<1>1. UNCHANGED <<disk, stored, fault, journal, content, latest, preview, plans, asked,
                  pc, cur, todo, ended, told, faults>>
  BY DEF vars
<1>2. TypeOK' /\ MemoryInv' /\ StateInv'
  BY <1>1, StateFrame DEF JournalInv, TypeOK, MemoryInv
<1>3. CursorInv'
  BY <1>1, CursorFrame DEF JournalInv
<1>q. QED
  BY <1>2, <1>3 DEF JournalInv

LEMMA EveryStep ==
    ASSUME JournalInv, [Next]_vars
    PROVE  JournalInv'
<1>1. CASE Edit \/ (\E s \in Scope : Preview(s)) \/ (\E o \in Version : Apply(o))
  BY <1>1, EditStep, PreviewStep, ApplyStep
<1>2. CASE RestoreStep
  BY <1>2, MarkPendingStep, SavePreparedStep, MarkReadyStep, ReplaceStep, UndoStep,
     SaveRolledBackStep, SaveCommittedStep, FinishStep, ClearStep, ForgetStep
     DEF RestoreStep
<1>3. CASE Ask \/ Recover \/ RecoveryStep
  BY <1>3, AskStep, RecoverStep, VisitScopeStep, FinishOrphanStep, ForgetScopeStep, OpenJournalStep,
     ReplayStep, EndRecoveryStep DEF RecoveryStep
<1>4. CASE Crash
  BY <1>4, CrashStep
<1>5. CASE UNCHANGED vars
  BY <1>5, StutteringStep
<1>q. QED
  BY <1>1, <1>2, <1>3, <1>4, <1>5 DEF Next

----------------------------------------------------------------------------
(* In every behaviour of a restore journal the invariant holds: the files,  *)
(* receipts and markers tell any later process how each restore stands.     *)
THEOREM JournalInvariant == Spec => []JournalInv
<1>1. Init => JournalInv
  BY Initially
<1>2. JournalInv /\ [Next]_vars => JournalInv'
  BY EveryStep
<1>q. QED
  BY <1>1, <1>2, PTL DEF Spec

(* Type correctness, for any scopes and bounds.                             *)
THEOREM TypeCorrect == Spec => []TypeOK
<1>1. JournalInv => TypeOK
  BY DEF JournalInv
<1>q. QED
  BY <1>1, JournalInvariant, PTL

(* No journal is left behind where recovery, which visits registered scopes *)
(* only, would not find it, and no receipt excuses a journal that was       *)
(* decided the other way.                                                   *)
THEOREM JournalsAreFound == Spec => []JournalsAccountedFor
<1>1. JournalInv => JournalsAccountedFor
  BY DEF JournalInv, StateInv, JournalsAccountedFor
<1>q. QED
  BY <1>1, JournalInvariant, PTL

(* Edits and previews never meet half replaced data or a stale gate.        *)
THEOREM OrdinaryWorkSeesWholeData == Spec => []FreeMeansWhole
<1>1. JournalInv => FreeMeansWhole
  BY WhenFree DEF FreeMeansWhole, Torn
<1>q. QED
  BY <1>1, JournalInvariant, PTL

----------------------------------------------------------------------------
(* The refinement. What the abstract specification sees of a state, and     *)
(* what a step that leaves it alone must leave alone.                       *)
Seen == <<Data, latest, Counted, preview, [o \in Version |-> FateOf(o)], told>>

LEMMA SeenOnly ==
    ASSUME UNCHANGED Seen
    PROVE  UNCHANGED Abstract!abstractVars
<1>1. /\ UNCHANGED <<Data, latest, Counted, preview, told>>
      /\ [o \in Version |-> FateOf(o)]' = [o \in Version |-> FateOf(o)]
  BY DEF Seen
<1>2. [o \in Version |-> BaseOf(o)]' = [o \in Version |-> BaseOf(o)]
  BY <1>1 DEF BaseOf
<1>q. QED
  BY <1>1, <1>2 DEF Abstract!abstractVars

(* Files other than the pending journal and its marker do not matter, nor   *)
(* does the data while the pending journal says what it is.                 *)
LEMMA DecisionFrame ==
    ASSUME disk'.generation = disk.generation,
           disk'.pending = Null <=> disk.pending = Null,
           disk.pending # Null =>
               /\ disk'.pending.op = disk.pending.op
               /\ disk'.pending.scope = disk.pending.scope
               /\ journal'[disk.pending.scope] = journal[disk.pending.scope],
           ~Underway => content' = content,
           UNCHANGED ended
    PROVE  /\ Data' = Data /\ Counted' = Counted
           /\ [o \in Version |-> FateOf(o)]' = [o \in Version |-> FateOf(o)]
<1>1. /\ Underway' <=> Underway
      /\ Decided' <=> Decided
  BY DEF Underway, Decided
<1>2. Data' = Data /\ Counted' = Counted
  BY <1>1 DEF Data, Counted, Underway, Decided
<1>3. \A o \in Version : FateOf(o)' = FateOf(o)
  BY <1>1 DEF FateOf, Underway, Decided
<1>q. QED
  BY <1>2, <1>3

LEMMA RefinedInit == Init => Abstract!Init
<1> SUFFICES ASSUME Init PROVE Abstract!Init
  OBVIOUS
<1>1. ~Underway /\ ~Decided
  BY DEF Init, Underway, Decided
<1>2. /\ Data = 0 /\ Counted = 0 /\ latest = 0
      /\ \A o \in Version : BaseOf(o) = -1 /\ FateOf(o) = "open"
  BY <1>1 DEF Init, Data, Counted, BaseOf, FateOf
<1>q. QED
  BY <1>1, <1>2 DEF Init, Abstract!Init, Abstract!Version, Version, Abstract!Unplanned

LEMMA RefinedEdit ==
    ASSUME JournalInv, Edit
    PROVE  Abstract!Next
<1>1. /\ disk.pending = Null /\ disk'.pending = Null
      /\ disk'.generation = disk.generation + 1
      /\ latest' = latest + 1 /\ content' = latest'
      /\ UNCHANGED <<preview, ended, told>>
  BY WhenFree, SavedRecords DEF Edit, Save, JournalInv, TypeOK
<1>2. ~Underway /\ ~Decided /\ ~Underway' /\ ~Decided'
  BY <1>1 DEF Underway, Decided
<1>3. /\ Data' = latest' /\ Counted' = Counted + 1
      /\ \A o \in Version : BaseOf(o)' = BaseOf(o) /\ FateOf(o)' = FateOf(o)
  BY <1>1, <1>2 DEF Data, Counted, BaseOf, FateOf
<1>4. Abstract!Edit
  BY <1>1, <1>3 DEF Abstract!Edit
<1>q. QED
  BY <1>4 DEF Abstract!Next

LEMMA RefinedPreview ==
    ASSUME JournalInv, NEW s \in Scope, Preview(s)
    PROVE  Abstract!Next
<1>1. latest + 1 \in Version
  BY JournalAssumption DEF Preview, JournalInv, TypeOK, Version
<1>2. PICK o \in Version : o = latest + 1
  BY <1>1
<1>3. /\ disk.pending = Null /\ stored = disk /\ latest' = o
      /\ preview' = [preview EXCEPT ![o] =
                       [op |-> o, scope |-> s, generation |-> stored.generation]]
      /\ UNCHANGED <<disk, journal, content, ended, told>>
  BY <1>2, WhenFree DEF Preview, gateVars
<1>4. /\ Data' = Data /\ Counted' = Counted
      /\ [p \in Version |-> FateOf(p)]' = [p \in Version |-> FateOf(p)]
  BY <1>3, DecisionFrame
<1>5. Counted = disk.generation
  BY <1>3 DEF Counted, Decided, Underway
<1>6. /\ preview'[o] # Null /\ preview'[o].generation = disk.generation
      /\ \A p \in Version : p # o => preview'[p] = preview[p]
  <2>1. [op |-> o, scope |-> s, generation |-> stored.generation] # Null
    BY <1>2 DEF Null, Version
  <2>q. QED
    BY <1>3, <2>1 DEF JournalInv, TypeOK
<1>7. /\ BaseOf(o)' = Counted
      /\ \A p \in Version : p # o => BaseOf(p)' = BaseOf(p)
  BY <1>5, <1>6 DEF BaseOf
<1>8. [p \in Version |-> BaseOf(p)]' = [[p \in Version |-> BaseOf(p)] EXCEPT ![o] = Counted]
  BY <1>7
<1>9. Abstract!Preview(o)
  BY <1>2, <1>3, <1>4, <1>8 DEF Abstract!Preview
<1>q. QED
  BY <1>9 DEF Abstract!Next, Abstract!Version, Version

(* Writing the journal changes nothing visible before it says committed.    *)
LEMMA RefinedJournal ==
    ASSUME JournalInv, NEW phase \in {"prepared", "rolledBack"}, NEW next,
           pc \in InWork, Mine, SaveJournal(phase, next),
           Underway => /\ journal[cur.scope].phase # "committed"
                       /\ journal[cur.scope].before = cur.before,
           ~Underway => content = cur.before,
           UNCHANGED <<gateVars, content, planVars, ended, told>>
    PROVE  UNCHANGED Seen
<1>1. /\ cur \in InHand /\ cur.scope \in Scope /\ cur.op # 0 /\ cur # Null
      /\ disk.pending.op = cur.op /\ disk.pending.scope = cur.scope
      /\ disk.pending # Null
      /\ UNCHANGED <<disk, content, latest, preview, ended, told>>
  BY Holding, NullIsNoOperation DEF InWork, Mine, gateVars, planVars
<1>2. \/ journal' = journal
      \/ /\ journal'[cur.scope].op = cur.op
         /\ journal'[cur.scope].before = cur.before
         /\ journal'[cur.scope].phase # "committed"
  BY <1>1 DEF SaveJournal, Entry, JournalInv, TypeOK
<1>3. ~Decided /\ ~Decided'
  BY <1>1, <1>2 DEF Decided, Underway
<1>4. Data' = Data
  BY <1>1, <1>2, <1>3 DEF Data, Underway
<1>5. Counted' = Counted /\ \A o \in Version : FateOf(o)' = FateOf(o)
  BY <1>1, <1>3 DEF Counted, FateOf
<1>q. QED
  BY <1>1, <1>4, <1>5 DEF Seen

LEMMA RefinedSavePrepared ==
    ASSUME JournalInv, SavePrepared
    PROVE  UNCHANGED Seen
<1>1. /\ pc = "prepare" /\ Mine /\ journal[cur.scope] = Null /\ cur.before = content
  BY DEF SavePrepared, JournalInv, CursorInv, PrepareInv
<1>2. cur.op # 0
  BY <1>1, Holding, NullIsNoOperation DEF Idle, InWork, Positions, Visiting
<1>3. ~Underway
  BY <1>1, <1>2, NullIsNoOperation DEF Underway, Mine
<1>q. QED
  BY <1>1, <1>3, RefinedJournal DEF SavePrepared, InWork, Positions, Idle, Visiting

LEMMA RefinedSaveRolledBack ==
    ASSUME JournalInv, SaveRolledBack
    PROVE  UNCHANGED Seen
<1>1. /\ pc = "refuse" /\ Mine /\ Kept /\ cur.phase # "committed"
      /\ content = cur.before
  BY DEF SaveRolledBack, JournalInv, CursorInv, DecideInv, Deciding
<1>2. journal[cur.scope].phase # "committed" /\ journal[cur.scope].before = cur.before
  BY <1>1 DEF Kept, Entry
<1>q. QED
  BY <1>1, <1>2, RefinedJournal DEF SaveRolledBack, InWork, Positions, Idle, Visiting

(* The commit point: the journal's committed phase reaches the disk.        *)
LEMMA RefinedSaveCommitted ==
    ASSUME JournalInv, SaveCommitted
    PROVE  Abstract!Next \/ UNCHANGED Seen
<1>1. /\ pc = "decide" /\ Mine /\ Kept /\ cur.phase = "prepared"
      /\ UNCHANGED <<disk, content, latest, preview, ended, told>>
      /\ TypeOK /\ StateInv
  BY DEF SaveCommitted, JournalInv, CursorInv, DecideInv, Deciding, gateVars, planVars
<1>2. /\ cur \in InHand /\ cur.scope \in Scope /\ cur.op \in Version /\ cur.op # 0
      /\ disk.pending.op = cur.op /\ disk.pending.scope = cur.scope
      /\ disk.pending # Null
  BY <1>1, Holding, NullIsNoOperation DEF Idle, InWork, Positions, Visiting, Mine
<1>3. /\ ended[cur.op] = "open" /\ preview[cur.op] # Null
      /\ preview[cur.op].generation = disk.generation
  BY <1>1, <1>2 DEF StateInv, PendingInv
<1>4. ~Decided
  BY <1>1, <1>2 DEF Decided, Kept, Entry
<1>5. CASE journal' = journal
  <2>1. /\ Data' = Data /\ Counted' = Counted
        /\ [o \in Version |-> FateOf(o)]' = [o \in Version |-> FateOf(o)]
    BY <1>1, <1>5, DecisionFrame
  <2>q. QED
    BY <1>1, <2>1 DEF Seen
<1>6. CASE journal' = [journal EXCEPT ![cur.scope] = Entry("committed")]
  <2>1. /\ journal'[cur.scope].op = cur.op /\ journal'[cur.scope].phase = "committed"
    BY <1>1, <1>2, <1>6 DEF Entry, TypeOK
  <2>2. Decided'
    BY <1>1, <1>2, <2>1 DEF Decided, Underway
  <2>3. Data' = cur.op /\ Counted' = Counted + 1 /\ Counted = disk.generation
    BY <1>1, <1>2, <1>4, <2>2 DEF Data, Counted
  <2>4. PICK o \in Version : o = cur.op
    BY <1>2
  <2>5. /\ FateOf(o) = "open" /\ FateOf(o)' = "committed" /\ BaseOf(o) = Counted
        /\ \A p \in Version : p # o => FateOf(p)' = FateOf(p)
    BY <1>1, <1>2, <1>3, <1>4, <2>2, <2>3, <2>4 DEF FateOf, BaseOf
  <2>6. /\ [p \in Version |-> FateOf(p)]' =
             [[p \in Version |-> FateOf(p)] EXCEPT ![o] = "committed"]
        /\ [p \in Version |-> BaseOf(p)]' = [p \in Version |-> BaseOf(p)]
    BY <1>1, <2>5 DEF BaseOf
  <2>7. Abstract!Commit(o)
    BY <1>1, <2>3, <2>4, <2>5, <2>6 DEF Abstract!Commit
  <2>q. QED
    BY <2>7 DEF Abstract!Next, Abstract!Version, Version
<1>q. QED
  BY <1>5, <1>6 DEF SaveCommitted, SaveJournal

(* A receipt for what was already decided is not seen; one that refuses the *)
(* restore is the abstract roll back.                                       *)
LEMMA RefinedEnding ==
    ASSUME JournalInv, JournalInv', stored = disk,
           NEW o \in Version, o = disk.pending.op,
           NEW s \in Scope, s = disk.pending.scope,
           NEW c \in BOOLEAN, c <=> Decided,
           content = Data,
           disk' \in {disk, Finished(o, s, c)}, Ending(o, c),
           UNCHANGED <<journal, content, latest, preview, plans, told>>
    PROVE  Abstract!Next \/ UNCHANGED Seen
<1>1. /\ disk.pending # Null /\ TypeOK /\ StateInv /\ o # 0
  BY DEF JournalInv, Null, Version
<1>2. /\ ended[o] = "open"
  BY <1>1 DEF StateInv, PendingInv
<1>3. CASE disk' = disk
  <2>1. ended' = ended
    BY <1>1, <1>3 DEF Ending
  <2>2. /\ Data' = Data /\ Counted' = Counted
        /\ [p \in Version |-> FateOf(p)]' = [p \in Version |-> FateOf(p)]
    BY <1>3, <2>1, DecisionFrame
  <2>q. QED
    BY <2>2 DEF Seen
<1>4. CASE disk' = Finished(o, s, c)
  <2>1. /\ disk'.pending = Null
        /\ disk'.generation = IF c THEN disk.generation + 1 ELSE disk.generation
    <3>1. /\ Finished(o, s, c).pending = Null
          /\ Finished(o, s, c).generation =
               IF c THEN stored.generation + 1 ELSE stored.generation
      BY DEF Finished
    <3>q. QED
      BY <1>4, <3>1
  <2>2. ended' = [ended EXCEPT ![o] = Verdict(c)]
    BY <2>1 DEF Ending
  <2>3. /\ ended'[o] = Verdict(c)
        /\ \A p \in Version : p # o => ended'[p] = ended[p]
    BY <1>1, <2>2 DEF TypeOK
  <2>4. ~Underway' /\ ~Decided'
    BY <2>1 DEF Underway, Decided
  <2>5. Data' = Data /\ Counted' = Counted
    BY <2>1, <2>4 DEF Data, Counted
  <2>6. \A p \in Version : p # o => FateOf(p)' = FateOf(p)
    BY <2>3, <2>4 DEF FateOf
  <2>7. FateOf(o)' = Verdict(c)
    BY <2>3, <2>4 DEF FateOf
  <2>8. CASE c
    <3>1. FateOf(o) = Verdict(c)
      BY <1>2, <2>8 DEF FateOf, Verdict
    <3>q. QED
      BY <2>5, <2>6, <2>7, <3>1 DEF Seen
  <2>9. CASE ~c
    <3>1. FateOf(o) = "open" /\ FateOf(o)' = "rolledBack"
      BY <1>2, <2>7, <2>9 DEF FateOf, Verdict
    <3>2. /\ [p \in Version |-> FateOf(p)]' =
               [[p \in Version |-> FateOf(p)] EXCEPT ![o] = "rolledBack"]
          /\ [p \in Version |-> BaseOf(p)]' = [p \in Version |-> BaseOf(p)]
      BY <2>6, <3>1 DEF BaseOf
    <3>3. Abstract!RollBack(o)
      BY <2>5, <3>1, <3>2 DEF Abstract!RollBack
    <3>q. QED
      BY <3>3 DEF Abstract!Next, Abstract!Version, Version
  <2>q. QED
    BY <2>8, <2>9
<1>q. QED
  BY <1>3, <1>4

LEMMA RefinedFinish ==
    ASSUME JournalInv, JournalInv', Finish
    PROVE  Abstract!Next \/ UNCHANGED Seen
<1> DEFINE c == cur.phase = "committed"
<1>1. /\ pc = "finish" /\ Mine /\ Kept
      /\ content = IF c THEN cur.op ELSE cur.before
      /\ disk' \in {disk, Finished(cur.op, cur.scope, c)} /\ Ending(cur.op, c)
      /\ UNCHANGED <<journal, content, latest, preview, plans, asked, told>>
  BY DEF Finish, Save, SaveFails, planVars, JournalInv, CursorInv, DecideInv, Deciding
<1>2. /\ stored = disk /\ cur \in InHand
      /\ cur.op \in Version /\ cur.op # 0 /\ cur.scope \in Scope
      /\ disk.pending.op = cur.op /\ disk.pending.scope = cur.scope
      /\ disk.pending # Null
  BY <1>1, Holding, NullIsNoOperation DEF Idle, InWork, Positions, Visiting, Mine
<1>3. Underway /\ (c <=> Decided) /\ content = Data
  BY <1>1, <1>2 DEF Underway, Decided, Data, Kept, Entry
<1>q. QED
  BY <1>1, <1>2, <1>3, RefinedEnding

LEMMA RefinedFinishOrphan ==
    ASSUME JournalInv, JournalInv', FinishOrphan
    PROVE  Abstract!Next \/ UNCHANGED Seen
<1> DEFINE s == Head(todo)  mark == stored.pending
<1>1. /\ pc = "orphan" /\ journal[s] = Null
      /\ UNCHANGED <<journal, content, latest, preview, plans, asked, told>>
  BY DEF FinishOrphan, planVars, JournalInv, CursorInv, PositionInv
<1>2. stored = disk /\ s \in Scope
  BY <1>1, Holding DEF Idle, Visiting
<1>3. CASE UNCHANGED <<gateVars, ended>>
  <2>1. /\ Data' = Data /\ Counted' = Counted
        /\ [o \in Version |-> FateOf(o)]' = [o \in Version |-> FateOf(o)]
    BY <1>1, <1>3, DecisionFrame DEF gateVars
  <2>q. QED
    BY <1>1, <2>1 DEF Seen
<1>4. CASE /\ mark # Null /\ mark.scope = s
           /\ disk' \in {disk, Finished(mark.op, s, FALSE)}
           /\ Ending(mark.op, FALSE)
  <2>1. mark.op \in Version /\ mark.op # 0
    BY <1>4, NullIsNoOperation DEF JournalInv, TypeOK, Persisted
  <2>2. ~Underway /\ ~Decided
    BY <1>1, <1>2, <1>4, <2>1, NullIsNoOperation DEF Underway, Decided
  <2>3. content = Data
    BY <2>2 DEF Data
  <2>q. QED
    BY <1>1, <1>2, <1>4, <2>1, <2>2, <2>3, RefinedEnding
<1>q. QED
  BY <1>3, <1>4 DEF FinishOrphan, Save, SaveFails

(* Clearing up is where the caller is told; otherwise nobody sees it.       *)
LEMMA RefinedTelling ==
    ASSUME JournalInv, pc \in {"clear", "forget"}, Complete \/ UNCHANGED told,
           Data' = Data, Counted' = Counted,
           [o \in Version |-> FateOf(o)]' = [o \in Version |-> FateOf(o)],
           UNCHANGED <<latest, preview>>
    PROVE  Abstract!Next \/ UNCHANGED Seen
<1>1. CASE UNCHANGED told
  BY <1>1 DEF Seen
<1>2. CASE ~Recovering /\ told' = [told EXCEPT ![cur.op] = Verdict(cur.phase = "committed")]
  <2>1. cur.op \in Version
    BY Holding, NullIsNoOperation DEF Idle, InWork, Positions, Visiting
  <2>2. ended[cur.op] = Verdict(cur.phase = "committed")
    BY <1>2 DEF JournalInv, CursorInv, ClearInv
  <2>3. PICK o \in Version : o = cur.op
    BY <2>1
  <2>4. FateOf(o) = Verdict(cur.phase = "committed") /\ FateOf(o) # "open"
    BY <2>2, <2>3 DEF FateOf, Verdict
  <2>5. [p \in Version |-> BaseOf(p)]' = [p \in Version |-> BaseOf(p)]
    BY DEF BaseOf
  <2>6. Abstract!Tell(o)
    BY <1>2, <2>3, <2>4, <2>5 DEF Abstract!Tell
  <2>q. QED
    BY <2>6 DEF Abstract!Next, Abstract!Version, Version
<1>q. QED
  BY <1>1, <1>2 DEF Complete

LEMMA RefinedClear ==
    ASSUME JournalInv, Clear
    PROVE  Abstract!Next \/ UNCHANGED Seen
<1>1. /\ pc = "clear" /\ journal[cur.scope].op = cur.op /\ disk.pending.op # cur.op
      /\ UNCHANGED <<disk, content, latest, preview, ended>>
      /\ journal' \in {journal, [journal EXCEPT ![cur.scope] = Null]}
      /\ Complete \/ UNCHANGED told
  BY DEF Clear, gateVars, planVars, JournalInv, CursorInv, ClearInv
<1>2. disk.pending # Null => journal'[disk.pending.scope] = journal[disk.pending.scope]
  <2>1. cur.op # 0 /\ cur.scope \in Scope
    BY <1>1, Holding, NullIsNoOperation DEF Idle, InWork, Positions, Visiting
  <2>2. disk.pending # Null => disk.pending.scope # cur.scope /\ disk.pending.scope \in Scope
    BY <1>1, <2>1, NullIsNoOperation
       DEF JournalInv, StateInv, PendingInv, TypeOK, Persisted, Null
  <2>q. QED
    BY <1>1, <2>2 DEF JournalInv, TypeOK
<1>3. /\ Data' = Data /\ Counted' = Counted
      /\ [o \in Version |-> FateOf(o)]' = [o \in Version |-> FateOf(o)]
  BY <1>1, <1>2, DecisionFrame
<1>q. QED
  BY <1>1, <1>3, RefinedTelling

(* Only a receipt goes.                                                     *)
LEMMA ForgottenUnseen ==
    ASSUME NEW s, TypeOK, stored = disk, disk' \in {disk, Forgotten(s)},
           UNCHANGED <<journal, content, ended>>
    PROVE  /\ Data' = Data /\ Counted' = Counted
           /\ [o \in Version |-> FateOf(o)]' = [o \in Version |-> FateOf(o)]
<1>1. disk'.generation = disk.generation /\ disk'.pending = disk.pending
  BY DEF TypeOK, Persisted, Forgotten
<1>q. QED
  BY <1>1, DecisionFrame

LEMMA RefinedForget ==
    ASSUME JournalInv, Forget
    PROVE  Abstract!Next \/ UNCHANGED Seen
<1>1. /\ pc = "forget" /\ disk' \in {disk, Forgotten(cur.scope)} /\ Complete
      /\ UNCHANGED <<journal, content, latest, preview, ended>> /\ TypeOK
  BY DEF Forget, Save, planVars, JournalInv
<1>2. stored = disk
  BY <1>1, Holding DEF Idle
<1>q. QED
  BY <1>1, <1>2, ForgottenUnseen, RefinedTelling

LEMMA RefinedForgetScope ==
    ASSUME JournalInv, ForgetScope
    PROVE  UNCHANGED Seen
<1>1. /\ pc = "forgetScope" /\ disk' \in {disk, Forgotten(Head(todo))}
      /\ UNCHANGED <<journal, content, latest, preview, ended, told>> /\ TypeOK
  BY DEF ForgetScope, Save, SaveFails, gateVars, planVars, JournalInv
<1>2. stored = disk
  BY <1>1, Holding DEF Idle
<1>3. /\ Data' = Data /\ Counted' = Counted
      /\ [o \in Version |-> FateOf(o)]' = [o \in Version |-> FateOf(o)]
  BY <1>1, <1>2, ForgottenUnseen
<1>q. QED
  BY <1>1, <1>3 DEF Seen

(* The marker alone decides nothing.                                        *)
LEMMA RefinedMarking ==
    ASSUME JournalInv, MarkPending \/ MarkReady
    PROVE  UNCHANGED Seen
<1>1. /\ pc \in {"mark", "ready"}
      /\ UNCHANGED <<journal, content, latest, preview, ended, told>>
      /\ TypeOK /\ StateInv
  BY DEF MarkPending, MarkReady, planVars, JournalInv
<1>2. /\ stored = disk /\ cur \in InHand
      /\ cur.op \in Version /\ cur.op # 0 /\ cur.scope \in Scope
  BY <1>1, Holding, NullIsNoOperation DEF Idle, InWork, Positions, Visiting
<1>3. ASSUME NEW r \in BOOLEAN
      PROVE  /\ Marked(r).generation = disk.generation
             /\ Marked(r).pending.op = cur.op /\ Marked(r).pending.scope = cur.scope
             /\ Marked(r).pending # Null
  <2>1. /\ Marked(r).generation = stored.generation
        /\ Marked(r).pending = [op |-> cur.op, scope |-> cur.scope, ready |-> r]
    BY <1>1, <1>2 DEF TypeOK, Persisted, Marked
  <2>q. QED
    BY <1>2, <2>1 DEF Null
<1>4. CASE disk.pending # Null
  <2>1. disk' = disk \/ (MarkReady /\ disk' = Marked(TRUE))
    BY <1>2, <1>4, NullIsNoOperation
       DEF MarkPending, MarkReady, Save, SaveFails, gateVars, Null
  <2>2. CASE disk' = disk
    <3>1. /\ Data' = Data /\ Counted' = Counted
          /\ [o \in Version |-> FateOf(o)]' = [o \in Version |-> FateOf(o)]
      BY <1>1, <2>2, DecisionFrame
    <3>q. QED
      BY <1>1, <3>1 DEF Seen
  <2>3. CASE MarkReady /\ disk' = Marked(TRUE)
    <3>1. Mine
      BY <2>3 DEF MarkReady, JournalInv, CursorInv, DecideInv, Deciding
    <3>2. /\ disk'.generation = disk.generation
          /\ disk'.pending # Null
          /\ disk'.pending.op = disk.pending.op
          /\ disk'.pending.scope = disk.pending.scope
      BY <1>3, <2>3, <3>1 DEF Mine
    <3>3. /\ Data' = Data /\ Counted' = Counted
          /\ [o \in Version |-> FateOf(o)]' = [o \in Version |-> FateOf(o)]
      BY <1>1, <1>4, <3>2, DecisionFrame
    <3>q. QED
      BY <1>1, <3>3 DEF Seen
  <2>q. QED
    BY <2>1, <2>2, <2>3
<1>5. CASE disk.pending = Null
  <2>1. pc = "mark" /\ ~Recovering
    BY <1>1, <1>2, <1>5, NullIsNoOperation
       DEF JournalInv, CursorInv, DecideInv, Deciding, Mine
  <2>2. journal[cur.scope] = Null
    BY <2>1 DEF JournalInv, CursorInv, BeginInv
  <2>3. disk' \in {disk, Marked(FALSE)}
    BY <1>2, <2>1 DEF MarkPending, MarkReady, Save, SaveFails, gateVars
  <2>4. disk'.generation = disk.generation
    BY <1>3, <2>3
  <2>5. ~Underway /\ ~Underway' /\ ~Decided /\ ~Decided'
    BY <1>1, <1>2, <1>3, <1>5, <2>2, <2>3, NullIsNoOperation DEF Underway, Decided
  <2>6. Data' = Data /\ Counted' = Counted /\ \A o \in Version : FateOf(o)' = FateOf(o)
    BY <1>1, <2>4, <2>5 DEF Data, Counted, FateOf
  <2>q. QED
    BY <1>1, <2>6 DEF Seen
<1>q. QED
  BY <1>4, <1>5

(* While the pending journal says what the data is, the files do not.       *)
LEMMA RefinedReplacing ==
    ASSUME JournalInv, Replace \/ Undo \/ Replay
    PROVE  UNCHANGED Seen
<1>1. /\ pc \in {"replace", "undo", "replay"} /\ Mine /\ Kept
      /\ UNCHANGED <<disk, journal, latest, preview, ended, told>>
  BY DEF Replace, Undo, Replay, gateVars, planVars, JournalInv, CursorInv, DecideInv, Deciding
<1>2. cur.op # 0
  BY <1>1, Holding, NullIsNoOperation DEF Idle, InWork, Positions, Visiting
<1>3. Underway
  BY <1>1, <1>2 DEF Mine, Kept, Entry, Underway, Null
<1>4. /\ Data' = Data /\ Counted' = Counted
      /\ [o \in Version |-> FateOf(o)]' = [o \in Version |-> FateOf(o)]
  BY <1>1, <1>3, DecisionFrame
<1>q. QED
  BY <1>1, <1>4 DEF Seen

(* Steps that change no file.                                               *)
LEMMA RefinedQuiet ==
    ASSUME \/ \E o \in Version : Apply(o)
           \/ Ask \/ Recover \/ VisitScope \/ OpenJournal \/ EndRecovery \/ Crash
           \/ UNCHANGED vars
    PROVE  UNCHANGED Seen
<1>1. UNCHANGED <<disk, journal, content, latest, preview, ended, told>>
  BY DEF Apply, Begin, Ask, Recover, VisitScope, OpenJournal, EndRecovery, Crash, Reopen,
         gateVars, planVars, vars
<1>2. /\ Data' = Data /\ Counted' = Counted
      /\ [o \in Version |-> FateOf(o)]' = [o \in Version |-> FateOf(o)]
  BY <1>1, DecisionFrame
<1>q. QED
  BY <1>1, <1>2 DEF Seen

LEMMA RefinedStep ==
    ASSUME JournalInv, JournalInv', [Next]_vars
    PROVE  Abstract!Next \/ UNCHANGED Abstract!abstractVars
<1>1. CASE Edit \/ \E s \in Scope : Preview(s)
  BY <1>1, RefinedEdit, RefinedPreview
<1>2. CASE RestoreStep
  BY <1>2, RefinedMarking, RefinedSavePrepared, RefinedReplacing, RefinedSaveRolledBack,
     RefinedSaveCommitted, RefinedFinish, RefinedClear, RefinedForget, SeenOnly
     DEF RestoreStep
<1>3. CASE FinishOrphan \/ ForgetScope \/ Replay
  BY <1>3, RefinedFinishOrphan, RefinedForgetScope, RefinedReplacing, SeenOnly
<1>4. CASE \/ \E o \in Version : Apply(o)
           \/ Ask \/ Recover \/ VisitScope \/ OpenJournal \/ EndRecovery \/ Crash
           \/ UNCHANGED vars
  BY <1>4, RefinedQuiet, SeenOnly
<1>q. QED
  BY <1>1, <1>2, <1>3, <1>4 DEF Next, RecoveryStep

(* Whatever fails and whenever the process dies, a restore happens entirely *)
(* or not at all, once, over the data its preview showed, and its caller is *)
(* told how it ended.                                                       *)
THEOREM RestoresAreAtomic == Spec => ImplementsAtomicRestore
<1>1. Init => Abstract!Init
  BY RefinedInit
<1>2. JournalInv /\ JournalInv' /\ [Next]_vars => [Abstract!Next]_(Abstract!abstractVars)
  BY RefinedStep
<1>q. QED
  BY <1>1, <1>2, JournalInvariant, PTL DEF Spec, ImplementsAtomicRestore, Abstract!Spec
=============================================================================
