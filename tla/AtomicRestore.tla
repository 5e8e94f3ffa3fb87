--------------------------- MODULE AtomicRestore ---------------------------
(***************************************************************************)
(* What an encrypted restore promises, without its journal: the whole      *)
(* image replaces the synchronised data in one step or not at all, only    *)
(* over the data its preview was made of, and whoever asked for it hears   *)
(* nothing but the truth. Crashes and recoveries are not visible here.     *)
(*                                                                         *)
(* Versions of the data are numbers in the order they came up; a restore   *)
(* takes one when it is previewed, which names its image and itself.       *)
(***************************************************************************)
EXTENDS Integers

CONSTANT MaxVersion   \* bound on the versions

VARIABLES
    data,        \* version of the synchronised data
    latest,      \* last version that came up
    generation,  \* the counter that tells versions of the data apart
    base,        \* generation each restore was previewed at, or Unplanned
    fate,        \* what became of each restore
    told         \* what its caller was told

abstractVars == <<data, latest, generation, base, fate, told>>

Version   == 1..MaxVersion
Unplanned == -1
Fate      == {"open", "committed", "rolledBack"}

Init ==
    /\ data = 0 /\ latest = 0 /\ generation = 0
    /\ base = [o \in Version |-> Unplanned]
    /\ fate = [o \in Version |-> "open"]
    /\ told = [o \in Version |-> "open"]

(* A user changes the data.                                                 *)
Edit ==
    /\ latest' = latest + 1
    /\ data' = latest'
    /\ generation' = generation + 1
    /\ UNCHANGED <<base, fate, told>>

Preview(o) ==
    /\ latest' = latest + 1
    /\ o = latest'
    /\ base' = [base EXCEPT ![o] = generation]
    /\ UNCHANGED <<data, generation, fate, told>>

Commit(o) ==
    /\ fate[o] = "open"
    /\ base[o] = generation
    /\ data' = o
    /\ generation' = generation + 1
    /\ fate' = [fate EXCEPT ![o] = "committed"]
    /\ UNCHANGED <<latest, base, told>>

RollBack(o) ==
    /\ fate[o] = "open"
    /\ fate' = [fate EXCEPT ![o] = "rolledBack"]
    /\ UNCHANGED <<data, latest, generation, base, told>>

Tell(o) ==
    /\ fate[o] # "open"
    /\ told' = [told EXCEPT ![o] = fate[o]]
    /\ UNCHANGED <<data, latest, generation, base, fate>>

Next ==
    \/ Edit
    \/ \E o \in Version : Preview(o) \/ Commit(o) \/ RollBack(o) \/ Tell(o)

Spec == Init /\ [][Next]_abstractVars
=============================================================================
