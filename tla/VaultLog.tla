------------------------------ MODULE VaultLog ------------------------------
(***************************************************************************)
(* What the devices of a vault may rely on: the vault is a log to which    *)
(* one version at a time is appended, and every baseline a device keeps is *)
(* a version of that log and only moves forward. No request, receipt,      *)
(* crash or retry is in sight.                                             *)
(***************************************************************************)
EXTENDS Integers, Sequences

CONSTANTS
    Devices,
    First,       \* the version a vault starts with
    NoBaseline   \* of a device that has not joined

VARIABLES
    log,         \* the versions of the vault, one per revision
    agreed       \* per device: its copies of the baseline

Copy == {"stored", "registry", "known"}

At(r) == [rev |-> r, docs |-> log[r]]

Init ==
    /\ log = <<First>>
    /\ \E joined \in SUBSET Devices :
          agreed = [d \in Devices |-> [c \in Copy |-> IF d \in joined THEN At(1) ELSE NoBaseline]]

(* One more version, whatever it says.                                      *)
Grow ==
    /\ Len(log') = Len(log) + 1
    /\ SubSeq(log', 1, Len(log)) = log
    /\ UNCHANGED agreed

(* A copy stays as it is or moves to a version at least as new.            *)
Advances(old, new) ==
    new = old \/ (old.rev <= new.rev /\ new.rev \in 1..Len(log) /\ new = At(new.rev))

(* Some copies of one device move forward, each by itself.                  *)
Agree(d) ==
    /\ UNCHANGED log
    /\ agreed' = [agreed EXCEPT ![d] = agreed'[d]]
    /\ \A c \in Copy : Advances(agreed[d][c], agreed'[d][c])

Next == Grow \/ \E d \in Devices : Agree(d)

Spec == Init /\ [][Next]_<<log, agreed>>
=============================================================================
