-------------------------- MODULE AutoSyncTrigger --------------------------
(***************************************************************************)
(* The automatic sync loop on top of the write gate's watch channel        *)
(* (CloudSyncE2eeService::start): a debounce of any length, then only the  *)
(* newest value is looked at and a sync runs when its origin is User.      *)
(* The bounded retries of auto_sync are part of the trigger.               *)
(***************************************************************************)
EXTENDS SyncWriteGate

VARIABLES
    unseen,      \* the receiver has a value it has not borrowed yet
    triggered    \* generation current when a sync was last triggered

syncVars == <<vars, unseen, triggered>>

SyncInit == Init /\ unseen = FALSE /\ triggered = 0

(* Slip: the loop forgets which origins call for a sync.                    *)
CallsForSyncRecovery(n) == n.origin = "Recovery"

CallsForSync(n) == n.origin = "User"

(* borrow_and_update at the end of the debounce.                            *)
AutoSync ==
    /\ unseen
    /\ unseen' = FALSE
    /\ triggered' = IF CallsForSync(channel) THEN stored.generation ELSE triggered
    /\ UNCHANGED vars

(* Each start subscribes afresh and triggers one sync.                      *)
GateStep ==
    \/ /\ Restart
       /\ unseen' = FALSE
       /\ triggered' = disk.generation
    \/ /\ \/ \E w \in Writer : WriterStep(w)
          \/ ExclusiveStep
          \/ \E n \in sending : Publish(n)
       /\ unseen' = (unseen \/ channel' # channel)
       /\ UNCHANGED triggered

SyncNext == AutoSync \/ GateStep
SyncSpec == SyncInit /\ [][SyncNext]_syncVars

(* An operation under a permit finishes, the committing thread offers its   *)
(* change, the loop's timer fires.                                          *)
Completes(w) ==
    /\ \/ \E origin \in CommitOrigin : Commit(w, origin)
       \/ CommitLocalOnly(w)
       \/ AbortUnmodified(w)
    /\ unseen' = (unseen \/ channel' # channel)
    /\ UNCHANGED triggered
Offers ==
    /\ \E n \in sending : Publish(n)
    /\ unseen' = (unseen \/ channel' # channel)
    /\ UNCHANGED triggered

Fairness ==
    /\ \A w \in Writer : WF_syncVars(Completes(w))
    /\ WF_syncVars(Offers)
    /\ WF_syncVars(AutoSync)

FairSyncSpec == SyncSpec /\ Fairness

(* On a disk that works and without restores, every committed user change   *)
(* is followed by an automatic sync, however commits, local-only writes,    *)
(* the debounce and restarts overlap. (At the bound on generations commits   *)
(* stop, and with them the permit that would announce the change.)           *)
UserChangeIsSynced ==
    \A g \in 1..MaxGen :
        (lastUser = g) ~> (triggered >= g \/ stored.generation = MaxGen)
=============================================================================
