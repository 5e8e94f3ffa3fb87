------------------------------ MODULE SyncMerge ------------------------------
(***************************************************************************)
(* The three-way merge of synchronised documents and the capture of a      *)
(* device's image (cloud_sync_e2ee_documents/merge.rs and                  *)
(* cloud_sync_e2ee_store/capture.rs), as operators on images.              *)
(*                                                                         *)
(* An entry is a document's place in an image: nothing, the live document  *)
(* written by an edit, or the tombstone of the edit that removed it. Two   *)
(* edits never write equal content.                                        *)
(***************************************************************************)
EXTENDS Integers

CONSTANT Docs    \* identities of the synchronised documents (merge units)

Nothing        == [kind |-> "none", edit |-> 0, base |-> 0]
Live(e)        == [kind |-> "live", edit |-> e, base |-> 0]
Tombstone(e,r) == [kind |-> "deleted", edit |-> e, base |-> r]

EntryType == [kind : {"none", "live", "deleted"}, edit : Nat, base : Nat]
Image     == [Docs -> EntryType]
Empty     == [x \in Docs |-> Nothing]

(* A baseline; revision 0 stands for "no baseline".                         *)
Baseline     == [rev : Nat, docs : Image]
NoBaseline   == [rev |-> 0, docs |-> Empty]

IsLive(e)    == e.kind = "live"
IsDeleted(e) == e.kind = "deleted"
IsNone(e)    == ~IsLive(e) /\ ~IsDeleted(e)

----------------------------------------------------------------------------
(* Capture: live documents, then the tombstones already recorded, then the  *)
(* registered baseline, whose documents that are gone get a tombstone now.  *)

CaptureEntry(native, mark, registry, x) ==
    IF IsLive(native) THEN native
    ELSE IF IsDeleted(mark) THEN mark
    ELSE IF IsDeleted(registry.docs[x]) THEN registry.docs[x]
    ELSE IF IsLive(registry.docs[x]) THEN Tombstone(native.edit, registry.rev)
    ELSE Nothing

Capture(native, marks, registry) ==
    [x \in Docs |-> CaptureEntry(native[x], marks[x], registry, x)]

(* The tombstones of an image, which the capture writes back.               *)
Tombstones(image) == [x \in Docs |-> IF IsDeleted(image[x]) THEN image[x] ELSE Nothing]

----------------------------------------------------------------------------
(* The merge, document by document.                                         *)

Equivalent(a, b) == a.kind = b.kind /\ (IsLive(a) => a.edit = b.edit)

(* Of two tombstones the one of the later baseline; the local one on a tie. *)
Preferred(l, r) == IF IsDeleted(l) /\ IsDeleted(r) /\ r.base > l.base THEN r ELSE l

MissingTombstone(base, local, remote) ==
    \E x \in Docs : ~IsNone(base.docs[x]) /\ (IsNone(local[x]) \/ IsNone(remote[x]))

(* The entry the merge settles on, or none when the user has to choose.     *)
Chosen(base, l, r, x) ==
    IF Equivalent(l, r) THEN {Preferred(l, r)}
    ELSE IF base.rev = 0
    THEN IF IsNone(l) THEN {r} ELSE IF IsNone(r) THEN {l} ELSE {}
    ELSE IF IsDeleted(base.docs[x]) /\ (IsLive(l) \/ IsLive(r)) THEN {}
    ELSE IF Equivalent(l, base.docs[x]) THEN {r}
    ELSE IF Equivalent(r, base.docs[x]) THEN {l}
    ELSE {}

Conflicts(base, local, remote) ==
    {x \in Docs : Chosen(base, local[x], remote[x], x) = {}}

(* resolve: every conflict has exactly one explicit choice.                 *)
Resolve(base, local, remote, choice) ==
    [x \in Docs |->
        IF x \in Conflicts(base, local, remote)
        THEN IF choice[x] = "local" THEN local[x] ELSE remote[x]
        ELSE CHOOSE e \in Chosen(base, local[x], remote[x], x) : TRUE]

Resolutions(base, local, remote) ==
    {Resolve(base, local, remote, choice) :
        choice \in [Conflicts(base, local, remote) -> {"local", "remote"}]}
=============================================================================
