--------------------------- MODULE VolumeParents ---------------------------
(***************************************************************************)
(* dict(volumes_children) of _build_volume_chain                           *)
(* (src/lib/vdsm/tool/dump_volume_chains.py): an image's volumes as a     *)
(* sequence of (parent_uuid, vol_uuid) pairs turned into a mapping from   *)
(* parent to child.  It has no recursion, so what the chain builder's     *)
(* first test decides can be proved about it (VolumeParentsProofs).       *)
(***************************************************************************)
EXTENDS Naturals, Sequences

(* dict(volumes_children): a repeated parent keeps its last child. *)
ByParents(vc) ==
    [p \in {vc[i][1] : i \in DOMAIN vc} |->
        vc[CHOOSE i \in DOMAIN vc : vc[i][1] = p /\ \A j \in DOMAIN vc : vc[j][1] = p => j <= i][2]]

=============================================================================
