---------------------------- MODULE VolumeChain ----------------------------
(***************************************************************************)
(* vdsm-tool dump-volume-chains (src/lib/vdsm/tool/dump_volume_chains.py). *)
(* The tool asks vdsm for the connected pool and a storage domain's        *)
(* images, reads every volume's parent, builds each image's chain with     *)
(* _build_volume_chain (or the ChainError that describes why there is     *)
(* none), and prints them all.                                             *)
(*                                                                         *)
(* A storage domain is a record: pools, the domain's images, the volumes  *)
(* getVolumes lists for each image in its order, and each volume's        *)
(* parent uuid (Blank, a volume of the image, or a volume outside it).     *)
(* The tool only reads: storage does not change during a run.             *)
(* dict(volumes_children) is ByParents, in VolumeParents.                 *)
(***************************************************************************)
EXTENDS VolumeParents, Naturals, Sequences, FiniteSets, TLC

CONSTANTS
    Blank,      \* _BLANK_UUID
    Domains     \* storage states the tool may be run against

VARIABLES
    sd,         \* the storage the tool reads
    pc,         \* "start", "images", "print", "done", or the exception raised
    todo,       \* images still to read
    chains,     \* image_chains: image -> [err, chain, vc]
    out         \* <<image, volume>> pairs printed

vars == <<sd, pc, todo, chains, out>>

(* volumes_children of an image: (parent_uuid, vol_uuid) in getVolumes order. *)
VolumesChildren(img) ==
    [i \in 1..Len(sd.vols[img]) |-> <<sd.parent[sd.vols[img][i]], sd.vols[img][i]>>]

Range(s) == {s[i] : i \in DOMAIN s}

(* The while loop of _build_volume_chain, from child_vol = _BLANK_UUID:  *)
(* [loop |-> TRUE] when a child is met twice, else the chain.            *)
RECURSIVE Walk(_, _, _)
Walk(d, child, chain) ==
    IF child \notin DOMAIN d THEN [loop |-> FALSE, chain |-> chain]
    ELSE IF d[child] \in Range(chain) THEN [loop |-> TRUE, chain |-> chain]
    ELSE Walk(d, d[child], Append(chain, d[child]))

Result(err, chain, vc) == [err |-> err, chain |-> chain, vc |-> vc]

(* Mutant: the orphan test compares with one volume less. *)
BuildVolumeChainOrphanOffByOne(vc) ==
    LET d == ByParents(vc)
        w == Walk(d, Blank, <<>>)
    IN IF Cardinality(DOMAIN d) < Len(vc) THEN Result("DuplicateParentError", <<>>, vc)
       ELSE IF w.loop THEN Result("ChainLoopError", <<>>, vc)
       ELSE IF w.chain = <<>> /\ DOMAIN d # {} THEN Result("NoBaseVolume", <<>>, vc)
       ELSE IF Len(w.chain) < Cardinality(DOMAIN d) - 1 THEN Result("OrphanVolumes", <<>>, vc)
       ELSE Result("", w.chain, vc)

(* Mutant: no duplicate-parent test. *)
BuildVolumeChainNoDupCheck(vc) ==
    LET d == ByParents(vc)
        w == Walk(d, Blank, <<>>)
    IN IF w.loop THEN Result("ChainLoopError", <<>>, vc)
       ELSE IF w.chain = <<>> /\ DOMAIN d # {} THEN Result("NoBaseVolume", <<>>, vc)
       ELSE IF Len(w.chain) < Cardinality(DOMAIN d) THEN Result("OrphanVolumes", <<>>, vc)
       ELSE Result("", w.chain, vc)

(* _build_volume_chain: the chain, or the ChainError it raises, with the *)
(* volumes_children the error carries.                                    *)
BuildVolumeChain(vc) ==
    LET d == ByParents(vc)
        w == Walk(d, Blank, <<>>)
    IN IF Cardinality(DOMAIN d) < Len(vc) THEN Result("DuplicateParentError", <<>>, vc)
       ELSE IF w.loop THEN Result("ChainLoopError", <<>>, vc)
       ELSE IF w.chain = <<>> /\ DOMAIN d # {} THEN Result("NoBaseVolume", <<>>, vc)
       ELSE IF Len(w.chain) < Cardinality(DOMAIN d) THEN Result("OrphanVolumes", <<>>, vc)
       ELSE Result("", w.chain, vc)

(* Mutant: an error lists each pair's parent instead of its child. *)
PrintedParents(img, r) ==
    IF r.err # "" THEN {<<img, r.vc[i][1]>> : i \in DOMAIN r.vc}
    ELSE {<<img, v>> : v \in Range(r.chain)}

(* What _print_volume_chains lists under an image: the children of the   *)
(* error's pairs, or the chain's volumes.                                 *)
Printed(img, r) ==
    IF r.err # "" THEN {<<img, r.vc[i][2]>> : i \in DOMAIN r.vc}
    ELSE {<<img, v>> : v \in Range(r.chain)}
-----------------------------------------------------------------------------
Init ==
    /\ sd \in Domains
    /\ pc = "start"
    /\ todo = {}
    /\ chains = [i \in {} |-> Blank]
    /\ out = {}

(* _get_volumes_chains, up to the loop: no pool raises                    *)
(* NoConnectedStoragePoolError, more than one makes `sp_uuid, = pools`    *)
(* raise ValueError.                                                      *)
GetPools ==
    /\ pc = "start"
    /\ pc' = CASE sd.pools = 0 -> "NoConnectedStoragePoolError"
               [] sd.pools > 1 -> "ValueError"
               [] OTHER -> "images"
    /\ todo' = IF pc' = "images" THEN sd.images ELSE {}
    /\ UNCHANGED <<sd, chains, out>>

(* One image: getInfo of each volume, then its chain; a ChainError is     *)
(* stored in place of the chain.                                          *)
BuildImage(img) ==
    /\ pc = "images" /\ img \in todo
    /\ chains' = chains @@ (img :> BuildVolumeChain(VolumesChildren(img)))
    /\ todo' = todo \ {img}
    /\ UNCHANGED <<sd, pc, out>>

ImagesDone ==
    /\ pc = "images" /\ todo = {}
    /\ pc' = "print"
    /\ UNCHANGED <<sd, todo, chains, out>>

(* _print_volume_chains with _print_vol_info and _print_line. *)
PrintVolumeChains ==
    /\ pc = "print"
    /\ out' = UNION {Printed(img, chains[img]) : img \in DOMAIN chains}
    /\ pc' = "done"
    /\ UNCHANGED <<sd, todo, chains>>

(* The tool has exited. *)
Finished ==
    /\ pc \notin {"start", "images", "print"}
    /\ UNCHANGED vars

Next == GetPools \/ ImagesDone \/ PrintVolumeChains \/ Finished
        \/ \E img \in sd.images : BuildImage(img)

Spec == Init /\ [][Next]_vars
-----------------------------------------------------------------------------
(* Reference, from the classes' descriptions: the parent of a volume in  *)
(* an image, and what a well-formed chain is.                             *)
ParentIn(vc, v) == vc[CHOOSE i \in DOMAIN vc : vc[i][2] = v][1]

IsChainOf(vc, s) ==
    /\ Len(s) = Len(vc)
    /\ Range(s) = {vc[i][2] : i \in DOMAIN vc}
    /\ \A i \in DOMAIN s : ParentIn(vc, s[i]) = IF i = 1 THEN Blank ELSE s[i - 1]

(* The error a volume list deserves: two volumes on one parent; no volume *)
(* on _BLANK_UUID; volumes not on the chain from _BLANK_UUID.              *)
Expected(vc) ==
    LET vs == {vc[i][2] : i \in DOMAIN vc}
    IN IF \E i, j \in DOMAIN vc : i # j /\ vc[i][1] = vc[j][1] THEN "DuplicateParentError"
       ELSE IF vc # <<>> /\ \A i \in DOMAIN vc : vc[i][1] # Blank THEN "NoBaseVolume"
       ELSE IF \E s \in [1..Len(vc) -> vs] : IsChainOf(vc, s) THEN ""
       ELSE "OrphanVolumes"

(* Every image the tool has read is reported as the error its volumes     *)
(* deserve, or as their chain, base first, when they form one.  In        *)
(* particular ChainLoopError is never raised: with one parent per volume  *)
(* and each volume listed once, the walk from _BLANK_UUID cannot come back *)
(* to a volume.                                                            *)
ChainsClassified ==
    \A img \in DOMAIN chains :
        LET r == chains[img]
        IN /\ r.err = Expected(r.vc)
           /\ r.err = "" => IsChainOf(r.vc, r.chain)

(* A dump that completes shows every volume of every image under its     *)
(* image, whether the image's chain is good or broken, and nothing else.  *)
DumpComplete ==
    pc = "done" => out = UNION {{<<img, v>> : v \in Range(sd.vols[img])} : img \in sd.images}

=============================================================================
