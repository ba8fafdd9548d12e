--------------------------- MODULE MCVolumeChain ---------------------------
(* Model-checking instance of VolumeChain: image i1 holds up to three of   *)
(* the volumes a, b, c in any listing order, each on any parent among      *)
(* _BLANK_UUID, a, b, c and z (a volume of another image); image i2 holds   *)
(* no volume or volume d.  The pool count is 0, 1 or 2.                      *)
EXTENDS VolumeChain

MCVols == {"a", "b", "c"}
MCParents == {"blank", "a", "b", "c", "z"}

Listings == UNION {{s \in [1..n -> MCVols] : \A i, j \in 1..n : i # j => s[i] # s[j]} : n \in 0..3}

Storage(pools, s, t, f) ==
    [pools |-> pools, images |-> {"i1", "i2"},
     vols |-> ("i1" :> s) @@ ("i2" :> t), parent |-> f]

MCDomains ==
    {Storage(1, s, t, f) : s \in Listings, t \in {<<>>, <<"d">>},
                           f \in [MCVols \cup {"d"} -> MCParents]}
    \cup {Storage(p, <<"a">>, <<>>, [v \in MCVols \cup {"d"} |-> "blank"]) : p \in {0, 2}}
=============================================================================
