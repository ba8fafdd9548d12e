--------------------------- MODULE NormalizePasses ---------------------------
(***************************************************************************)
(* Successive calls of normalize() on the attributes of one requested    *)
(* network: the state is the requested mapping and what the latest call *)
(* made of it.                                                            *)
(***************************************************************************)
EXTENDS Normalize

CONSTANTS
    Inputs,     \* attribute mappings a caller may pass
    MaxPasses   \* how many times normalize is applied in a row

ASSUME PassesAssumption == MaxPasses \in Nat \ {0}

VARIABLES
    requested,  \* the mapping given to the first normalize
    net,        \* the result of the latest normalize
    passes      \* normalize calls made

vars == <<requested, net, passes>>

Init ==
    /\ requested \in Inputs
    /\ net = requested
    /\ passes = 0

(* normalize(config) on the current mapping (a deep copy: the input is   *)
(* left alone, so only the result is kept).                               *)
Normalize ==
    /\ passes < MaxPasses
    /\ net' = NormalizeNet(net)
    /\ passes' = passes + 1
    /\ UNCHANGED requested

Finished ==
    /\ passes = MaxPasses
    /\ UNCHANGED vars

Next == Normalize \/ Finished

Spec == Init /\ [][Next]_vars
-----------------------------------------------------------------------------
(* The requested networks callers pass: a bool is True or False, an mtu  *)
(* or a vlan is an int the model spells or a str, a bootproto is not      *)
(* None, an ipv6addr is one address str (normalize wraps whatever it     *)
(* finds in a list).                                                      *)
Spelled(v) == v \in {I(n) : n \in Numbers} \cup [str : STRING]

WellFormed(a) ==
    /\ \A k \in DOMAIN a : IsBool(a[k]) => a[k].bool \in BOOLEAN
    /\ \A k \in {"mtu", "vlan"} \cap DOMAIN a : Spelled(a[k])
    /\ "bootproto" \in DOMAIN a => a["bootproto"] # None
    /\ "ipv6addr" \in DOMAIN a => a["ipv6addr"] \in [str : STRING]

InputsOK == \A a \in Inputs : WellFormed(a)

(* normalize keeps the meaning of a requested network: no step loses or  *)
(* changes a setting, in spite of the order-dependent pipeline (the      *)
(* bridge step must pop 'STP' before the ifcfg filter drops uppercase    *)
(* keys, the defaults must not override given values).                    *)
MeaningPreserved == Meaning(net) = Meaning(requested)

(* Spec section 8: normalize(normalize(x)) == normalize(x). *)
Idempotent == NormalizeNet(NormalizeNet(net)) = NormalizeNet(net)

=============================================================================
