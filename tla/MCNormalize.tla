---------------------------- MODULE MCNormalize ----------------------------
(* Model-checking instance of NormalizePasses: every combination of a few     *)
(* spellings of each attribute a requested network may carry.           *)
EXTENDS NormalizePasses

Absent == [absent |-> TRUE]

Choices ==
    [bridged : {Absent, B(TRUE), S("false"), S("1")},
     stp : {Absent, S("yes"), B(FALSE)},
     STP : {Absent, S("no")},
     mtu : {Absent, I(9000), S("1500")},
     vlan : {Absent, I(10)},
     blockingdhcp : {Absent, B(TRUE)},
     bootproto : {Absent, S("dhcp")},
     prefix : {Absent, I(24), S("16")},
     netmask : {Absent, S("255.0.0.0")},
     ipv6addr : {Absent, S("2001:db8::1/64")},
     defaultRoute : {Absent, B(TRUE)},
     bondingOptions : {Absent, S("mode=4")},
     IPV6_AUTOCONF : {Absent, S("no")}]

MCInputs == {[k \in {f \in DOMAIN c : c[f] # Absent} |-> c[k]] : c \in Choices}
(* Every input is well formed, and str() spells the model's ints apart. *)
ASSUME MCInputsOK == InputsOK /\ ToStringDistinct
=============================================================================
