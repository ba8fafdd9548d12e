---------------------------- MODULE MCQosReport ----------------------------
(* Model-checking instance of QosReport: two networks over nic eth0, each  *)
(* on the nic, on a vlan device (ids 10 and 20) or on its own bridge over   *)
(* either, the bridge with or without a VM tap, or with a tap only.  eth0 *)
(* has no qdisc, a root qdisc, or a root and an ingress one; any subset of *)
(* the classes 1:1388, 1:a, 1:14 (hfsc) and an htb class 1:a.             *)
EXTENDS QosReport, TLC

Devs == {"eth0", "eth0.10", "eth0.20", "br1", "br2"}

Stacks(br, vdev) ==
    {[iface |-> "eth0", ports |-> {}], [iface |-> vdev, ports |-> {}],
     [iface |-> br, ports |-> {}], [iface |-> br, ports |-> {"vnet0"}]}
    \cup {[iface |-> br, ports |-> {d} \cup t] : d \in {"eth0", vdev}, t \in {{}, {"vnet0"}}}

Class(id, kind) == [dev |-> "eth0", id |-> <<"1:", id>>, kind |-> kind, hfsc |-> <<id, kind>>]

Topology(n1, n2, qd, cls) ==
    [networks |-> ("n1" :> n1) @@ ("n2" :> n2),
     bridges |-> {"br1", "br2"},
     vlans |-> ("eth0.10" :> [vlanid |-> 10, iface |-> "eth0"])
               @@ ("eth0.20" :> [vlanid |-> 20, iface |-> "eth0"]),
     qdiscs |-> [d \in Devs |-> IF d = "eth0" THEN qd ELSE {}],
     classes |-> cls]

MCHosts ==
    {Topology(n1, n2, qd, cls) :
        n1 \in Stacks("br1", "eth0.10"), n2 \in Stacks("br2", "eth0.20"),
        qd \in {{}, {[root |-> TRUE, handle |-> "1:"]},
                {[root |-> TRUE, handle |-> "1:"], [root |-> FALSE, handle |-> "ffff:"]}},
        cls \in SUBSET {Class(5000, "hfsc"), Class(10, "hfsc"), Class(20, "hfsc"), Class(10, "htb")}}

(* Every host of the instance is one vdsm builds. *)
ASSUME MCHostsOK == \A h \in MCHosts : HostOK(h)
=============================================================================
