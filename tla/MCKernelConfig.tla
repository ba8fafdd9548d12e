--------------------------- MODULE MCKernelConfig ---------------------------
(* Model-checking instance of KernelConfig.  Each requested configuration *)
(* is compared with the read model of a host that realizes it (as the    *)
(* kernel reports it: link-local address present, zero QoS parameters    *)
(* reported, leased addresses under DHCP, default bond options omitted)  *)
(* and with that read model with one field changed.                      *)
EXTENDS KernelConfig

(* A requested network is one fragment of each concern merged: bridge, *)
(* mtu and vlan, attachment, IPv4, IPv6, default route, QoS.             *)
Qos8 == Q([out |-> [ul |-> [m2 |-> 8]]])
Qos0 == Q([out |-> [ul |-> [m1 |-> 0, m2 |-> 8]]])
E == [k \in {} |-> None]

BridgeFrags == {E, "bridged" :> B(FALSE), "bridged" :> S("true"), "stp" :> S("no"),
                ("bridged" :> S("true")) @@ ("STP" :> S("no"))}
StrayStpFrags == {("bridged" :> B(FALSE)) @@ ("stp" :> S("yes"))}
LinkFrags == {E, ("mtu" :> I(9000)) @@ ("vlan" :> S("10")), "mtu" :> S("1500")}
AttachFrags == {E, "nic" :> S("eth0"), "bonding" :> S("bond0")}
Ipv4Frags == {E, "bootproto" :> S("dhcp"),
              ("ipaddr" :> S("10.0.0.2")) @@ ("prefix" :> I(24)),
              ("ipaddr" :> S("10.0.0.2")) @@ ("netmask" :> S("255.255.255.0"))
                @@ ("gateway" :> S("10.0.0.1"))}
Ipv6Frags == {E, "dhcpv6" :> B(TRUE), "ipv6addr" :> S("2001:db8::1/64")}
RouteFrags == {E, "defaultRoute" :> B(TRUE)}

Nets(bridge, qos) ==
    {b @@ l @@ at @@ v4 @@ v6 @@ r @@ q :
       b \in bridge, l \in LinkFrags, at \in AttachFrags, v4 \in Ipv4Frags,
       v6 \in Ipv6Frags, r \in RouteFrags, q \in qos}

Has(a, k) == k \in DOMAIN a

BondChoices(modes) ==
    {[nics |-> L(<<"eth1", "eth0">>)],
     [nics |-> L(<<"eth0", "eth1">>),
      options |-> OptStr(<<<<"mode", "active-backup">>, <<"miimon", "100">>>>)],
     [nics |-> L(<<"eth1", "eth0">>),
      options |-> OptStr(<<<<"miimon", "200">>, <<"custom", "x=1">>, <<"miimon", "300">>>>)]}
    \cup {[nics |-> L(<<"eth0", "eth1">>), options |-> OptStr(<<<<"mode", m>>>>)] : m \in modes}

Configs(nets, modes) ==
    UNION {IF Has(a, "bonding")
             THEN {[networks |-> (Net :> a), bonds |-> ("bond0" :> b)] : b \in BondChoices(modes)}
             ELSE {[networks |-> (Net :> a), bonds |-> [x \in {} |-> None]]}
           : a \in nets}

(* The read model of a host that runs the requested configuration. *)
RealizeNet(a) ==
    LET m == RequestedMeaning(a)
        leaf(k) == {l \in m.qos : l[3] = k}
    IN [bridged |-> m.bridged, stp |-> IF m.stp THEN "on" ELSE "off",
        mtu |-> ToString(m.mtu), vlanid |-> IF m.vlan = -1 THEN None ELSE I(m.vlan),
        bond |-> IF Has(a, "bonding") THEN "bond0" ELSE "",
        nics |-> IF Has(a, "bonding") THEN {"eth0", "eth1"} ELSE m.attach,
        dhcpv4 |-> m.dhcp,
        addr |-> IF m.dhcp THEN "10.0.0.5" ELSE m.static[1],
        netmask |-> IF m.dhcp THEN "255.255.255.0" ELSE m.static[2],
        gateway |-> IF m.dhcp THEN "10.0.0.1" ELSE m.static[3],
        dhcpv6 |-> m.dhcpv6,
        ipv6addrs |-> <<"fe80::1/64">> \o
                      (IF m.ipv6 = {} THEN <<>> ELSE <<CHOOSE x \in m.ipv6 : TRUE>>),
        ipv6gateway |-> IF m.ipv6gateway = "" THEN "::" ELSE m.ipv6gateway,
        cfg |-> IF m.defaultRoute THEN [DEFROUTE |-> "yes"] ELSE None,
        hostQos |-> IF m.qos = {} THEN None
                    ELSE [out |-> [ul |-> [k \in {"m1", "d", "m2"} |->
                            IF leaf(k) = {} THEN 0 ELSE (CHOOSE l \in leaf(k) : TRUE)[4]]]]]

(* The probe reports a bond's options that differ from the defaults of  *)
(* its mode, the mode itself when it is not the default mode.             *)
RealizeBond(b) ==
    LET r == RequestedBond(b)
        d == GetDefaultBondingOptions(r.opts["mode"])
    IN [slaves |-> r.slaves,
        opts |-> [k \in {x \in DOMAIN r.opts :
                           IF x = "mode" THEN r.opts[x] # DefaultMode ELSE r.opts[x] # d[x]}
                    |-> r.opts[k]]]

Realize(c) ==
    [net |-> RealizeNet(c.networks[Net]),
     bondings |-> [b \in DOMAIN c.bonds |-> RealizeBond(c.bonds[b])]]

(* The read model with one field changed. *)
Perturbed(ni) ==
    LET n == ni.net
        nets == {[n EXCEPT !.bridged = ~@], [n EXCEPT !.stp = IF @ = "on" THEN "off" ELSE "on"],
                 [n EXCEPT !.mtu = IF @ = "1500" THEN "9000" ELSE "1500"],
                 [n EXCEPT !.vlanid = IF @ = None THEN I(10) ELSE None],
                 [n EXCEPT !.dhcpv4 = ~@], [n EXCEPT !.addr = "10.0.0.9"],
                 [n EXCEPT !.netmask = "255.255.0.0"],
                 [n EXCEPT !.ipv6addrs = @ \o <<"2001:db8::2/64">>],
                 [n EXCEPT !.ipv6gateway = "2001:db8::fe"],
                 [n EXCEPT !.cfg = IF @ = None THEN [DEFROUTE |-> "yes"] ELSE None],
                 [n EXCEPT !.hostQos = IF @ = None THEN [out |-> [ul |-> [m2 |-> 8]]] ELSE None],
                 [n EXCEPT !.bond = "", !.nics = {"eth1"}],
                 [n EXCEPT !.bond = "", !.nics = {"eth0", "eth1"}]}
        bonds == IF ni.bondings = [x \in {} |-> None] THEN {}
                 ELSE {[ni.bondings EXCEPT !["bond0"].slaves = {"eth0"}],
                       [ni.bondings EXCEPT !["bond0"].opts =
                          IF "mode" \in DOMAIN @ THEN Pop(@, "mode") ELSE Put(@, "mode", "1")]}
    IN {[ni EXCEPT !.net = x] : x \in nets} \cup {[ni EXCEPT !.bondings = x] : x \in bonds}

MCHosts(c) == {Realize(c)} \cup Perturbed(Realize(c))

(* Well-formed requests: no stray stp, no zero QoS parameter, no explicit *)
(* default mode.                                                           *)
MCRequests == Configs(Nets(BridgeFrags, {E, "hostQos" :> Qos8}), {})

(* Requests of the three kinds the well-formed set leaves out, each of     *)
(* which means the same as its host and is spelled another way.            *)
MCRequestsStrayStp == Configs(Nets(StrayStpFrags, {E}), {})
MCRequestsQosZero == Configs(Nets({E}, {"hostQos" :> Qos0}), {})
MCRequestsMode0 ==
    {c \in Configs(Nets({E}, {E}), {"0", "balance-rr"}) : "bonding" \in DOMAIN c.networks[Net]}
MCRequestsSpellings == MCRequestsStrayStp \cup MCRequestsQosZero \cup MCRequestsMode0
=============================================================================
