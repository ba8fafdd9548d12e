---------------------------- MODULE KernelConfig ----------------------------
(***************************************************************************)
(* The differ of src/lib/vdsm/kernelconfig.py: KernelConfig(netinfo)      *)
(* builds the running configuration from the probe's read model, and      *)
(* KernelConfig.__eq__ compares it with a persisted (requested)           *)
(* configuration by normalizing the right-hand side only.                  *)
(*                                                                         *)
(* One network, named Net, is enough: every translation and every         *)
(* normalization step handles each network on its own.  The read model   *)
(* of a network is a record with the fields _translate_* read, and that   *)
(* of a bond a record of its slave set and reported options.              *)
(***************************************************************************)
EXTENDS Normalize, FiniteSets

CONSTANTS
    Requests,   \* persisted configurations the differ is run on
    Hosts(_)    \* Hosts(c): probe read models to compare c with

Net == "net0"
Error == [error |-> TRUE]   \* KernelConfig() raised

VARIABLES
    netinfo,    \* the probe's read model: [net |-> ..., bondings |-> ...]
    request,    \* the persisted config: [networks |-> ..., bonds |-> ...]
    kc,         \* the KernelConfig built from netinfo, None or Error
    verdict     \* "equal" or "differ": KernelConfig(netinfo) == request

vars == <<netinfo, request, kc, verdict>>

(* A hostQos value: a part -> curve -> parameter -> int mapping. *)
Q(q) == [qos |-> q]

(* netaddr's is_link_local() on the addresses the model uses. *)
LinkLocal == {"fe80::1/64"}

(* `if cond: attributes[k] = v` *)
PutIf(a, cond, k, v) == IF cond THEN Put(a, k, v) ELSE a

(* sorted() of a set of nic names. *)
SortedList(s) ==
    [i \in 1..Cardinality(s) |->
        CHOOSE n \in s : Cardinality({m \in s : Rank(m) < Rank(n)}) = i - 1]
-----------------------------------------------------------------------------
(* _translate_bridged, _translate_mtu, _translate_vlan *)
TranslateBridged(ni) ==
    IF ni.bridged THEN [bridged |-> B(TRUE), stp |-> B(StpBooleanize(S(ni.stp)))]
                  ELSE [bridged |-> B(FALSE)]

TranslateMtuVlan(a, ni) ==
    LET m == Put(a, "mtu", S(ni.mtu))
    IN IF ni.vlanid = None THEN m ELSE Put(m, "vlan", Str(ni.vlanid))

(* The attachment: the bond if any, else the one nic; `nic, = nics`      *)
(* raises ValueError when a network has several nics and no bond.         *)
AttachRaises(ni) == ni.bond = "" /\ Cardinality(ni.nics) > 1

TranslateAttachment(a, ni) ==
    IF ni.bond # "" THEN Put(a, "bonding", S(ni.bond))
    ELSE IF ni.nics # {} THEN Put(a, "nic", S(CHOOSE n \in ni.nics : TRUE))
    ELSE a

(* _translate_ipaddr with _translate_ipv6_addr: static fields only when  *)
(* bootproto is none and the value is non-empty, IPv6 only without      *)
(* dhcpv6, link-local addresses filtered, '::' as no gateway.            *)
TranslateIpaddr(a, ni) ==
    LET static == ~ni.dhcpv4
        v6 == ~ni.dhcpv6
        global == SelectSeq(ni.ipv6addrs, LAMBDA x : x \notin LinkLocal)
        b == Put(Put(Put(a, "bootproto", S(IF ni.dhcpv4 THEN "dhcp" ELSE "none")),
                     "dhcpv6", B(ni.dhcpv6)),
                 "defaultRoute", B(ni.cfg # None /\ ni.cfg.DEFROUTE = "yes"))
        c == PutIf(PutIf(PutIf(b, static /\ ni.addr # "", "ipaddr", S(ni.addr)),
                         static /\ ni.netmask # "", "netmask", S(ni.netmask)),
                   static /\ ni.gateway # "", "gateway", S(ni.gateway))
    IN PutIf(PutIf(c, v6 /\ global # <<>>, "ipv6addr",
                   L([i \in DOMAIN global |-> S(global[i])])),
             v6 /\ ni.ipv6gateway # "::", "ipv6gateway", S(ni.ipv6gateway))

(* _remove_zero_values_in_net_qos: every zero-valued parameter dropped;  *)
(* a curve left empty stays, as an empty mapping.                         *)
RemoveZeroValuesInNetQos(q) ==
    [p \in DOMAIN q |-> [c \in DOMAIN q[p] |->
        [k \in {x \in DOMAIN q[p][c] : q[p][c][x] # 0} |-> q[p][c][k]]]]

TranslateHostqos(a, ni) ==
    IF ni.hostQos = None THEN a
    ELSE Put(a, "hostQos", Q(RemoveZeroValuesInNetQos(ni.hostQos)))

(* _translate_netinfo_net: the steps in the code's order. *)
TranslateNetinfoNet(ni) ==
    TranslateHostqos(TranslateIpaddr(TranslateAttachment(
        TranslateMtuVlan(TranslateBridged(ni), ni), ni), ni), ni)

(* _translate_netinfo_bond: the slaves sorted, the options serialized. *)
TranslateNetinfoBond(bi) ==
    [nics |-> L(SortedList(bi.slaves)), options |-> BondOptsForIfcfg(bi.opts)]

(* Mutant: __eq__ compares the networks and forgets the bonds. *)
EqNetworksOnly(k, c) == k.networks = NormalizeConfig(c).networks

(* KernelConfig.__eq__: only the right-hand side is normalized. *)
Eq(k, c) ==
    LET n == NormalizeConfig(c)
    IN k.networks = n.networks /\ k.bonds = n.bonds
-----------------------------------------------------------------------------
Init ==
    /\ request \in Requests
    /\ netinfo \in Hosts(request)
    /\ kc = None
    /\ verdict = "pending"

(* KernelConfig.__init__: one network and every bond translated. *)
Build ==
    /\ kc = None
    /\ kc' = IF AttachRaises(netinfo.net) THEN Error
             ELSE [networks |-> (Net :> TranslateNetinfoNet(netinfo.net)),
                   bonds |-> [b \in DOMAIN netinfo.bondings |->
                                TranslateNetinfoBond(netinfo.bondings[b])]]
    /\ UNCHANGED <<netinfo, request, verdict>>

(* kernel_config == persisted_config. *)
Compare ==
    /\ kc \notin {None, Error}
    /\ verdict = "pending"
    /\ verdict' = IF Eq(kc, request) THEN "equal" ELSE "differ"
    /\ UNCHANGED <<netinfo, request, kc>>

Finished ==
    /\ kc = Error \/ verdict # "pending"
    /\ UNCHANGED vars

Next == Build \/ Compare \/ Finished

Spec == Init /\ [][Next]_vars
-----------------------------------------------------------------------------
(* What the two sides mean, written from the spec's data model: the same  *)
(* record for the kernel's read model and for a requested network.       *)
QosLeaves(q) ==
    UNION {UNION {{<<p, c, k, q[p][c][k]>> : k \in {x \in DOMAIN q[p][c] : q[p][c][x] # 0}}
                    : c \in DOMAIN q[p]} : p \in DOMAIN q}

RunningMeaning(ni) ==
    [bridged |-> ni.bridged, stp |-> ni.bridged /\ ni.stp = "on",
     mtu |-> IntOf(S(ni.mtu)), vlan |-> IF ni.vlanid = None THEN -1 ELSE ni.vlanid.int,
     attach |-> IF ni.bond # "" THEN {"bond:" \o ni.bond} ELSE ni.nics,
     dhcp |-> ni.dhcpv4,
     static |-> IF ni.dhcpv4 THEN <<"", "", "">> ELSE <<ni.addr, ni.netmask, ni.gateway>>,
     dhcpv6 |-> ni.dhcpv6,
     ipv6 |-> IF ni.dhcpv6 THEN {}
              ELSE {ni.ipv6addrs[i] : i \in DOMAIN ni.ipv6addrs} \ LinkLocal,
     ipv6gateway |-> IF ni.dhcpv6 \/ ni.ipv6gateway = "::" THEN "" ELSE ni.ipv6gateway,
     defaultRoute |-> ni.cfg # None /\ ni.cfg.DEFROUTE = "yes",
     qos |-> IF ni.hostQos = None THEN {} ELSE QosLeaves(ni.hostQos)]

RequestedMeaning(a) ==
    LET m == Meaning(a)
        dhcp == m.bootproto = S("dhcp")
        str(k) == IF k \in DOMAIN a THEN a[k].str ELSE ""
    IN [bridged |-> m.bridged, stp |-> m.stp, mtu |-> m.mtu, vlan |-> m.vlan,
        attach |-> IF "bonding" \in DOMAIN a THEN {"bond:" \o a["bonding"].str}
                   ELSE IF "nic" \in DOMAIN a THEN {a["nic"].str} ELSE {},
        dhcp |-> dhcp,
        static |-> IF dhcp THEN <<"", "", "">>
                   ELSE <<str("ipaddr"), IF m.netmask = None THEN "" ELSE m.netmask.str,
                          str("gateway")>>,
        dhcpv6 |-> m.dhcpv6,
        ipv6 |-> IF m.dhcpv6 THEN {} ELSE m.ipv6,
        ipv6gateway |-> IF m.dhcpv6 THEN "" ELSE str("ipv6gateway"),
        defaultRoute |-> m.defaultRoute,
        qos |-> IF "hostQos" \in DOMAIN a THEN QosLeaves(a["hostQos"].qos) ELSE {}]

(* A bond means its slave set, its mode and its effective options. *)
Effective(mode, opts) ==
    [k \in DOMAIN GetDefaultBondingOptions(mode) \cup {"mode"} |->
        IF k = "mode" THEN mode ELSE IF k \in DOMAIN opts THEN opts[k]
                                     ELSE GetDefaultBondingOptions(mode)[k]]

RunningBond(bi) ==
    [slaves |-> bi.slaves,
     opts |-> Effective(IF "mode" \in DOMAIN bi.opts THEN bi.opts["mode"] ELSE DefaultMode,
                        bi.opts)]

RequestedBond(b) ==
    LET t == IF "options" \in DOMAIN b THEN b["options"].optstr ELSE <<>>
        last(k) == t[CHOOSE i \in DOMAIN t : t[i][1] = k
                                  /\ \A j \in DOMAIN t : t[j][1] = k => j <= i][2]
        opts == [k \in {t[i][1] : i \in DOMAIN t} \ {"custom"} |-> last(k)]
        mode == IF "mode" \in DOMAIN opts
                  THEN IF opts["mode"] \in DOMAIN BONDING_MODES_NAME_TO_NUMBER
                         THEN BONDING_MODES_NAME_TO_NUMBER[opts["mode"]]
                         ELSE opts["mode"]
                  ELSE DefaultMode
    IN [slaves |-> IF "nics" \in DOMAIN b
                     THEN {b["nics"].list[i] : i \in DOMAIN b["nics"].list} ELSE {},
        opts |-> Effective(mode, opts)]

SameMeaning(ni, c) ==
    /\ DOMAIN c.networks = {Net}
    /\ RunningMeaning(ni.net) = RequestedMeaning(c.networks[Net])
    /\ DOMAIN ni.bondings = DOMAIN c.bonds
    /\ \A b \in DOMAIN c.bonds : RunningBond(ni.bondings[b]) = RequestedBond(c.bonds[b])

(* Spec 4.2 and section 8, equality via normalization: the running       *)
(* configuration the kernel reports equals the persisted one exactly      *)
(* when the two mean the same, however each side spells it.  A false      *)
(* "equal" hides a change that setupNetworks must make; a false "differs" *)
(* triggers a needless reconfiguration of a live network.                  *)
EqualityFaithful ==
    verdict # "pending" => (verdict = "equal" <=> SameMeaning(netinfo, request))

=============================================================================
