----------------------------- MODULE QosReport -----------------------------
(***************************************************************************)
(* report_network_qos (src/lib/vdsm/netinfo/qos.py): the netinfo probe's   *)
(* step that reads back each network's host QoS from tc.  For each        *)
(* network it finds the device carrying it (a bridge's one host port,      *)
(* then a vlan's base device), the class vdsm's QoS puts on that device    *)
(* for the network (minor id: the vlan id, or 5000 for untagged traffic)   *)
(* under the device's root qdisc, and reports that class's hfsc curves.    *)
(*                                                                         *)
(* A class id "<handle><minor in hex>" is the pair <<handle, minor>>: the  *)
(* handle ends in ':' and '%x' is one-to-one, so the string and the pair   *)
(* tell the same classes apart.                                            *)
(***************************************************************************)
EXTENDS Naturals, FiniteSets

CONSTANTS
    Hosts,      \* [networks, bridges, vlans, qdiscs, classes] the probe may see
    NoQos       \* no hostQos key

NON_VLANNED_ID == 5000

VARIABLES
    host,       \* the netinfo and tc state of this run
    qos,        \* qos[net]: the hostQos reported, NoQos if none
    todo,       \* networks the loop has still to visit
    pc          \* "loop", "done", or the exception that ended the loop

vars == <<host, qos, todo, pc>>

(* Bridge ports that are VM taps. *)
IsVnet(p) == p \in {"vnet0", "vnet1"}

(* get_root_qdisc: the root qdisc's handle; "" when there is none and the *)
(* ['handle'] that follows raises TypeError.                               *)
RootHandle(dev) ==
    IF \E q \in host.qdiscs[dev] : q.root
    THEN (CHOOSE q \in host.qdiscs[dev] : q.root).handle
    ELSE ""

(* tc.classes(iface, classid=class_id) filtered on kind hfsc. *)
HfscClasses(dev, cid) == {c \in host.classes : c.dev = dev /\ c.id = cid /\ c.kind = "hfsc"}

(* The device a network's QoS lives on, after the bridge step and the    *)
(* vlan step, with the class id; or "continue" when the loop skips the  *)
(* network, or the exception it raises.                                   *)
Stop(kind) == [kind |-> kind, dev |-> "", id |-> <<"", 0>>]
Found(dev, id) == [kind |-> "class", dev |-> dev, id |-> id]

(* Mutant: the vlan step before the bridge step. *)
ClassOfVlanFirst(net) ==
    LET i0 == host.networks[net].iface
        v == IF i0 \in DOMAIN host.vlans
             THEN [dev |-> host.vlans[i0].iface, minor |-> host.vlans[i0].vlanid]
             ELSE [dev |-> i0, minor |-> NON_VLANNED_ID]
        hp == {p \in host.networks[net].ports : ~IsVnet(p)}
        d == IF v.dev \in host.bridges /\ Cardinality(hp) = 1 THEN CHOOSE p \in hp : TRUE ELSE v.dev
    IN IF v.dev \in host.bridges /\ hp = {} THEN Stop("continue")
       ELSE IF v.dev \in host.bridges /\ Cardinality(hp) > 1 THEN Stop("ValueError")
       ELSE IF host.qdiscs[d] = {} THEN Stop("continue")
       ELSE IF RootHandle(d) = "" THEN Stop("TypeError")
       ELSE Found(d, <<RootHandle(d), v.minor>>)

(* Lines 34-54 of report_network_qos.  The tests are made in the code's   *)
(* order, so a network is skipped or raises at the first one that fails.  *)
ClassOf(net) ==
    LET i0 == host.networks[net].iface
        hp == {p \in host.networks[net].ports : ~IsVnet(p)}
        i1 == IF i0 \in host.bridges /\ Cardinality(hp) = 1 THEN CHOOSE p \in hp : TRUE ELSE i0
        v == IF i1 \in DOMAIN host.vlans
             THEN [dev |-> host.vlans[i1].iface, minor |-> host.vlans[i1].vlanid]
             ELSE [dev |-> i1, minor |-> NON_VLANNED_ID]
    IN IF i0 \in host.bridges /\ hp = {} THEN Stop("continue")
       ELSE IF i0 \in host.bridges /\ Cardinality(hp) > 1 THEN Stop("ValueError")
       ELSE IF host.qdiscs[v.dev] = {} THEN Stop("continue")
       ELSE IF RootHandle(v.dev) = "" THEN Stop("TypeError")
       ELSE Found(v.dev, <<RootHandle(v.dev), v.minor>>)
-----------------------------------------------------------------------------
Init ==
    /\ host \in Hosts
    /\ qos = [n \in DOMAIN host.networks |-> NoQos]
    /\ todo = DOMAIN host.networks
    /\ pc = "loop"

(* One iteration of the loop over netinfo['networks'] (lines 34-61), in  *)
(* dict order: any network not yet visited.                               *)
ReportNet(net) ==
    /\ pc = "loop" /\ net \in todo
    /\ todo' = todo \ {net}
    /\ LET c == ClassOf(net)
       IN CASE c.kind \in {"ValueError", "TypeError"} -> pc' = c.kind /\ UNCHANGED qos
            [] c.kind = "continue" -> UNCHANGED <<qos, pc>>
            [] OTHER -> /\ qos' = IF HfscClasses(c.dev, c.id) = {} THEN qos
                                  ELSE [qos EXCEPT ![net] = (CHOOSE k \in HfscClasses(c.dev, c.id) : TRUE).hfsc]
                        /\ UNCHANGED pc
    /\ UNCHANGED host

LoopDone ==
    /\ pc = "loop" /\ todo = {}
    /\ pc' = "done"
    /\ UNCHANGED <<host, qos, todo>>

(* report_network_qos has returned or raised. *)
Finished ==
    /\ pc # "loop"
    /\ UNCHANGED vars

Next == LoopDone \/ Finished \/ \E net \in DOMAIN host.networks : ReportNet(net)

Spec == Init /\ [][Next]_vars
-----------------------------------------------------------------------------
(* Reference: a network's stack, written as the relation "carries":       *)
(* a bridge is carried by its host (non-tap) ports, a vlan device by its   *)
(* base device.  The network's QoS class sits on the device at the bottom  *)
(* of the stack, with the vlan id of the vlan device in it (5000 without). *)
Below(d) ==
    (IF d \in host.bridges THEN {p \in UNION {host.networks[n].ports : n \in {m \in DOMAIN host.networks : host.networks[m].iface = d}} : ~IsVnet(p)}
     ELSE {}) \cup (IF d \in DOMAIN host.vlans THEN {host.vlans[d].iface} ELSE {})

Stack(net) ==
    LET i == host.networks[net].iface
    IN {i} \cup Below(i) \cup UNION {Below(d) : d \in Below(i)}

Bottom(net) == {d \in Stack(net) : Below(d) = {}}

Minor(net) ==
    IF \E d \in Stack(net) : d \in DOMAIN host.vlans
    THEN host.vlans[CHOOSE d \in Stack(net) : d \in DOMAIN host.vlans].vlanid
    ELSE NON_VLANNED_ID

Expected(net) ==
    LET cs == {c \in host.classes : c.dev \in Bottom(net) /\ c.kind = "hfsc"
                                    /\ c.id = <<RootHandle(c.dev), Minor(net)>>}
    IN IF cs = {} THEN NoQos ELSE (CHOOSE c \in cs : TRUE).hfsc

(* The hosts vdsm builds, as the reference reads them: a bridge carries   *)
(* one network and at most one host port, which is not a bridge; a vlan    *)
(* device is not a bridge and sits on a device that is neither; bridges    *)
(* carry no qdisc; a device with qdiscs has a root one; qdisc and class   *)
(* handles are never empty; and tc knows every device a network is        *)
(* stacked on.                                                             *)
HostPorts(h, n) == {p \in h.networks[n].ports : ~IsVnet(p)}

HostOK(h) ==
    LET Nets == DOMAIN h.networks
        Vlans == DOMAIN h.vlans
    IN /\ \A n, m \in Nets : h.networks[n].iface \in h.bridges
                              /\ h.networks[m].iface = h.networks[n].iface => n = m
       /\ \A n \in Nets : h.networks[n].iface \in h.bridges =>
             \A p, q \in HostPorts(h, n) : p = q /\ p \notin h.bridges
       /\ h.bridges \cap Vlans = {}
       /\ \A d \in Vlans : h.vlans[d].iface \notin h.bridges \cup Vlans
       /\ \A b \in h.bridges : h.qdiscs[b] = {}
       /\ \A d \in DOMAIN h.qdiscs : h.qdiscs[d] # {} => \E q \in h.qdiscs[d] : q.root
       /\ \A d \in DOMAIN h.qdiscs : \A q \in h.qdiscs[d] : q.handle # ""
       /\ \A c \in h.classes : c.id[1] # ""
       /\ \A n \in Nets : {h.networks[n].iface} \cup HostPorts(h, n) \subseteq DOMAIN h.qdiscs
       /\ \A d \in Vlans : h.vlans[d].iface \in DOMAIN h.qdiscs
       /\ h.bridges \subseteq DOMAIN h.qdiscs

(* On a host where every bridge has at most one host port and every       *)
(* device with qdiscs has a root one, the report visits every network,    *)
(* and each network it has visited carries the curves of the hfsc class   *)
(* at the bottom of its own stack, whatever VM taps sit on its bridge and *)
(* whatever other networks share its device.                              *)
QosReportFaithful ==
    /\ pc \in {"loop", "done"}
    /\ \A net \in DOMAIN host.networks \ todo : qos[net] = Expected(net)

=============================================================================
