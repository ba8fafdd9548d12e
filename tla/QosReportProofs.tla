-------------------------- MODULE QosReportProofs --------------------------
(* Proofs about report_network_qos, for every set of hosts vdsm builds.    *)
EXTENDS QosReport, FiniteSetTheorems, TLAPS

(* The hypothesis of the theorems: every host the probe may see is one    *)
(* HostOK describes.  MCQosReport's MCHostsOK checks it of the instance.   *)
HostsOK == \A h \in Hosts : HostOK(h)

(* The conjuncts of HostOK for the host of the run, one by one. *)
LEMMA HostFacts ==
    ASSUME HostOK(host)
    PROVE  /\ \A n, m \in DOMAIN host.networks :
                 host.networks[n].iface \in host.bridges
                 /\ host.networks[m].iface = host.networks[n].iface => n = m
           /\ \A n \in DOMAIN host.networks : host.networks[n].iface \in host.bridges =>
                 \A p, q \in HostPorts(host, n) : p = q /\ p \notin host.bridges
           /\ host.bridges \cap DOMAIN host.vlans = {}
           /\ \A d \in DOMAIN host.vlans :
                 /\ host.vlans[d].iface \notin host.bridges
                 /\ host.vlans[d].iface \notin DOMAIN host.vlans
                 /\ host.vlans[d].iface \in DOMAIN host.qdiscs
           /\ \A b \in host.bridges : b \in DOMAIN host.qdiscs /\ host.qdiscs[b] = {}
           /\ \A n \in DOMAIN host.networks :
                 /\ host.networks[n].iface \in DOMAIN host.qdiscs
                 /\ HostPorts(host, n) \subseteq DOMAIN host.qdiscs
  BY DEF HostOK

(* get_root_qdisc: no qdisc gives no handle, and a device with qdiscs     *)
(* gives its root qdisc's handle, which is not empty.                     *)
LEMMA RootLemma ==
    ASSUME HostOK(host), NEW D \in DOMAIN host.qdiscs
    PROVE  /\ host.qdiscs[D] = {} => RootHandle(D) = ""
           /\ host.qdiscs[D] # {} => RootHandle(D) # ""
<1>1. host.qdiscs[D] = {} => RootHandle(D) = ""
  BY DEF RootHandle
<1>2. ASSUME host.qdiscs[D] # {} PROVE RootHandle(D) # ""
  <2>1. \E q \in host.qdiscs[D] : q.root
    BY <1>2 DEF HostOK
  <2>2. \A q \in host.qdiscs[D] : q.handle # ""
    BY DEF HostOK
  <2>3. QED
    BY <2>1, <2>2 DEF RootHandle
<1>3. QED
  BY <1>1, <1>2

(* What the reference finds under a network whose stack bottoms out on D: *)
(* no class when D has no qdisc, else exactly the hfsc classes the code    *)
(* asks tc for.                                                            *)
LEMMA ClassesAtBottom ==
    ASSUME HostOK(host), NEW net, NEW D \in DOMAIN host.qdiscs,
           Bottom(net) = {D}
    PROVE  LET cs == {c \in host.classes : c.dev \in Bottom(net) /\ c.kind = "hfsc"
                                           /\ c.id = <<RootHandle(c.dev), Minor(net)>>}
           IN /\ host.qdiscs[D] = {} => cs = {}
              /\ host.qdiscs[D] # {} => cs = HfscClasses(D, <<RootHandle(D), Minor(net)>>)
<1>1. host.qdiscs[D] = {} => RootHandle(D) = ""
  BY RootLemma
<1>2. \A c \in host.classes : c.id[1] # ""
  BY DEF HostOK
<1> DEFINE cs == {c \in host.classes : c.dev \in Bottom(net) /\ c.kind = "hfsc"
                                       /\ c.id = <<RootHandle(c.dev), Minor(net)>>}
<1>3. cs = {c \in host.classes : c.dev = D /\ c.kind = "hfsc"
                                /\ c.id = <<RootHandle(D), Minor(net)>>}
  OBVIOUS
<1>4. ASSUME host.qdiscs[D] = {} PROVE cs = {}
  <2>1. SUFFICES ASSUME NEW c \in cs PROVE FALSE
    OBVIOUS
  <2>2. c \in host.classes /\ c.id = <<"", Minor(net)>>
    BY <1>1, <1>3, <1>4
  <2>3. c.id[1] = ""
    <3>1. c.id[1] = <<"", Minor(net)>>[1]
      BY <2>2
    <3>2. <<"", Minor(net)>>[1] = ""
      OBVIOUS
    <3>3. QED
      BY <3>1, <3>2
  <2>4. QED
    BY <1>2, <2>2, <2>3
<1>5. host.qdiscs[D] # {} => cs = HfscClasses(D, <<RootHandle(D), Minor(net)>>)
  BY <1>3 DEF HfscClasses
<1>6. QED
  BY <1>4, <1>5
(* Below a network's bridge are the network's host ports: a bridge carries *)
(* one network and is not a vlan device.                                  *)
LEMMA BridgeBelow ==
    ASSUME HostOK(host), NEW net \in DOMAIN host.networks,
           host.networks[net].iface \in host.bridges
    PROVE  Below(host.networks[net].iface) = HostPorts(host, net)
<1> DEFINE i0 == host.networks[net].iface
<1>1. {m \in DOMAIN host.networks : host.networks[m].iface = i0} = {net}
  BY HostFacts
<1>2. i0 \notin DOMAIN host.vlans
  BY HostFacts
<1>3. QED
  BY <1>1, <1>2 DEF Below, HostPorts

(* Below a device that is not a bridge is its vlan's base device, if any. *)
LEMMA PlainBelow ==
    ASSUME NEW d, d \notin host.bridges
    PROVE  Below(d) = IF d \in DOMAIN host.vlans THEN {host.vlans[d].iface} ELSE {}
  BY DEF Below

(* A vlan's base device has nothing below it. *)
LEMMA BaseBelow ==
    ASSUME HostOK(host), NEW d \in DOMAIN host.vlans
    PROVE  Below(host.vlans[d].iface) = {}
<1>1. host.vlans[d].iface \notin host.bridges \cup DOMAIN host.vlans
  BY HostFacts
<1>2. QED
  BY <1>1, PlainBelow
(* Every network's stack bottoms out on one device D that tc knows, and    *)
(* the loop body either skips the network because D has no qdisc or asks  *)
(* tc for the class of the network's minor id under D's root qdisc: the   *)
(* bridge step and the vlan step walk the same stack the reference does.  *)
LEMMA ClassLemma ==
    ASSUME HostOK(host), NEW net \in DOMAIN host.networks
    PROVE  \E D \in DOMAIN host.qdiscs :
              /\ Bottom(net) = {D}
              /\ ClassOf(net) = IF host.qdiscs[D] = {} THEN Stop("continue")
                                ELSE Found(D, <<RootHandle(D), Minor(net)>>)
<1> DEFINE i0 == host.networks[net].iface
           hp == HostPorts(host, net)
<1>0. hp = {p \in host.networks[net].ports : ~IsVnet(p)}
  BY DEF HostPorts
<1>1. CASE i0 \in host.bridges /\ hp = {}
  <2>1. Below(i0) = {}
    BY <1>1, BridgeBelow
  <2>2. Stack(net) = {i0}
    BY <2>1 DEF Stack
  <2>3. Bottom(net) = {i0}
    BY <2>1, <2>2 DEF Bottom
  <2>4. ClassOf(net) = Stop("continue")
    BY <1>0, <1>1 DEF ClassOf
  <2>5. i0 \in DOMAIN host.qdiscs /\ host.qdiscs[i0] = {}
    BY <1>1, HostFacts
  <2>6. QED
    BY <2>3, <2>4, <2>5
<1>2. CASE i0 \in host.bridges /\ hp # {}
  <2>1. PICK p \in hp : TRUE
    BY <1>2
  <2>2. hp = {p} /\ p \notin host.bridges /\ p \in DOMAIN host.qdiscs
    <3>1. \A q \in hp : q = p /\ p \notin host.bridges
      BY <1>2, <2>1, HostFacts
    <3>2. hp \subseteq DOMAIN host.qdiscs
      BY HostFacts
    <3>3. QED
      BY <2>1, <3>1, <3>2
  <2>3. Cardinality(hp) = 1
    BY <2>2, FS_Singleton
  <2>4. Below(i0) = {p}
    BY <1>2, <2>2, BridgeBelow
  <2>5. i0 # p /\ i0 \notin DOMAIN host.vlans
    BY <1>2, <2>2, HostFacts
  <2>6. CASE p \in DOMAIN host.vlans
    <3> DEFINE D == host.vlans[p].iface
    <3>1. Below(p) = {D}
      BY <2>2, <2>6, PlainBelow
    <3>2. Below(D) = {}
      BY <2>6, BaseBelow
    <3>3. D \notin DOMAIN host.vlans /\ D # i0 /\ D # p /\ D \in DOMAIN host.qdiscs
      BY <1>2, <2>6, HostFacts
    <3>4. Stack(net) = {i0, p, D}
      BY <2>4, <3>1 DEF Stack
    <3>5. Bottom(net) = {D}
      BY <2>4, <2>5, <3>1, <3>2, <3>3, <3>4 DEF Bottom
    <3>6. Minor(net) = host.vlans[p].vlanid
      <4>1. \A d \in Stack(net) : d \in DOMAIN host.vlans <=> d = p
        BY <2>5, <2>6, <3>3, <3>4
      <4>2. (CHOOSE d \in Stack(net) : d \in DOMAIN host.vlans) = p
        BY <4>1, <3>4
      <4>3. QED
        BY <2>6, <3>4, <4>2 DEF Minor
    <3>7. ClassOf(net) = IF host.qdiscs[D] = {} THEN Stop("continue")
                         ELSE Found(D, <<RootHandle(D), host.vlans[p].vlanid>>)
      <4>1. ~(i0 \in host.bridges /\ hp = {}) /\ ~(i0 \in host.bridges /\ Cardinality(hp) > 1)
        BY <1>2, <2>3
      <4>2. host.qdiscs[D] # {} => RootHandle(D) # ""
        BY <3>3, RootLemma
      <4>3. (CHOOSE x \in hp : TRUE) = p
        BY <2>2
      <4>4. QED
        BY <1>0, <1>2, <2>3, <2>6, <4>1, <4>2, <4>3 DEF ClassOf
    <3>8. QED
      BY <3>3, <3>5, <3>6, <3>7
  <2>7. CASE p \notin DOMAIN host.vlans
    <3>1. Below(p) = {}
      BY <2>2, <2>7, PlainBelow
    <3>2. Stack(net) = {i0, p}
      BY <2>4, <3>1 DEF Stack
    <3>3. Bottom(net) = {p}
      BY <2>4, <2>5, <3>1, <3>2 DEF Bottom
    <3>4. Minor(net) = NON_VLANNED_ID
      BY <2>5, <2>7, <3>2 DEF Minor
    <3>5. ClassOf(net) = IF host.qdiscs[p] = {} THEN Stop("continue")
                         ELSE Found(p, <<RootHandle(p), NON_VLANNED_ID>>)
      <4>1. ~(i0 \in host.bridges /\ hp = {}) /\ ~(i0 \in host.bridges /\ Cardinality(hp) > 1)
        BY <1>2, <2>3
      <4>2. host.qdiscs[p] # {} => RootHandle(p) # ""
        BY <2>2, RootLemma
      <4>3. (CHOOSE x \in hp : TRUE) = p
        BY <2>2
      <4>4. QED
        BY <1>0, <1>2, <2>3, <2>7, <4>1, <4>2, <4>3 DEF ClassOf
    <3>6. QED
      BY <2>2, <3>3, <3>4, <3>5
  <2>8. QED
    BY <2>6, <2>7
<1>3. CASE i0 \notin host.bridges
  <2>1. i0 \in DOMAIN host.qdiscs
    BY HostFacts
  <2>2. CASE i0 \in DOMAIN host.vlans
    <3> DEFINE D == host.vlans[i0].iface
    <3>1. Below(i0) = {D}
      BY <1>3, <2>2, PlainBelow
    <3>2. Below(D) = {}
      BY <2>2, BaseBelow
    <3>3. D \notin DOMAIN host.vlans /\ D # i0 /\ D \in DOMAIN host.qdiscs
      BY <2>2, HostFacts
    <3>4. Stack(net) = {i0, D}
      BY <3>1, <3>2 DEF Stack
    <3>5. Bottom(net) = {D}
      BY <3>1, <3>2, <3>3, <3>4 DEF Bottom
    <3>6. Minor(net) = host.vlans[i0].vlanid
      <4>1. (CHOOSE d \in Stack(net) : d \in DOMAIN host.vlans) = i0
        BY <2>2, <3>3, <3>4
      <4>2. QED
        BY <2>2, <3>4, <4>1 DEF Minor
    <3>7. ClassOf(net) = IF host.qdiscs[D] = {} THEN Stop("continue")
                         ELSE Found(D, <<RootHandle(D), host.vlans[i0].vlanid>>)
      <4>1. host.qdiscs[D] # {} => RootHandle(D) # ""
        BY <3>3, RootLemma
      <4>2. QED
        BY <1>3, <2>2, <4>1 DEF ClassOf
    <3>8. QED
      BY <3>3, <3>5, <3>6, <3>7
  <2>3. CASE i0 \notin DOMAIN host.vlans
    <3>1. Below(i0) = {}
      BY <1>3, <2>3, PlainBelow
    <3>2. Stack(net) = {i0}
      BY <3>1 DEF Stack
    <3>3. Bottom(net) = {i0}
      BY <3>1, <3>2 DEF Bottom
    <3>4. Minor(net) = NON_VLANNED_ID
      BY <2>3, <3>2 DEF Minor
    <3>5. ClassOf(net) = IF host.qdiscs[i0] = {} THEN Stop("continue")
                         ELSE Found(i0, <<RootHandle(i0), NON_VLANNED_ID>>)
      <4>1. host.qdiscs[i0] # {} => RootHandle(i0) # ""
        BY <2>1, RootLemma
      <4>2. QED
        BY <1>3, <2>3, <4>1 DEF ClassOf
    <3>6. QED
      BY <2>1, <3>3, <3>4, <3>5
  <2>4. QED
    BY <2>2, <2>3
<1>4. QED
  BY <1>1, <1>2, <1>3
(* One visit of a network neither raises nor reports anything but what   *)
(* the reference expects of it.                                           *)
LEMMA ReportLemma ==
    ASSUME HostOK(host), NEW net \in DOMAIN host.networks
    PROVE  LET c == ClassOf(net)
           IN /\ c.kind \in {"continue", "class"}
              /\ c.kind = "continue" => Expected(net) = NoQos
              /\ c.kind = "class" =>
                    Expected(net) = IF HfscClasses(c.dev, c.id) = {} THEN NoQos
                                    ELSE (CHOOSE k \in HfscClasses(c.dev, c.id) : TRUE).hfsc
<1>1. PICK D \in DOMAIN host.qdiscs :
          /\ Bottom(net) = {D}
          /\ ClassOf(net) = IF host.qdiscs[D] = {} THEN Stop("continue")
                            ELSE Found(D, <<RootHandle(D), Minor(net)>>)
  BY ClassLemma
<1> DEFINE cs == {c \in host.classes : c.dev \in Bottom(net) /\ c.kind = "hfsc"
                                       /\ c.id = <<RootHandle(c.dev), Minor(net)>>}
<1>2. Expected(net) = IF cs = {} THEN NoQos ELSE (CHOOSE c \in cs : TRUE).hfsc
  BY DEF Expected
<1>3. CASE host.qdiscs[D] = {}
  <2>1. cs = {}
    BY <1>1, <1>3, ClassesAtBottom
  <2>2. ClassOf(net).kind = "continue"
    <3>1. ClassOf(net) = Stop("continue")
      BY <1>1, <1>3
    <3>2. Stop("continue").kind = "continue"
      BY DEF Stop
    <3>3. QED
      BY <3>1, <3>2
  <2>3. QED
    BY <1>2, <2>1, <2>2
<1>4. CASE host.qdiscs[D] # {}
  <2>1. cs = HfscClasses(D, <<RootHandle(D), Minor(net)>>)
    BY <1>1, <1>4, ClassesAtBottom
  <2>2. ClassOf(net) = Found(D, <<RootHandle(D), Minor(net)>>)
    BY <1>1, <1>4
  <2>3. ClassOf(net).kind = "class" /\ ClassOf(net).dev = D
        /\ ClassOf(net).id = <<RootHandle(D), Minor(net)>>
    BY <2>2 DEF Found
  <2>4. QED
    BY <1>2, <2>1, <2>3
<1>5. QED
  BY <1>3, <1>4
-----------------------------------------------------------------------------
(* The report as an exact function of the loop's progress: the networks  *)
(* still to visit carry no hostQos, the visited ones what the reference   *)
(* expects.  QosReportFaithful only says the second half; the first is    *)
(* what makes it inductive, since a visit that finds no class leaves the  *)
(* network's entry as it was.                                             *)
QInv ==
    /\ host \in Hosts
    /\ todo \subseteq DOMAIN host.networks
    /\ pc \in {"loop", "done"}
    /\ qos = [n \in DOMAIN host.networks |-> IF n \in todo THEN NoQos ELSE Expected(n)]

LEMMA QInit == Init => QInv
  BY DEF Init, QInv

LEMMA QStep == HostsOK /\ QInv /\ [Next]_vars => QInv'
<1> SUFFICES ASSUME HostsOK, QInv, [Next]_vars PROVE QInv'
  OBVIOUS
<1>1. HostOK(host)
  BY DEF HostsOK, QInv
<1>0. host' = host => \A n : Expected(n)' = Expected(n)
  BY DEF Expected, Bottom, Stack, Below, Minor, RootHandle, IsVnet
<1>2. ASSUME NEW net \in DOMAIN host.networks, ReportNet(net) PROVE QInv'
  <2>1. net \in todo /\ todo' = todo \ {net} /\ host' = host /\ pc = "loop"
    BY <1>2 DEF ReportNet
  <2> DEFINE c == ClassOf(net)
  <2>2. c.kind \in {"continue", "class"}
    BY <1>1, ReportLemma
  <2>3. CASE c.kind = "continue"
    <3>1. UNCHANGED <<qos, pc>>
      BY <1>2, <2>3 DEF ReportNet
    <3>2. Expected(net) = NoQos
      BY <1>1, <2>3, ReportLemma
    <3>3. QED
      BY <1>0, <2>1, <3>1, <3>2 DEF QInv
  <2>4. CASE c.kind = "class"
    <3>1. /\ qos' = IF HfscClasses(c.dev, c.id) = {} THEN qos
                    ELSE [qos EXCEPT ![net] = (CHOOSE k \in HfscClasses(c.dev, c.id) : TRUE).hfsc]
          /\ UNCHANGED pc
      BY <1>2, <2>4 DEF ReportNet
    <3>2. Expected(net) = IF HfscClasses(c.dev, c.id) = {} THEN NoQos
                          ELSE (CHOOSE k \in HfscClasses(c.dev, c.id) : TRUE).hfsc
      BY <1>1, <2>4, ReportLemma
    <3>3. CASE HfscClasses(c.dev, c.id) = {}
      BY <1>0, <2>1, <3>1, <3>2, <3>3 DEF QInv
    <3>4. CASE HfscClasses(c.dev, c.id) # {}
      <4> DEFINE V == (CHOOSE k \in HfscClasses(c.dev, c.id) : TRUE).hfsc
      <4>1. qos' = [qos EXCEPT ![net] = V] /\ Expected(net) = V
        BY <3>1, <3>2, <3>4
      <4>2. QED
        BY <1>0, <2>1, <3>1, <4>1 DEF QInv
    <3>5. QED
      BY <3>3, <3>4
  <2>5. QED
    BY <2>2, <2>3, <2>4
<1>3. CASE LoopDone \/ Finished \/ UNCHANGED vars
  BY <1>0, <1>3 DEF LoopDone, Finished, vars, QInv
<1>4. QED
  BY <1>2, <1>3 DEF Next, QInv

(* On every set of hosts vdsm builds (a bridge carries one network and at *)
(* most one host port, vlans sit on plain devices, every device with     *)
(* qdiscs has a root one), report_network_qos never raises and reports,   *)
(* for every network it has visited, the curves of the hfsc class at the  *)
(* bottom of the network's own stack.                                     *)
THEOREM QosReportFaithfulHolds ==
    ASSUME HostsOK
    PROVE  Spec => []QosReportFaithful
<1>1. Init => QInv
  BY QInit
<1>2. QInv /\ [Next]_vars => QInv'
  BY QStep
<1>3. QInv => QosReportFaithful
  BY DEF QInv, QosReportFaithful
<1>4. QED
  BY <1>1, <1>2, <1>3, PTL DEF Spec
=============================================================================
