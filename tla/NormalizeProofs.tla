--------------------------- MODULE NormalizeProofs ---------------------------
(***************************************************************************)
(* Proofs about normalize() (Normalize, NormalizePasses).  Every step of   *)
(* the pipeline edits a few keys of the attribute mapping and leaves the   *)
(* others alone; what a network means is read from a handful of keys, and  *)
(* for each of them the one step that touches it is shown to keep what it  *)
(* means.                                                                  *)
(***************************************************************************)
EXTENDS NormalizePasses, TLAPS

(* Key j is the same in r as in a: present in both or in neither, and with *)
(* the same value.                                                          *)
Same(r, a, j) == /\ j \in DOMAIN r <=> j \in DOMAIN a
                 /\ j \in DOMAIN a => r[j] = a[j]

(* int(str(v)) is int(v) for an int the model spells or a str. *)
LEMMA IntOfStr ==
    ASSUME ToStringDistinct, NEW v, Spelled(v)
    PROVE  IntOf(Str(v)) = IntOf(v)
<1>1. CASE v \in [str : STRING]
  <2>1. ~IsInt(v) /\ ~IsBool(v)
    BY <1>1 DEF IsInt, IsBool
  <2>. QED  BY <2>1 DEF Str
<1>2. CASE v \in {I(n) : n \in Numbers}
  <2>1. PICK n \in Numbers : v = I(n)
    BY <1>2
  <2>2. IsInt(v) /\ v.int = n
    BY <2>1 DEF IsInt, I
  <2>3. Str(v) = S(ToString(n))
    BY <2>2 DEF Str
  <2>4. ~IsInt(S(ToString(n))) /\ S(ToString(n)).str = ToString(n)
    BY DEF IsInt, S
  <2>5. IntOf(S(ToString(n))) = n
    BY <2>4, Zenon DEF IntOf, ToStringDistinct
  <2>. QED  BY <2>2, <2>3, <2>5 DEF IntOf
<1>. QED  BY <1>1, <1>2 DEF Spelled

(* Each step of the pipeline touches only its own keys. *)
LEMMA BridgeKeeps ==
    ASSUME NEW a, NEW j, j \notin {"bridged", "stp", "STP"}
    PROVE  Same(NormalizeBridge(a), a, j)
BY DEF Same, NormalizeBridge, Put, Pop

LEMMA VlanKeeps ==
    ASSUME NEW a, NEW j, j # "vlan"
    PROVE  Same(NormalizeVlan(a), a, j)
BY DEF Same, NormalizeVlan, Put

LEMMA MtuKeeps ==
    ASSUME NEW a, NEW j, j # "mtu"
    PROVE  Same(NormalizeMtu(a), a, j)
BY DEF Same, NormalizeMtu, Put

LEMMA BlockingdhcpKeeps ==
    ASSUME NEW a, NEW j, j # "blockingdhcp"
    PROVE  Same(NormalizeBlockingdhcp(a), a, j)
BY DEF Same, NormalizeBlockingdhcp, Pop

LEMMA DhcpKeeps ==
    ASSUME NEW a, NEW j, j \notin {"bootproto", "dhcpv6"}
    PROVE  Same(NormalizeDhcp(a), a, j)
BY DEF Same, NormalizeDhcp, Put

LEMMA BondingOptsNetKeeps ==
    ASSUME NEW a, NEW j, j # "bondingOptions"
    PROVE  Same(NormalizeBondingOptsNet(a), a, j)
BY DEF Same, NormalizeBondingOptsNet, Pop

LEMMA AddressKeeps ==
    ASSUME NEW a, NEW j, j \notin {"prefix", "netmask", "ipv6addr", "defaultRoute"}
    PROVE  Same(NormalizeAddress(a), a, j)
BY DEF Same, NormalizeAddress, Put, Pop, Get

LEMMA IfcfgKeysKeeps ==
    ASSUME NEW a, NEW j, j \notin IfcfgStyleKeys
    PROVE  Same(NormalizeIfcfgKeys(a), a, j)
BY DEF Same, NormalizeIfcfgKeys

(* The keys each stage of normalize hands on unchanged to the result. *)
LEMMA PipelineKeeps ==
    ASSUME NEW a
    PROVE  LET a1 == NormalizeBridge(a)
               a2 == NormalizeVlan(a1)
               a3 == NormalizeMtu(a2)
               a4 == NormalizeBlockingdhcp(a3)
               a5 == NormalizeDhcp(a4)
               a6 == NormalizeBondingOptsNet(a5)
               a7 == NormalizeAddress(a6)
               n == NormalizeNet(a)
           IN  /\ \A j \in {"bridged", "stp"} : Same(n, a1, j)
               /\ Same(a1, a, "vlan") /\ Same(n, a2, "vlan")
               /\ Same(a2, a, "mtu") /\ Same(n, a3, "mtu")
               /\ \A j \in {"bootproto", "dhcpv6"} : Same(a4, a, j) /\ Same(n, a5, j)
               /\ \A j \in {"prefix", "netmask", "ipv6addr", "defaultRoute"} :
                     Same(a6, a, j) /\ Same(n, a7, j)
<1> DEFINE a1 == NormalizeBridge(a)
           a2 == NormalizeVlan(a1)
           a3 == NormalizeMtu(a2)
           a4 == NormalizeBlockingdhcp(a3)
           a5 == NormalizeDhcp(a4)
           a6 == NormalizeBondingOptsNet(a5)
           a7 == NormalizeAddress(a6)
           n == NormalizeIfcfgKeys(a7)
<1>0. NormalizeNet(a) = n
  BY DEF NormalizeNet
<1>1. /\ \A j : j \notin {"bridged", "stp", "STP"} => Same(a1, a, j)
      /\ \A j : j # "vlan" => Same(a2, a1, j)
      /\ \A j : j # "mtu" => Same(a3, a2, j)
      /\ \A j : j # "blockingdhcp" => Same(a4, a3, j)
      /\ \A j : j \notin {"bootproto", "dhcpv6"} => Same(a5, a4, j)
      /\ \A j : j # "bondingOptions" => Same(a6, a5, j)
      /\ \A j : j \notin {"prefix", "netmask", "ipv6addr", "defaultRoute"} => Same(a7, a6, j)
      /\ \A j : j \notin IfcfgStyleKeys => Same(n, a7, j)
  BY BridgeKeeps, VlanKeeps, MtuKeeps, BlockingdhcpKeeps, DhcpKeeps,
     BondingOptsNetKeeps, AddressKeeps, IfcfgKeysKeeps
<1>. QED  BY <1>0, <1>1 DEF Same, IfcfgStyleKeys

(* tobool and stp_booleanize give a bool back as it is. *)
LEMMA ToboolBool ==
    ASSUME NEW x
    PROVE  Tobool(B(x)) = x
BY DEF Tobool, B, IsBool

LEMMA ToboolBoolean ==
    ASSUME NEW v, IsBool(v) => v.bool \in BOOLEAN
    PROVE  Tobool(v) \in BOOLEAN
BY DEF Tobool

LEMMA StpBooleanizeBool ==
    ASSUME NEW x
    PROVE  StpBooleanize(B(x)) = x
<1>1. B(x) # None /\ IsBool(B(x))
  BY DEF B, None, IsBool
<1>. QED  BY <1>1 DEF StpBooleanize, B

(* normalize keeps what a well-formed requested network means. *)
LEMMA MeaningKept ==
    ASSUME ToStringDistinct, NEW a, WellFormed(a)
    PROVE  Meaning(NormalizeNet(a)) = Meaning(a)
<1> DEFINE a1 == NormalizeBridge(a)
           a2 == NormalizeVlan(a1)
           a3 == NormalizeMtu(a2)
           a4 == NormalizeBlockingdhcp(a3)
           a5 == NormalizeDhcp(a4)
           a6 == NormalizeBondingOptsNet(a5)
           a7 == NormalizeAddress(a6)
           n == NormalizeNet(a)
           t == Tobool(Get(a, "bridged", B(TRUE)))
           stp == Get(a, "stp", Get(a, "STP", None))
<1>0. /\ \A j \in {"bridged", "stp"} : Same(n, a1, j)
      /\ Same(a1, a, "vlan") /\ Same(n, a2, "vlan")
      /\ Same(a2, a, "mtu") /\ Same(n, a3, "mtu")
      /\ \A j \in {"bootproto", "dhcpv6"} : Same(a4, a, j) /\ Same(n, a5, j)
      /\ \A j \in {"prefix", "netmask", "ipv6addr", "defaultRoute"} :
            Same(a6, a, j) /\ Same(n, a7, j)
  BY PipelineKeeps
\* bridged and stp: the bridge step
<1>1. Get(n, "bridged", B(TRUE)) = B(t)
  <2>1. t \in BOOLEAN
    <3>1. IsBool(Get(a, "bridged", B(TRUE))) => Get(a, "bridged", B(TRUE)).bool \in BOOLEAN
      BY DEF WellFormed, Get, B, IsBool
    <3>. QED  BY <3>1, ToboolBoolean
  <2>2. Get(a1, "bridged", B(TRUE)) = B(t)
    BY <2>1 DEF NormalizeBridge, Get, Put, Pop
  <2>3. Same(n, a1, "bridged")
    BY <1>0
  <2>. QED  BY <2>2, <2>3 DEF Same, Get
<1>2. t => Get(n, "stp", Get(n, "STP", None)) = B(StpBooleanize(stp))
  <2>1. t => "stp" \in DOMAIN a1 /\ a1["stp"] = B(StpBooleanize(stp))
    BY DEF NormalizeBridge, Get, Put, Pop
  <2>. QED  BY <1>0, <2>1 DEF Same, Get
\* mtu and vlan: str() of an int the model spells reads back as that int
<1>3. IntOf(Get(n, "mtu", DEFAULT_MTU)) = IntOf(Get(a, "mtu", DEFAULT_MTU))
  <2>1. "mtu" \in DOMAIN a3
        /\ a3["mtu"] = IF "mtu" \in DOMAIN a2 THEN Str(a2["mtu"]) ELSE DEFAULT_MTU
    BY DEF NormalizeMtu, Put
  <2>2. "mtu" \in DOMAIN a => Spelled(a["mtu"])
    BY DEF WellFormed
  <2>3. "mtu" \in DOMAIN a => IntOf(Str(a["mtu"])) = IntOf(a["mtu"])
    BY <2>2, IntOfStr
  <2>. QED  BY <1>0, <2>1, <2>3 DEF Same, Get
<1>4. /\ "vlan" \in DOMAIN n <=> "vlan" \in DOMAIN a
      /\ "vlan" \in DOMAIN a => IntOf(n["vlan"]) = IntOf(a["vlan"])
  <2>1. /\ "vlan" \in DOMAIN a2 <=> "vlan" \in DOMAIN a1
        /\ "vlan" \in DOMAIN a1 => a2["vlan"] = Str(a1["vlan"])
    BY DEF NormalizeVlan, Put
  <2>2. "vlan" \in DOMAIN a => IntOf(Str(a["vlan"])) = IntOf(a["vlan"])
    BY IntOfStr DEF WellFormed
  <2>. QED  BY <1>0, <2>1, <2>2 DEF Same
\* bootproto and dhcpv6: the dhcp step fills in only what is missing
<1>5. /\ Get(n, "bootproto", S("none")) = Get(a, "bootproto", S("none"))
      /\ Get(n, "dhcpv6", B(FALSE)) = Get(a, "dhcpv6", B(FALSE))
  <2>1. /\ "bootproto" \in DOMAIN a5
        /\ a5["bootproto"] = IF Get(a4, "bootproto", None) = None
                               THEN S("none") ELSE a4["bootproto"]
        /\ Get(a5, "dhcpv6", B(FALSE)) = Get(a4, "dhcpv6", B(FALSE))
    BY DEF NormalizeDhcp, Put, Get
  <2>2. S("none") # None
    BY DEF S, None
  <2>3. "bootproto" \in DOMAIN a => a["bootproto"] # None
    BY DEF WellFormed
  <2>. QED  BY <1>0, <2>1, <2>2, <2>3 DEF Same, Get
\* prefix, netmask, ipv6addr and defaultRoute: the address step
<1>6. /\ Get(n, "prefix", None) = None
      /\ Get(n, "netmask", None) =
            IF Get(a, "prefix", None) # None
              THEN Prefix2Netmask(IntOf(Get(a, "prefix", None)))
              ELSE Get(a, "netmask", None)
      /\ Get(n, "defaultRoute", B(FALSE)) = Get(a, "defaultRoute", B(FALSE))
  <2>1. /\ "prefix" \notin DOMAIN a7
        /\ Get(a7, "netmask", None) =
              IF Get(a6, "prefix", None) # None
                THEN Prefix2Netmask(IntOf(Get(a6, "prefix", None)))
                ELSE Get(a6, "netmask", None)
        /\ Get(a7, "defaultRoute", B(FALSE)) = Get(a6, "defaultRoute", B(FALSE))
    BY DEF NormalizeAddress, Put, Pop, Get
  <2>. QED  BY <1>0, <2>1 DEF Same, Get
<1>7. /\ "ipv6addr" \in DOMAIN n <=> "ipv6addr" \in DOMAIN a
      /\ "ipv6addr" \in DOMAIN a => Ipv6Set(n["ipv6addr"]) = Ipv6Set(a["ipv6addr"])
  <2>1. /\ "ipv6addr" \in DOMAIN a7 <=> "ipv6addr" \in DOMAIN a6
        /\ "ipv6addr" \in DOMAIN a6 => a7["ipv6addr"] = L(<<a6["ipv6addr"]>>)
    BY DEF NormalizeAddress, Put, Pop, Get
  <2>2. ASSUME NEW v \in [str : STRING]
        PROVE  Ipv6Set(L(<<v>>)) = Ipv6Set(v)
    <3>1. IsStr(v) /\ ~IsStr(L(<<v>>)) /\ IsList(L(<<v>>)) /\ L(<<v>>).list = <<v>>
      BY DEF IsStr, IsList, L
    <3>2. \A i \in DOMAIN <<v>> : IsStr(<<v>>[i])
      BY <3>1
    <3>3. {<<v>>[i].str : i \in DOMAIN <<v>>} = {v.str}
      OBVIOUS
    <3>. QED  BY <3>1, <3>2, <3>3 DEF Ipv6Set
  <2>3. "ipv6addr" \in DOMAIN a => a["ipv6addr"] \in [str : STRING]
    BY DEF WellFormed
  <2>. QED  BY <1>0, <2>1, <2>2, <2>3 DEF Same
<1>8. /\ Tobool(B(t)) = t
      /\ StpBooleanize(B(StpBooleanize(stp))) = StpBooleanize(stp)
  BY ToboolBool, StpBooleanizeBool
<1>. QED  BY <1>1, <1>2, <1>3, <1>4, <1>5, <1>6, <1>7, <1>8 DEF Meaning
-----------------------------------------------------------------------------
(* The state after one pass: nothing normalized yet, or the request      *)
(* normalized once.                                                       *)
NInv ==
    /\ requested \in Inputs
    /\ passes \in 0..1
    /\ net = IF passes = 0 THEN requested ELSE NormalizeNet(requested)

(* normalize, applied once as KernelConfig.__eq__ applies it, keeps the   *)
(* meaning of every well-formed request (MeaningPreserved), for every set *)
(* of inputs.  A second pass is excluded: it wraps ipv6addr in a second   *)
(* list.                                                                  *)
THEOREM MeaningPreservedHolds ==
    ASSUME ToStringDistinct, InputsOK, MaxPasses = 1
    PROVE  Spec => []MeaningPreserved
<1>1. Init => NInv
  BY DEF Init, NInv
<1>2. NInv /\ [Next]_vars => NInv'
  <2> SUFFICES ASSUME NInv, [Next]_vars PROVE NInv'
    OBVIOUS
  <2>1. CASE Normalize
    BY <2>1 DEF NInv, Normalize
  <2>2. CASE Finished
    BY <2>2 DEF NInv, Finished, vars
  <2>3. CASE UNCHANGED vars
    BY <2>3 DEF NInv, vars
  <2>. QED  BY <2>1, <2>2, <2>3 DEF Next
<1>3. NInv => MeaningPreserved
  <2> SUFFICES ASSUME NInv PROVE MeaningPreserved
    OBVIOUS
  <2>1. WellFormed(requested)
    BY DEF NInv, InputsOK
  <2>2. CASE passes = 0
    BY <2>2 DEF NInv, MeaningPreserved
  <2>3. CASE passes = 1
    BY <2>1, <2>3, MeaningKept DEF NInv, MeaningPreserved
  <2>. QED  BY <2>2, <2>3 DEF NInv
<1>. QED  BY <1>1, <1>2, <1>3, PTL DEF Spec
=============================================================================
