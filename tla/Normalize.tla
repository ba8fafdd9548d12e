------------------------------ MODULE Normalize ------------------------------
(***************************************************************************)
(* normalize() of src/lib/vdsm/kernelconfig.py, as operators.  A Python   *)
(* value is a tagged record: I(n) an int, S(s) a str, B(b) a bool, L(s) a *)
(* list; an attribute mapping is a function from the keys present to      *)
(* values.  A configuration is a record of two such families, networks    *)
(* and bonds, indexed by name.  Every step loops over one of the two      *)
(* families and edits each entry on its own, so normalize is the step     *)
(* pipeline applied entry by entry (NormalizeNet, NormalizeBonding).      *)
(***************************************************************************)
EXTENDS Integers, Sequences, TLC

I(n) == [int |-> n]
S(s) == [str |-> s]
B(b) == [bool |-> b]
L(s) == [list |-> s]
IsInt(v) == "int" \in DOMAIN v
IsStr(v) == "str" \in DOMAIN v
IsBool(v) == "bool" \in DOMAIN v
IsList(v) == "list" \in DOMAIN v

(* dict.get, dict[k] = v and dict.pop on an attribute mapping. *)
Get(a, k, d) == IF k \in DOMAIN a THEN a[k] ELSE d
Put(a, k, v) == [x \in DOMAIN a \cup {k} |-> IF x = k THEN v ELSE a[x]]
Pop(a, k) == [x \in DOMAIN a \ {k} |-> a[x]]
None == [none |-> TRUE]

(* str() and int() on the values the model uses. *)
Str(v) == IF IsInt(v) THEN S(ToString(v.int))
          ELSE IF IsBool(v) THEN S(IF v.bool THEN "True" ELSE "False")
          ELSE v
Numbers == {0, 1, 8, 10, 16, 24, 1500, 9000}   \* the ints the model spells
IntOf(v) == IF IsInt(v) THEN v.int ELSE CHOOSE n \in Numbers : ToString(n) = v.str

(* str() spells the Numbers apart, so int(str(n)) is n again. *)
ToStringDistinct == \A m, n \in Numbers : ToString(m) = ToString(n) => m = n

(* mtus.DEFAULT_MTU, not under src/: the value injected for a missing mtu. *)
DEFAULT_MTU == S("1500")

(* utils.tobool, not under src/: None is false, a bool is itself, a      *)
(* string is true when it is "true" in any case or the digits of a      *)
(* non-zero int, false otherwise.                                        *)
Tobool(v) ==
    IF IsBool(v) THEN v.bool
    ELSE IF IsStr(v) THEN v.str \in {"true", "True", "TRUE"}
                          \/ (v.str \in {ToString(n) : n \in Numbers}
                              /\ v.str # "0")
    ELSE IF IsInt(v) THEN v.int # 0
    ELSE FALSE

(* bridges.stp_booleanize, not under src/ (spec 4.1): a permissive       *)
(* truthy-string parser, true when absent.                               *)
StpBooleanize(v) ==
    IF v = None THEN TRUE
    ELSE IF IsBool(v) THEN v.bool
    ELSE IsStr(v) /\ v.str \in {"true", "yes", "on", "1", "True", "YES", "ON"}

(* addresses.prefix2netmask, not under src/, on the prefixes used. *)
Prefix2Netmask(n) ==
    CASE n = 24 -> S("255.255.255.0")
      [] n = 16 -> S("255.255.0.0")
      [] n = 8  -> S("255.0.0.0")

(* The keys, among those the model uses, made only of uppercase letters, *)
(* digits and '_': the keys _normalize_ifcfg_keys drops.                  *)
IfcfgStyleKeys == {"STP", "IPV6_AUTOCONF", "DEFROUTE"}
-----------------------------------------------------------------------------
(* _normalize_bridge with _normalize_stp: bridged defaults to True and    *)
(* goes through tobool; for a bridged network 'stp' (or else 'STP') is     *)
(* popped and booleanized; `pop('stp', pop('STP', None))` pops 'STP'       *)
(* whether or not 'stp' is there.                                          *)
NormalizeBridge(a) ==
    IF Tobool(Get(a, "bridged", B(TRUE)))
      THEN LET stp == Get(a, "stp", Get(a, "STP", None))
               rest == Pop(Pop(a, "STP"), "stp")
           IN Put(Put(rest, "bridged", B(TRUE)), "stp", B(StpBooleanize(stp)))
      ELSE Put(a, "bridged", B(FALSE))

NormalizeVlan(a) ==
    IF "vlan" \in DOMAIN a THEN Put(a, "vlan", Str(a["vlan"])) ELSE a

NormalizeMtu(a) ==
    IF "mtu" \in DOMAIN a THEN Put(a, "mtu", Str(a["mtu"]))
                          ELSE Put(a, "mtu", DEFAULT_MTU)

NormalizeBlockingdhcp(a) == Pop(a, "blockingdhcp")

NormalizeDhcp(a) ==
    Put(Put(a, "bootproto", IF Get(a, "bootproto", None) = None
                              THEN S("none") ELSE a["bootproto"]),
        "dhcpv6", Get(a, "dhcpv6", B(FALSE)))

(* The network half of _normalize_bonding_opts: drop the legacy          *)
(* 'bondingOptions' of vdsm <= 4.16.20.                                   *)
NormalizeBondingOptsNet(a) == Pop(a, "bondingOptions")

(* _normalize_address: a prefix becomes a netmask, ipv6addr is wrapped   *)
(* in a list (whatever it already is), defaultRoute defaults to False.   *)
NormalizeAddress(a) ==
    LET prefix == Get(a, "prefix", None)
        b == Pop(a, "prefix")
        c == IF prefix # None
               THEN Put(b, "netmask", Prefix2Netmask(IntOf(prefix))) ELSE b
        d == IF "ipv6addr" \in DOMAIN c
               THEN Put(c, "ipv6addr", L(<<c["ipv6addr"]>>)) ELSE c
    IN IF "defaultRoute" \in DOMAIN d THEN d
                                      ELSE Put(d, "defaultRoute", B(FALSE))

NormalizeIfcfgKeys(a) == [k \in DOMAIN a \ IfcfgStyleKeys |-> a[k]]

(* Mutant: the ifcfg-style keys are filtered before the bridge step. *)
NormalizeNetIfcfgFirst(a) ==
    NormalizeAddress(NormalizeBondingOptsNet(NormalizeDhcp(
      NormalizeBlockingdhcp(NormalizeMtu(NormalizeVlan(NormalizeBridge(
        NormalizeIfcfgKeys(a))))))))

(* normalize() on one network, in the order of the code. *)
NormalizeNet(a) ==
    NormalizeIfcfgKeys(NormalizeAddress(NormalizeBondingOptsNet(
      NormalizeDhcp(NormalizeBlockingdhcp(NormalizeMtu(NormalizeVlan(
        NormalizeBridge(a))))))))
(* The bonding tables of netinfo/bonding.py, not under src/, on the      *)
(* modes the model uses: numeric mode ids and names, and the default      *)
(* options of each mode (an illustrative table with one mode-dependent   *)
(* option; 'mode' itself is left out of it).  Option values are strs.   *)
BONDING_MODES_NUMBER_TO_NAME == [m \in {"0", "1"} |->
                                   IF m = "0" THEN "balance-rr" ELSE "active-backup"]
BONDING_MODES_NAME_TO_NUMBER == [n \in {"balance-rr", "active-backup"} |->
                                   IF n = "balance-rr" THEN "0" ELSE "1"]
GetDefaultBondingOptions(m) == [miimon |-> IF m = "0" THEN "0" ELSE "100"]
DefaultMode == "0"   \* getAllDefaultBondingOptions()['0']['mode'][-1]

(* bonding.bondOptsForIfcfg, not under src/: the canonical option string, *)
(* the "key=value" pairs in key order; a key's place in OptionKeys is its *)
(* place in Python's string order.                                         *)
OptionKeys == <<"custom", "miimon", "mode">>
BondOptsForIfcfg(d) ==
    [ifcfg |-> [i \in 1..Len(SelectSeq(OptionKeys, LAMBDA k : k \in DOMAIN d))
                 |-> LET k == SelectSeq(OptionKeys, LAMBDA x : x \in DOMAIN d)[i]
                     IN <<k, d[k]>>]]

(* A requested 'options' str, split at white space into "key=value"      *)
(* tokens, each token split at its first '=': a sequence of pairs.        *)
OptStr(tokens) == [optstr |-> tokens]

(* _parse_bond_options: dict() of the tokens (a later key wins), a mode  *)
(* name replaced by its number, every option equal to the default of the *)
(* resolved mode dropped.  None and the empty string give {}.              *)
ParseBondOptions(v) ==
    IF v = None \/ v.optstr = <<>> THEN [k \in {} |-> "none"]
    ELSE LET t == v.optstr
             keys == {t[i][1] : i \in DOMAIN t}
             opts == [k \in keys |->
                        t[CHOOSE i \in DOMAIN t : t[i][1] = k
                                     /\ \A j \in DOMAIN t : t[j][1] = k => j <= i][2]]
             mode == IF "mode" \in keys THEN opts["mode"] ELSE DefaultMode
             numeric == IF mode \in DOMAIN BONDING_MODES_NUMBER_TO_NAME THEN mode
                        ELSE BONDING_MODES_NAME_TO_NUMBER[mode]
             opts2 == IF mode \in DOMAIN BONDING_MODES_NUMBER_TO_NAME THEN opts
                      ELSE [opts EXCEPT !["mode"] = numeric]
             defaults == GetDefaultBondingOptions(numeric)
         IN [k \in {x \in keys : x \notin DOMAIN defaults \/ opts2[x] # defaults[x]}
               |-> opts2[k]]

(* list.sort() on nic names: NameOrder lists the names the model uses in *)
(* Python's string order.                                                  *)
NameOrder == <<"eth0", "eth1", "eth2">>
Rank(n) == CHOOSE i \in DOMAIN NameOrder : NameOrder[i] = n
SortNames(l) == SortSeq(l, LAMBDA x, y : Rank(x) < Rank(y))

(* _normalize_bonding_opts on one bond: parse, drop 'custom', serialize.  *)
NormalizeBondingOpts(b) ==
    Put(b, "options", BondOptsForIfcfg(Pop(ParseBondOptions(Get(b, "options", None)),
                                           "custom")))

(* _normalize_bonding_nics on one bond: the slave list is sorted in place. *)
NormalizeBondingNics(b) ==
    IF "nics" \in DOMAIN b THEN Put(b, "nics", L(SortNames(b["nics"].list))) ELSE b

NormalizeBonding(b) == NormalizeBondingNics(NormalizeBondingOpts(b))

(* normalize(config): a deep copy, every network and every bond normalized. *)
NormalizeConfig(c) ==
    [networks |-> [n \in DOMAIN c.networks |-> NormalizeNet(c.networks[n])],
     bonds |-> [b \in DOMAIN c.bonds |-> NormalizeBonding(c.bonds[b])]]
-----------------------------------------------------------------------------
(* What a network's attributes mean, independently of how they are       *)
(* written: the defaults the code applies, numbers whatever their type,  *)
(* stp under either spelling and only for a bridged network, a netmask   *)
(* given directly or as a prefix, and the set of IPv6 addresses.          *)
Ipv6Set(v) ==
    IF IsStr(v) THEN {v.str}
    ELSE IF IsList(v) /\ \A i \in DOMAIN v.list : IsStr(v.list[i])
      THEN {v.list[i].str : i \in DOMAIN v.list}
    ELSE {"<not an address>"}

Meaning(a) ==
    LET bridged == Tobool(Get(a, "bridged", B(TRUE)))
        prefix == Get(a, "prefix", None)
    IN [bridged |-> bridged,
        stp |-> IF bridged THEN StpBooleanize(Get(a, "stp", Get(a, "STP", None)))
                           ELSE FALSE,
        mtu |-> IntOf(Get(a, "mtu", DEFAULT_MTU)),
        vlan |-> IF "vlan" \in DOMAIN a THEN IntOf(a["vlan"]) ELSE -1,
        bootproto |-> Get(a, "bootproto", S("none")),
        dhcpv6 |-> Tobool(Get(a, "dhcpv6", B(FALSE))),
        netmask |-> IF prefix # None THEN Prefix2Netmask(IntOf(prefix))
                                     ELSE Get(a, "netmask", None),
        ipv6 |-> IF "ipv6addr" \in DOMAIN a THEN Ipv6Set(a["ipv6addr"]) ELSE {},
        defaultRoute |-> Tobool(Get(a, "defaultRoute", B(FALSE)))]
=============================================================================
