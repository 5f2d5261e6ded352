----------------------------- MODULE Blacklist ------------------------------
(***************************************************************************)
(* The blacklist in its three forms: blacklist.ips of policy.json (a       *)
(* sequence of entries, a daemon verdict marked auto), the lists in memory *)
(* (the loaded entries, and the runtime auto list, a FIFO), and the        *)
(* blocked file (bare addresses, the form the VFS module reads).  Pure     *)
(* operators from gfrguardd_scorer.c, rguard_config.c and                  *)
(* gfrguardd_blocker.c.                                                    *)
(***************************************************************************)
EXTENDS Integers, SequencesExt

CONSTANTS IPs,         \* client addresses (what inet_pton accepts)
          Nets,        \* CIDR and range entries
          Covers,      \* pairs <<net, ip>>: the net contains the address
          LIST_MAX,    \* RGUARD_WHITELIST_MAX: entries config_load keeps
          AUTO_MAX     \* RGUARD_BLACKLIST_AUTO_MAX: auto entries kept

ASSUME BlacklistAssumption ==
    /\ IPs \cap Nets = {}
    /\ Covers \subseteq Nets \X IPs
    /\ LIST_MAX \in Nat \ {0} /\ AUTO_MAX \in Nat \ {0}

Entry == [ip : IPs \cup Nets, auto : BOOLEAN]

Listed(ips) == {ips[i].ip : i \in DOMAIN ips}

\* Exact match, or a CIDR or range entry that contains the address.
Matches(e, ip) == e = ip \/ <<e, ip>> \in Covers

scorer_ip_blacklisted(manual, auto, ip) ==
    \E e \in manual \cup ToSet(auto) : Matches(e, ip)

\* Mutant: the list grows past its capacity.
scorer_blacklist_auto_add_Unbounded(manual, auto, ip) ==
    IF ip \notin IPs \/ ip \in manual \/ ip \in ToSet(auto) THEN auto
    ELSE Append(auto, ip)

\* The auto list takes real addresses that are on neither list yet, and
\* drops its oldest entry when it is full.
scorer_blacklist_auto_add(manual, auto, ip) ==
    IF ip \notin IPs \/ ip \in manual \/ ip \in ToSet(auto) THEN auto
    ELSE Append(IF Len(auto) >= AUTO_MAX THEN Tail(auto) ELSE auto, ip)

\* config_load keeps the first LIST_MAX entries.
config_load_ips(ips) == {ips[i].ip : i \in {j \in DOMAIN ips : j <= LIST_MAX}}

IsAuto(e) == e.auto

\* Mutant: one auto entry too few is kept.
config_persist_blacklist_ip_Early(ips, ip) ==
    LET autos == {i \in DOMAIN ips : ips[i].auto}
        room  == IF Cardinality(autos) + 1 >= AUTO_MAX /\ autos # {}
                 THEN RemoveFirstMatch(ips, IsAuto) ELSE ips
    IN  IF ip \notin IPs \/ ip \in Listed(ips) THEN ips
        ELSE Append(room, [ip |-> ip, auto |-> TRUE])

\* The verdict is appended to policy.json unless the address is listed in
\* any form; over the cap the first auto entry goes.
config_persist_blacklist_ip(ips, ip) ==
    LET autos == {i \in DOMAIN ips : ips[i].auto}
        room  == IF Cardinality(autos) >= AUTO_MAX
                 THEN RemoveFirstMatch(ips, IsAuto) ELSE ips
    IN  IF ip \notin IPs \/ ip \in Listed(ips) THEN ips
        ELSE Append(room, [ip |-> ip, auto |-> TRUE])

\* Mutant: the auto list is left out.
blocker_sync_blacklist_ManualOnly(manual, auto) == manual \cap IPs

\* The blocked file is rebuilt from the bare addresses of both lists.
blocker_sync_blacklist(manual, auto) == (manual \cup ToSet(auto)) \cap IPs
=============================================================================
