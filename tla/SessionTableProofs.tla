------------------------- MODULE SessionTableProofs -------------------------
(***************************************************************************)
(* Proofs about SessionTable for any number of slots, any set of keys and  *)
(* any hash function.                                                      *)
(***************************************************************************)
EXTENDS SessionTable, FiniteSetTheorems, FunctionTheorems, TLAPS

(* What makes UniqueKeys inductive: a key that is in the table can be      *)
(* reached, so that the probe of Created cannot miss it.                   *)
TableInv == TypeOK /\ UniqueKeys /\ Reachable

(* Probing from any home visits slots only, and every slot: the modulo of  *)
(* session_find_or_create wraps around exactly once.                       *)
LEMMA ProbesAllSlots ==
    ASSUME NEW k \in Keys
    PROVE  /\ \A p \in Slots : Probe(k, p) \in Slots
           /\ \A i \in Slots : \E p \in Slots : Probe(k, p) = i
<1> DEFINE N == SESSION_BUCKETS
           h == Home[k]
<1>1. N \in Nat /\ N > 0 /\ h \in 0 .. N - 1
  BY SessionAssumption, TableAssumption
<1>2. \A p \in Slots : Probe(k, p) \in Slots
  BY <1>1 DEF Probe, Slots
<1>3. ASSUME NEW i \in Slots PROVE \E p \in Slots : Probe(k, p) = i
  <2>1. CASE i >= h
    <3>1. i - h \in Slots /\ (h + (i - h)) % N = i
      BY <1>1, <2>1 DEF Slots
    <3> QED BY <3>1 DEF Probe
  <2>2. CASE i < h
    <3>1. i - h + N \in Slots /\ (h + (i - h + N)) % N = i
      BY <1>1, <2>2 DEF Slots
    <3> QED BY <3>1 DEF Probe
  <2> QED BY <1>1, <2>1, <2>2 DEF Slots
<1> QED BY <1>2, <1>3
-----------------------------------------------------------------------------
(* A slot given to a key holds a well-formed session.                      *)
LEMMA NewSessionType ==
    ASSUME NEW t \in Nat, NEW b \in BOOLEAN
    PROVE  /\ NewSession(t) \in SessionRecords({NoEvent})
           /\ [NewSession(t) EXCEPT !.is_blocked = b] \in SessionRecords({NoEvent})
BY DEF NewSession, SessionRecords, RiskLevels, RISK_NORMAL, RISK_CRITICAL

(* The slots of a zeroed table are well formed.                            *)
LEMMA ZeroedTable ==
    [i \in Slots |-> EmptySlot] \in [Slots -> SessionRecords({NoEvent})]
<1>1. EmptySlot \in SessionRecords({NoEvent})
  BY NewSessionType DEF EmptySlot
<1> QED BY <1>1

(* The zeroed table satisfies the invariant.                               *)
LEMMA TableInvInit == Init => TableInv
<1> SUFFICES ASSUME Init PROVE TableInv
  OBVIOUS
<1>1. TypeOK
  BY ZeroedTable DEF Init, TypeOK
<1>2. UniqueKeys /\ Reachable
  BY DEF Init, UniqueKeys, Reachable
<1> QED BY <1>1, <1>2 DEF TableInv

(* A found session changes neither the keys nor the slots in use.          *)
LEMMA FoundKeepsInv ==
    ASSUME TableInv, NEW k \in Keys, NEW block \in BOOLEAN, Found(k, block)
    PROVE  TableInv'
<1>1. PICK p \in Slots :
         slot' = [slot EXCEPT ![Probe(k, p)].last_seen = now,
                              ![Probe(k, p)].is_blocked = @ \/ block]
  BY DEF Found
<1>2. UNCHANGED <<in_use, key, count, now>>
  BY DEF Found
<1>3. slot' \in [Slots -> SessionRecords({NoEvent})]
  <2> DEFINE i == Probe(k, p)
             seen == [slot[i] EXCEPT !.last_seen = now]
             mark == [seen EXCEPT !.is_blocked = seen.is_blocked \/ block]
  <2>1. i \in Slots /\ slot[i] \in SessionRecords({NoEvent}) /\ now \in Nat
    BY ProbesAllSlots DEF TableInv, TypeOK
  <2>2. seen \in SessionRecords({NoEvent})
    BY <2>1 DEF SessionRecords
  <2>3. (seen.is_blocked \/ block) \in BOOLEAN
    OBVIOUS
  <2>4. mark \in SessionRecords({NoEvent})
    <3> HIDE DEF seen
    <3> QED BY <2>2, <2>3 DEF SessionRecords
  <2>5. slot' = [slot EXCEPT ![i] = mark]
    BY <1>1, <2>1 DEF TableInv, TypeOK
  <2> HIDE DEF mark, i
  <2> QED BY <2>1, <2>4, <2>5 DEF TableInv, TypeOK
<1>4. TypeOK'
  BY <1>2, <1>3 DEF TableInv, TypeOK
<1>5. UniqueKeys' /\ Reachable'
  BY <1>2 DEF TableInv, UniqueKeys, Reachable, Probe
<1> QED BY <1>4, <1>5 DEF TableInv

(* Put keeps the types.                                                    *)
LEMMA PutKeepsType ==
    ASSUME TypeOK, NEW i \in Slots, NEW k \in Keys, NEW block \in BOOLEAN,
           Put(i, k, block), count' \in Nat, UNCHANGED now
    PROVE  TypeOK'
<1>1. in_use' \in [Slots -> BOOLEAN] /\ key' \in [Slots -> Keys \cup {NoKey}]
  BY DEF TypeOK, Put
<1>2. \A j \in Slots : in_use'[j] => key'[j] \in Keys
  BY DEF TypeOK, Put
<1>3. slot' \in [Slots -> SessionRecords({NoEvent})]
  BY NewSessionType DEF TypeOK, Put
<1> QED BY <1>1, <1>2, <1>3 DEF TypeOK

(* The heart of the argument: the probe of a lookup that meets a free slot *)
(* has passed every slot in which the key could be.                        *)
LEMMA FreeSlotMeansAbsent ==
    ASSUME TableInv, NEW k \in Keys, NEW p \in Slots,
           StopsAt(k, p), ~in_use[Probe(k, p)]
    PROVE  \A j \in Slots : in_use[j] => key[j] # k
<1> SUFFICES ASSUME NEW j \in Slots, in_use[j], key[j] = k PROVE FALSE
  OBVIOUS
<1>1. PICK q \in Slots : /\ Probe(k, q) = j
                         /\ \A r \in 0 .. q - 1 : in_use[Probe(k, r)]
  BY DEF TableInv, Reachable
<1>2. CASE q < p
  <2>1. q \in 0 .. p - 1
    BY <1>2, SessionAssumption DEF Slots
  <2> QED BY <1>1, <2>1 DEF StopsAt
<1>3. CASE p < q
  <2>1. p \in 0 .. q - 1
    BY <1>3, SessionAssumption DEF Slots
  <2> QED BY <1>1, <2>1
<1>4. CASE p = q
  BY <1>1, <1>4
<1> QED BY <1>2, <1>3, <1>4, SessionAssumption DEF Slots

(* A lookup that finds neither the key nor a free slot has seen the whole  *)
(* table: it is full and the key is not in it.                             *)
LEMMA MissingMeansFull ==
    ASSUME TableInv, NEW k \in Keys, Missing(k)
    PROVE  \A j \in Slots : in_use[j] /\ key[j] # k
BY ProbesAllSlots DEF Missing

(* A session created in the free slot a lookup ended at.                   *)
LEMMA CreatedKeepsInv ==
    ASSUME TableInv, NEW k \in Keys, NEW block \in BOOLEAN, Created(k, block)
    PROVE  TableInv'
<1>1. PICK p \in Slots : /\ StopsAt(k, p) /\ ~in_use[Probe(k, p)]
                         /\ Put(Probe(k, p), k, block)
  BY DEF Created
<1> DEFINE i == Probe(k, p)
<1>2. i \in Slots
  BY ProbesAllSlots
<1>3. TypeOK'
  BY <1>1, <1>2, PutKeepsType DEF Created, TableInv, TypeOK
<1>4. \A j \in Slots : in_use[j] => key[j] # k
  BY <1>1, FreeSlotMeansAbsent
<1>5. \A j \in Slots : /\ in_use'[j] <=> (in_use[j] \/ j = i)
                       /\ key'[j] = IF j = i THEN k ELSE key[j]
  BY <1>1, <1>2 DEF Put, TableInv, TypeOK
<1> HIDE DEF i
<1>6. UniqueKeys'
  BY <1>4, <1>5 DEF TableInv, UniqueKeys
<1>7. ASSUME NEW j \in Slots, in_use'[j]
      PROVE  \E q \in Slots : /\ Probe(key'[j], q) = j
                              /\ \A r \in 0 .. q - 1 : in_use'[Probe(key'[j], r)]
  <2>1. CASE j = i
    <3>1. \A r \in 0 .. p - 1 : in_use[Probe(k, r)]
      BY <1>1 DEF StopsAt
    <3>2. \A r \in 0 .. p - 1 : r \in Slots
      BY SessionAssumption DEF Slots
    <3>3. \A r \in 0 .. p - 1 : in_use'[Probe(k, r)]
      BY <3>1, <3>2, <1>5, ProbesAllSlots
    <3> QED BY <2>1, <3>3, <1>5, <1>2 DEF i
  <2>2. CASE j # i
    <3>1. in_use[j] /\ key'[j] = key[j] /\ key[j] \in Keys
      BY <2>2, <1>5, <1>7 DEF TableInv, TypeOK
    <3>2. PICK q \in Slots : /\ Probe(key[j], q) = j
                             /\ \A r \in 0 .. q - 1 : in_use[Probe(key[j], r)]
      BY <3>1 DEF TableInv, Reachable
    <3>3. \A r \in 0 .. q - 1 : r \in Slots
      BY SessionAssumption DEF Slots
    <3> QED BY <3>1, <3>2, <3>3, <1>5, ProbesAllSlots
  <2> QED BY <2>1, <2>2
<1>8. Reachable'
  BY <1>7 DEF Reachable, Probe
<1> QED BY <1>3, <1>6, <1>8 DEF TableInv

(* A session created in the slot of an evicted one: the slot need not be   *)
(* near the home of the key, but no slot is free, so lookups get there.    *)
LEMMA EvictedKeepsInv ==
    ASSUME TableInv, NEW k \in Keys, NEW block \in BOOLEAN, Evicted(k, block)
    PROVE  TableInv'
<1>1. PICK i \in Slots : Oldest(i) /\ Put(i, k, block)
  BY DEF Evicted
<1>2. \A j \in Slots : in_use[j] /\ key[j] # k
  BY MissingMeansFull DEF Evicted
<1>3. TypeOK'
  BY <1>1, PutKeepsType DEF Evicted, TableInv, TypeOK
<1>4. \A j \in Slots : /\ in_use'[j]
                       /\ key'[j] = IF j = i THEN k ELSE key[j]
  BY <1>1, <1>2 DEF Put, TableInv, TypeOK
<1>5. UniqueKeys'
  BY <1>2, <1>4 DEF TableInv, UniqueKeys
<1>6. ASSUME NEW j \in Slots
      PROVE  \E q \in Slots : /\ Probe(key'[j], q) = j
                              /\ \A r \in 0 .. q - 1 : in_use'[Probe(key'[j], r)]
  <2>1. key'[j] \in Keys
    BY <1>3, <1>4 DEF TypeOK
  <2>2. PICK q \in Slots : Probe(key'[j], q) = j
    BY <2>1, ProbesAllSlots
  <2>3. \A r \in 0 .. q - 1 : r \in Slots
    BY SessionAssumption DEF Slots
  <2> QED BY <2>1, <2>2, <2>3, <1>4, ProbesAllSlots
<1>7. Reachable'
  BY <1>6 DEF Reachable, Probe
<1> QED BY <1>3, <1>5, <1>7 DEF TableInv

(* TableInv is inductive.                                                  *)
LEMMA TableInvNext == TableInv /\ [Next]_vars => TableInv'
<1> SUFFICES ASSUME TableInv, [Next]_vars PROVE TableInv'
  OBVIOUS
<1>1. ASSUME NEW k \in Keys, NEW block \in BOOLEAN,
             Found(k, block) \/ Created(k, block) \/ Evicted(k, block)
      PROVE  TableInv'
  BY <1>1, FoundKeepsInv, CreatedKeepsInv, EvictedKeepsInv
<1>2. CASE Tick
  <2>1. TypeOK'
    BY <1>2 DEF Tick, TableInv, TypeOK
  <2>2. UniqueKeys' /\ Reachable'
    BY <1>2 DEF Tick, TableInv, UniqueKeys, Reachable, Probe
  <2> QED BY <2>1, <2>2 DEF TableInv
<1>3. CASE Clear
  <2>1. slot' \in [Slots -> SessionRecords({NoEvent})]
    BY <1>3, ZeroedTable DEF Clear
  <2>2. TypeOK'
    BY <1>3, <2>1 DEF Clear, TableInv, TypeOK
  <2>3. UniqueKeys' /\ Reachable'
    BY <1>3 DEF Clear, UniqueKeys, Reachable
  <2> QED BY <2>2, <2>3 DEF TableInv
<1>4. CASE UNCHANGED vars
  BY <1>4 DEF vars, TableInv, TypeOK, UniqueKeys, Reachable, Probe
<1> QED BY <1>1, <1>2, <1>3, <1>4 DEF Next

(* The invariant holds in every reachable state of the table.              *)
THEOREM TableInvariant == Spec => []TableInv
BY TableInvInit, TableInvNext, PTL DEF Spec

(* The table keeps its types: in particular a slot in use always carries   *)
(* a session key (session_find_or_create).                                 *)
THEOREM TableTypes == Spec => []TypeOK
<1>1. TableInv => TypeOK
  BY DEF TableInv
<1> QED BY <1>1, TableInvariant, PTL

(* One client, one session: for any table size, any keys and any hash, no  *)
(* sequence of lookups, creations and evictions gives a key two slots.     *)
THEOREM OneSessionPerKey == Spec => []UniqueKeys
<1>1. TableInv => UniqueKeys
  BY DEF TableInv
<1> QED BY <1>1, TableInvariant, PTL

(* A session in the table is always found again by linear probing.         *)
THEOREM SessionsAreFound == Spec => []Reachable
<1>1. TableInv => Reachable
  BY DEF TableInv
<1> QED BY <1>1, TableInvariant, PTL
-----------------------------------------------------------------------------
\* The slots in use, whose number t->count is.
Used == {i \in Slots : in_use[i]}

(* The slots are finitely many, and so are those in use.                   *)
LEMMA UsedIsFinite == IsFiniteSet(Slots) /\ IsFiniteSet(Used)
<1>1. IsFiniteSet(Slots)
  BY FS_Interval, SessionAssumption DEF Slots
<1> QED BY <1>1, FS_Subset DEF Used

(* t->count is kept right by every step: only Created takes a free slot,   *)
(* and it takes one.                                                       *)
LEMMA CountNext == TableInv /\ CountIsExact /\ [Next]_vars => CountIsExact'
<1> SUFFICES ASSUME TableInv, count = Cardinality(Used), [Next]_vars
             PROVE  count' = Cardinality(Used')
  BY DEF CountIsExact, Used
<1>1. ASSUME NEW k \in Keys, NEW block \in BOOLEAN, Found(k, block)
      PROVE  count' = Cardinality(Used')
  BY <1>1 DEF Found, Used
<1>2. ASSUME NEW k \in Keys, NEW block \in BOOLEAN, Created(k, block)
      PROVE  count' = Cardinality(Used')
  <2>1. PICK p \in Slots : ~in_use[Probe(k, p)] /\ Put(Probe(k, p), k, block)
    BY <1>2 DEF Created
  <2> DEFINE i == Probe(k, p)
  <2>2. i \in Slots
    BY ProbesAllSlots
  <2>3. Used' = Used \cup {i} /\ i \notin Used
    BY <2>1, <2>2 DEF Put, Used, TableInv, TypeOK
  <2> QED BY <1>2, <2>3, UsedIsFinite, FS_AddElement DEF Created
<1>3. ASSUME NEW k \in Keys, NEW block \in BOOLEAN, Evicted(k, block)
      PROVE  count' = Cardinality(Used')
  <2>1. PICK i \in Slots : in_use[i] /\ Put(i, k, block)
    BY <1>3 DEF Evicted, Oldest
  <2>2. Used' = Used
    BY <2>1 DEF Put, Used, TableInv, TypeOK
  <2> QED BY <1>3, <2>2 DEF Evicted
<1>4. CASE Tick \/ UNCHANGED vars
  BY <1>4 DEF Tick, vars, Used
<1>5. CASE Clear
  <2>1. Used' = {} /\ count' = 0
    BY <1>5 DEF Clear, Used
  <2> QED BY <2>1, FS_EmptySet
<1> QED BY <1>1, <1>2, <1>3, <1>4, <1>5 DEF Next

(* The number of sessions the table reports is the number it holds.        *)
THEOREM CountIsRight == Spec => []CountIsExact
<1>1. Init => CountIsExact
  <2> SUFFICES ASSUME Init PROVE count = Cardinality(Used)
    BY DEF CountIsExact, Used
  <2>1. Used = {} /\ count = 0
    BY DEF Init, Used
  <2> QED BY <2>1, FS_EmptySet
<1> QED BY <1>1, CountNext, TableInvariant, PTL DEF Spec

(* Slot i does not lose a blocked session.                                 *)
LEMMA BlockedSlotNext ==
    ASSUME TableInv, Next, ~Clear,
           NEW i \in Slots, in_use[i], slot[i].is_blocked
    PROVE  in_use'[i] /\ key'[i] = key[i] /\ slot'[i].is_blocked
<1>1. ASSUME NEW k \in Keys, NEW block \in BOOLEAN, Found(k, block)
      PROVE  in_use'[i] /\ key'[i] = key[i] /\ slot'[i].is_blocked
  <2>1. PICK p \in Slots :
           slot' = [slot EXCEPT ![Probe(k, p)].last_seen = now,
                                ![Probe(k, p)].is_blocked = @ \/ block]
    BY <1>1 DEF Found
  <2>2. Probe(k, p) \in Slots /\ slot[i] \in SessionRecords({NoEvent})
    BY ProbesAllSlots DEF TableInv, TypeOK
  <2>3. slot'[i].is_blocked
    BY <2>1, <2>2 DEF TableInv, TypeOK, SessionRecords
  <2> QED BY <1>1, <2>3 DEF Found
<1>2. ASSUME NEW k \in Keys, NEW block \in BOOLEAN, NEW j \in Slots,
             Put(j, k, block), j # i
      PROVE  in_use'[i] /\ key'[i] = key[i] /\ slot'[i].is_blocked
  BY <1>2 DEF Put, TableInv, TypeOK
<1>3. ASSUME NEW k \in Keys, NEW block \in BOOLEAN, Created(k, block)
      PROVE  in_use'[i] /\ key'[i] = key[i] /\ slot'[i].is_blocked
  BY <1>2, <1>3, ProbesAllSlots DEF Created
<1>4. ASSUME NEW k \in Keys, NEW block \in BOOLEAN, Evicted(k, block)
      PROVE  in_use'[i] /\ key'[i] = key[i] /\ slot'[i].is_blocked
  BY <1>2, <1>4 DEF Evicted, Oldest
<1>5. CASE Tick
  BY <1>5 DEF Tick
<1> QED BY <1>1, <1>3, <1>4, <1>5 DEF Next

(* Eviction never takes the slot of a blocked session, for any table size  *)
(* and any hash: the deny signal of the fanotify channels lasts.           *)
THEOREM BlockedSessionsStay == Spec => BlockedKeepSlot
<1>1. TableInv /\ [Next]_vars =>
         [\/ Clear
          \/ \A i \in Slots : in_use[i] /\ slot[i].is_blocked =>
                in_use'[i] /\ key'[i] = key[i] /\ slot'[i].is_blocked]_vars
  BY BlockedSlotNext
<1> QED BY <1>1, TableInvariant, PTL DEF Spec, BlockedKeepSlot
-----------------------------------------------------------------------------
(* ImplementsMap: the slots are the bounded map the daemon works with.     *)

(* The map m holds the sessions s of the slots u in use under their keys.  *)
Holds(m, u, ky, s) ==
    /\ DOMAIN m = {ky[i] : i \in {j \in Slots : u[j]}}
    /\ m = [k \in DOMAIN m |-> m[k]]
    /\ \A i \in Slots : u[i] => m[ky[i]] = s[i]

MapOf(u, ky, s) == [k \in {ky[i] : i \in {j \in Slots : u[j]}} |->
                        s[CHOOSE i \in Slots : u[i] /\ ky[i] = k]]

(* If no key is in two slots, there is one such map.                       *)
LEMMA OneMap ==
    ASSUME NEW u, NEW ky, NEW s,
           \A i, j \in Slots : u[i] /\ u[j] /\ ky[i] = ky[j] => i = j
    PROVE  /\ Holds(MapOf(u, ky, s), u, ky, s)
           /\ \A m : Holds(m, u, ky, s) => m = MapOf(u, ky, s)
<1> DEFINE map == MapOf(u, ky, s)
<1>1. ASSUME NEW i \in Slots, u[i] PROVE map[ky[i]] = s[i]
  <2> DEFINE c == CHOOSE j \in Slots : u[j] /\ ky[j] = ky[i]
  <2>1. c \in Slots /\ u[c] /\ ky[c] = ky[i]
    BY <1>1
  <2>2. c = i
    <3> HIDE DEF c
    <3> QED BY <1>1, <2>1
  <2> QED BY <1>1, <2>2 DEF MapOf
<1>2. /\ DOMAIN map = {ky[i] : i \in {j \in Slots : u[j]}}
      /\ map = [k \in DOMAIN map |-> map[k]]
  BY DEF MapOf
<1> HIDE DEF map
<1>3. Holds(map, u, ky, s)
  BY <1>1, <1>2 DEF Holds
<1>4. ASSUME NEW m, Holds(m, u, ky, s) PROVE m = map
  <2>1. DOMAIN m = DOMAIN map
    BY <1>2, <1>4 DEF Holds
  <2>2. ASSUME NEW k \in DOMAIN map PROVE m[k] = map[k]
    BY <1>1, <1>2, <1>4 DEF Holds
  <2> QED BY <1>2, <1>4, <2>1, <2>2 DEF Holds
<1> QED BY <1>3, <1>4 DEF map

(* The map the callers see is that one, before and after a step.           *)
LEMMA TheMap ==
    ASSUME TableInv
    PROVE  Holds(TableAsMap, in_use, key, slot)
<1>1. \A i, j \in Slots : in_use[i] /\ in_use[j] /\ key[i] = key[j] => i = j
  BY DEF TableInv, UniqueKeys
<1>2. TableAsMap = MapOf(in_use, key, slot)
  BY Zenon DEF TableAsMap, MapOf
<1> QED BY <1>1, <1>2, OneMap, Zenon

(* The map of the next state is the only one the table holds then.         *)
LEMMA TheNextMap ==
    ASSUME TableInv'
    PROVE  \A m : Holds(m, in_use', key', slot') => m = TableAsMap'
<1>1. \A i, j \in Slots : in_use'[i] /\ in_use'[j] /\ key'[i] = key'[j] => i = j
  BY DEF TableInv, UniqueKeys
<1>2. TableAsMap' = MapOf(in_use', key', slot')
  BY Zenon DEF TableAsMap, MapOf
<1> QED BY <1>1, <1>2, OneMap, Zenon

(* The map is full exactly if the table is.                                *)
LEMMA FullMap ==
    ASSUME TableInv
    PROVE  Cardinality(DOMAIN TableAsMap) < SESSION_BUCKETS
              <=> \E i \in Slots : ~in_use[i]
<1> DEFINE D == DOMAIN TableAsMap
           f == [i \in Used |-> key[i]]
<1>1. D = {key[i] : i \in Used}
  BY TheMap DEF Holds, Used
<1>2. f \in Surjection(Used, D) /\ f \in Injection(Used, D)
  BY <1>1 DEF Surjection, Injection, IsInjective, Used, TableInv, UniqueKeys
<1>3. Cardinality(D) = Cardinality(Used) /\ Cardinality(Used) \in Nat
  BY <1>2, UsedIsFinite, FS_Surjection, FS_CardinalityType
<1>4. Cardinality(Slots) = SESSION_BUCKETS
  BY FS_Interval, SessionAssumption DEF Slots
<1>5. Cardinality(Used) <= Cardinality(Slots)
      /\ (Cardinality(Used) = Cardinality(Slots) <=> Used = Slots)
  BY UsedIsFinite, FS_Subset DEF Used
<1>6. Used = Slots <=> \A i \in Slots : in_use[i]
  BY DEF Used
<1> QED BY <1>3, <1>4, <1>5, <1>6, SessionAssumption

(* A lookup that finds its session.                                        *)
LEMMA FoundIsLookup ==
    ASSUME TableInv, TableInv', NEW k \in Keys, NEW block \in BOOLEAN,
           Found(k, block)
    PROVE  Abstract!MapLookup(k, block)
<1> DEFINE T == TableAsMap
           m == [T EXCEPT ![k].last_seen = now]
           n == [m EXCEPT ![k].is_blocked = m[k].is_blocked \/ block]
<1>1. PICK p \in Slots :
         /\ StopsAt(k, p) /\ in_use[Probe(k, p)]
         /\ slot' = [slot EXCEPT ![Probe(k, p)].last_seen = now,
                                 ![Probe(k, p)].is_blocked = @ \/ block]
  BY DEF Found
<1> DEFINE i == Probe(k, p)
           seen == [slot[i] EXCEPT !.last_seen = now]
           mark == [seen EXCEPT !.is_blocked = seen.is_blocked \/ block]
<1>2. /\ i \in Slots /\ in_use[i] /\ key[i] = k
      /\ UNCHANGED <<in_use, key, now>>
  BY <1>1, ProbesAllSlots DEF StopsAt, Found
<1>3. /\ slot \in [Slots -> SessionRecords({NoEvent})]
      /\ slot[i] \in SessionRecords({NoEvent})
  BY <1>2 DEF TableInv, TypeOK
<1>4. slot' = [slot EXCEPT ![i] = mark]
  BY <1>1, <1>2, <1>3
<1>5. /\ DOMAIN T = {key[j] : j \in {l \in Slots : in_use[l]}}
      /\ T = [j \in DOMAIN T |-> T[j]]
      /\ \A j \in Slots : in_use[j] => T[key[j]] = slot[j]
  BY TheMap DEF Holds
<1>6. k \in DOMAIN T /\ T[k] = slot[i]
  BY <1>2, <1>5
<1> HIDE DEF T, i
<1>7. m = [T EXCEPT ![k] = seen] /\ m[k] = seen
  BY <1>5, <1>6
<1> HIDE DEF m
<1>8. n = [T EXCEPT ![k] = mark]
  BY <1>5, <1>6, <1>7
<1> HIDE DEF n, mark, seen
<1>9. /\ DOMAIN n = DOMAIN T /\ n = [j \in DOMAIN n |-> n[j]] /\ n[k] = mark
      /\ \A j \in DOMAIN T : j # k => n[j] = T[j]
  BY <1>5, <1>6, <1>8
<1>10. ASSUME NEW j \in Slots, in_use[j] PROVE n[key[j]] = slot'[j]
  <2>1. CASE j = i
    BY <1>2, <1>3, <1>4, <1>9, <2>1
  <2>2. CASE j # i
    <3>1. key[j] # k /\ key[j] \in DOMAIN T /\ T[key[j]] = slot[j]
      BY <1>2, <1>5, <1>10, <2>2 DEF TableInv, UniqueKeys
    <3>2. slot'[j] = slot[j]
      BY <1>3, <1>4, <2>2
    <3> QED BY <1>9, <3>1, <3>2
  <2> QED BY <2>1, <2>2
<1>11. Holds(n, in_use', key', slot')
  BY <1>2, <1>5, <1>9, <1>10 DEF Holds
<1>12. n = TableAsMap'
  BY <1>11, TheNextMap
<1>13. Abstract!session_find_or_create(TableAsMap, k, now) = {m}
  BY <1>6 DEF Abstract!session_find_or_create, m, T
<1>14. TableAsMap' = [m EXCEPT ![k].is_blocked = @ \/ block]
  BY <1>12 DEF n
<1> QED BY <1>2, <1>13, <1>14, Zenon DEF Abstract!MapLookup

(* A lookup that gives slot i to its key: where the key of the slot, if it *)
(* had one, was in the map there is now the new one.                       *)
LEMMA PutIsLookup ==
    ASSUME TableInv, TableInv', NEW k \in Keys, NEW block \in BOOLEAN,
           NEW i \in Slots, Put(i, k, block), UNCHANGED now,
           \A j \in Slots : in_use[j] => key[j] # k,
           NEW victims, victims = IF in_use[i] THEN {key[i]} ELSE {},
           Abstract!Renamed(TableAsMap, victims, k, now)
              \in Abstract!session_find_or_create(TableAsMap, k, now)
    PROVE  Abstract!MapLookup(k, block)
<1> DEFINE T == TableAsMap
           D == (DOMAIN T \ victims) \cup {k}
           fresh == Abstract!NewSession(now)
           mark == [fresh EXCEPT !.is_blocked = fresh.is_blocked \/ block]
           m == Abstract!Renamed(T, victims, k, now)
           n == [m EXCEPT ![k].is_blocked = @ \/ block]
<1>1. mark = [NewSession(now) EXCEPT !.is_blocked = block]
  BY DEF Abstract!NewSession, NewSession, Abstract!RISK_NORMAL, RISK_NORMAL
<1>2. /\ in_use' = [in_use EXCEPT ![i] = TRUE]
      /\ key' = [key EXCEPT ![i] = k] /\ slot' = [slot EXCEPT ![i] = mark]
  BY <1>1 DEF Put
<1>3. m = [j \in D |-> IF j = k THEN fresh ELSE T[j]]
  BY DEF Abstract!Renamed
<1> HIDE DEF m, T, fresh
<1>4. n = [j \in D |-> IF j = k THEN mark ELSE T[j]]
  BY <1>3
<1> HIDE DEF mark, n
<1>5. /\ DOMAIN T = {key[j] : j \in {l \in Slots : in_use[l]}}
      /\ \A j \in Slots : in_use[j] => T[key[j]] = slot[j]
  BY TheMap DEF Holds, T
<1>6. /\ \A j \in Slots : in_use'[j] <=> in_use[j] \/ j = i
      /\ \A j \in Slots : key'[j] = IF j = i THEN k ELSE key[j]
      /\ \A j \in Slots : slot'[j] = IF j = i THEN mark ELSE slot[j]
  BY <1>2 DEF TableInv, TypeOK
<1>7. \A j \in Slots : in_use[j] /\ in_use[i] /\ key[j] = key[i] => j = i
  BY DEF TableInv, UniqueKeys
<1>8. ASSUME NEW x PROVE x \in D <=> \E j \in Slots : in_use'[j] /\ x = key'[j]
  <2>1. ASSUME x \in DOMAIN T \ victims
        PROVE  \E j \in Slots : in_use'[j] /\ x = key'[j]
    <3>1. PICK j \in Slots : in_use[j] /\ x = key[j]
      BY <1>5, <2>1
    <3>2. j # i
      BY <2>1, <3>1
    <3> QED BY <1>6, <3>1, <3>2
  <2>2. ASSUME x = k PROVE \E j \in Slots : in_use'[j] /\ x = key'[j]
    BY <1>6, <2>2
  <2>3. ASSUME NEW j \in Slots, in_use'[j], x = key'[j] PROVE x \in D
    <3>1. CASE j = i
      BY <1>6, <2>3, <3>1
    <3>2. CASE j # i
      <4>1. in_use[j] /\ x = key[j]
        BY <1>6, <2>3, <3>2
      <4>2. x \notin victims
        BY <1>7, <3>2, <4>1
      <4> QED BY <1>5, <4>1, <4>2
    <3> QED BY <3>1, <3>2
  <2> QED BY <2>1, <2>2, <2>3
<1>9. DOMAIN n = {key'[j] : j \in {l \in Slots : in_use'[l]}}
  BY <1>4, <1>8
<1>10. ASSUME NEW j \in Slots, in_use'[j] PROVE n[key'[j]] = slot'[j]
  <2>1. key'[j] \in D
    BY <1>8, <1>10
  <2>2. CASE j = i
    BY <1>4, <1>6, <2>1, <2>2
  <2>3. CASE j # i
    <3>1. in_use[j] /\ key'[j] = key[j] /\ key[j] # k /\ slot'[j] = slot[j]
      BY <1>6, <1>10, <2>3
    <3>2. n[key'[j]] = T[key[j]]
      BY <1>4, <2>1, <3>1
    <3> QED BY <1>5, <3>1, <3>2
  <2> QED BY <2>2, <2>3
<1>11. Holds(n, in_use', key', slot')
  BY <1>4, <1>9, <1>10 DEF Holds
<1>12. n = TableAsMap'
  BY <1>11, TheNextMap
<1>13. /\ m \in Abstract!session_find_or_create(TableAsMap, k, now)
       /\ TableAsMap' = [m EXCEPT ![k].is_blocked = @ \/ block]
  BY <1>12 DEF n, m, T
<1> QED BY <1>13, Zenon DEF Abstract!MapLookup

(* The map counts as the table does.                                       *)
LEMMA SameCardinality ==
    ASSUME NEW S
    PROVE  Abstract!Cardinality(S) = Cardinality(S)
BY Zenon DEF Abstract!Cardinality, Cardinality

(* A session created in a free slot: the map is not full.                  *)
LEMMA CreatedIsLookup ==
    ASSUME TableInv, TableInv', NEW k \in Keys, NEW block \in BOOLEAN,
           Created(k, block)
    PROVE  Abstract!MapLookup(k, block)
<1>1. PICK p \in Slots : /\ StopsAt(k, p) /\ ~in_use[Probe(k, p)]
                         /\ Put(Probe(k, p), k, block)
  BY DEF Created
<1> DEFINE i == Probe(k, p)
<1>2. /\ i \in Slots /\ ~in_use[i] /\ Put(i, k, block) /\ UNCHANGED now
      /\ \A j \in Slots : in_use[j] => key[j] # k
  BY <1>1, ProbesAllSlots, FreeSlotMeansAbsent DEF Created
<1> HIDE DEF i
<1>3. k \notin DOMAIN TableAsMap
  BY <1>2, TheMap DEF Holds
<1>4. Cardinality(DOMAIN TableAsMap) < SESSION_BUCKETS
  BY <1>2, FullMap
<1>5. Abstract!session_find_or_create(TableAsMap, k, now)
         = {Abstract!Renamed(TableAsMap, {}, k, now)}
  BY <1>3, <1>4, SameCardinality DEF Abstract!session_find_or_create
<1> QED BY <1>2, <1>5, PutIsLookup

(* A session created in the slot of another one: the table is full, and so *)
(* is the map; the slot's session is one the map may give up.              *)
LEMMA EvictedIsLookup ==
    ASSUME TableInv, TableInv', NEW k \in Keys, NEW block \in BOOLEAN,
           Evicted(k, block)
    PROVE  Abstract!MapLookup(k, block)
<1> DEFINE T == TableAsMap
<1>1. PICK i \in Slots : Oldest(i) /\ Put(i, k, block)
  BY DEF Evicted
<1>2. \A j \in Slots : in_use[j] /\ key[j] # k
  BY MissingMeansFull DEF Evicted
<1>3. /\ DOMAIN T = {key[j] : j \in {l \in Slots : in_use[l]}}
      /\ \A j \in Slots : in_use[j] => T[key[j]] = slot[j]
  BY TheMap DEF Holds
<1>4. k \notin DOMAIN T /\ ~(Cardinality(DOMAIN T) < SESSION_BUCKETS)
  BY <1>2, <1>3, FullMap
<1> HIDE DEF T
<1>5. key[i] \in Abstract!Evictable(T)
  <2>1. key[i] \in DOMAIN T /\ ~T[key[i]].is_blocked
    BY <1>1, <1>2, <1>3 DEF Oldest
  <2>2. ASSUME NEW u \in DOMAIN T, ~T[u].is_blocked
        PROVE  T[key[i]].last_seen <= T[u].last_seen
    <3>1. PICK j \in Slots : in_use[j] /\ u = key[j] /\ T[u] = slot[j]
      BY <1>3, <2>2
    <3>2. slot[i].last_seen \in Nat /\ slot[j].last_seen \in Nat
      BY DEF TableInv, TypeOK, SessionRecords
    <3>3. slot[i].last_seen <= slot[j].last_seen
      BY <1>1, <2>2, <3>1, <3>2 DEF Oldest
    <3> QED BY <1>2, <1>3, <3>1, <3>3
  <2> QED BY <2>1, <2>2 DEF Abstract!Evictable
<1>6. Abstract!session_find_or_create(T, k, now)
         = {Abstract!Renamed(T, {v}, k, now) : v \in Abstract!Evictable(T)}
  BY <1>4, SameCardinality DEF Abstract!session_find_or_create
<1>7. Abstract!Renamed(T, {key[i]}, k, now)
         \in Abstract!session_find_or_create(T, k, now)
  BY <1>5, <1>6
<1>8. UNCHANGED now
  BY DEF Evicted
<1> QED BY <1>1, <1>2, <1>7, <1>8, PutIsLookup DEF T

(* The zeroed table is the empty map.                                      *)
LEMMA NoMap == Holds(<<>>, [i \in Slots |-> FALSE], [i \in Slots |-> NoKey],
                     [i \in Slots |-> EmptySlot])
BY DEF Holds

(* Open addressing with eviction in place behaves as the bounded map with  *)
(* least-recently-seen eviction that the daemon's code relies on, for any  *)
(* table size, any keys and any hash: every lookup of the table is one the *)
(* map allows, with the same session found, created or given up.           *)
THEOREM TableIsMap == Spec => ImplementsMap
<1>1. Init => Abstract!MapInit
  <2> SUFFICES ASSUME Init PROVE TableAsMap = <<>> /\ now = 1
    BY DEF Abstract!MapInit
  <2>1. TableAsMap = <<>>
    BY NoMap DEF Init, Holds, TableAsMap
  <2> QED BY <2>1 DEF Init
<1>2. TableInv /\ TableInv' /\ [Next]_vars => [Abstract!MapNext]_(Abstract!mapVars)
  <2> SUFFICES ASSUME TableInv, TableInv', [Next]_vars
               PROVE  Abstract!MapNext \/ UNCHANGED Abstract!mapVars
    OBVIOUS
  <2>1. ASSUME NEW k \in Keys, NEW block \in BOOLEAN,
               Found(k, block) \/ Created(k, block) \/ Evicted(k, block)
        PROVE  Abstract!MapLookup(k, block)
    BY <2>1, FoundIsLookup, CreatedIsLookup, EvictedIsLookup
  <2>2. CASE Tick
    BY <2>2 DEF Tick, TableAsMap, Abstract!MapNext, Abstract!MapTick
  <2>3. CASE Clear
    <3>1. Holds(<<>>, in_use', key', slot')
      BY <2>3, NoMap DEF Clear
    <3>2. <<>> = TableAsMap'
      BY <3>1, TheNextMap
    <3> QED BY <2>3, <3>2 DEF Clear, Abstract!MapNext, Abstract!MapClear
  <2>4. CASE UNCHANGED vars
    BY <2>4 DEF vars, TableAsMap, Abstract!mapVars
  <2> QED BY <2>1, <2>2, <2>3, <2>4 DEF Next, Abstract!MapNext
<1> QED BY <1>1, <1>2, TableInvariant, PTL
        DEF Spec, ImplementsMap, Abstract!MapSpec
=============================================================================
