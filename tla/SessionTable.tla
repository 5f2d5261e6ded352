---------------------------- MODULE SessionTable ----------------------------
(***************************************************************************)
(* The session table as gfrguardd_session.c lays it out: SESSION_BUCKETS   *)
(* slots, open addressing with linear probing from the hash of the key,    *)
(* no deletion, and eviction in place when every slot is taken.  The new   *)
(* key of an eviction lands in a slot unrelated to its hash; that lookups  *)
(* still find it is what this module is about.                             *)
(***************************************************************************)
EXTENDS Session

CONSTANTS Keys,       \* session keys
          NoKey,      \* the key of a zeroed slot
          Home,       \* rguard_fnv1a64(key) % SESSION_BUCKETS
          MaxTime     \* bound on the clock

ASSUME TableAssumption ==
    /\ Home \in [Keys -> 0 .. SESSION_BUCKETS - 1]
    /\ NoKey \notin Keys
    /\ MaxTime \in Nat \ {0}

VARIABLES in_use,     \* in_use[i]: slot i holds a session
          key,        \* key[i]: the session key of slot i
          slot,       \* slot[i]: the rest of the session of slot i
          count,      \* t->count
          now         \* the clock

vars == <<in_use, key, slot, count, now>>

Slots == 0 .. SESSION_BUCKETS - 1

\* The slot looked at by probe p of a lookup of k.
Probe(k, p) == (Home[k] + p) % SESSION_BUCKETS

\* The probe loop of a lookup of k ends at probe p.
StopsAt(k, p) ==
    LET Ends(i) == ~in_use[i] \/ key[i] = k
    IN  /\ Ends(Probe(k, p))
        /\ \A q \in 0 .. p - 1 : ~Ends(Probe(k, q))

\* Mutant: the probe loop leaves out the last slot.
Missing_OneShort(k) ==
    \A p \in 0 .. SESSION_BUCKETS - 2 :
        in_use[Probe(k, p)] /\ key[Probe(k, p)] # k

Missing(k) == \A p \in Slots : in_use[Probe(k, p)] /\ key[Probe(k, p)] # k

\* Mutants: blocked sessions are candidates too; the newest one goes.
Oldest_Any(i) ==
    \A j \in Slots : \/ slot[i].last_seen < slot[j].last_seen
                     \/ slot[i].last_seen = slot[j].last_seen /\ i <= j

Oldest_Newest(i) ==
    /\ in_use[i] /\ ~slot[i].is_blocked
    /\ \A j \in Slots : in_use[j] /\ ~slot[j].is_blocked =>
          slot[i].last_seen >= slot[j].last_seen

\* The eviction scan: the first of the least recently seen idle sessions.
Oldest(i) ==
    /\ in_use[i] /\ ~slot[i].is_blocked
    /\ \A j \in Slots : in_use[j] /\ ~slot[j].is_blocked =>
          \/ slot[i].last_seen < slot[j].last_seen
          \/ slot[i].last_seen = slot[j].last_seen /\ i <= j

EmptySlot == NewSession(0)

Init == /\ in_use = [i \in Slots |-> FALSE]
        /\ key = [i \in Slots |-> NoKey]
        /\ slot = [i \in Slots |-> EmptySlot]
        /\ count = 0
        /\ now = 1

\* Mutant: the key is not copied into the slot.
Put_NoKey(i, k, block) ==
    /\ in_use' = [in_use EXCEPT ![i] = TRUE]
    /\ slot' = [slot EXCEPT ![i] = [NewSession(now) EXCEPT !.is_blocked = block]]
    /\ UNCHANGED key

\* The slot i is given to k; the caller may block the session.
Put(i, k, block) ==
    /\ in_use' = [in_use EXCEPT ![i] = TRUE]
    /\ key' = [key EXCEPT ![i] = k]
    /\ slot' = [slot EXCEPT ![i] = [NewSession(now) EXCEPT !.is_blocked = block]]

Found(k, block) ==
    /\ \E p \in Slots :
          /\ StopsAt(k, p) /\ in_use[Probe(k, p)]
          /\ slot' = [slot EXCEPT ![Probe(k, p)].last_seen = now,
                                  ![Probe(k, p)].is_blocked = @ \/ block]
    /\ UNCHANGED <<in_use, key, count, now>>

Created(k, block) ==
    /\ \E p \in Slots :
          StopsAt(k, p) /\ ~in_use[Probe(k, p)] /\ Put(Probe(k, p), k, block)
    /\ count' = count + 1
    /\ UNCHANGED now

\* Mutants: eviction counts a new session; eviction frees the slot and leaves
\* the creation to the next lookup.
Evicted_Counts(k, block) ==
    /\ Missing(k)
    /\ \E i \in Slots : Oldest(i) /\ Put(i, k, block)
    /\ count' = count + 1
    /\ UNCHANGED now

Evicted_Frees(k, block) ==
    /\ Missing(k)
    /\ \E i \in Slots : Oldest(i) /\ in_use' = [in_use EXCEPT ![i] = FALSE]
    /\ count' = count - 1
    /\ UNCHANGED <<key, slot, now>>

Evicted(k, block) ==
    /\ Missing(k)
    /\ \E i \in Slots : Oldest(i) /\ Put(i, k, block)
    /\ UNCHANGED <<count, now>>

Tick == /\ now < MaxTime
        /\ now' = now + 1
        /\ UNCHANGED <<in_use, key, slot, count>>

\* session_cleanup, session_table_init
Clear == /\ in_use' = [i \in Slots |-> FALSE]
         /\ key' = [i \in Slots |-> NoKey]
         /\ slot' = [i \in Slots |-> EmptySlot]
         /\ count' = 0
         /\ UNCHANGED now

Next == \/ \E k \in Keys, block \in BOOLEAN :
              Found(k, block) \/ Created(k, block) \/ Evicted(k, block)
        \/ Tick \/ Clear

Spec == Init /\ [][Next]_vars
-----------------------------------------------------------------------------
(* The table's types.                                                      *)
TypeOK ==
    /\ in_use \in [Slots -> BOOLEAN]
    /\ key \in [Slots -> Keys \cup {NoKey}]
    /\ \A i \in Slots : in_use[i] => key[i] \in Keys
    /\ slot \in [Slots -> SessionRecords({NoEvent})]
    /\ count \in Nat
    /\ now \in Nat

(* No key occupies two slots, whatever the collisions and evictions before *)
(* it: a session never splits into two halves that each stay below the     *)
(* thresholds.                                                             *)
UniqueKeys ==
    \A i, j \in Slots : in_use[i] /\ in_use[j] /\ key[i] = key[j] => i = j

(* Every session is where a lookup of its key looks before it gives up or  *)
(* meets a free slot: no free slot lies on the way to it.                  *)
Reachable ==
    \A i \in Slots : in_use[i] =>
        \E p \in Slots : /\ Probe(key[i], p) = i
                         /\ \A q \in 0 .. p - 1 : in_use[Probe(key[i], q)]

(* t->count is the number of slots in use: eviction neither loses nor      *)
(* counts a session twice.                                                 *)
CountIsExact == count = Cardinality({i \in Slots : in_use[i]})

(* A blocked session keeps its slot until the table is cleared: an         *)
(* eviction never takes the fanotify channels' deny signal away.           *)
BlockedKeepSlot ==
    [][\/ Clear
       \/ \A i \in Slots : in_use[i] /\ slot[i].is_blocked =>
             in_use'[i] /\ key'[i] = key[i] /\ slot'[i].is_blocked]_vars

\* The map the callers see.
TableAsMap == [k \in {key[i] : i \in {j \in Slots : in_use[j]}} |->
            slot[CHOOSE i \in Slots : in_use[i] /\ key[i] = k]]

Abstract == INSTANCE SessionMap WITH map <- TableAsMap, now <- now

(* The table is the bounded map with LRU eviction that the daemon uses.    *)
ImplementsMap == Abstract!MapSpec
=============================================================================
