----------------------------- MODULE VfsProofs ------------------------------
(***************************************************************************)
(* Proofs about Vfs for any number of smbd workers, names and inodes,      *)
(* whatever fails and whoever dies: types, one copier per backup, and that *)
(* the first complete copy wins; and, for a client that is alone, that an  *)
(* event flagged BACKED_UP is true and that strict mode loses no original. *)
(***************************************************************************)
EXTENDS Vfs, TLAPS

(* The types of the parts that do not depend on another.                   *)
PlainTypes(d, t, b, f, c, l) ==
    /\ d \in [Names -> Inodes \cup {NoFile}]
    /\ \A n1, n2 \in Names : d[n1] = d[n2] /\ n1 # n2 => d[n1] = NoFile
    /\ t \in [Inodes -> Contents]
    /\ b \in [Names -> Contents \cup {NoBackup, Partial}]
    /\ f \in [Workers -> Handles \cup {NoHandle}]
    /\ c \in [Workers -> Calls \cup {NoCall}]
    /\ l \subseteq Workers

(* What ties a callback to the handle of its worker.                       *)
Fits(c, h) == c # NoCall => /\ c.op \in {"pwrite", "ftruncate"} => h # NoHandle
                            /\ c.stage = "copy" => c.src \in Inodes
                            /\ c.stage # "next" => c.rc = "none"

(* The types are those of the data and of each call with its handle.       *)
LEMMA TypeParts ==
    /\ TypeOK <=> /\ PlainTypes(dir, data, backup, fsp, call, blocked)
                  /\ \A w \in Workers : Fits(call[w], fsp[w])
    /\ TypeOK' <=> /\ PlainTypes(dir', data', backup', fsp', call', blocked')
                   /\ \A w \in Workers : Fits(call'[w], fsp'[w])
BY DEF TypeOK, PlainTypes, Fits, Contents

(* A step of one worker that leaves the others' callbacks and handles      *)
(* alone.                                                                  *)
LEMMA WorkerStep ==
    ASSUME TypeOK, NEW w \in Workers, NEW c \in Calls \cup {NoCall},
           NEW h \in Handles \cup {NoHandle}, Fits(c, h),
           call' = [call EXCEPT ![w] = c], fsp' = [fsp EXCEPT ![w] = h],
           dir' \in [Names -> Inodes \cup {NoFile}],
           \A n1, n2 \in Names : dir'[n1] = dir'[n2] /\ n1 # n2 => dir'[n1] = NoFile,
           data' \in [Inodes -> Contents],
           backup' \in [Names -> Contents \cup {NoBackup, Partial}],
           blocked' \subseteq Workers
    PROVE  TypeOK'
<1>1. /\ PlainTypes(dir, data, backup, fsp, call, blocked)
      /\ \A v \in Workers : Fits(call[v], fsp[v])
  BY TypeParts
<1>2. /\ call' \in [Workers -> Calls \cup {NoCall}]
      /\ fsp' \in [Workers -> Handles \cup {NoHandle}]
      /\ call'[w] = c /\ fsp'[w] = h
      /\ \A v \in Workers \ {w} : call'[v] = call[v] /\ fsp'[v] = fsp[v]
  BY <1>1 DEF PlainTypes
<1>3. \A v \in Workers : Fits(call'[v], fsp'[v])
  BY <1>1, <1>2
<1>4. PlainTypes(dir', data', backup', fsp', call', blocked')
  BY <1>2 DEF PlainTypes
<1> QED BY <1>3, <1>4, TypeParts

(* The same when the worker only goes on with its callback.                *)
LEMMA CallStep ==
    ASSUME TypeOK, NEW w \in Workers, NEW c \in Calls \cup {NoCall},
           Fits(c, fsp[w]), call' = [call EXCEPT ![w] = c],
           backup' \in [Names -> Contents \cup {NoBackup, Partial}],
           UNCHANGED <<dir, data, fsp, blocked>>
    PROVE  TypeOK'
<1>1. fsp' = [fsp EXCEPT ![w] = fsp[w]] /\ fsp[w] \in Handles \cup {NoHandle}
  BY DEF TypeOK
<1> QED BY <1>1, WorkerStep DEF TypeOK

(* The types at a worker.                                                  *)
LEMMA WorkerTypes ==
    ASSUME TypeOK, NEW w \in Workers
    PROVE  /\ call[w] \in Calls \cup {NoCall} /\ fsp[w] \in Handles \cup {NoHandle}
           /\ Fits(call[w], fsp[w])
           /\ call[w] # NoCall => /\ call[w].name \in Names /\ call[w].rc \in {"none", "ok", "err"}
                                  /\ call[w].how \in SUBSET OpenFlags
                                  /\ call[w].exists \in BOOLEAN
           /\ fsp[w] # NoHandle => fsp[w].name \in Names /\ fsp[w].ino \in Inodes
BY DEF TypeOK, Fits, Calls, Handles
-----------------------------------------------------------------------------
(* The first part of each callback.                                        *)
Begins(w) ==
    /\ UNCHANGED backup
    /\ \E c \in Calls : /\ c.stage # "copy" /\ c.rc = "none"
                        /\ call' = [call EXCEPT ![w] = c]

(* An idle worker starts a callback, and the store stays as it is.         *)
LEMMA EnterType ==
    ASSUME TypeOK, NEW w \in Workers,
           \/ \E n \in Names, how \in OpenModes : openat(w, n, how)
           \/ pwrite(w) \/ ftruncate(w)
           \/ \E n \in Names : renameat(w, n) \/ unlinkat(w, n)
    PROVE  TypeOK' /\ Begins(w) /\ Idle(w)
<1>0. Idle(w)
  BY Zenon DEF openat, pwrite, ftruncate, renameat, unlinkat
<1>1. ASSUME NEW op \in {"openat", "pwrite", "ftruncate", "renameat", "unlinkat"},
             NEW n \in Names, NEW how \in SUBSET OpenFlags, NEW exists \in BOOLEAN,
             NEW stage \in {"lookup", "next"},
             op \in {"pwrite", "ftruncate"} => fsp[w] # NoHandle,
             Enter(w, Call(op, n, how, exists, stage)),
             UNCHANGED <<dir, data, backup, fsp, blocked>>
      PROVE  TypeOK' /\ Begins(w)
  <2> DEFINE c == Call(op, n, how, exists, stage)
  <2>1. c \in Calls /\ c.stage # "copy" /\ c.rc = "none" /\ Fits(c, fsp[w])
    BY <1>1 DEF Call, Calls, Fits
  <2>2. call' = [call EXCEPT ![w] = c]
    BY <1>1 DEF Enter
  <2> HIDE DEF c
  <2>3. TypeOK'
    <3>1. backup' \in [Names -> Contents \cup {NoBackup, Partial}]
      BY <1>1 DEF TypeOK
    <3> QED BY <1>1, <1>0, <2>1, <2>2, <3>1, CallStep
  <2> QED BY <1>1, <2>1, <2>2, <2>3 DEF Begins
<1>2. ASSUME NEW n \in Names, NEW how \in OpenModes, openat(w, n, how)
      PROVE  \E exists \in BOOLEAN, stage \in {"lookup", "next"} :
                /\ Enter(w, Call("openat", n, how, exists, stage))
                /\ UNCHANGED <<dir, data, backup, fsp, blocked>>
  BY <1>2, Zenon DEF openat
<1>3. ASSUME pwrite(w)
      PROVE  /\ fsp[w] # NoHandle
             /\ \E stage \in {"lookup", "next"} :
                   Enter(w, Call("pwrite", fsp[w].name, {}, TRUE, stage))
             /\ UNCHANGED <<dir, data, backup, fsp, blocked>>
  BY <1>3, Zenon DEF pwrite, DeferredStage
<1>4. ASSUME ftruncate(w)
      PROVE  /\ fsp[w] # NoHandle
             /\ \E exists \in BOOLEAN, stage \in {"lookup", "next"} :
                   Enter(w, Call("ftruncate", fsp[w].name, {}, exists, stage))
             /\ UNCHANGED <<dir, data, backup, fsp, blocked>>
  BY <1>4, Zenon DEF ftruncate, DeferredStage
<1>5. ASSUME NEW n \in Names, renameat(w, n)
      PROVE  /\ Enter(w, Call("renameat", n, {}, TRUE, "next"))
             /\ UNCHANGED <<dir, data, backup, fsp, blocked>>
  BY <1>5 DEF renameat
<1>6. ASSUME NEW n \in Names, unlinkat(w, n)
      PROVE  \E exists \in BOOLEAN, stage \in {"lookup", "next"} :
                /\ Enter(w, Call("unlinkat", n, {}, exists, stage))
                /\ UNCHANGED <<dir, data, backup, fsp, blocked>>
  BY <1>6, Zenon DEF unlinkat
<1>7. CASE \E n \in Names, how \in OpenModes : openat(w, n, how)
  <2>1. PICK n \in Names, how \in OpenModes : openat(w, n, how)
    BY <1>7
  <2>2. how \in SUBSET OpenFlags
    BY VfsAssumption
  <2>3. PICK exists \in BOOLEAN, stage \in {"lookup", "next"} :
           /\ Enter(w, Call("openat", n, how, exists, stage))
           /\ UNCHANGED <<dir, data, backup, fsp, blocked>>
    BY <1>2, <2>1
  <2> QED BY <1>1, <1>0, <2>2, <2>3
<1>8. CASE pwrite(w) \/ ftruncate(w)
  <2>1. fsp[w] # NoHandle => fsp[w].name \in Names
    BY WorkerTypes
  <2>2. CASE pwrite(w)
    <3>1. PICK stage \in {"lookup", "next"} :
             Enter(w, Call("pwrite", fsp[w].name, {}, TRUE, stage))
      BY <1>3, <2>2
    <3> QED BY <1>1, <1>0, <1>3, <2>1, <2>2, <3>1
  <2>3. CASE ftruncate(w)
    <3>1. PICK exists \in BOOLEAN, stage \in {"lookup", "next"} :
             Enter(w, Call("ftruncate", fsp[w].name, {}, exists, stage))
      BY <1>4, <2>3
    <3> QED BY <1>1, <1>0, <1>4, <2>1, <2>3, <3>1
  <2> QED BY <1>8, <2>2, <2>3
<1>9. CASE \E n \in Names : renameat(w, n) \/ unlinkat(w, n)
  <2>1. PICK n \in Names : renameat(w, n) \/ unlinkat(w, n)
    BY <1>9
  <2>2. CASE renameat(w, n)
    BY <1>1, <1>5, <1>0, <2>2
  <2>3. CASE unlinkat(w, n)
    <3>1. PICK exists \in BOOLEAN, stage \in {"lookup", "next"} :
             /\ Enter(w, Call("unlinkat", n, {}, exists, stage))
             /\ UNCHANGED <<dir, data, backup, fsp, blocked>>
      BY <1>6, <2>3
    <3> QED BY <1>1, <1>0, <3>1
  <2> QED BY <2>1, <2>2, <2>3
<1> QED BY <1>7, <1>8, <1>9
-----------------------------------------------------------------------------
(* do_backup.                                                              *)
Returned(c, rc) == [c EXCEPT !.stage = "next", !.rc = rc, !.src = NoFile]

(* The backup returns to the call that asked for it.                       *)
LEMMA ReturnFacts ==
    ASSUME TypeOK, NEW w \in Workers, call[w] # NoCall, NEW rc \in {"ok", "err"},
           Return(w, rc)
    PROVE  LET c == Returned(call[w], rc)
           IN  /\ call' = [call EXCEPT ![w] = c] /\ c \in Calls
               /\ c.stage = "next" /\ Fits(c, fsp[w])
               /\ c.name = call[w].name /\ c.rc = rc /\ c.op = call[w].op
<1> DEFINE c == Returned(call[w], rc)
<1>1. call' = [call EXCEPT ![w] = c]
  BY DEF Return, Returned
<1>2. call[w] \in Calls /\ Fits(call[w], fsp[w])
  BY WorkerTypes
<1>3. /\ c \in Calls /\ c.stage = "next" /\ c.op = call[w].op
      /\ c.name = call[w].name /\ c.rc = rc
  BY <1>2 DEF Calls, Returned
<1> HIDE DEF c
<1>4. Fits(c, fsp[w])
  BY <1>2, <1>3 DEF Fits
<1> QED BY <1>1, <1>3, <1>4 DEF c

(* The worker looks for a backup.                                          *)
LEMMA LookupType ==
    ASSUME TypeOK, NEW w \in Workers, call[w] # NoCall, lookup(w)
    PROVE  /\ TypeOK' /\ UNCHANGED backup /\ call[w].stage = "lookup"
           /\ \E c \in Calls :
                 /\ c.stage # "copy" /\ call' = [call EXCEPT ![w] = c]
                 /\ c.rc = "ok" => c.name = call[w].name /\ backup[c.name] # NoBackup
<1>1. UNCHANGED <<dir, data, backup, fsp, blocked>> /\ call[w].stage = "lookup"
      /\ backup' \in [Names -> Contents \cup {NoBackup, Partial}]
  BY DEF lookup, TypeOK
<1>2. ASSUME NEW rc \in {"ok", "err"}, Return(w, rc),
             rc = "ok" => backup[call[w].name] # NoBackup
      PROVE  /\ TypeOK'
             /\ \E c \in Calls :
                   /\ c.stage # "copy" /\ call' = [call EXCEPT ![w] = c]
                   /\ c.rc = "ok" => c.name = call[w].name /\ backup[c.name] # NoBackup
  <2> DEFINE c == Returned(call[w], rc)
  <2>1. /\ call' = [call EXCEPT ![w] = c] /\ c \in Calls /\ c.stage = "next"
        /\ Fits(c, fsp[w]) /\ c.rc = rc /\ c.name = call[w].name
    BY <1>2, ReturnFacts
  <2> HIDE DEF c
  <2> QED BY <1>1, <1>2, <2>1, CallStep
<1>3. ASSUME call' = [call EXCEPT ![w].stage = "create"]
      PROVE  /\ TypeOK'
             /\ \E c \in Calls : /\ c.stage # "copy" /\ c.rc = "none"
                                 /\ call' = [call EXCEPT ![w] = c]
  <2> DEFINE c == [call[w] EXCEPT !.stage = "create"]
  <2>1. call[w] \in Calls /\ Fits(call[w], fsp[w])
    BY WorkerTypes
  <2>2. c \in Calls /\ c.stage = "create" /\ c.op = call[w].op /\ c.rc = call[w].rc
    BY <2>1 DEF Calls
  <2>3. call' = [call EXCEPT ![w] = c]
    BY <1>3
  <2> HIDE DEF c
  <2>4. Fits(c, fsp[w]) /\ c.rc = "none"
    BY <1>1, <2>1, <2>2 DEF Fits
  <2> QED BY <1>1, <2>2, <2>3, <2>4, CallStep
<1>4. \/ Return(w, "err")
      \/ backup[call[w].name] # NoBackup /\ Return(w, "ok")
      \/ call' = [call EXCEPT ![w].stage = "create"]
  BY Zenon DEF lookup
<1> QED BY <1>1, <1>2, <1>3, <1>4

(* The file is opened and the backup created; or neither.                  *)
LEMMA CreateType ==
    ASSUME TypeOK, NEW w \in Workers, call[w] # NoCall, create(w)
    PROVE  /\ TypeOK' /\ call[w].stage = "create"
           /\ \/ /\ UNCHANGED backup
                 /\ \E c \in Calls :
                       /\ c.stage # "copy" /\ call' = [call EXCEPT ![w] = c]
                       /\ c.rc = "ok" => /\ c.name = call[w].name
                                         /\ backup[c.name] # NoBackup
              \/ /\ backup[call[w].name] = NoBackup
                 /\ backup' = [backup EXCEPT ![call[w].name] = Partial]
                 /\ \E c \in Calls : /\ c.stage = "copy" /\ c.name = call[w].name
                                     /\ call' = [call EXCEPT ![w] = c]
<1>1. /\ UNCHANGED <<dir, data, fsp, blocked>> /\ call[w].name \in Names
      /\ call[w].stage = "create"
  BY WorkerTypes DEF create
<1>2. ASSUME NEW rc \in {"ok", "err"}, Return(w, rc), UNCHANGED backup,
             rc = "ok" => backup[call[w].name] # NoBackup
      PROVE  /\ TypeOK'
             /\ \E c \in Calls :
                   /\ c.stage # "copy" /\ call' = [call EXCEPT ![w] = c]
                   /\ c.rc = "ok" => c.name = call[w].name /\ backup[c.name] # NoBackup
  <2> DEFINE c == Returned(call[w], rc)
  <2>1. /\ call' = [call EXCEPT ![w] = c] /\ c \in Calls /\ c.stage = "next"
        /\ Fits(c, fsp[w]) /\ c.rc = rc /\ c.name = call[w].name
        /\ backup' \in [Names -> Contents \cup {NoBackup, Partial}]
    BY <1>2, ReturnFacts DEF TypeOK
  <2> HIDE DEF c
  <2> QED BY <1>1, <1>2, <2>1, CallStep
<1>3. ASSUME dir[call[w].name] # NoFile, backup[call[w].name] = NoBackup,
             backup' = [backup EXCEPT ![call[w].name] = Partial],
             call' = [call EXCEPT ![w].stage = "copy", ![w].src = dir[call[w].name]]
      PROVE  /\ TypeOK'
             /\ \E c \in Calls : /\ c.stage = "copy" /\ c.name = call[w].name
                                 /\ call' = [call EXCEPT ![w] = c]
  <2> DEFINE c == [call[w] EXCEPT !.stage = "copy", !.src = dir[call[w].name]]
  <2>1. call[w] \in Calls /\ Fits(call[w], fsp[w]) /\ dir[call[w].name] \in Inodes
    BY <1>1, <1>3, WorkerTypes DEF TypeOK
  <2>2. /\ c \in Calls /\ c.stage = "copy" /\ c.op = call[w].op
        /\ c.name = call[w].name /\ c.src \in Inodes /\ c.rc = call[w].rc
    BY <2>1 DEF Calls
  <2>3. call' = [call EXCEPT ![w] = c]
    BY <1>3
  <2> HIDE DEF c
  <2>4. Fits(c, fsp[w])
    BY <1>1, <2>1, <2>2 DEF Fits
  <2>5. backup' \in [Names -> Contents \cup {NoBackup, Partial}]
    BY <1>1, <1>3 DEF TypeOK
  <2> QED BY <1>1, <2>2, <2>3, <2>4, <2>5, CallStep
<1>4. \/ Return(w, "err") /\ UNCHANGED backup
      \/ backup[call[w].name] # NoBackup /\ Return(w, "ok") /\ UNCHANGED backup
      \/ /\ dir[call[w].name] # NoFile /\ backup[call[w].name] = NoBackup
         /\ backup' = [backup EXCEPT ![call[w].name] = Partial]
         /\ call' = [call EXCEPT ![w].stage = "copy", ![w].src = dir[call[w].name]]
  BY Zenon DEF create
<1>5. CASE \/ Return(w, "err") /\ UNCHANGED backup
           \/ backup[call[w].name] # NoBackup /\ Return(w, "ok") /\ UNCHANGED backup
  BY <1>1, <1>2, <1>5
<1>6. CASE /\ dir[call[w].name] # NoFile /\ backup[call[w].name] = NoBackup
           /\ backup' = [backup EXCEPT ![call[w].name] = Partial]
           /\ call' = [call EXCEPT ![w].stage = "copy", ![w].src = dir[call[w].name]]
  BY <1>1, <1>3, <1>6, Zenon
<1> QED BY <1>4, <1>5, <1>6, Zenon

(* The worker copies the file, or fails to.                                *)
LEMMA CopyType ==
    ASSUME TypeOK, NEW w \in Workers, call[w] # NoCall, copy(w)
    PROVE  /\ TypeOK' /\ call[w].stage = "copy"
           /\ \E c \in Calls :
                 /\ c.stage = "next" /\ call' = [call EXCEPT ![w] = c]
                 /\ c.name = call[w].name /\ c.op = call[w].op
                 /\ \/ /\ c.rc = "ok" /\ data[call[w].src] \in Contents
                       /\ backup' = [backup EXCEPT ![call[w].name] = data[call[w].src]]
                    \/ /\ c.rc = "err"
                       /\ backup' = [backup EXCEPT ![call[w].name] = NoBackup]
<1>1. /\ UNCHANGED <<dir, data, fsp, blocked>> /\ call[w].name \in Names
      /\ call[w].stage = "copy"
  BY WorkerTypes DEF copy
<1>2. data[call[w].src] \in Contents
  BY <1>1, WorkerTypes DEF TypeOK, Fits
<1>3. ASSUME NEW rc \in {"ok", "err"}, Return(w, rc),
             NEW x \in Contents \cup {NoBackup},
             backup' = [backup EXCEPT ![call[w].name] = x]
      PROVE  /\ TypeOK'
             /\ \E c \in Calls : /\ c.stage = "next" /\ c.rc = rc
                                 /\ c.name = call[w].name /\ c.op = call[w].op
                                 /\ call' = [call EXCEPT ![w] = c]
  <2> DEFINE c == Returned(call[w], rc)
  <2>1. /\ call' = [call EXCEPT ![w] = c] /\ c \in Calls /\ c.stage = "next"
        /\ Fits(c, fsp[w]) /\ c.rc = rc /\ c.name = call[w].name /\ c.op = call[w].op
    BY <1>3, ReturnFacts
  <2>2. backup' \in [Names -> Contents \cup {NoBackup, Partial}]
    BY <1>1, <1>3 DEF TypeOK
  <2> HIDE DEF c
  <2> QED BY <1>1, <2>1, <2>2, CallStep
<1>4. \/ /\ backup' = [backup EXCEPT ![call[w].name] = data[call[w].src]]
         /\ Return(w, "ok")
      \/ /\ backup' = [backup EXCEPT ![call[w].name] = NoBackup]
         /\ Return(w, "err")
  BY Zenon DEF copy
<1> QED BY <1>1, <1>2, <1>3, <1>4
-----------------------------------------------------------------------------
(* The second part of each callback: the worker leaves it.                 *)
LEMMA LeaveType ==
    ASSUME TypeOK, NEW w \in Workers, Leave(w), NEW h \in Handles \cup {NoHandle},
           fsp' = [fsp EXCEPT ![w] = h],
           dir' \in [Names -> Inodes \cup {NoFile}],
           \A n1, n2 \in Names : dir'[n1] = dir'[n2] /\ n1 # n2 => dir'[n1] = NoFile,
           data' \in [Inodes -> Contents], UNCHANGED <<backup, blocked>>
    PROVE  TypeOK'
<1>1. Fits(NoCall, h) /\ call' = [call EXCEPT ![w] = NoCall]
  BY DEF Fits, Leave
<1> QED BY <1>1, WorkerStep DEF TypeOK

(* Handles stay handles.                                                   *)
LEMMA MarkedType ==
    ASSUME NEW h \in Handles, NEW rc
    PROVE  Marked(h, rc) \in Handles
<1> DEFINE a == h.tracked \/ rc # "none"
           b == h.done \/ rc = "ok"
           c == h.failed \/ rc = "err"
           d == h.compare \/ (~h.tracked /\ rc = "ok")
           m == [h EXCEPT !.tracked = a, !.done = b, !.failed = c, !.compare = d]
<1>1. a \in BOOLEAN /\ b \in BOOLEAN /\ c \in BOOLEAN /\ d \in BOOLEAN
  BY Zenon
<1>2. Marked(h, rc) = m
  BY DEF Marked
<1> HIDE DEF a, b, c, d
<1>3. m \in Handles
  BY <1>1 DEF Handles
<1> QED BY <1>2, <1>3

(* What a mark says, and what it leaves.                                   *)
LEMMA MarkedParts ==
    ASSUME NEW h \in Handles, NEW rc
    PROVE  LET m == Marked(h, rc)
           IN  /\ m.name = h.name /\ m.ino = h.ino /\ m.path = h.path /\ m.append = h.append
               /\ m.tracked <=> h.tracked \/ rc # "none"
               /\ m.done <=> h.done \/ rc = "ok"
               /\ m.failed <=> h.failed \/ rc = "err"
<1> DEFINE a == h.tracked \/ rc # "none"
           b == h.done \/ rc = "ok"
           c == h.failed \/ rc = "err"
           d == h.compare \/ (~h.tracked /\ rc = "ok")
           m == [h EXCEPT !.tracked = a, !.done = b, !.failed = c, !.compare = d]
<1>1. Marked(h, rc) = m
  BY DEF Marked
<1> HIDE DEF a, b, c, d
<1>2. /\ m.name = h.name /\ m.ino = h.ino /\ m.path = h.path /\ m.append = h.append
      /\ m.tracked = a /\ m.done = b /\ m.failed = c
  BY DEF Handles
<1> QED BY <1>1, <1>2 DEF a, b, c

(* A handle on which a report was sent is a handle.                        *)
LEMMA ReportedType ==
    ASSUME NEW h \in Handles, NEW r
    PROVE  [h EXCEPT !.reported = @ \/ r] \in Handles
<1> DEFINE b == h.reported \/ r
<1>1. b \in BOOLEAN
  BY Zenon
<1> HIDE DEF b
<1>2. [h EXCEPT !.reported = b] \in Handles
  BY <1>1 DEF Handles
<1> QED BY <1>2 DEF b

(* A call of a blocked client is refused.                                  *)
LEMMA RefuseType ==
    ASSUME TypeOK, NEW w \in Workers, Refuse(w)
    PROVE  TypeOK'
<1>1. /\ call[w] # NoCall /\ Leave(w) /\ UNCHANGED <<dir, data, backup, blocked>>
  BY DEF Refuse
<1>2. /\ fsp[w] \in Handles \cup {NoHandle} /\ Fits(call[w], fsp[w])
      /\ fsp = [fsp EXCEPT ![w] = fsp[w]]
  BY WorkerTypes DEF TypeOK
<1>3. /\ dir' \in [Names -> Inodes \cup {NoFile}] /\ data' \in [Inodes -> Contents]
      /\ \A n1, n2 \in Names : dir'[n1] = dir'[n2] /\ n1 # n2 => dir'[n1] = NoFile
  BY <1>1 DEF TypeOK
<1>4. CASE call[w].op \notin {"pwrite", "ftruncate"}
  <2>1. fsp' = [fsp EXCEPT ![w] = fsp[w]]
    BY <1>2, <1>4 DEF Refuse
  <2> QED BY <1>1, <1>2, <1>3, <2>1, LeaveType
<1>5. CASE call[w].op \in {"pwrite", "ftruncate"}
  <2> DEFINE h == [fsp[w] EXCEPT !.tracked = TRUE, !.failed = TRUE]
  <2>1. fsp[w] \in Handles
    BY <1>1, <1>2, <1>5 DEF Fits
  <2>2. h \in Handles
    BY <2>1 DEF Handles
  <2>3. fsp' = [fsp EXCEPT ![w] = h]
    BY <1>5 DEF Refuse
  <2> HIDE DEF h
  <2> QED BY <1>1, <1>3, <2>2, <2>3, LeaveType
<1> QED BY <1>4, <1>5

(* The open itself.                                                        *)
LEMMA OpenatDoneType ==
    ASSUME TypeOK, NEW w \in Workers, openat_done(w)
    PROVE  TypeOK' /\ Leave(w) /\ UNCHANGED backup
<1> DEFINE c == call[w]
           proc == "PROC" \in c.how
           fresh == ~(c.rc # "none") /\ ~c.exists /\ "CREAT" \in c.how
           tracked == c.rc # "none" \/ fresh \/ proc
           done == c.rc = "ok" \/ (fresh /\ ~proc)
           failed == c.rc = "err"
           path == "LOST" \notin c.how
           compare == c.rc = "ok"
           append == "APPEND" \in c.how
<1>1. PICK i \in Inodes \cup {NoFile} :
         /\ OpenedInode(c.name, c.how, i)
         /\ dir' = IF i = NoFile THEN dir ELSE [dir EXCEPT ![c.name] = i]
         /\ data' = IF i # NoFile /\ ("TRUNC" \in c.how \/ dir[c.name] = NoFile)
                    THEN [data EXCEPT ![i] = Other] ELSE data
         /\ fsp' = IF i = NoFile THEN fsp
                   ELSE [fsp EXCEPT ![w] = Handle(c.name, i, tracked, done, failed,
                                                  path, compare, append)]
  BY Zenon DEF openat_done
<1>2. Leave(w) /\ UNCHANGED <<backup, blocked>> /\ c # NoCall
  BY Zenon DEF openat_done, At
<1>3. c.name \in Names
  BY <1>2, WorkerTypes
<1> DEFINE h == IF i = NoFile THEN fsp[w]
                ELSE Handle(c.name, i, tracked, done, failed, path, compare, append)
<1>4. h \in Handles \cup {NoHandle}
  <2>1. CASE i = NoFile
    BY <2>1, WorkerTypes
  <2>2. CASE i \in Inodes
    <3>1. /\ tracked \in BOOLEAN /\ done \in BOOLEAN /\ failed \in BOOLEAN
          /\ path \in BOOLEAN /\ compare \in BOOLEAN /\ append \in BOOLEAN
      OBVIOUS
    <3> HIDE DEF tracked, done, failed, path, compare, append
    <3>2. Handle(c.name, i, tracked, done, failed, path, compare, append) \in Handles
      BY <1>3, <2>2, <3>1 DEF Handle, Handles
    <3> QED BY <2>2, <3>2, VfsAssumption
  <2> QED BY <2>1, <2>2
<1>5. fsp' = [fsp EXCEPT ![w] = h]
  BY <1>1 DEF TypeOK
<1>6. data' \in [Inodes -> Contents]
  BY <1>1 DEF TypeOK, Contents
<1>7. dir' \in [Names -> Inodes \cup {NoFile}]
  BY <1>1, <1>3 DEF TypeOK
<1>8. ASSUME NEW n1 \in Names, NEW n2 \in Names, dir'[n1] = dir'[n2], n1 # n2
      PROVE  dir'[n1] = NoFile
  <2>1. CASE i = NoFile \/ dir[c.name] = i
    BY <1>1, <1>3, <1>8, <2>1 DEF TypeOK
  <2>2. CASE i # NoFile /\ dir[c.name] # i
    <3>1. \A n \in Names : dir[n] # i
      BY <1>1, <1>3, <2>2 DEF OpenedInode, FreeInodes
    <3> QED BY <1>1, <1>3, <1>8, <2>2, <3>1 DEF TypeOK
  <2> QED BY <2>1, <2>2
<1> HIDE DEF h
<1> QED BY <1>2, <1>4, <1>5, <1>6, <1>7, <1>8, LeaveType

(* The write and the truncation themselves.                                *)
LEMMA WriteDoneType ==
    ASSUME TypeOK, NEW w \in Workers, pwrite_done(w) \/ ftruncate_done(w)
    PROVE  TypeOK' /\ Leave(w) /\ UNCHANGED backup
<1>1. /\ Leave(w) /\ UNCHANGED <<dir, backup, blocked>> /\ call[w] # NoCall
      /\ call[w].op \in {"pwrite", "ftruncate"}
  BY Zenon DEF pwrite_done, ftruncate_done, At
<1>2. /\ fsp[w] \in Handles /\ fsp[w].ino \in Inodes
      /\ call[w].rc \in {"none", "ok", "err"}
  BY <1>1, WorkerTypes DEF Fits
<1>3. \E h \in Handles : fsp' = [fsp EXCEPT ![w] = h]
  <2>1. CASE pwrite_done(w)
    <3> DEFINE reports == /\ fsp[w].tracked /\ ~fsp[w].done /\ ~fsp[w].reported
                          /\ call[w].rc # "none" \/ fsp[w].failed
    <3>2. fsp' = [fsp EXCEPT ![w] = [Marked(fsp[w], call[w].rc)
                                        EXCEPT !.reported = @ \/ reports]]
      BY <2>1, Zenon DEF pwrite_done
    <3> HIDE DEF reports
    <3>3. [Marked(fsp[w], call[w].rc) EXCEPT !.reported = @ \/ reports] \in Handles
      BY <1>2, MarkedType, ReportedType, Zenon
    <3> QED BY <3>2, <3>3
  <2>2. CASE ftruncate_done(w)
    <3>1. fsp' = [fsp EXCEPT ![w] = Marked(fsp[w], call[w].rc)]
      BY <2>2, Zenon DEF ftruncate_done
    <3> QED BY <1>2, <3>1, MarkedType, Zenon
  <2> QED BY <2>1, <2>2
<1>4. data' = data \/ data' = [data EXCEPT ![fsp[w].ino] = Other]
  BY Zenon DEF pwrite_done, ftruncate_done
<1>5. data' \in [Inodes -> Contents]
  BY <1>2, <1>4 DEF TypeOK, Contents
<1>6. PICK h \in Handles : fsp' = [fsp EXCEPT ![w] = h]
  BY <1>3
<1> QED BY <1>1, <1>5, <1>6, LeaveType DEF TypeOK

(* The unlink and the rename themselves.                                   *)
LEMMA NameDoneType ==
    ASSUME TypeOK, NEW w \in Workers,
           unlinkat_done(w) \/ \E n \in Names : renameat_done(w, n)
    PROVE  TypeOK' /\ Leave(w) /\ UNCHANGED backup
<1> DEFINE c == call[w]
<1>1. /\ Leave(w) /\ UNCHANGED <<data, backup, fsp, blocked>> /\ c # NoCall
  BY Zenon DEF unlinkat_done, renameat_done, At
<1>2. c.name \in Names /\ fsp[w] \in Handles \cup {NoHandle}
      /\ fsp' = [fsp EXCEPT ![w] = fsp[w]]
  BY <1>1, WorkerTypes DEF TypeOK
<1>3. \/ dir' = [dir EXCEPT ![c.name] = NoFile]
      \/ dir' = dir
      \/ \E n \in Names : n # c.name
                          /\ dir' = [dir EXCEPT ![n] = dir[c.name], ![c.name] = NoFile]
  BY Zenon DEF unlinkat_done, renameat_done
<1>4. /\ dir' \in [Names -> Inodes \cup {NoFile}]
      /\ \A n1, n2 \in Names : dir'[n1] = dir'[n2] /\ n1 # n2 => dir'[n1] = NoFile
  <2>1. CASE dir' = dir \/ dir' = [dir EXCEPT ![c.name] = NoFile]
    BY <1>2, <2>1 DEF TypeOK
  <2>2. ASSUME NEW n \in Names, n # c.name,
               dir' = [dir EXCEPT ![n] = dir[c.name], ![c.name] = NoFile]
        PROVE  /\ dir' \in [Names -> Inodes \cup {NoFile}]
               /\ \A n1, n2 \in Names :
                     dir'[n1] = dir'[n2] /\ n1 # n2 => dir'[n1] = NoFile
    <3>1. dir' \in [Names -> Inodes \cup {NoFile}]
          /\ \A m \in Names : dir'[m] = IF m = c.name THEN NoFile
                                        ELSE IF m = n THEN dir[c.name] ELSE dir[m]
      BY <1>2, <2>2 DEF TypeOK
    <3> HIDE DEF c
    <3>2. \A n1, n2 \in Names : dir'[n1] = dir'[n2] /\ n1 # n2 => dir'[n1] = NoFile
      BY <1>2, <3>1 DEF TypeOK
    <3> QED BY <3>1, <3>2
  <2> QED BY <1>3, <2>1, <2>2
<1> QED BY <1>1, <1>2, <1>4, LeaveType DEF TypeOK

(* Steps outside of callbacks, and the death of a worker.                  *)
LEMMA OtherType ==
    ASSUME TypeOK, NEW w \in Workers,
           Denied(w) \/ close(w) \/ Block(w) \/ Unblock(w)
    PROVE  TypeOK' /\ UNCHANGED <<call, backup>>
<1>1. /\ UNCHANGED <<dir, data, backup, call>>
      /\ blocked' = blocked \/ blocked' = blocked \cup {w} \/ blocked' = blocked \ {w}
  BY Zenon DEF Denied, close, Block, Unblock
<1>2. CASE UNCHANGED fsp
  BY <1>1, <1>2 DEF TypeOK
<1>3. CASE Idle(w) /\ fsp' = [fsp EXCEPT ![w] = NoHandle]
  <2>1. /\ call' = [call EXCEPT ![w] = NoCall] /\ Fits(NoCall, NoHandle)
        /\ PlainTypes(dir', data', backup', fsp', call', blocked')
    BY <1>1, <1>3 DEF TypeOK, Idle, Fits, PlainTypes
  <2>2. TypeOK'
    BY <1>3, <2>1, WorkerStep DEF PlainTypes
  <2> QED BY <1>1, <2>2
<1> QED BY <1>2, <1>3, Zenon DEF Denied, close, Block, Unblock

(* A worker dies.                                                          *)
LEMMA CrashType ==
    ASSUME TypeOK, NEW w \in Workers, Crash(w)
    PROVE  TypeOK' /\ Leave(w) /\ UNCHANGED backup
<1>1. /\ Leave(w) /\ fsp' = [fsp EXCEPT ![w] = NoHandle]
      /\ UNCHANGED <<dir, data, backup, blocked>>
  BY DEF Crash
<1>2. /\ dir' \in [Names -> Inodes \cup {NoFile}] /\ data' \in [Inodes -> Contents]
      /\ \A n1, n2 \in Names : dir'[n1] = dir'[n2] /\ n1 # n2 => dir'[n1] = NoFile
  BY <1>1 DEF TypeOK
<1> QED BY <1>1, <1>2, LeaveType
-----------------------------------------------------------------------------
(* What a step of worker w does to the store: nothing, while it is not     *)
(* copying afterwards, nor before unless it dies; or it creates a backup   *)
(* where there was none; or it completes or removes the one it was         *)
(* copying.  It answers "ok" for a backup that is there.                   *)
Copying(w) == call[w] # NoCall /\ call[w].stage = "copy"

StoreStep(w) ==
    LET n == call[w].name
    IN  \/ UNCHANGED <<call, backup>>
        \/ /\ UNCHANGED backup /\ (~Copying(w) \/ Crash(w))
           /\ \E c \in Calls \cup {NoCall} :
                 /\ call' = [call EXCEPT ![w] = c]
                 /\ c # NoCall =>
                       /\ c.stage # "copy"
                       /\ c.rc = "ok" => c.name = n /\ backup[c.name] # NoBackup
        \/ /\ call[w] # NoCall /\ call[w].stage = "create" /\ backup[n] = NoBackup
           /\ backup' = [backup EXCEPT ![n] = Partial]
           /\ \E c \in Calls : /\ c.stage = "copy" /\ c.name = n
                               /\ call' = [call EXCEPT ![w] = c]
        \/ /\ Copying(w)
           /\ \E c \in Calls, x \in Contents \cup {NoBackup} :
                 /\ c.stage # "copy" /\ c.name = n
                 /\ call' = [call EXCEPT ![w] = c]
                 /\ backup' = [backup EXCEPT ![n] = x]
                 /\ c.rc = "ok" => x \in Contents

(* Every step keeps the types and is such a step.                          *)
LEMMA StepType ==
    ASSUME TypeOK, Next
    PROVE  TypeOK' /\ \E w \in Workers : StoreStep(w)
<1>1. ASSUME NEW w \in Workers, Leave(w), UNCHANGED backup, ~Copying(w) \/ Crash(w)
      PROVE  StoreStep(w)
  <2>1. call' = [call EXCEPT ![w] = NoCall]
    BY <1>1 DEF Leave
  <2> QED BY <1>1, <2>1, Zenon DEF StoreStep
<1>2. ASSUME NEW w \in Workers, UNCHANGED backup, ~Copying(w),
             \E c \in Calls :
                /\ c.stage # "copy" /\ call' = [call EXCEPT ![w] = c]
                /\ c.rc = "ok" => c.name = call[w].name /\ backup[c.name] # NoBackup
      PROVE  StoreStep(w)
  BY <1>2, Zenon DEF StoreStep
<1>3. ASSUME NEW w \in Workers,
             \/ \E n \in Names, how \in OpenModes : openat(w, n, how)
             \/ pwrite(w) \/ ftruncate(w)
             \/ \E n \in Names : renameat(w, n) \/ unlinkat(w, n)
      PROVE  TypeOK' /\ StoreStep(w)
  <2>1. TypeOK' /\ Begins(w) /\ Idle(w)
    BY <1>3, EnterType, Zenon
  <2>2. ~Copying(w)
    BY <2>1 DEF Copying, Idle
  <2>3. \E c \in Calls :
           /\ c.stage # "copy" /\ call' = [call EXCEPT ![w] = c]
           /\ c.rc = "ok" => c.name = call[w].name /\ backup[c.name] # NoBackup
    BY <2>1 DEF Begins
  <2> QED BY <1>2, <2>1, <2>2, <2>3 DEF Begins
<1>4. ASSUME NEW w \in Workers, call[w] # NoCall, lookup(w) PROVE TypeOK' /\ StoreStep(w)
  <2>1. ~Copying(w)
    BY <1>4 DEF lookup, Copying
  <2> QED BY <1>2, <1>4, <2>1, LookupType, Zenon
<1>5. ASSUME NEW w \in Workers, call[w] # NoCall, create(w) PROVE TypeOK' /\ StoreStep(w)
  <2>1. ~Copying(w)
    BY <1>5 DEF create, Copying
  <2> QED BY <1>2, <1>5, <2>1, CreateType, Zenon DEF StoreStep
<1>6. ASSUME NEW w \in Workers, call[w] # NoCall, copy(w) PROVE TypeOK' /\ StoreStep(w)
  <2>1. TypeOK' /\ Copying(w)
    BY <1>6, CopyType, Zenon DEF Copying
  <2>2. PICK c \in Calls :
           /\ c.stage = "next" /\ call' = [call EXCEPT ![w] = c]
           /\ c.name = call[w].name
           /\ \/ /\ c.rc = "ok" /\ data[call[w].src] \in Contents
                 /\ backup' = [backup EXCEPT ![call[w].name] = data[call[w].src]]
              \/ /\ c.rc = "err"
                 /\ backup' = [backup EXCEPT ![call[w].name] = NoBackup]
    BY <1>6, CopyType, Zenon
  <2>3. \E x \in Contents \cup {NoBackup} :
           /\ c.stage # "copy" /\ backup' = [backup EXCEPT ![call[w].name] = x]
           /\ c.rc = "ok" => x \in Contents
    BY <2>2
  <2> QED BY <2>1, <2>2, <2>3, Zenon DEF StoreStep
<1>7. ASSUME NEW w \in Workers,
             \/ openat_done(w) \/ pwrite_done(w) \/ ftruncate_done(w)
             \/ unlinkat_done(w) \/ (\E n \in Names : renameat_done(w, n))
             \/ Refuse(w) \/ Crash(w)
      PROVE  TypeOK' /\ StoreStep(w)
  <2>1. Refuse(w) => Leave(w) /\ UNCHANGED backup
    BY DEF Refuse
  <2>2. \/ call[w] # NoCall /\ call[w].stage = "next"
        \/ Crash(w)
    BY <1>7, Zenon DEF openat_done, pwrite_done, ftruncate_done, unlinkat_done,
                       renameat_done, Refuse, At
  <2>3. ~Copying(w) \/ Crash(w)
    BY <2>2 DEF Copying
  <2> QED BY <1>1, <1>7, <2>1, <2>3, OpenatDoneType, WriteDoneType, NameDoneType,
             RefuseType, CrashType, Zenon
<1>8. ASSUME NEW w \in Workers, Denied(w) \/ close(w) \/ Block(w) \/ Unblock(w)
      PROVE  TypeOK' /\ StoreStep(w)
  BY <1>8, OtherType DEF StoreStep
<1> QED BY <1>3, <1>4, <1>5, <1>6, <1>7, <1>8, Zenon DEF Next

(* The types hold at the start.                                            *)
LEMMA TypeInit == Init => TypeOK
<1> SUFFICES ASSUME Init PROVE TypeOK
  OBVIOUS
<1>1. /\ dir \in [Names -> Inodes \cup {NoFile}]
      /\ \A n1, n2 \in Names : dir[n1] = dir[n2] /\ n1 # n2 => dir[n1] = NoFile
  BY VfsAssumption DEF Init
<1>2. data \in [Inodes -> Contents]
  BY DEF Init, Contents
<1> QED BY <1>1, <1>2 DEF Init, TypeOK

(* Types, and every callback has what it works on, for any number of       *)
(* workers and names, whatever fails.                                      *)
THEOREM VfsTypes == Spec => []TypeOK
<1>1. TypeOK /\ [Next]_vars => TypeOK'
  <2>1. ASSUME TypeOK, UNCHANGED vars PROVE TypeOK'
    BY <2>1 DEF vars, TypeOK
  <2> QED BY <2>1, StepType
<1> QED BY <1>1, TypeInit, PTL DEF Spec

(* O_EXCL keeps a second copier away, and nobody else touches the backup.  *)
LEMMA OneCopierNext ==
    ASSUME TypeOK, OneCopier, NEW w \in Workers, StoreStep(w)
    PROVE  OneCopier'
<1> DEFINE n == call[w].name
<1> USE DEF Copying
<1>1. \A v \in Workers : Copying(v) => call[v].name \in Names /\ backup[call[v].name] = Partial
  BY WorkerTypes DEF OneCopier
<1>2. ASSUME NEW c \in Calls \cup {NoCall}, call' = [call EXCEPT ![w] = c]
      PROVE  call'[w] = c /\ \A v \in Workers \ {w} : call'[v] = call[v]
  BY <1>2 DEF TypeOK
<1>3. CASE UNCHANGED <<call, backup>>
  BY <1>3 DEF OneCopier
<1>4. ASSUME UNCHANGED backup, NEW c \in Calls \cup {NoCall},
             c # NoCall => c.stage # "copy", call' = [call EXCEPT ![w] = c]
      PROVE  OneCopier'
  BY <1>2, <1>4 DEF OneCopier
<1>5. ASSUME call[w] # NoCall, backup[n] = NoBackup,
             backup' = [backup EXCEPT ![n] = Partial], NEW c \in Calls,
             c.stage = "copy", c.name = n, call' = [call EXCEPT ![w] = c]
      PROVE  OneCopier'
  <2>1. n \in Names
    BY <1>5, WorkerTypes
  <2>2. \A v \in Workers : Copying(v) => call[v].name # n
    BY <1>1, <1>5, VfsAssumption
  <2>3. backup'[n] = Partial /\ \A m \in Names \ {n} : backup'[m] = backup[m]
    BY <1>5, <2>1 DEF TypeOK
  <2> QED BY <1>1, <1>2, <1>5, <2>1, <2>2, <2>3 DEF OneCopier
<1>6. ASSUME call[w] # NoCall, call[w].stage = "copy", NEW x,
             backup' = [backup EXCEPT ![n] = x], NEW c \in Calls,
             c.stage # "copy", call' = [call EXCEPT ![w] = c]
      PROVE  OneCopier'
  <2>1. n \in Names
    BY <1>6, WorkerTypes
  <2>2. \A m \in Names \ {n} : backup'[m] = backup[m]
    BY <1>6, <2>1 DEF TypeOK
  <2>3. \A v \in Workers \ {w} : Copying(v) => call[v].name # n
    BY <1>6 DEF OneCopier
  <2>4. call'[w].stage # "copy" /\ \A v \in Workers \ {w} : call'[v] = call[v]
    BY <1>2, <1>6
  <2>5. \A v \in Workers \ {w} : Copying(v) => backup'[call[v].name] = Partial
    BY <1>1, <2>2, <2>3
  <2> QED BY <2>4, <2>5 DEF OneCopier
<1> QED BY <1>3, <1>4, <1>5, <1>6, Zenon DEF StoreStep

(* do_backup: whatever workers do and die of at the same time, each backup *)
(* under way has one worker that fills it, and stays until that is done.   *)
THEOREM OneWorkerCopies == Spec => []OneCopier
<1>1. Init => OneCopier
  BY DEF Init, OneCopier
<1>2. TypeOK /\ OneCopier /\ [Next]_vars => OneCopier'
  <2>1. ASSUME OneCopier, UNCHANGED vars PROVE OneCopier'
    BY <2>1 DEF vars, OneCopier
  <2> QED BY <2>1, StepType, OneCopierNext
<1> QED BY <1>1, <1>2, VfsTypes, PTL DEF Spec

(* A complete copy is not touched: a backup is only created where there is *)
(* none, and only completed or removed by the one who copies it.           *)
LEMMA FirstCopyStep ==
    ASSUME TypeOK, OneCopier, NEW w \in Workers, StoreStep(w), NEW n \in Names,
           backup[n] \in Contents
    PROVE  backup'[n] = backup[n]
<1>1. backup[n] # NoBackup /\ backup[n] # Partial
  BY VfsAssumption DEF Contents
<1>2. CASE UNCHANGED backup
  BY <1>2
<1>3. ASSUME NEW x, backup' = [backup EXCEPT ![call[w].name] = x],
             backup[call[w].name] \in {NoBackup, Partial}
      PROVE  backup'[n] = backup[n]
  BY <1>1, <1>3 DEF TypeOK
<1>4. call[w] # NoCall /\ call[w].stage = "copy" => backup[call[w].name] = Partial
  BY DEF OneCopier
<1> QED BY <1>2, <1>3, <1>4, Zenon DEF StoreStep, Copying

(* First copy wins (do_backup), for any number of workers and any names:   *)
(* a complete backup is never replaced, truncated or removed.              *)
THEOREM FirstCopyStays == Spec => FirstCopyWins
<1>1. TypeOK /\ OneCopier /\ [Next]_vars
         => [\A n \in Names : backup[n] \in Contents => backup'[n] = backup[n]]_vars
  BY StepType, FirstCopyStep
<1> QED BY <1>1, VfsTypes, OneWorkerCopies, PTL DEF Spec, FirstCopyWins
-----------------------------------------------------------------------------
(* BackedUpIsTrue, for a client whose worker is alone and does not die:    *)
(* then no backup is found half written, and what do_backup answers is so. *)
Alone == (\A v, w \in Workers : v = w) /\ "crash" \notin MayFail

Honest ==
    /\ \A n \in Names : backup[n] = Partial
                           => \E w \in Workers : Copying(w) /\ call[w].name = n
    /\ \A w \in Workers : call[w] # NoCall /\ call[w].rc = "ok"
                             => backup[call[w].name] \in Contents

Promised == sent # NoEvent /\ "BACKED_UP" \in sent.flags => sent.name \in Names

(* do_backup answers "ok" for a complete backup only.                      *)
LEMMA HonestNext ==
    ASSUME TypeOK, TypeOK', Alone, Honest, NEW w \in Workers, StoreStep(w)
    PROVE  Honest'
<1> DEFINE n == call[w].name
<1>1. \A v \in Workers : v = w
  BY DEF Alone
<1>2. ~Crash(w)
  BY DEF Alone, Crash
<1>3. call[w] # NoCall => n \in Names
  BY WorkerTypes
<1>4. CASE UNCHANGED <<call, backup>>
  BY <1>4 DEF Honest, Copying
<1>5. ASSUME NEW c \in Calls \cup {NoCall}, call' = [call EXCEPT ![w] = c]
      PROVE  call'[w] = c
  BY <1>5 DEF TypeOK
<1>6. ASSUME UNCHANGED backup, ~Copying(w), NEW c \in Calls \cup {NoCall},
             call' = [call EXCEPT ![w] = c],
             c # NoCall => (c.rc = "ok" => c.name = n /\ backup[c.name] # NoBackup)
      PROVE  Honest'
  <2>1. \A m \in Names : backup[m] # Partial
    BY <1>1, <1>6 DEF Honest
  <2>2. c # NoCall /\ c.rc = "ok" => c.name \in Names
    BY <1>6 DEF Calls
  <2>3. c # NoCall /\ c.rc = "ok" => backup[c.name] \in Contents
    BY <1>6, <2>1, <2>2 DEF TypeOK
  <2> QED BY <1>1, <1>5, <1>6, <2>1, <2>3 DEF Honest
<1>7. ASSUME call[w] # NoCall, call[w].stage = "create", NEW c \in Calls,
             backup' = [backup EXCEPT ![n] = Partial], c.stage = "copy",
             c.name = n, call' = [call EXCEPT ![w] = c]
      PROVE  Honest'
  <2>1. ~Copying(w) /\ \A m \in Names : backup[m] # Partial
    BY <1>1, <1>7 DEF Honest, Copying
  <2>2. \A m \in Names \ {n} : backup'[m] = backup[m]
    BY <1>3, <1>7 DEF TypeOK
  <2>3. call'[w] = c /\ call'[w] # NoCall
    BY <1>5, <1>7, VfsAssumption
  <2>4. c.rc = "none"
    BY <1>7, <2>3 DEF TypeOK
  <2>5. \A m \in Names : backup'[m] = Partial => m = n
    BY <2>1, <2>2
  <2> QED BY <1>1, <1>7, <2>3, <2>4, <2>5 DEF Honest, Copying
<1>8. ASSUME Copying(w), NEW c \in Calls, NEW x \in Contents \cup {NoBackup},
             c.stage # "copy", c.name = n, call' = [call EXCEPT ![w] = c],
             backup' = [backup EXCEPT ![n] = x], c.rc = "ok" => x \in Contents
      PROVE  Honest'
  <2>1. \A m \in Names \ {n} : backup[m] # Partial /\ backup'[m] = backup[m]
    BY <1>1, <1>3, <1>8 DEF Honest, TypeOK, Copying
  <2>2. n \in Names /\ backup'[n] = x /\ x # Partial
    BY <1>3, <1>8, VfsAssumption DEF Copying, TypeOK, Contents
  <2>3. call'[w] = c
    BY <1>5, <1>8
  <2> QED BY <1>1, <1>8, <2>1, <2>2, <2>3 DEF Honest
<1> QED BY <1>2, <1>4, <1>6, <1>7, <1>8, Zenon DEF StoreStep

(* An event with BACKED_UP carries the answer of the callback's do_backup. *)
SentStep(w) ==
    \/ sent' = sent
    \/ "BACKED_UP" \notin sent'.flags
    \/ /\ call[w] # NoCall /\ call[w].rc = "ok"
       /\ sent'.name = call[w].name /\ UNCHANGED backup

(* The flags of an outcome.                                                *)
LEMMA OutcomeFlags ==
    ASSUME NEW rc \in {"none", "ok", "err"}, "BACKED_UP" \in Outcome(rc)
    PROVE  rc = "ok"
BY DEF Outcome

(* Every event is such an event.                                           *)
LEMMA SentNext ==
    ASSUME TypeOK, Next
    PROVE  \E w \in Workers : SentStep(w)
<1>1. \A w, op, n, flags : /\ Event(w, op, n, flags).flags = flags
                           /\ Event(w, op, n, flags).name = n
  BY DEF Event
<1>2. ASSUME NEW w \in Workers, call[w] # NoCall, UNCHANGED backup, NEW op, NEW flags,
             sent' = Event(w, op, call[w].name, flags),
             "BACKED_UP" \in flags => "BACKED_UP" \in Outcome(call[w].rc)
      PROVE  SentStep(w)
  BY <1>1, <1>2, OutcomeFlags, WorkerTypes DEF SentStep
<1>3. ASSUME NEW w \in Workers, Denied(w) \/ close(w) PROVE SentStep(w)
  <2>1. CASE Denied(w)
    <3>1. sent' = Event(w, "VFS_BLOCKED", "", {})
      BY <2>1, Zenon DEF Denied
    <3>2. sent'.flags = {}
      BY <1>1, <3>1, Zenon
    <3> QED BY <3>2 DEF SentStep
  <2>2. CASE close(w)
    <3> DEFINE same == /\ fsp[w].done /\ fsp[w].compare /\ dir[fsp[w].name] # NoFile
                       /\ data[dir[fsp[w].name]] = backup[fsp[w].name]
    <3>1. \/ sent' = sent
          \/ sent' = Event(w, "close", fsp[w].name,
                           IF same THEN {"CONTENT_SAME"} ELSE {})
      BY <2>2, Zenon DEF close
    <3> HIDE DEF same
    <3>2. "BACKED_UP" \notin (IF same THEN {"CONTENT_SAME"} ELSE {})
      OBVIOUS
    <3> QED BY <1>1, <3>1, <3>2 DEF SentStep
  <2> QED BY <1>3, <2>1, <2>2
<1>4. ASSUME NEW w \in Workers, openat_done(w) PROVE SentStep(w)
  <2> DEFINE c == call[w]
             fresh == c.rc = "none" /\ ~c.exists /\ "CREAT" \in c.how /\ ~("PROC" \in c.how)
  <2>1. \/ sent' = sent
        \/ c.rc # "none" /\ sent' = Event(w, "openat", c.name, Outcome(c.rc))
        \/ sent' = Event(w, "openat", c.name, IF fresh THEN {"NEW_FILE"} ELSE {})
    BY <1>4, Zenon DEF openat_done
  <2>2. call[w] # NoCall /\ UNCHANGED backup
    BY <1>4 DEF openat_done, At
  <2> HIDE DEF fresh
  <2>3. "BACKED_UP" \notin (IF fresh THEN {"NEW_FILE"} ELSE {})
    OBVIOUS
  <2> QED BY <1>1, <1>2, <2>1, <2>2, <2>3 DEF SentStep
<1>5. ASSUME NEW w \in Workers, pwrite_done(w) \/ ftruncate_done(w) PROVE SentStep(w)
  <2> DEFINE flags == IF call[w].rc = "none" THEN {"RISKY"} ELSE Outcome(call[w].rc)
  <2>1. \/ sent' = sent
        \/ \E op \in {"pwrite", "ftruncate"} : sent' = Event(w, op, call[w].name, flags)
    BY <1>5, Zenon DEF pwrite_done, ftruncate_done
  <2>2. call[w] # NoCall /\ UNCHANGED backup
    BY <1>5 DEF pwrite_done, ftruncate_done, At
  <2>3. "BACKED_UP" \in flags => "BACKED_UP" \in Outcome(call[w].rc)
    OBVIOUS
  <2> HIDE DEF flags
  <2> QED BY <1>2, <2>1, <2>2, <2>3 DEF SentStep
<1>6. ASSUME NEW w \in Workers, NEW dst, renameat_done(w, dst) PROVE SentStep(w)
  BY <1>1, <1>6 DEF renameat_done, SentStep
<1>7. ASSUME NEW w \in Workers, unlinkat_done(w) PROVE SentStep(w)
  BY <1>2, <1>7 DEF unlinkat_done, At
<1>8. ASSUME NEW w \in Workers, Refuse(w) PROVE SentStep(w)
  BY <1>2, <1>8, OutcomeFlags DEF Refuse
<1>9. ASSUME NEW w \in Workers, UNCHANGED sent PROVE SentStep(w)
  BY <1>9 DEF SentStep
<1>10. ASSUME NEW w \in Workers,
              \/ \E n \in Names, how \in OpenModes : openat(w, n, how)
              \/ pwrite(w) \/ ftruncate(w)
              \/ \E n \in Names : renameat(w, n) \/ unlinkat(w, n)
              \/ lookup(w) \/ create(w) \/ copy(w) \/ Block(w) \/ Unblock(w) \/ Crash(w)
       PROVE  UNCHANGED sent
  BY <1>10, Zenon DEF openat, pwrite, ftruncate, renameat, unlinkat, lookup, create,
                      copy, Block, Unblock, Crash
<1> QED BY <1>3, <1>4, <1>5, <1>6, <1>7, <1>8, <1>9, <1>10, Zenon DEF Next

(* Strict or not, an event flagged BACKED_UP tells the daemon the truth as *)
(* long as the client's smbd is the only one on the store and does not die *)
(* in do_backup.  Both conditions are needed: do_backup takes a backup     *)
(* that another worker is writing, or left unfinished, for a copy.         *)
THEOREM AloneIsTruthful == ASSUME Alone PROVE Spec => []BackedUpIsTrue
<1> DEFINE Inv == Honest /\ Promised /\ BackedUpIsTrue
<1>1. Init => Inv
  <2> SUFFICES ASSUME Init PROVE Inv
    OBVIOUS
  <2>1. Honest
    BY VfsAssumption DEF Init, Honest
  <2> QED BY <2>1 DEF Init, Promised, BackedUpIsTrue
<1>2. TypeOK /\ OneCopier /\ Inv /\ [Next]_vars => Inv'
  <2>1. ASSUME Inv, UNCHANGED vars PROVE Inv'
    BY <2>1 DEF vars, Honest, Promised, BackedUpIsTrue, Copying
  <2>2. ASSUME TypeOK, OneCopier, Inv, Next PROVE Inv'
    <3>1. Honest'
      BY <2>2, StepType, HonestNext
    <3>2. \A n \in Names : backup[n] \in Contents => backup'[n] = backup[n]
      BY <2>2, StepType, FirstCopyStep
    <3>3. PICK w \in Workers : SentStep(w)
      BY <2>2, SentNext
    <3>4. CASE sent' = sent
      BY <2>2, <3>1, <3>2, <3>4 DEF Promised, BackedUpIsTrue
    <3>5. CASE "BACKED_UP" \notin sent'.flags
      BY <3>1, <3>5 DEF Promised, BackedUpIsTrue
    <3>6. CASE /\ call[w] # NoCall /\ call[w].rc = "ok"
               /\ sent'.name = call[w].name /\ UNCHANGED backup
      BY <2>2, <3>1, <3>6, WorkerTypes DEF Promised, BackedUpIsTrue, Honest
    <3> QED BY <3>1, <3>3, <3>4, <3>5, <3>6 DEF SentStep
  <2> QED BY <2>1, <2>2
<1> QED BY <1>1, <1>2, VfsTypes, OneWorkerCopies, PTL DEF Spec
-----------------------------------------------------------------------------
(* OriginalsSurvive: what strict mode promises the one client of a share.  *)
(* The conditions are those the code needs: a rename backs up nothing; a   *)
(* write refused for a failed deferred backup succeeds when repeated; a    *)
(* handle without a path is never backed up; and openat backs up a         *)
(* truncating open only if it sees the path, and with O_APPEND only if     *)
(* O_CREAT is set too.                                                     *)
StrictClient ==
    /\ Alone /\ STRICT /\ "renameat" \notin Callbacks
    /\ MayFail \subseteq {"openat", "unlinkat"}
    /\ \A how \in OpenModes :
          /\ "LOST" \notin how
          /\ "TRUNC" \in how => "PROC" \notin how /\ ("APPEND" \notin how \/ "CREAT" \in how)

Saved(n, b) == FirstDir[n] # NoFile => b[n] = FirstDir[n]

(* The original of n is in the store, or as it was and not copied yet.     *)
Intact(n, d, t, b) ==
    \/ Saved(n, b)
    \/ b[n] \notin Contents /\ d[n] = FirstDir[n] /\ t[FirstDir[n]] = FirstDir[n]

(* An open file is the one its name refers to; a handle that counts as     *)
(* backed up has its original in the store, and one that is not tracked    *)
(* cannot overwrite.                                                       *)
Holding(h, d, b) ==
    h # NoHandle => /\ d[h.name] = h.ino /\ h.path /\ ~h.failed
                    /\ h.done => Saved(h.name, b)
                    /\ ~h.tracked => h.append

(* A callback is about its own handle or about none; its checks are still  *)
(* so; and where it goes on without a backup there is nothing to lose.     *)
Asking(c, h, d, b) ==
    c # NoCall =>
      /\ c.op # "renameat"
      /\ c.op \in {"openat", "unlinkat"}
            => h = NoHandle /\ (c.exists <=> d[c.name] # NoFile)
      /\ c.op \in {"pwrite", "ftruncate"} => h # NoHandle /\ c.name = h.name
      /\ c.op = "openat" => "LOST" \notin c.how
      /\ c.rc = "ok" => Saved(c.name, b)
      /\ c.rc = "err" => c.op \in {"openat", "unlinkat"}
      /\ c.stage = "copy" => c.src = d[c.name]
      /\ c.stage = "next" /\ c.rc = "none" =>
            /\ c.op = "openat" /\ c.exists
                  => "TRUNC" \notin c.how /\ ("PROC" \in c.how \/ "APPEND" \in c.how)
            /\ c.op = "unlinkat" => ~c.exists
            /\ c.op = "pwrite" => h.done \/ ~h.tracked
            /\ c.op = "ftruncate" => h.done

Sheltered ==
    /\ \A n \in Names : Intact(n, dir, data, backup)
    /\ \A w \in Workers : /\ Holding(fsp[w], dir, backup)
                          /\ Asking(call[w], fsp[w], dir, backup)

(* With one worker the invariant is about that worker.                     *)
LEMMA SoleStep ==
    ASSUME Alone, NEW w \in Workers,
           \A n \in Names : Intact(n, dir', data', backup'),
           Holding(fsp'[w], dir', backup'),
           Asking(call'[w], fsp'[w], dir', backup')
    PROVE  Sheltered'
BY DEF Alone, Sheltered

(* A step that only moves the worker's callback on.                        *)
LEMMA AskingStep ==
    ASSUME Alone, Sheltered, TypeOK, NEW w \in Workers, NEW c \in Calls \cup {NoCall},
           call' = [call EXCEPT ![w] = c], UNCHANGED <<dir, data, backup, fsp>>,
           Asking(c, fsp[w], dir, backup)
    PROVE  Sheltered'
<1>1. call'[w] = c
  BY DEF TypeOK
<1>2. /\ \A n \in Names : Intact(n, dir', data', backup')
      /\ Holding(fsp'[w], dir', backup')
  BY DEF Sheltered
<1>3. Asking(call'[w], fsp'[w], dir', backup')
  BY <1>1
<1> QED BY <1>2, <1>3, SoleStep

(* A backup that is complete, where nobody is copying, is of the original  *)
(* if there was one.                                                       *)
LEMMA CompleteIsSaved ==
    ASSUME TypeOK, NEW n \in Names, Intact(n, dir, data, backup),
           backup[n] \in Contents
    PROVE  Saved(n, backup)
BY DEF Intact, Saved

(* The first part of each callback.                                        *)
LEMMA ShelteredEnter ==
    ASSUME StrictClient, TypeOK, Sheltered, NEW w \in Workers,
           \/ \E n \in Names, how \in OpenModes : openat(w, n, how)
           \/ pwrite(w) \/ ftruncate(w) \/ \E n \in Names : unlinkat(w, n)
    PROVE  Sheltered'
<1> DEFINE h == fsp[w]
<1>1. Alone /\ Holding(h, dir, backup) /\ h \in Handles \cup {NoHandle}
  BY WorkerTypes DEF StrictClient, Sheltered
<1>2. PICK c \in Calls : c.stage # "copy" /\ c.rc = "none" /\ call' = [call EXCEPT ![w] = c]
  BY EnterType, Zenon DEF Begins
<1>3. UNCHANGED <<dir, data, backup, fsp>>
  BY Zenon DEF openat, pwrite, ftruncate, unlinkat
<1>4. \A d : call' = [call EXCEPT ![w] = d] => d = c
  BY <1>2 DEF TypeOK
<1> HIDE DEF h
<1>5. ASSUME NEW n \in Names, NEW how \in OpenModes, openat(w, n, how)
      PROVE  Asking(c, h, dir, backup)
  <2> DEFINE exists == dir[n] # NoFile
             risky  == /\ "PROC" \notin how /\ exists
                       /\ "APPEND" \notin how \/ {"CREAT", "TRUNC"} \subseteq how
             stage  == IF risky THEN "lookup" ELSE "next"
  <2>1. h = NoHandle /\ c = Call("openat", n, how, exists, stage)
    BY <1>4, <1>5, Zenon DEF openat, Enter, h
  <2>2. /\ "LOST" \notin how
        /\ "TRUNC" \in how => "PROC" \notin how /\ ("APPEND" \notin how \/ "CREAT" \in how)
    BY DEF StrictClient
  <2>3. stage = "next" /\ exists
           => "TRUNC" \notin how /\ ("PROC" \in how \/ "APPEND" \in how)
    BY <2>2
  <2> HIDE DEF risky, stage
  <2>4. /\ c.op = "openat" /\ c.name = n /\ c.how = how /\ c.exists = exists
        /\ c.stage = stage
    BY <2>1 DEF Call
  <2> QED BY <1>2, <2>1, <2>2, <2>3, <2>4 DEF Asking
<1>6. ASSUME NEW n \in Names, unlinkat(w, n)
      PROVE  Asking(c, h, dir, backup)
  <2> DEFINE exists == dir[n] # NoFile
             stage  == IF exists THEN "lookup" ELSE "next"
  <2>1. h = NoHandle /\ c = Call("unlinkat", n, {}, exists, stage)
    BY <1>4, <1>6, Zenon DEF unlinkat, Enter, h
  <2>2. stage = "next" => ~exists
    OBVIOUS
  <2> HIDE DEF stage
  <2>3. c.op = "unlinkat" /\ c.name = n /\ c.exists = exists /\ c.stage = stage
    BY <2>1 DEF Call
  <2> QED BY <1>2, <2>1, <2>2, <2>3 DEF Asking
<1>7. h # NoHandle /\ DeferredStage(h) = "next" => h.done
  BY <1>1 DEF DeferredStage, Holding, Handles
<1>8. ASSUME pwrite(w)
      PROVE  Asking(c, h, dir, backup)
  <2> DEFINE stage == IF h.tracked THEN DeferredStage(h) ELSE "next"
  <2>1. h # NoHandle /\ c = Call("pwrite", h.name, {}, TRUE, stage)
    BY <1>4, <1>8, Zenon DEF pwrite, Enter, h
  <2>2. stage = "next" => h.done \/ ~h.tracked
    BY <1>7, <2>1
  <2> HIDE DEF stage
  <2>3. c.op = "pwrite" /\ c.name = h.name /\ c.stage = stage
    BY <2>1 DEF Call
  <2> QED BY <1>2, <2>1, <2>2, <2>3 DEF Asking
<1>9. ASSUME ftruncate(w)
      PROVE  Asking(c, h, dir, backup)
  <2> DEFINE exists == dir[h.name] # NoFile
             stage  == IF h.tracked THEN DeferredStage(h)
                       ELSE IF exists THEN "lookup" ELSE "next"
  <2>1. h # NoHandle /\ c = Call("ftruncate", h.name, {}, exists, stage)
    BY <1>4, <1>9, Zenon DEF ftruncate, Enter, h
  <2>2. exists
    BY <1>1, <2>1, VfsAssumption DEF Holding, Handles
  <2>3. stage = "next" => h.done
    BY <1>7, <2>1, <2>2
  <2> HIDE DEF stage
  <2>4. c.op = "ftruncate" /\ c.name = h.name /\ c.stage = stage
    BY <2>1 DEF Call
  <2> QED BY <1>2, <2>1, <2>3, <2>4 DEF Asking
<1>10. Asking(c, fsp[w], dir, backup)
  BY <1>5, <1>6, <1>8, <1>9 DEF h
<1> QED BY <1>1, <1>2, <1>3, <1>10, AskingStep

(* do_backup: what it copies is the original, if that was still there.     *)
LEMMA ShelteredBackup ==
    ASSUME StrictClient, TypeOK, TypeOK', Sheltered, Honest, OneCopier, NEW w \in Workers,
           call[w] # NoCall, lookup(w) \/ create(w) \/ copy(w)
    PROVE  Sheltered'
<1> DEFINE h == fsp[w]
           c == call[w]
           n == c.name
<1>1. /\ Alone /\ Holding(h, dir, backup) /\ Asking(c, h, dir, backup)
      /\ c \in Calls /\ h \in Handles \cup {NoHandle} /\ n \in Names
      /\ Fits(c, h) /\ \A m \in Names : Intact(m, dir, data, backup)
  BY WorkerTypes DEF StrictClient, Sheltered
<1>2. /\ UNCHANGED <<dir, data, fsp>> /\ c.stage \in {"lookup", "create", "copy"}
      /\ c.rc = "none"
  BY <1>1 DEF lookup, create, copy, Fits
<1> HIDE DEF h
<1>3. \A op \in {"pwrite", "ftruncate"} : op \notin MayFail
  BY DEF StrictClient
<1>4. c.op \in {"pwrite", "ftruncate"} => dir[n] # NoFile
  BY <1>1, VfsAssumption DEF Asking, Holding, Handles
<1>5. ASSUME NEW rc \in {"ok", "err"}, Return(w, rc),
             rc = "err" => c.op \in {"openat", "unlinkat"},
             Saved(n, backup') \/ rc = "err"
      PROVE  call'[w] # NoCall => Asking(call'[w], h, dir, backup')
  <2> DEFINE r == Returned(c, rc)
  <2>1. /\ call'[w] = r /\ r.stage = "next" /\ r.name = n /\ r.rc = rc /\ r.op = c.op
    BY <1>5, ReturnFacts DEF TypeOK
  <2>2. r.how = c.how /\ r.exists = c.exists
    BY <1>1 DEF Returned, Calls
  <2> HIDE DEF r
  <2> QED BY <1>1, <1>5, <2>1, <2>2 DEF Asking
<1>6. CASE lookup(w) \/ (create(w) /\ UNCHANGED backup)
  <2>1. UNCHANGED backup
    BY <1>6 DEF lookup
  <2>2. backup[n] # NoBackup => Saved(n, backup)
    <3>1. ~Copying(w)
      BY <1>6 DEF lookup, create, Copying
    <3>2. backup[n] # Partial
      BY <1>1, <3>1 DEF Alone, Honest
    <3> QED BY <1>1, <3>2, CompleteIsSaved DEF TypeOK
  <2>3. CASE \E rc \in {"ok", "err"} :
                /\ Return(w, rc) /\ (rc = "ok" => backup[n] # NoBackup)
                /\ rc = "err" => dir[n] = NoFile \/ c.op \in MayFail
    <3>1. PICK rc \in {"ok", "err"} :
             /\ Return(w, rc) /\ (rc = "ok" => backup[n] # NoBackup)
             /\ rc = "err" => dir[n] = NoFile \/ c.op \in MayFail
      BY <2>3
    <3>2. rc = "err" => c.op \in {"openat", "unlinkat"}
      BY <1>1, <1>3, <1>4, <3>1 DEF Calls, Asking
    <3>3. Asking(call'[w], h, dir, backup')
      BY <1>5, <2>1, <2>2, <3>1, <3>2 DEF Asking
    <3> QED BY <1>1, <1>2, <2>1, <3>3, SoleStep DEF h
  <2>4. CASE call' = [call EXCEPT ![w].stage = "create"] /\ lookup(w)
    <3> DEFINE d == [c EXCEPT !.stage = "create"]
    <3>1. /\ d \in Calls /\ d.stage = "create" /\ d.op = c.op /\ d.name = n
          /\ d.how = c.how /\ d.exists = c.exists /\ d.rc = c.rc
      BY <1>1 DEF Calls
    <3>2. call' = [call EXCEPT ![w] = d]
      BY <2>4
    <3> HIDE DEF d
    <3>3. Asking(d, fsp[w], dir, backup)
      BY <1>1, <1>2, <3>1 DEF Asking, h
    <3> QED BY <1>1, <1>2, <2>1, <3>1, <3>2, <3>3, AskingStep
  <2>5. \/ \E rc \in {"ok", "err"} :
                /\ Return(w, rc) /\ (rc = "ok" => backup[n] # NoBackup)
                /\ rc = "err" => dir[n] = NoFile \/ c.op \in MayFail
        \/ call' = [call EXCEPT ![w].stage = "create"] /\ lookup(w)
    <3>1. CASE lookup(w)
      <4>1. \/ dir[n] = NoFile /\ Return(w, "err")
            \/ backup[n] # NoBackup /\ Return(w, "ok")
            \/ call' = [call EXCEPT ![w].stage = "create"]
        BY <3>1, Zenon DEF lookup
      <4> QED BY <3>1, <4>1
    <3>2. CASE create(w) /\ UNCHANGED backup
      <4>1. \/ (dir[n] = NoFile \/ c.op \in MayFail) /\ Return(w, "err")
            \/ backup[n] # NoBackup /\ Return(w, "ok")
            \/ backup[n] = NoBackup /\ backup' = [backup EXCEPT ![n] = Partial]
        BY <3>2, Zenon DEF create
      <4>2. ~(backup[n] = NoBackup /\ backup' = [backup EXCEPT ![n] = Partial])
        BY <1>1, <3>2, VfsAssumption DEF TypeOK
      <4> QED BY <4>1, <4>2
    <3> QED BY <1>6, <3>1, <3>2
  <2> QED BY <2>3, <2>4, <2>5
<1>7. CASE create(w) /\ backup' # backup
  <2>1. /\ dir[n] # NoFile /\ backup[n] = NoBackup
        /\ backup' = [backup EXCEPT ![n] = Partial]
        /\ call' = [call EXCEPT ![w].stage = "copy", ![w].src = dir[n]]
    BY <1>7, Zenon DEF create
  <2> DEFINE d == [c EXCEPT !.stage = "copy", !.src = dir[n]]
  <2>2. /\ d.stage = "copy" /\ d.op = c.op /\ d.name = n
        /\ d.how = c.how /\ d.exists = c.exists /\ d.rc = c.rc /\ d.src = dir[n]
    BY <1>1 DEF Calls
  <2>3. call'[w] = d
    BY <2>1 DEF TypeOK
  <2> HIDE DEF d
  <2>4. \A m \in Names : /\ m # n => backup'[m] = backup[m]
                         /\ backup'[n] \notin Contents /\ backup[n] \notin Contents
    BY <1>1, <2>1, VfsAssumption DEF TypeOK, Contents
  <2>5. \A m \in Names : Saved(m, backup) => Saved(m, backup')
    BY <2>4, VfsAssumption DEF Saved, Contents
  <2>6. \A m \in Names : Intact(m, dir, data, backup')
    BY <1>1, <2>4, <2>5 DEF Intact
  <2>7. Holding(h, dir, backup')
    BY <1>1, <2>5 DEF Holding, Handles
  <2>8. Asking(d, h, dir, backup')
    BY <1>1, <1>2, <2>2 DEF Asking
  <2> QED BY <1>1, <1>2, <2>3, <2>6, <2>7, <2>8, SoleStep DEF h
<1>8. CASE copy(w)
  <2>1. PICK rc \in {"ok", "err"} :
           /\ Return(w, rc)
           /\ rc = "ok" => backup' = [backup EXCEPT ![n] = data[c.src]]
           /\ rc = "err" => c.op \in MayFail /\ backup' = [backup EXCEPT ![n] = NoBackup]
    <3>1. \/ backup' = [backup EXCEPT ![n] = data[c.src]] /\ Return(w, "ok")
          \/ c.op \in MayFail /\ backup' = [backup EXCEPT ![n] = NoBackup] /\ Return(w, "err")
      BY <1>8, Zenon DEF copy
    <3> QED BY <3>1
  <2>2. backup[n] = Partial /\ c.src = dir[n] /\ dir[n] \in Inodes
    BY <1>1, <1>8 DEF copy, OneCopier, Asking, Fits
  <2>3. \A m \in Names : m # n => backup'[m] = backup[m]
    BY <1>1, <2>1 DEF TypeOK
  <2>4. FirstDir[n] # NoFile => dir[n] = FirstDir[n] /\ data[dir[n]] = FirstDir[n]
    BY <1>1, <2>2, VfsAssumption DEF Intact, Saved, Contents
  <2>5. rc = "ok" => backup'[n] = data[dir[n]] /\ Saved(n, backup')
    BY <1>1, <2>1, <2>2, <2>4 DEF Saved, TypeOK
  <2>6. rc = "err" => backup'[n] = NoBackup /\ NoBackup \notin Contents
    BY <1>1, <2>1, VfsAssumption DEF TypeOK, Contents
  <2>7. \A m \in Names : Saved(m, backup) => Saved(m, backup')
    BY <2>2, <2>3, VfsAssumption DEF Saved
  <2>8. \A m \in Names : Intact(m, dir, data, backup')
    BY <1>1, <2>1, <2>3, <2>4, <2>5, <2>6, <2>7 DEF Intact
  <2>9. Holding(h, dir, backup')
    BY <1>1, <2>7 DEF Holding, Handles
  <2>10. rc = "err" => c.op \in {"openat", "unlinkat"}
    BY <1>1, <1>3, <2>1 DEF Calls, Asking
  <2>11. Asking(call'[w], h, dir, backup')
    BY <1>5, <2>1, <2>5, <2>10 DEF Asking
  <2> QED BY <1>1, <1>2, <2>8, <2>9, <2>11, SoleStep DEF h
<1> QED BY <1>6, <1>7, <1>8

(* Data of a file that is in the store, or of an inode without a name, may *)
(* change: no other original is concerned.                                 *)
LEMMA IntactStep ==
    ASSUME TypeOK, NEW n \in Names, Saved(n, backup),
           \A m \in Names : Intact(m, dir, data, backup),
           \A m \in Names \ {n} : dir'[m] = dir[m],
           UNCHANGED backup,
           \A i \in Inodes : data'[i] = data[i] \/ \A m \in Names \ {n} : dir[m] # i
    PROVE  \A m \in Names : Intact(m, dir', data', backup')
<1> SUFFICES ASSUME NEW m \in Names, m # n PROVE Intact(m, dir', data', backup')
  BY DEF Intact
<1>1. CASE Saved(m, backup)
  BY <1>1 DEF Intact
<1>2. CASE ~Saved(m, backup)
  <2>1. /\ backup[m] \notin Contents /\ dir[m] = FirstDir[m]
        /\ data[FirstDir[m]] = FirstDir[m]
    BY <1>2 DEF Intact
  <2>2. FirstDir[m] \in Inodes
    BY <1>2, VfsAssumption DEF Saved
  <2>3. data'[FirstDir[m]] = data[FirstDir[m]]
    BY <2>1, <2>2
  <2> QED BY <2>1, <2>3 DEF Intact
<1> QED BY <1>1, <1>2

(* An open that goes through found its file in the store, or changes       *)
(* nothing that was there.                                                 *)
LEMMA ShelteredOpen ==
    ASSUME StrictClient, TypeOK, TypeOK', Sheltered, NEW w \in Workers, openat_done(w)
    PROVE  Sheltered'
<1> DEFINE c      == call[w]
           n      == c.name
           risky  == c.rc # "none"
           fresh  == ~risky /\ ~c.exists /\ "CREAT" \in c.how
           proc   == "PROC" \in c.how
           H(i)   == Handle(n, i, risky \/ fresh \/ proc,
                            c.rc = "ok" \/ (fresh /\ ~proc), c.rc = "err",
                            "LOST" \notin c.how, c.rc = "ok", "APPEND" \in c.how)
<1>1. /\ Alone /\ STRICT /\ Asking(c, fsp[w], dir, backup)
      /\ \A m \in Names : Intact(m, dir, data, backup)
  BY DEF StrictClient, Sheltered
<1>2. /\ c # NoCall /\ c.op = "openat" /\ c.stage = "next" /\ c.rc # "err"
      /\ UNCHANGED backup /\ Leave(w)
  BY <1>1, Zenon DEF openat_done, At, Refused
<1>3. PICK i \in Inodes \cup {NoFile} :
        /\ OpenedInode(n, c.how, i)
        /\ dir' = IF i = NoFile THEN dir ELSE [dir EXCEPT ![n] = i]
        /\ data' = IF i # NoFile /\ ("TRUNC" \in c.how \/ dir[n] = NoFile)
                   THEN [data EXCEPT ![i] = Other] ELSE data
        /\ fsp' = IF i = NoFile THEN fsp ELSE [fsp EXCEPT ![w] = H(i)]
  BY Zenon DEF openat_done
<1>4. c \in Calls /\ n \in Names /\ c.rc \in {"none", "ok", "err"} /\ c.exists \in BOOLEAN
      /\ dir \in [Names -> Inodes \cup {NoFile}] /\ data \in [Inodes -> Contents]
      /\ fsp \in [Workers -> Handles \cup {NoHandle}]
  BY <1>2, WorkerTypes DEF TypeOK
<1>5. /\ fsp[w] = NoHandle /\ (c.exists <=> dir[n] # NoFile) /\ "LOST" \notin c.how
      /\ c.rc = "ok" => Saved(n, backup)
      /\ c.rc = "none" /\ c.exists
            => "TRUNC" \notin c.how /\ ("PROC" \in c.how \/ "APPEND" \in c.how)
  BY <1>1, <1>2 DEF Asking
<1>6. call'[w] = NoCall
  BY <1>2 DEF Leave, TypeOK
<1>7. Asking(call'[w], fsp'[w], dir', backup')
  BY <1>6 DEF Asking
<1>8. dir[n] = NoFile => Saved(n, backup)
  BY <1>1, <1>4 DEF Intact, Saved
<1>9. CASE i = NoFile
  <2>1. UNCHANGED <<dir, data, fsp>>
    BY <1>3, <1>9
  <2>2. Holding(fsp'[w], dir', backup')
    BY <1>5, <2>1 DEF Holding
  <2> QED BY <1>1, <1>2, <1>7, <2>1, <2>2, SoleStep
<1>10. CASE i # NoFile
  <2>1. i \in Inodes /\ dir' = [dir EXCEPT ![n] = i] /\ fsp' = [fsp EXCEPT ![w] = H(i)]
    BY <1>3, <1>10
  <2>2. dir'[n] = i /\ \A m \in Names \ {n} : dir'[m] = dir[m]
    BY <1>4, <2>1
  <2>3. \A m \in Names \ {n} : dir[m] # i
    <3>1. dir[n] = i \/ (dir[n] = NoFile /\ "CREAT" \in c.how /\ i \in FreeInodes)
      BY <1>3, <1>10 DEF OpenedInode
    <3>2. CASE dir[n] = i
      BY <1>4, <1>10, <3>2 DEF TypeOK
    <3>3. CASE i \in FreeInodes
      BY <3>3 DEF FreeInodes
    <3> QED BY <3>1, <3>2, <3>3
  <2>4. fsp'[w] = H(i)
    BY <1>4, <2>1
  <2>5. Holding(fsp'[w], dir', backup')
    <3>1. c.rc # "none" => c.rc = "ok"
      BY <1>2, <1>4
    <3>2. fresh => dir[n] = NoFile
      BY <1>5
    <3>3. c.rc = "ok" \/ fresh => Saved(n, backup)
      BY <1>5, <1>8, <3>2
    <3>4. ~risky /\ ~fresh /\ ~proc => "APPEND" \in c.how
      <4>1. dir[n] = NoFile => "CREAT" \in c.how
        BY <1>3, <1>10 DEF OpenedInode
      <4> QED BY <1>5, <4>1
    <3> DEFINE tracked == risky \/ fresh \/ proc
               done    == c.rc = "ok" \/ (fresh /\ ~proc)
               failed  == c.rc = "err"
               path    == "LOST" \notin c.how
               compare == c.rc = "ok"
               append  == "APPEND" \in c.how
    <3>5. /\ done => Saved(n, backup)
          /\ ~tracked => append
          /\ path /\ ~failed
      BY <1>2, <1>5, <3>3, <3>4
    <3>6. fsp'[w] = Handle(n, i, tracked, done, failed, path, compare, append)
      BY <2>4
    <3> HIDE DEF tracked, done, failed, path, compare, append
    <3>7. /\ fsp'[w].name = n /\ fsp'[w].ino = i /\ fsp'[w].tracked = tracked
          /\ fsp'[w].done = done /\ fsp'[w].failed = failed /\ fsp'[w].path = path
          /\ fsp'[w].append = append
      BY <3>6 DEF Handle
    <3> QED BY <1>2, <2>2, <3>5, <3>7 DEF Holding
  <2>6. \A m \in Names : Intact(m, dir', data', backup')
    <3>1. CASE Saved(n, backup)
      <4>1. \A j \in Inodes : data'[j] = data[j] \/ j = i
        BY <1>3, <1>4, <2>1
      <4> QED BY <1>1, <1>2, <1>4, <2>2, <2>3, <3>1, <4>1, IntactStep
    <3>2. CASE ~Saved(n, backup)
      <4>1. dir[n] # NoFile /\ c.exists /\ c.rc = "none"
        BY <1>2, <1>4, <1>5, <1>8, <3>2
      <4>2. dir' = dir /\ data' = data
        BY <1>3, <1>4, <1>5, <1>10, <4>1 DEF OpenedInode
      <4> QED BY <1>1, <1>2, <4>2
    <3> QED BY <3>1, <3>2
  <2> QED BY <1>1, <1>7, <2>5, <2>6, SoleStep
<1> QED BY <1>9, <1>10

(* A write or truncation that goes through is of a file in the store, or   *)
(* only appends.                                                           *)
LEMMA ShelteredWrite ==
    ASSUME StrictClient, TypeOK, TypeOK', Sheltered, NEW w \in Workers,
           pwrite_done(w) \/ ftruncate_done(w)
    PROVE  Sheltered'
<1> DEFINE c == call[w]
           h == fsp[w]
           k == fsp'[w]
<1>1. /\ Alone /\ STRICT /\ Asking(c, h, dir, backup) /\ Holding(h, dir, backup)
      /\ \A m \in Names : Intact(m, dir, data, backup)
  BY DEF StrictClient, Sheltered
<1>2. /\ c # NoCall /\ c.op \in {"pwrite", "ftruncate"} /\ c.stage = "next"
      /\ UNCHANGED <<dir, backup>> /\ Leave(w)
      /\ pwrite_done(w) <=> c.op = "pwrite"
  BY Zenon DEF pwrite_done, ftruncate_done, At
<1>3. /\ h \in Handles /\ c \in Calls /\ h.name \in Names /\ h.ino \in Inodes
      /\ c.rc \in {"none", "ok"} /\ c.name = h.name /\ dir[h.name] = h.ino
  BY <1>1, <1>2, WorkerTypes DEF Asking, Holding
<1>4. call'[w] = NoCall
  BY <1>2 DEF Leave, TypeOK
<1>5. Asking(call'[w], k, dir', backup')
  BY <1>4 DEF Asking
<1>6. /\ k.name = h.name /\ k.ino = h.ino /\ k.path = h.path /\ k.append = h.append
      /\ k.tracked <=> h.tracked \/ c.rc # "none"
      /\ k.done <=> h.done \/ c.rc = "ok"
      /\ k.failed <=> h.failed \/ c.rc = "err"
  <2>1. Marked(h, c.rc) \in Handles
    BY <1>3, MarkedType
  <2>2. k = Marked(h, c.rc) \/ \E b \in BOOLEAN : k = [Marked(h, c.rc) EXCEPT !.reported = b]
    <3>1. CASE ftruncate_done(w)
      <4>1. fsp' = [fsp EXCEPT ![w] = Marked(h, c.rc)]
        BY <3>1, Zenon DEF ftruncate_done
      <4> QED BY <4>1 DEF TypeOK
    <3>2. CASE pwrite_done(w)
      <4> DEFINE reports == /\ h.tracked /\ ~h.done /\ ~h.reported
                            /\ c.rc # "none" \/ h.failed
                 r == [Marked(h, c.rc) EXCEPT !.reported = @ \/ reports]
      <4>1. fsp' = [fsp EXCEPT ![w] = r]
        BY <3>2, Zenon DEF pwrite_done
      <4>2. k = r
        BY <4>1 DEF TypeOK
      <4>3. r = [Marked(h, c.rc) EXCEPT !.reported = (Marked(h, c.rc).reported \/ reports)]
        OBVIOUS
      <4> QED BY <4>2, <4>3
    <3> QED BY <3>1, <3>2
  <2>3. \A b : LET r == [Marked(h, c.rc) EXCEPT !.reported = b]
               IN  /\ r.name = Marked(h, c.rc).name /\ r.ino = Marked(h, c.rc).ino
                   /\ r.path = Marked(h, c.rc).path /\ r.append = Marked(h, c.rc).append
                   /\ r.tracked = Marked(h, c.rc).tracked /\ r.done = Marked(h, c.rc).done
                   /\ r.failed = Marked(h, c.rc).failed
    BY <2>1 DEF Handles
  <2>4. /\ k.name = Marked(h, c.rc).name /\ k.ino = Marked(h, c.rc).ino
        /\ k.path = Marked(h, c.rc).path /\ k.append = Marked(h, c.rc).append
        /\ k.tracked = Marked(h, c.rc).tracked /\ k.done = Marked(h, c.rc).done
        /\ k.failed = Marked(h, c.rc).failed
    BY <2>2, <2>3, Zenon
  <2> QED BY <1>3, <2>4, MarkedParts
<1>7. Holding(k, dir', backup')
  <2>1. c.rc = "ok" => Saved(h.name, backup)
    BY <1>1, <1>2, <1>3 DEF Asking
  <2>2. /\ h # NoHandle /\ h.path /\ ~h.failed /\ (h.done => Saved(h.name, backup))
        /\ ~h.tracked => h.append
    BY <1>1, <1>2, <1>3 DEF Holding, Asking
  <2> QED BY <1>2, <1>3, <1>6, <2>1, <2>2 DEF Holding
<1>8. \A m \in Names : Intact(m, dir', data', backup')
  <2>1. data' = data \/ data' = [data EXCEPT ![h.ino] = Other]
    BY Zenon DEF pwrite_done, ftruncate_done
  <2>2. CASE data' = data
    BY <1>1, <1>2, <2>2
  <2>3. CASE data' # data
    <3>1. ~(c.op = "pwrite" /\ h.append)
      BY <1>2, <2>3, Zenon DEF pwrite_done
    <3>2. Saved(h.name, backup)
      BY <1>1, <1>2, <1>3, <3>1 DEF Asking, Holding
    <3>3. \A m \in Names \ {h.name} : dir[m] # h.ino
      BY <1>3, VfsAssumption DEF TypeOK
    <3>4. \A i \in Inodes : data'[i] = data[i] \/ i = h.ino
      BY <1>3, <2>1, <2>3 DEF TypeOK
    <3> QED BY <1>1, <1>2, <1>3, <3>2, <3>3, <3>4, IntactStep
  <2> QED BY <2>2, <2>3
<1> QED BY <1>1, <1>5, <1>7, <1>8, SoleStep

(* What is removed is in the store or is not there; a refusal changes      *)
(* nothing, and is of an open or a removal.                                *)
LEMMA ShelteredRest ==
    ASSUME StrictClient, TypeOK, TypeOK', Sheltered, NEW w \in Workers,
           \/ unlinkat_done(w) \/ Refuse(w) \/ Denied(w) \/ close(w)
           \/ Block(w) \/ Unblock(w) \/ Crash(w)
    PROVE  Sheltered'
<1> DEFINE c == call[w]
           n == c.name
<1>1. /\ Alone /\ STRICT /\ Asking(c, fsp[w], dir, backup) /\ Holding(fsp[w], dir, backup)
      /\ \A m \in Names : Intact(m, dir, data, backup)
  BY DEF StrictClient, Sheltered
<1>2. Asking(NoCall, fsp'[w], dir', backup') /\ Holding(NoHandle, dir', backup')
  BY DEF Asking, Holding
<1>3. CASE unlinkat_done(w)
  <2>1. /\ c # NoCall /\ c.op = "unlinkat" /\ c.stage = "next" /\ c.rc # "err"
        /\ UNCHANGED <<data, backup, fsp>> /\ Leave(w) /\ dir' = [dir EXCEPT ![n] = NoFile]
    BY <1>1, <1>3, Zenon DEF unlinkat_done, At, Refused
  <2>2. n \in Names /\ c.rc \in {"none", "ok"} /\ fsp[w] = NoHandle
    BY <1>1, <2>1, WorkerTypes DEF Asking
  <2>3. c.rc = "ok" => Saved(n, backup)
    BY <1>1, <2>1 DEF Asking
  <2>4. c.rc = "none" => dir[n] = NoFile
    BY <1>1, <2>1 DEF Asking
  <2>5. Saved(n, backup)
    BY <1>1, <2>2, <2>3, <2>4 DEF Intact, Saved
  <2>6. \A m \in Names \ {n} : dir'[m] = dir[m]
    BY <2>1, <2>2 DEF TypeOK
  <2>7. \A m \in Names : Intact(m, dir', data', backup')
    BY <1>1, <2>1, <2>2, <2>5, <2>6, IntactStep
  <2>8. call'[w] = NoCall
    BY <2>1 DEF Leave, TypeOK
  <2> QED BY <1>1, <1>2, <2>1, <2>2, <2>7, <2>8, SoleStep
<1>4. CASE Refuse(w)
  <2>1. /\ c # NoCall /\ c.rc = "err" /\ UNCHANGED <<dir, data, backup>> /\ Leave(w)
        /\ c.op \notin {"pwrite", "ftruncate"} => fsp' = fsp
    BY <1>4, Zenon DEF Refuse, Refused
  <2>2. UNCHANGED fsp
    BY <1>1, <2>1 DEF Asking
  <2>3. call'[w] = NoCall
    BY <2>1 DEF Leave, TypeOK
  <2> QED BY <1>1, <1>2, <2>1, <2>2, <2>3, SoleStep
<1>5. CASE close(w)
  <2>1. /\ Idle(w) /\ UNCHANGED <<dir, data, backup, call>>
        /\ fsp' = [fsp EXCEPT ![w] = NoHandle]
    BY <1>5, Zenon DEF close
  <2>2. fsp'[w] = NoHandle /\ call'[w] = NoCall
    BY <2>1 DEF TypeOK, Idle
  <2> QED BY <1>1, <1>2, <2>1, <2>2, SoleStep
<1>6. CASE Denied(w) \/ Block(w) \/ Unblock(w)
  <2>1. UNCHANGED <<dir, data, backup, fsp, call>>
    BY <1>6, Zenon DEF Denied, Block, Unblock
  <2> QED BY <1>1, <2>1, SoleStep
<1>7. ~Crash(w)
  BY <1>1 DEF Alone, Crash
<1> QED BY <1>3, <1>4, <1>5, <1>6, <1>7

(* Strict mode keeps its promise for every number of files and any order   *)
(* of opens, writes, truncations and removals, refused ones and repeated   *)
(* ones included: while no rename is used, the client is alone on the      *)
(* store, and backups fail at open and unlink only, an original that is no *)
(* longer in the share is in the store.                                    *)
THEOREM StrictKeepsOriginals == ASSUME StrictClient PROVE Spec => []OriginalsSurvive
<1> DEFINE Inv == Honest /\ Sheltered
<1>1. Init => Inv
  <2> SUFFICES ASSUME Init PROVE Inv
    OBVIOUS
  <2>1. Honest
    BY VfsAssumption DEF Init, Honest
  <2>2. \A n \in Names : Intact(n, dir, data, backup)
    <3> SUFFICES ASSUME NEW n \in Names, FirstDir[n] # NoFile
                 PROVE  Intact(n, dir, data, backup)
      BY DEF Intact, Saved
    <3>1. FirstDir[n] \in Originals /\ FirstDir[n] \in Inodes
      BY VfsAssumption DEF Originals
    <3>2. backup[n] = NoBackup /\ dir[n] = FirstDir[n] /\ data[FirstDir[n]] = FirstDir[n]
      BY <3>1 DEF Init
    <3> QED BY <3>2, VfsAssumption DEF Intact, Contents
  <2>3. \A w \in Workers : Holding(fsp[w], dir, backup) /\ Asking(call[w], fsp[w], dir, backup)
    BY DEF Init, Holding, Asking
  <2> QED BY <2>1, <2>2, <2>3 DEF Sheltered
<1>2. TypeOK /\ OneCopier /\ Inv /\ [Next]_vars => Inv'
  <2>1. ASSUME Inv, UNCHANGED vars PROVE Inv'
    BY <2>1 DEF vars, Honest, Sheltered, Copying
  <2>2. ASSUME TypeOK, OneCopier, Inv, Next PROVE Inv'
    <3>1. TypeOK' /\ Honest'
      BY <2>2, StepType, HonestNext DEF StrictClient
    <3>2. PICK w \in Workers :
            \/ \E n \in Names, how \in OpenModes : openat(w, n, how)
            \/ pwrite(w) \/ ftruncate(w) \/ \E n \in Names : unlinkat(w, n)
            \/ call[w] # NoCall /\ (lookup(w) \/ create(w) \/ copy(w))
            \/ openat_done(w)
            \/ pwrite_done(w) \/ ftruncate_done(w)
            \/ unlinkat_done(w) \/ Refuse(w) \/ Denied(w) \/ close(w)
            \/ Block(w) \/ Unblock(w) \/ Crash(w)
      BY <2>2, Zenon DEF Next, Uses, StrictClient
    <3>3. Sheltered'
      BY <2>2, <3>1, <3>2, ShelteredEnter, ShelteredBackup, ShelteredOpen, ShelteredWrite,
         ShelteredRest, Zenon
    <3> QED BY <3>1, <3>3
  <2> QED BY <2>1, <2>2
<1>3. TypeOK /\ Inv => OriginalsSurvive
  <2> SUFFICES ASSUME TypeOK, Inv, NEW i \in Originals, Lost(i)
               PROVE  \E n \in Names : backup[n] = i
    BY DEF OriginalsSurvive
  <2>1. PICK n \in Names : FirstDir[n] = i /\ i # NoFile
    BY DEF Originals
  <2>2. Intact(n, dir, data, backup)
    BY DEF Sheltered
  <2> QED BY <2>1, <2>2 DEF Intact, Saved, Lost
<1> QED BY <1>1, <1>2, <1>3, VfsTypes, OneWorkerCopies, PTL DEF Spec
=============================================================================
