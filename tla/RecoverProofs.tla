---------------------------- MODULE RecoverProofs ---------------------------
(***************************************************************************)
(* Proofs about Recover: for any number of files, events and restores,     *)
(* whatever fails and is killed, no original is lost and the rows tell the *)
(* truth, as long as restores run one after another and no client writes   *)
(* during one.  Without that both are false: restore_one removes a backup  *)
(* after its copy without looking again.                                   *)
(***************************************************************************)
EXTENDS Recover, TLAPS

(* restore_one is at work on proc[p].path.                                 *)
Busy == {"move", "open", "torn", "copied", "unlink"}

AllIdle == \A p \in Procs : At(p, "idle")

(* Restores run one after another.                                         *)
OneAtATime == \A p, q \in Procs : At(p, "idle") \/ At(q, "idle") \/ p = q

ClientStep == \E e \in Events, n \in Files :
                 Damage(e, n, Bad) \/ Damage(e, n, None) \/ Create(e, n)

(* No client writes while a restore runs.                                  *)
Undisturbed == [][ClientStep => AllIdle]_vars
-----------------------------------------------------------------------------
(* The inductive invariant, in parts that take the state as parameters.    *)

DataTypes(f, b, q, pr, st, cr, re, ac) ==
    /\ f \in [Files -> Contents \cup {None}]
    /\ b \in [Files -> Contents \cup {None}]
    /\ q \subseteq Files \X Contents
    /\ pr \subseteq Events \X Files /\ cr \subseteq Events \X Files
    /\ st \in [pr -> Statuses]
    /\ re \subseteq Events /\ ac \subseteq Events

Fit(w) == /\ w.stage # "idle" => w.event \in Events
          /\ w.stage \in Busy => w.path \in Files
          /\ w.stage = "torn" => w.content \in Contents

(* An original is in the store or in the quarantine, or untouched.         *)
Kept(n, f, b, q) ==
    \/ b[n] = Orig \/ <<n, Orig>> \in q
    \/ f[n] = Orig /\ b[n] = None

(* What restore_one knows of its file between its steps.                   *)
Held(p, w, f, b) ==
    /\ w.stage \in Busy => b[w.path] # None
    /\ w.stage = "torn" => w.content = b[w.path] /\ f[w.path] = Torn(p)
    /\ w.stage \in {"copied", "unlink"} => f[w.path] = b[w.path]

Born(n, cr) == \E e \in Events : <<e, n>> \in cr

(* A file that is not as it was has its original in the store and a row    *)
(* that does not say restored.                                             *)
Back(n, f, b, pr, st, cr) ==
    ~Born(n, cr) =>
        /\ b[n] \in {None, Orig}
        /\ b[n] = None => f[n] = Orig
        /\ f[n] # Orig => \E e \in Events : <<e, n>> \in pr /\ st[<<e, n>>] # "restored"

Pending(e, n, pr, st) == <<e, n>> \in pr /\ st[<<e, n>>] = "pending"

(* The rows a restore has before it are pending.                           *)
Due(w, pr, st, cr, ac) ==
    /\ w.stage = "rows" \/ w.stage \in Busy => \A m \in w.todo : Pending(w.event, m, pr, st)
    /\ w.stage \in Busy \ {"unlink"} => /\ w.path \notin w.todo
                                        /\ Pending(w.event, w.path, pr, st)
    /\ w.stage = "delete" => \A m \in w.todo : Born(m, cr)
    /\ w.stage # "idle" => w.event \notin ac

(* No row of an event that goes on has been touched by a restore.          *)
Fresh(pr, st, ac) == \A e \in ac, n \in Files : <<e, n>> \in pr => st[<<e, n>>] = "pending"

Files3(f, b, q, pr, st, cr, ac) ==
    /\ \A n \in Old : Kept(n, f, b, q) /\ Back(n, f, b, pr, st, cr)
    /\ Fresh(pr, st, ac)

DataInv == /\ DataTypes(file, backup, quarantine, protected, status, created, resolved, active)
           /\ Files3(file, backup, quarantine, protected, status, created, active)

ProcInv == /\ proc \in [Procs -> Work]
           /\ \A p \in Procs : /\ Fit(proc[p]) /\ Held(p, proc[p], file, backup)
                               /\ Due(proc[p], protected, status, created, active)

(* The contents differ.                                                    *)
LEMMA Distinct ==
    /\ Orig # None /\ Bad # None /\ Orig # Bad /\ None \notin Contents
    /\ Orig \in Contents /\ Bad \in Contents
    /\ \A p \in Procs : Torn(p) \in Contents /\ Torn(p) # Orig /\ Torn(p) # None
<1>1. /\ Orig[1] = "orig" /\ Bad[1] = "bad" /\ None[1] = "none"
      /\ \A p \in Procs : Torn(p)[1] = "torn"
  BY DEF Orig, Bad, None, Torn
<1>2. \A p \in Procs : Torn(p) # None /\ Torn(p) # Orig
  BY <1>1
<1>3. Orig # None /\ Bad # None /\ Orig # Bad
  BY <1>1
<1> QED BY <1>2, <1>3 DEF Contents

(* The types are those of the data and of each restore.                    *)
LEMMA TypeParts ==
    /\ TypeOK <=> /\ DataTypes(file, backup, quarantine, protected, status, created, resolved, active)
                  /\ proc \in [Procs -> Work] /\ \A p \in Procs : Fit(proc[p])
    /\ TypeOK' <=> /\ DataTypes(file', backup', quarantine', protected', status', created', resolved', active')
                   /\ proc' \in [Procs -> Work] /\ \A p \in Procs : Fit(proc'[p])
BY DEF TypeOK, DataTypes, Fit, Busy, At

(* The invariant holds at the start.                                       *)
LEMMA InitInv == Init => DataInv /\ ProcInv
<1> SUFFICES ASSUME Init PROVE DataInv /\ ProcInv
  OBVIOUS
<1>1. DataTypes(file, backup, quarantine, protected, status, created, resolved, active)
  <2>1. file \in [Files -> Contents \cup {None}] /\ backup \in [Files -> Contents \cup {None}]
    BY Distinct DEF Init
  <2>2. status \in [protected -> Statuses]
    BY DEF Init
  <2> QED BY <2>1, <2>2 DEF Init, DataTypes
<1>2. Files3(file, backup, quarantine, protected, status, created, active)
  <2>1. \A n \in Old : file[n] = Orig /\ backup[n] = None
    <3>1. /\ file = [n \in Files |-> IF n \in Old THEN Orig ELSE None]
          /\ backup = [n \in Files |-> None]
      BY DEF Init
    <3>2. Old \subseteq Files
      BY RecoverAssumption
    <3>3. ASSUME NEW n \in Old PROVE file[n] = Orig /\ backup[n] = None
      <4>1. n \in Files
        BY <3>2
      <4>2. file[n] = Orig
        BY <3>1, <4>1
      <4>3. backup[n] = None
        BY <3>1, <4>1
      <4> QED BY <4>2, <4>3
    <3> QED BY <3>3
  <2>2. protected = {}
    BY DEF Init
  <2> QED BY <2>1, <2>2 DEF Files3, Kept, Back, Fresh
<1>3. Idle \in Work /\ Idle.stage = "idle"
  BY DEF Idle, Work, Stages
<1>4. proc \in [Procs -> Work] /\ \A p \in Procs : proc[p].stage = "idle"
  BY <1>3 DEF Init
<1> QED BY <1>1, <1>2, <1>4 DEF DataInv, ProcInv, Fit, Held, Due, Busy
-----------------------------------------------------------------------------
(* Nothing is asked of a process that is idle.                             *)
LEMMA IdleHolds ==
    ASSUME NEW p, NEW w, w.stage = "idle", NEW f, NEW b, NEW pr, NEW st, NEW cr, NEW ac
    PROVE  Fit(w) /\ Held(p, w, f, b) /\ Due(w, pr, st, cr, ac)
BY DEF Fit, Held, Due, Busy

(* A step of process p, while the others are idle or nothing they rely on  *)
(* changes.                                                                *)
LEMMA ProcStep ==
    ASSUME ProcInv, NEW p \in Procs, NEW w \in Work, proc' = [proc EXCEPT ![p] = w],
           \/ \A q \in Procs \ {p} : At(q, "idle")
           \/ UNCHANGED <<file, backup, protected, status, created, active>>,
           Fit(w), Held(p, w, file', backup'),
           Due(w, protected', status', created', active')
    PROVE  ProcInv'
<1>1. /\ proc' \in [Procs -> Work] /\ proc'[p] = w
      /\ \A q \in Procs \ {p} : proc'[q] = proc[q]
  BY DEF ProcInv
<1>2. ASSUME NEW q \in Procs \ {p}
      PROVE  /\ Fit(proc[q]) /\ Held(q, proc[q], file', backup')
             /\ Due(proc[q], protected', status', created', active')
  <2>1. CASE At(q, "idle")
    BY <2>1, IdleHolds DEF At
  <2>2. CASE UNCHANGED <<file, backup, protected, status, created, active>>
    BY <2>2 DEF ProcInv
  <2> QED BY <2>1, <2>2
<1>3. ASSUME NEW q \in Procs
      PROVE  /\ Fit(proc'[q]) /\ Held(q, proc'[q], file', backup')
             /\ Due(proc'[q], protected', status', created', active')
  BY <1>1, <1>2
<1> QED BY <1>1, <1>3 DEF ProcInv

(* What the invariant says of process p.                                   *)
LEMMA ProcFacts ==
    ASSUME ProcInv, NEW p \in Procs
    PROVE  /\ proc[p] \in Work /\ Fit(proc[p])
           /\ Held(p, proc[p], file, backup)
           /\ Due(proc[p], protected, status, created, active)
BY DEF ProcInv

(* While one restore runs the others do not.                               *)
LEMMA OthersIdle ==
    ASSUME OneAtATime, NEW p \in Procs, ~At(p, "idle")
    PROVE  \A q \in Procs \ {p} : At(q, "idle")
BY DEF OneAtATime

(* db_update_restore_status changes one row, or none.                      *)
LEMMA SetFacts ==
    ASSUME DataInv, NEW p \in Procs, NEW n \in Files, NEW st \in Statuses,
           Pending(proc[p].event, n, protected, status), Set(p, n, st)
    PROVE  /\ UNCHANGED <<protected, created, resolved, active>>
           /\ status' \in [protected -> Statuses]
           /\ status'[<<proc[p].event, n>>] \in {"pending", st}
           /\ \A r \in protected : r # <<proc[p].event, n>> => status'[r] = status[r]
<1>1. status \in [protected -> Statuses] /\ <<proc[p].event, n>> \in protected
      /\ status[<<proc[p].event, n>>] = "pending"
  BY DEF DataInv, DataTypes, Pending
<1> DEFINE r0 == <<proc[p].event, n>>
<1>2. /\ UNCHANGED <<protected, created, resolved, active>>
      /\ status' = [status EXCEPT ![r0] = st] \/ status' = status
  BY DEF Set
<1> HIDE DEF r0
<1>3. r0 \in protected /\ status[r0] = "pending"
  BY <1>1 DEF r0
<1>4. /\ status' \in [protected -> Statuses]
      /\ status'[r0] \in {"pending", st}
      /\ \A r \in protected : r # r0 => status'[r] = status[r]
  BY <1>1, <1>2, <1>3
<1> QED BY <1>2, <1>4 DEF r0

(* The rest of the data when a row is set and the files and the store have *)
(* changed to f and b.                                                     *)
LEMMA SetKeeps ==
    ASSUME DataInv, NEW p \in Procs, NEW n \in Files, NEW st \in Statuses, ProcInv,
           Pending(proc[p].event, n, protected, status), Set(p, n, st),
           ~At(p, "idle"), UNCHANGED <<file, backup, quarantine>>,
           st = "restored" => \/ file[n] = Orig
                              \/ n \notin Old \/ Born(n, created)
    PROVE  DataInv'
<1> DEFINE e0 == proc[p].event
<1>1. /\ UNCHANGED <<protected, created, resolved, active>>
      /\ status' \in [protected -> Statuses]
      /\ status'[<<e0, n>>] \in {"pending", st}
      /\ \A r \in protected : r # <<e0, n>> => status'[r] = status[r]
  BY SetFacts
<1>2. e0 \notin active /\ e0 \in Events
  BY ProcFacts DEF Due, At, Fit
<1> HIDE DEF e0
<1>3. DataTypes(file', backup', quarantine', protected', status', created', resolved', active')
  BY <1>1 DEF DataInv, DataTypes
<1>4. Fresh(protected', status', active')
  <2> SUFFICES ASSUME NEW e \in active, NEW m \in Files, <<e, m>> \in protected
               PROVE  status'[<<e, m>>] = "pending"
    BY <1>1 DEF Fresh
  <2>1. status[<<e, m>>] = "pending"
    BY DEF DataInv, Files3, Fresh
  <2>2. <<e, m>> # <<e0, n>>
    BY <1>2
  <2> QED BY <1>1, <2>1, <2>2
<1>5. ASSUME NEW m \in Old PROVE Back(m, file', backup', protected', status', created')
  <2>1. Back(m, file, backup, protected, status, created)
    BY DEF DataInv, Files3
  <2>2. CASE Born(m, created)
    BY <1>1, <2>2 DEF Back
  <2>3. CASE ~Born(m, created) /\ file[m] = Orig
    BY <1>1, <2>1, <2>3 DEF Back
  <2>4. CASE ~Born(m, created) /\ file[m] # Orig
    <3>1. PICK e \in Events : <<e, m>> \in protected /\ status[<<e, m>>] # "restored"
      BY <2>1, <2>4 DEF Back
    <3>2. status'[<<e, m>>] # "restored"
      <4>1. CASE <<e, m>> = <<e0, n>>
        <5>1. m = n
          BY <4>1
        <5>2. st # "restored"
          BY <2>4, <5>1
        <5> QED BY <1>1, <4>1, <5>2
      <4>2. CASE <<e, m>> # <<e0, n>>
        BY <1>1, <3>1, <4>2
      <4> QED BY <4>1, <4>2
    <3> QED BY <1>1, <2>1, <3>1, <3>2 DEF Back
  <2> QED BY <2>2, <2>3, <2>4
<1>6. \A m \in Old : Kept(m, file', backup', quarantine')
  BY DEF DataInv, Files3
<1> QED BY <1>3, <1>4, <1>5, <1>6 DEF DataInv, Files3
-----------------------------------------------------------------------------
(* The client's steps, no restore running.                                 *)
LEMMA QuietProcs ==
    ASSUME ProcInv, AllIdle, UNCHANGED proc
    PROVE  ProcInv'
BY IdleHolds DEF ProcInv, AllIdle, At

(* A client changes or deletes a file that was backed up.                  *)
LEMMA DamageKeeps ==
    ASSUME DataInv, NEW e \in Events, NEW n \in Files, NEW c \in {Bad, None},
           Damage(e, n, c)
    PROVE  DataInv' /\ UNCHANGED proc
<1>1. /\ e \in active /\ file[n] # None /\ UNCHANGED <<quarantine, created, resolved, active, proc>>
      /\ backup' = [backup EXCEPT ![n] = IF @ = None THEN file[n] ELSE @]
      /\ file' = [file EXCEPT ![n] = c]
      /\ protected' = protected \cup {<<e, n>>}
      /\ status' = [r \in protected \cup {<<e, n>>} |->
                       IF r \in protected THEN status[r] ELSE "pending"]
  BY DEF Damage, Protect
<1>2. DataTypes(file, backup, quarantine, protected, status, created, resolved, active)
  BY DEF DataInv
<1>3. /\ file' \in [Files -> Contents \cup {None}] /\ backup' \in [Files -> Contents \cup {None}]
      /\ file'[n] = c /\ \A m \in Files \ {n} : file'[m] = file[m] /\ backup'[m] = backup[m]
      /\ backup[n] = None => backup'[n] = file[n]
      /\ backup[n] # None => backup'[n] = backup[n]
  BY <1>1, <1>2, Distinct DEF DataTypes
<1>4. /\ status' \in [protected' -> Statuses]
      /\ \A r \in protected : status'[r] = status[r]
      /\ <<e, n>> \notin protected => status'[<<e, n>>] = "pending"
  BY <1>1, <1>2 DEF DataTypes, Statuses
<1>5. DataTypes(file', backup', quarantine', protected', status', created', resolved', active')
  BY <1>1, <1>2, <1>3, <1>4 DEF DataTypes
<1>6. status'[<<e, n>>] = "pending"
  BY <1>1, <1>4 DEF DataInv, Files3, Fresh
<1>7. Fresh(protected', status', active')
  <2> SUFFICES ASSUME NEW d \in active, NEW m \in Files, <<d, m>> \in protected'
               PROVE  status'[<<d, m>>] = "pending"
    BY <1>1 DEF Fresh
  <2>1. CASE <<d, m>> \in protected
    BY <1>4, <2>1 DEF DataInv, Files3, Fresh
  <2>2. CASE <<d, m>> = <<e, n>>
    BY <1>6, <2>2
  <2> QED BY <1>1, <2>1, <2>2
<1>8. ASSUME NEW m \in Old
      PROVE  /\ Kept(m, file', backup', quarantine')
             /\ Back(m, file', backup', protected', status', created')
  <2>1. /\ Kept(m, file, backup, quarantine) /\ m \in Files
        /\ Back(m, file, backup, protected, status, created)
    BY RecoverAssumption DEF DataInv, Files3
  <2>2. CASE m = n
    <3>1. c # Orig
      BY Distinct
    <3>2. backup'[m] = Orig \/ <<m, Orig>> \in quarantine
      BY <1>3, <2>1, <2>2, Distinct DEF Kept
    <3>3. ~Born(m, created) => backup'[m] = Orig
      BY <1>3, <2>1, <2>2, Distinct DEF Back
    <3>4. <<e, m>> \in protected'
      BY <1>1, <2>2
    <3> QED BY <1>1, <1>3, <1>6, <2>2, <3>2, <3>3, <3>4, Distinct DEF Kept, Back
  <2>3. CASE m # n
    <3>1. file'[m] = file[m] /\ backup'[m] = backup[m]
      BY <1>3, <2>1, <2>3
    <3>2. \A d \in Events : <<d, m>> \in protected =>
             <<d, m>> \in protected' /\ status'[<<d, m>>] = status[<<d, m>>]
      BY <1>1, <1>4
    <3> QED BY <1>1, <2>1, <3>1, <3>2 DEF Kept, Back
  <2> QED BY <2>2, <2>3
<1> QED BY <1>1, <1>5, <1>7, <1>8 DEF DataInv, Files3

(* A client creates a file.                                                *)
LEMMA CreateKeeps ==
    ASSUME DataInv, NEW e \in Events, NEW n \in Files, Create(e, n)
    PROVE  DataInv' /\ UNCHANGED proc
<1>1. /\ file[n] = None /\ file' = [file EXCEPT ![n] = Bad]
      /\ created' = created \cup {<<e, n>>}
      /\ UNCHANGED <<backup, quarantine, protected, status, resolved, active, proc>>
  BY DEF Create
<1>2. DataTypes(file, backup, quarantine, protected, status, created, resolved, active)
  BY DEF DataInv
<1>3. /\ file' \in [Files -> Contents \cup {None}]
      /\ \A m \in Files \ {n} : file'[m] = file[m]
  BY <1>1, <1>2, Distinct DEF DataTypes
<1>4. DataTypes(file', backup', quarantine', protected', status', created', resolved', active')
  BY <1>1, <1>2, <1>3 DEF DataTypes
<1>5. ASSUME NEW m \in Old
      PROVE  /\ Kept(m, file', backup', quarantine')
             /\ Back(m, file', backup', protected', status', created')
  <2>1. /\ Kept(m, file, backup, quarantine) /\ m \in Files
        /\ Back(m, file, backup, protected, status, created)
    BY RecoverAssumption DEF DataInv, Files3
  <2>2. CASE m = n
    <3>1. Born(m, created')
      BY <1>1, <2>2 DEF Born
    <3> QED BY <1>1, <2>1, <2>2, <3>1, Distinct DEF Kept, Back
  <2>3. CASE m # n
    <3>1. Born(m, created) => Born(m, created')
      BY <1>1 DEF Born
    <3> QED BY <1>1, <1>3, <2>1, <2>3, <3>1 DEF Kept, Back
  <2> QED BY <2>2, <2>3
<1>6. Fresh(protected', status', active')
  BY <1>1 DEF DataInv, Files3
<1> QED BY <1>1, <1>4, <1>5, <1>6 DEF DataInv, Files3

(* The daemon blocks the session of an event.                              *)
LEMMA BlockKeeps ==
    ASSUME DataInv, ProcInv, NEW e \in Events, Block(e)
    PROVE  DataInv' /\ ProcInv'
<1>1. /\ active' = active \ {e} /\ UNCHANGED <<file, backup, quarantine, proc>>
      /\ UNCHANGED <<protected, status, created, resolved>>
  BY DEF Block, index
<1>2. DataTypes(file', backup', quarantine', protected', status', created', resolved', active')
  BY <1>1 DEF DataInv, DataTypes
<1>3. Files3(file', backup', quarantine', protected', status', created', active')
  BY <1>1 DEF DataInv, Files3, Fresh
<1>4. \A p \in Procs : Due(proc[p], protected, status, created, active')
  BY <1>1 DEF ProcInv, Due
<1>5. ProcInv'
  BY <1>1, <1>4 DEF ProcInv
<1> QED BY <1>2, <1>3, <1>5 DEF DataInv
-----------------------------------------------------------------------------
(* The steps of a restore.                                                 *)

(* A restore starts.                                                       *)
LEMMA StartKeeps ==
    ASSUME DataInv, ProcInv, NEW p \in Procs, NEW e \in Events, cmd_restore(p, e)
    PROVE  DataInv' /\ ProcInv'
<1> DEFINE t == {c[2] : c \in {d \in created : d[1] = e}}
           w == [Idle EXCEPT !.event = e, !.stage = "delete", !.todo = t]
<1>1. /\ UNCHANGED <<file, backup, quarantine, active>> /\ e \notin active
      /\ UNCHANGED <<protected, status, created, resolved>>
      /\ proc' = [proc EXCEPT ![p] = w]
  BY DEF cmd_restore, index
<1>2. created \subseteq Events \X Files
  BY DEF DataInv, DataTypes
<1>3. t \subseteq Files /\ \A m \in t : Born(m, created)
  BY <1>2 DEF Born
<1> HIDE DEF t
<1>4. w \in Work /\ w.stage = "delete" /\ w.event = e /\ w.todo = t
  BY <1>3 DEF Idle, Work, Stages
<1> HIDE DEF w
<1>5. /\ Fit(w) /\ Held(p, w, file', backup')
      /\ Due(w, protected', status', created', active')
  BY <1>1, <1>3, <1>4 DEF Fit, Held, Due, Busy
<1>6. ProcInv'
  BY <1>1, <1>4, <1>5, ProcStep
<1> QED BY <1>1, <1>6 DEF DataInv

(* A process that stops, whatever it was doing.                            *)
LEMMA StopKeeps ==
    ASSUME DataInv, ProcInv, NEW p \in Procs, Finish(p) \/ Crash(p)
    PROVE  DataInv' /\ ProcInv'
<1>1. /\ UNCHANGED <<file, backup, quarantine, active>>
      /\ UNCHANGED <<protected, status, created>>
      /\ proc' = [proc EXCEPT ![p] = Idle]
  BY DEF Finish, Crash, index
<1>2. resolved' \subseteq Events
  <2>1. resolved \subseteq Events
    BY DEF DataInv, DataTypes
  <2>2. CASE Crash(p)
    BY <2>1, <2>2 DEF Crash, index
  <2>3. CASE Finish(p)
    <3>1. At(p, "rows") /\ (resolved' = resolved \/ resolved' = resolved \cup {proc[p].event})
      BY <2>3, Zenon DEF Finish
    <3>2. proc[p].event \in Events
      BY <3>1, ProcFacts DEF Fit, At
    <3> QED BY <2>1, <3>1, <3>2
  <2> QED BY <2>2, <2>3
<1>3. Idle \in Work /\ Idle.stage = "idle"
  BY DEF Idle, Work, Stages
<1>4. /\ Fit(Idle) /\ Held(p, Idle, file', backup')
      /\ Due(Idle, protected', status', created', active')
  BY <1>3, IdleHolds
<1>5. ProcInv'
  BY <1>1, <1>3, <1>4, ProcStep
<1>6. DataTypes(file', backup', quarantine', protected', status', created', resolved', active')
  BY <1>1, <1>2 DEF DataInv, DataTypes
<1>7. Files3(file', backup', quarantine', protected', status', created', active')
  BY <1>1 DEF DataInv
<1> QED BY <1>5, <1>6, <1>7 DEF DataInv

(* A restore changes a file: one the event has created, or one that has    *)
(* its backup and a row that does not say restored.                        *)
LEMMA FileStep ==
    ASSUME DataInv, NEW n \in Files, NEW x \in Contents \cup {None},
           file' = [file EXCEPT ![n] = x],
           quarantine \subseteq quarantine', quarantine' \subseteq Files \X Contents,
           file[n] = Orig /\ backup[n] = None => <<n, Orig>> \in quarantine',
           UNCHANGED <<backup, protected, status, created, resolved, active>>,
           \/ Born(n, created)
           \/ /\ backup[n] # None
              /\ \E e \in Events : <<e, n>> \in protected /\ status[<<e, n>>] # "restored"
    PROVE  DataInv'
<1>1. file \in [Files -> Contents \cup {None}]
  BY DEF DataInv, DataTypes
<1>2. /\ file' \in [Files -> Contents \cup {None}] /\ file'[n] = x
      /\ \A m \in Files \ {n} : file'[m] = file[m]
  BY <1>1
<1>3. DataTypes(file', backup', quarantine', protected', status', created', resolved', active')
  BY <1>2 DEF DataInv, DataTypes
<1>4. ASSUME NEW m \in Old
      PROVE  /\ Kept(m, file', backup', quarantine')
             /\ Back(m, file', backup', protected', status', created')
  <2>1. /\ Kept(m, file, backup, quarantine) /\ m \in Files
        /\ Back(m, file, backup, protected, status, created)
    BY RecoverAssumption DEF DataInv, Files3
  <2>2. Kept(m, file', backup', quarantine')
    BY <1>2, <2>1 DEF Kept
  <2>3. CASE m = n
    BY <2>1, <2>2, <2>3 DEF Back
  <2>4. CASE m # n
    BY <1>2, <2>1, <2>2, <2>4 DEF Back
  <2> QED BY <2>3, <2>4
<1>5. Fresh(protected', status', active')
  BY DEF DataInv, Files3
<1> QED BY <1>3, <1>4, <1>5 DEF DataInv, Files3

(* A restore deletes a file the session created.                           *)
LEMMA DeleteKeeps ==
    ASSUME DataInv, ProcInv, OneAtATime, NEW p \in Procs, NEW n \in Files,
           delete_created_one(p, n)
    PROVE  DataInv' /\ ProcInv'
<1>1. /\ At(p, "delete") /\ n \in proc[p].todo /\ UNCHANGED <<backup, active>>
      /\ UNCHANGED <<protected, status, created, resolved>>
  BY DEF delete_created_one, index
<1>2. /\ proc[p] \in Work /\ Fit(proc[p])
      /\ Due(proc[p], protected, status, created, active)
  BY ProcFacts
<1>3. \E w \in Work : /\ w.stage = "delete" /\ w.event = proc[p].event
                      /\ w.todo \subseteq proc[p].todo
                      /\ proc' = [proc EXCEPT ![p] = w]
  <2>1. \/ proc' = [proc EXCEPT ![p].todo = @ \ {n}, ![p].found = TRUE]
        \/ proc' = [proc EXCEPT ![p].todo = @ \ {n}]
    BY Zenon DEF delete_created_one
  <2>2. CASE proc' = [proc EXCEPT ![p].todo = @ \ {n}, ![p].found = TRUE]
    <3> DEFINE w == [proc[p] EXCEPT !.todo = proc[p].todo \ {n}, !.found = TRUE]
    <3>1. proc' = [proc EXCEPT ![p] = w]
      BY <2>2
    <3>2. /\ w \in Work /\ w.stage = "delete" /\ w.event = proc[p].event
          /\ w.todo \subseteq proc[p].todo
      BY <1>1, <1>2 DEF Work, At
    <3> QED BY <3>1, <3>2, Zenon
  <2>3. CASE proc' = [proc EXCEPT ![p].todo = @ \ {n}]
    <3> DEFINE w == [proc[p] EXCEPT !.todo = proc[p].todo \ {n}]
    <3>1. proc' = [proc EXCEPT ![p] = w]
      BY <2>3
    <3>2. /\ w \in Work /\ w.stage = "delete" /\ w.event = proc[p].event
          /\ w.todo \subseteq proc[p].todo
      BY <1>1, <1>2 DEF Work, At
    <3> QED BY <3>1, <3>2, Zenon
  <2> QED BY <2>1, <2>2, <2>3
<1>4. PICK w \in Work : /\ w.stage = "delete" /\ w.event = proc[p].event
                        /\ w.todo \subseteq proc[p].todo
                        /\ proc' = [proc EXCEPT ![p] = w]
  BY <1>3
<1>5. /\ Fit(w) /\ Held(p, w, file', backup')
      /\ Due(w, protected', status', created', active')
  BY <1>1, <1>2, <1>4 DEF Fit, Held, Due, Busy, At
<1>6. ProcInv'
  BY <1>1, <1>4, <1>5, ProcStep, OthersIdle DEF At
<1>7. DataInv'
  <2>1. Born(n, created)
    BY <1>1, <1>2 DEF Due, At
  <2>2. file \in [Files -> Contents \cup {None}] /\ quarantine \subseteq Files \X Contents
    BY DEF DataInv, DataTypes
  <2>3. \/ UNCHANGED <<file, quarantine>>
        \/ /\ file[n] # None /\ file' = [file EXCEPT ![n] = None]
           /\ quarantine' = quarantine \cup {<<n, file[n]>>}
    BY Zenon DEF delete_created_one
  <2>4. CASE UNCHANGED <<file, quarantine>>
    BY <1>1, <2>4 DEF DataInv
  <2>5. CASE /\ file[n] # None /\ file' = [file EXCEPT ![n] = None]
             /\ quarantine' = quarantine \cup {<<n, file[n]>>}
    <3>1. quarantine' \subseteq Files \X Contents
      BY <2>2, <2>5
    <3> QED BY <1>1, <2>1, <2>5, <3>1, FileStep
  <2> QED BY <2>3, <2>4, <2>5
<1> QED BY <1>6, <1>7

(* A restore reads the rows of its event.                                  *)
LEMMA QueryKeeps ==
    ASSUME DataInv, ProcInv, OneAtATime, NEW p \in Procs, db_query_by_event(p)
    PROVE  DataInv' /\ ProcInv'
<1> DEFINE mine == {r \in protected : r[1] = proc[p].event}
           t == {r[2] : r \in {q \in mine : status[q] = "pending"}}
           b == proc[p].found \/ mine # {}
           w == [proc[p] EXCEPT !.stage = "rows", !.found = b, !.todo = t]
<1>1. /\ At(p, "delete") /\ UNCHANGED <<file, backup, quarantine, active>>
      /\ UNCHANGED <<protected, status, created, resolved>>
  BY Zenon DEF db_query_by_event, index
<1>2. proc' = [proc EXCEPT ![p].stage = "rows", ![p].found = b, ![p].todo = t]
  BY Zenon DEF db_query_by_event
<1>3. /\ proc[p] \in Work /\ Fit(proc[p])
      /\ Due(proc[p], protected, status, created, active)
  BY ProcFacts
<1>4. b \in BOOLEAN
  BY Zenon
<1>5. t \subseteq Files /\ \A m \in t : Pending(proc[p].event, m, protected, status)
  BY DEF DataInv, DataTypes, Pending
<1> HIDE DEF t, b, mine
<1>6. proc' = [proc EXCEPT ![p] = w]
  BY <1>2
<1>7. w \in Work /\ w.stage = "rows" /\ w.event = proc[p].event /\ w.todo = t
  BY <1>3, <1>4, <1>5 DEF Work, Stages
<1> HIDE DEF w
<1>8. /\ Fit(w) /\ Held(p, w, file', backup')
      /\ Due(w, protected', status', created', active')
  BY <1>1, <1>3, <1>5, <1>7 DEF Fit, Held, Due, Busy, At
<1>9. ProcInv'
  BY <1>1, <1>7, <1>8, <1>6, ProcStep
<1> QED BY <1>1, <1>9 DEF DataInv

(* The rows other than n that a restore has before it stay pending when    *)
(* the row of n is set.                                                    *)
LEMMA SetLeavesOthers ==
    ASSUME DataInv, NEW p \in Procs, NEW n \in Files, NEW st \in Statuses,
           Pending(proc[p].event, n, protected, status), Set(p, n, st),
           NEW m, m # n, Pending(proc[p].event, m, protected, status)
    PROVE  Pending(proc[p].event, m, protected', status')
<1>1. <<proc[p].event, m>> # <<proc[p].event, n>>
  OBVIOUS
<1> QED BY <1>1, SetFacts DEF Pending

(* A restore looks at the backup of the next file.                         *)
LEMMA RestoreKeeps ==
    ASSUME DataInv, ProcInv, OneAtATime, NEW p \in Procs, NEW n \in Files,
           restore_one(p, n)
    PROVE  DataInv' /\ ProcInv'
<1>1. /\ At(p, "rows") /\ n \in proc[p].todo /\ UNCHANGED <<file, backup, quarantine>>
  BY DEF restore_one
<1>2. /\ proc[p] \in Work /\ Fit(proc[p])
      /\ Due(proc[p], protected, status, created, active)
  BY ProcFacts
<1>3. /\ \A m \in proc[p].todo : Pending(proc[p].event, m, protected, status)
      /\ proc[p].event \notin active /\ ~At(p, "idle")
  BY <1>1, <1>2 DEF Due, At
<1>4. CASE /\ Set(p, n, "failed")
           /\ proc' = [proc EXCEPT ![p].todo = @ \ {n}]
  <2> DEFINE w == [proc[p] EXCEPT !.todo = proc[p].todo \ {n}]
  <2>1. proc' = [proc EXCEPT ![p] = w]
    BY <1>4
  <2>2. /\ w \in Work /\ w.stage = "rows" /\ w.event = proc[p].event
        /\ w.todo = proc[p].todo \ {n}
    BY <1>1, <1>2 DEF Work, At
  <2> HIDE DEF w
  <2>3. "failed" \in Statuses /\ "failed" # "restored"
    BY DEF Statuses
  <2>4. \A m \in w.todo : Pending(w.event, m, protected', status')
    BY <1>1, <1>3, <1>4, <2>2, <2>3, SetLeavesOthers
  <2>5. active' = active
    BY <1>4 DEF Set
  <2>6. /\ Fit(w) /\ Held(p, w, file', backup')
        /\ Due(w, protected', status', created', active')
    BY <1>1, <1>2, <1>3, <2>2, <2>4, <2>5 DEF Fit, Held, Due, Busy, At
  <2>7. ProcInv'
    BY <1>3, <2>1, <2>2, <2>6, ProcStep, OthersIdle
  <2>8. DataInv'
    BY <1>1, <1>3, <1>4, <2>3, SetKeeps
  <2> QED BY <2>7, <2>8
<1>5. CASE /\ backup[n] # None /\ UNCHANGED <<index, active>>
           /\ proc' = [proc EXCEPT ![p].todo = @ \ {n}, ![p].path = n, ![p].stage = "move"]
  <2> DEFINE w == [proc[p] EXCEPT !.todo = proc[p].todo \ {n}, !.path = n, !.stage = "move"]
  <2>1. proc' = [proc EXCEPT ![p] = w]
    BY <1>5
  <2>2. /\ w \in Work /\ w.stage = "move" /\ w.event = proc[p].event
        /\ w.todo = proc[p].todo \ {n} /\ w.path = n
    BY <1>1, <1>2 DEF Work, Stages
  <2> HIDE DEF w
  <2>3. UNCHANGED <<protected, status, created, resolved, active>>
    BY <1>5 DEF index
  <2>4. /\ Fit(w) /\ Held(p, w, file', backup')
        /\ Due(w, protected', status', created', active')
    BY <1>1, <1>2, <1>3, <1>5, <2>2, <2>3 DEF Fit, Held, Due, Busy, At
  <2>5. ProcInv'
    BY <1>1, <2>1, <2>2, <2>3, <2>4, ProcStep
  <2> QED BY <1>1, <2>3, <2>5 DEF DataInv
<1> QED BY <1>4, <1>5 DEF restore_one

(* The facts about a process in the middle of restore_one.                 *)
LEMMA BusyFacts ==
    ASSUME DataInv, ProcInv, OneAtATime, NEW p \in Procs, proc[p].stage \in Busy
    PROVE  /\ proc[p] \in Work /\ proc[p].path \in Files /\ proc[p].event \in Events
           /\ backup[proc[p].path] \in Contents
           /\ \A q \in Procs \ {p} : At(q, "idle")
           /\ \A m \in proc[p].todo : Pending(proc[p].event, m, protected, status)
           /\ proc[p].stage # "unlink" => /\ proc[p].path \notin proc[p].todo
                                          /\ Pending(proc[p].event, proc[p].path, protected, status)
           /\ proc[p].event \notin active /\ ~At(p, "idle")
<1>1. /\ proc[p] \in Work /\ Fit(proc[p]) /\ Held(p, proc[p], file, backup)
      /\ Due(proc[p], protected, status, created, active)
  BY ProcFacts
<1>2. proc[p].stage # "idle"
  BY DEF Busy
<1>3. proc[p].path \in Files /\ proc[p].event \in Events
  BY <1>1, <1>2 DEF Fit
<1>4. backup[proc[p].path] # None /\ backup \in [Files -> Contents \cup {None}]
  BY <1>1 DEF Held, DataInv, DataTypes
<1> QED BY <1>1, <1>2, <1>3, <1>4, OthersIdle DEF Due, At

(* restore_one goes on to another stage with the same file, or ends.       *)
LEMMA GotoKeeps ==
    ASSUME DataInv, ProcInv, OneAtATime, NEW p \in Procs, proc[p].stage \in Busy,
           NEW stage \in Stages, Goto(p, stage),
           stage \in {"open", "copied", "unlink", "rows"},
           \A m \in proc[p].todo : Pending(proc[p].event, m, protected', status'),
           stage \in {"open", "copied"} =>
              /\ proc[p].stage # "unlink"
              /\ Pending(proc[p].event, proc[p].path, protected', status'),
           stage # "rows" => backup'[proc[p].path] # None,
           stage \in {"copied", "unlink"} => file'[proc[p].path] = backup'[proc[p].path],
           active' = active
    PROVE  ProcInv'
<1> DEFINE w == [proc[p] EXCEPT !.stage = stage]
<1>1. proc' = [proc EXCEPT ![p] = w]
  BY DEF Goto
<1>2. /\ w \in Work /\ w.stage = stage /\ w.event = proc[p].event
      /\ w.todo = proc[p].todo /\ w.path = proc[p].path
  BY BusyFacts DEF Work
<1> HIDE DEF w
<1>3. Fit(w) /\ Held(p, w, file', backup')
  BY <1>2, BusyFacts DEF Fit, Held, Busy
<1>4. Due(w, protected', status', created', active')
  BY <1>2, BusyFacts DEF Due, Busy
<1> QED BY <1>1, <1>2, <1>3, <1>4, BusyFacts, ProcStep

(* A row is set to failed and restore_one ends.                            *)
LEMMA FailKeeps ==
    ASSUME DataInv, ProcInv, OneAtATime, NEW p \in Procs,
           proc[p].stage \in {"open", "torn"}, Set(p, proc[p].path, "failed"),
           Goto(p, "rows"), UNCHANGED <<file, backup, quarantine>>
    PROVE  DataInv' /\ ProcInv'
<1>1. proc[p].stage \in Busy /\ proc[p].stage # "unlink"
  BY DEF Busy
<1>2. "failed" \in Statuses /\ "failed" # "restored" /\ "rows" \in Stages
  BY DEF Statuses, Stages
<1>3. \A m \in proc[p].todo : Pending(proc[p].event, m, protected', status')
  BY <1>1, <1>2, BusyFacts, SetLeavesOthers
<1>4. active' = active
  BY DEF Set
<1>5. ProcInv'
  BY <1>1, <1>2, <1>3, <1>4, GotoKeeps
<1>6. DataInv'
  BY <1>1, <1>2, BusyFacts, SetKeeps
<1> QED BY <1>5, <1>6

(* A restore moves the damaged file to the quarantine.                     *)
LEMMA QuarantineKeeps ==
    ASSUME DataInv, ProcInv, OneAtATime, NEW p \in Procs, Quarantine(p)
    PROVE  DataInv' /\ ProcInv'
<1> DEFINE n == proc[p].path
<1>1. /\ proc[p].stage = "move" /\ Goto(p, "open") /\ UNCHANGED <<backup, active>>
      /\ UNCHANGED <<protected, status, created, resolved>>
      /\ \/ UNCHANGED <<file, quarantine>>
         \/ /\ file[n] # None /\ file' = [file EXCEPT ![n] = None]
            /\ quarantine' = quarantine \cup {<<n, file[n]>>}
  BY DEF Quarantine, At, index
<1>2. proc[p].stage \in Busy /\ proc[p].stage # "unlink" /\ "open" \in Stages
  BY <1>1 DEF Busy, Stages
<1>3. /\ n \in Files /\ backup[n] # None /\ Pending(proc[p].event, n, protected, status)
      /\ proc[p].event \in Events
      /\ \A m \in proc[p].todo : Pending(proc[p].event, m, protected, status)
  BY <1>2, BusyFacts, Distinct
<1>4. ProcInv'
  BY <1>1, <1>2, <1>3, GotoKeeps
<1>5. CASE UNCHANGED <<file, quarantine>>
  BY <1>1, <1>4, <1>5 DEF DataInv
<1>6. CASE /\ file[n] # None /\ file' = [file EXCEPT ![n] = None]
           /\ quarantine' = quarantine \cup {<<n, file[n]>>}
  <2>1. file \in [Files -> Contents \cup {None}] /\ quarantine \subseteq Files \X Contents
    BY DEF DataInv, DataTypes
  <2>2. quarantine' \subseteq Files \X Contents
    BY <1>3, <1>6, <2>1
  <2>3. \E e \in Events : <<e, n>> \in protected /\ status[<<e, n>>] # "restored"
    BY <1>3 DEF Pending
  <2>4. DataInv'
    BY <1>1, <1>3, <1>6, <2>2, <2>3, FileStep
  <2> QED BY <1>4, <2>4
<1> QED BY <1>1, <1>5, <1>6

(* A restore opens the copy, which is torn from then on.                   *)
LEMMA CopyOpenKeeps ==
    ASSUME DataInv, ProcInv, OneAtATime, NEW p \in Procs, CopyOpen(p)
    PROVE  DataInv' /\ ProcInv'
<1> DEFINE n == proc[p].path
           w == [proc[p] EXCEPT !.stage = "torn", !.content = backup[n]]
<1>1. /\ proc[p].stage = "open" /\ UNCHANGED <<backup, quarantine>>
      /\ \/ Set(p, n, "failed") /\ Goto(p, "rows") /\ UNCHANGED file
         \/ /\ file' = [file EXCEPT ![n] = Torn(p)]
            /\ proc' = [proc EXCEPT ![p] = w]
            /\ UNCHANGED <<protected, status, created, resolved, active>>
  BY DEF CopyOpen, At, index
<1>2. CASE Set(p, n, "failed") /\ Goto(p, "rows") /\ UNCHANGED file
  BY <1>1, <1>2, FailKeeps
<1>3. CASE /\ file' = [file EXCEPT ![n] = Torn(p)]
           /\ proc' = [proc EXCEPT ![p] = w]
           /\ UNCHANGED <<protected, status, created, resolved, active>>
  <2>1. proc[p].stage \in Busy /\ proc[p].stage # "unlink"
    BY <1>1 DEF Busy
  <2>2. /\ proc[p] \in Work /\ n \in Files /\ backup[n] # None /\ backup[n] \in Contents
        /\ proc[p].event \in Events /\ proc[p].event \notin active /\ n \notin proc[p].todo
        /\ Pending(proc[p].event, n, protected, status)
        /\ \A m \in proc[p].todo : Pending(proc[p].event, m, protected, status)
        /\ \A q \in Procs \ {p} : At(q, "idle")
    BY <2>1, BusyFacts, Distinct
  <2>3. /\ w \in Work /\ w.stage = "torn" /\ w.event = proc[p].event
        /\ w.todo = proc[p].todo /\ w.path = n /\ w.content = backup[n]
    BY <2>2 DEF Work, Stages
  <2> HIDE DEF w
  <2>4. file'[n] = Torn(p)
    BY <1>3, <2>2 DEF DataInv, DataTypes
  <2>5. Fit(w) /\ Held(p, w, file', backup')
    BY <1>1, <2>2, <2>3, <2>4 DEF Fit, Held, Busy
  <2>6. Due(w, protected', status', created', active')
    BY <1>3, <2>2, <2>3 DEF Due, Busy
  <2>7. ProcInv'
    BY <1>3, <2>2, <2>3, <2>5, <2>6, ProcStep
  <2>8. \E e \in Events : <<e, n>> \in protected /\ status[<<e, n>>] # "restored"
    BY <2>2 DEF Pending
  <2>9. Torn(p) \in Contents \cup {None} /\ quarantine' \subseteq Files \X Contents
    BY <1>1, Distinct DEF DataInv, DataTypes
  <2>10. DataInv'
    BY <1>1, <1>3, <2>2, <2>8, <2>9, FileStep
  <2> QED BY <2>7, <2>10
<1> QED BY <1>1, <1>2, <1>3

(* A restore completes the copy.                                           *)
LEMMA CopyWriteKeeps ==
    ASSUME DataInv, ProcInv, OneAtATime, NEW p \in Procs, CopyWrite(p)
    PROVE  DataInv' /\ ProcInv'
<1> DEFINE n == proc[p].path
<1>1. proc[p].stage = "torn" /\ UNCHANGED backup
  BY DEF CopyWrite, At
<1>2. file[n] = Torn(p) /\ proc[p].content = backup[n]
  BY <1>1, ProcFacts DEF Held
<1>3. \/ /\ file' = [file EXCEPT ![n] = proc[p].content] /\ UNCHANGED quarantine
         /\ Goto(p, "copied") /\ UNCHANGED <<protected, status, created, resolved, active>>
      \/ Set(p, n, "failed") /\ Goto(p, "rows") /\ UNCHANGED <<file, quarantine>>
  BY <1>2 DEF CopyWrite, index
<1>4. CASE Set(p, n, "failed") /\ Goto(p, "rows") /\ UNCHANGED <<file, quarantine>>
  BY <1>1, <1>4, FailKeeps
<1>5. CASE /\ file' = [file EXCEPT ![n] = proc[p].content] /\ UNCHANGED quarantine
           /\ Goto(p, "copied") /\ UNCHANGED <<protected, status, created, resolved, active>>
  <2>1. proc[p].stage \in Busy /\ proc[p].stage # "unlink" /\ "copied" \in Stages
    BY <1>1 DEF Busy, Stages
  <2>2. /\ n \in Files /\ backup[n] # None /\ backup[n] \in Contents
        /\ proc[p].event \in Events /\ Pending(proc[p].event, n, protected, status)
        /\ \A m \in proc[p].todo : Pending(proc[p].event, m, protected, status)
    BY <2>1, BusyFacts, Distinct
  <2>3. file'[n] = backup[n] /\ file' = [file EXCEPT ![n] = backup[n]]
    BY <1>2, <1>5, <2>2 DEF DataInv, DataTypes
  <2>4. ProcInv'
    BY <1>1, <1>5, <2>1, <2>2, <2>3, GotoKeeps
  <2>5. \E e \in Events : <<e, n>> \in protected /\ status[<<e, n>>] # "restored"
    BY <2>2 DEF Pending
  <2>6. quarantine' \subseteq Files \X Contents
    BY <1>5 DEF DataInv, DataTypes
  <2>7. DataInv'
    BY <1>1, <1>5, <2>2, <2>3, <2>5, <2>6, FileStep
  <2> QED BY <2>4, <2>7
<1> QED BY <1>3, <1>4, <1>5

(* A restore marks the row as restored.                                    *)
LEMMA MarkKeeps ==
    ASSUME DataInv, ProcInv, OneAtATime, NEW p \in Procs, MarkRestored(p)
    PROVE  DataInv' /\ ProcInv'
<1> DEFINE n == proc[p].path
<1>1. /\ proc[p].stage = "copied" /\ Set(p, n, "restored") /\ Goto(p, "unlink")
      /\ UNCHANGED <<file, backup, quarantine>>
  BY DEF MarkRestored, At
<1>2. /\ proc[p].stage \in Busy /\ proc[p].stage # "unlink" /\ "unlink" \in Stages
      /\ "restored" \in Statuses
  BY <1>1 DEF Busy, Stages, Statuses
<1>3. /\ n \in Files /\ backup[n] # None /\ n \notin proc[p].todo
      /\ Pending(proc[p].event, n, protected, status) /\ ~At(p, "idle")
      /\ \A m \in proc[p].todo : Pending(proc[p].event, m, protected, status)
  BY <1>2, BusyFacts, Distinct
<1>4. file[n] = backup[n]
  BY <1>1, ProcFacts DEF Held
<1>5. n \in Old /\ ~Born(n, created) => file[n] = Orig
  BY <1>3, <1>4 DEF DataInv, Files3, Back
<1>6. \A m \in proc[p].todo : Pending(proc[p].event, m, protected', status')
  BY <1>1, <1>2, <1>3, SetLeavesOthers
<1>7. active' = active
  BY <1>1 DEF Set
<1>8. ProcInv'
  BY <1>1, <1>2, <1>3, <1>4, <1>6, <1>7, GotoKeeps
<1>9. DataInv'
  BY <1>1, <1>2, <1>3, <1>5, SetKeeps
<1> QED BY <1>8, <1>9

(* A restore removes the backup.                                           *)
LEMMA UnlinkKeeps ==
    ASSUME DataInv, ProcInv, OneAtATime, NEW p \in Procs, UnlinkBackup(p)
    PROVE  DataInv' /\ ProcInv'
<1> DEFINE n == proc[p].path
<1>1. /\ proc[p].stage = "unlink" /\ Goto(p, "rows")
      /\ backup' = [backup EXCEPT ![n] = None] /\ UNCHANGED <<file, quarantine, active>>
      /\ UNCHANGED <<protected, status, created, resolved>>
  BY DEF UnlinkBackup, At, index
<1>2. proc[p].stage \in Busy /\ "rows" \in Stages
  BY <1>1 DEF Busy, Stages
<1>3. /\ n \in Files /\ backup[n] # None
      /\ \A m \in proc[p].todo : Pending(proc[p].event, m, protected, status)
  BY <1>2, BusyFacts, Distinct
<1>4. file[n] = backup[n]
  BY <1>1, ProcFacts DEF Held
<1>5. ProcInv'
  BY <1>1, <1>2, <1>3, GotoKeeps
<1>6. /\ backup' \in [Files -> Contents \cup {None}] /\ backup'[n] = None
      /\ \A m \in Files \ {n} : backup'[m] = backup[m]
  BY <1>1, <1>3 DEF DataInv, DataTypes
<1>7. DataTypes(file', backup', quarantine', protected', status', created', resolved', active')
  BY <1>1, <1>6 DEF DataInv, DataTypes
<1>8. ASSUME NEW m \in Old
      PROVE  /\ Kept(m, file', backup', quarantine')
             /\ Back(m, file', backup', protected', status', created')
  <2>1. /\ Kept(m, file, backup, quarantine) /\ m \in Files
        /\ Back(m, file, backup, protected, status, created)
    BY RecoverAssumption DEF DataInv, Files3
  <2>2. CASE m = n
    BY <1>1, <1>3, <1>4, <1>6, <2>1, <2>2 DEF Kept, Back
  <2>3. CASE m # n
    BY <1>1, <1>6, <2>1, <2>3 DEF Kept, Back
  <2> QED BY <2>2, <2>3
<1>9. Fresh(protected', status', active')
  BY <1>1 DEF DataInv, Files3
<1> QED BY <1>5, <1>7, <1>8, <1>9 DEF DataInv, Files3
-----------------------------------------------------------------------------
(* Every step keeps the invariant, restores running one after another and  *)
(* undisturbed.                                                            *)
LEMMA NextKeeps ==
    ASSUME DataInv, ProcInv, OneAtATime, Next, ClientStep => AllIdle
    PROVE  DataInv' /\ ProcInv'
<1>1. ASSUME NEW e \in Events, NEW n \in Files,
             Damage(e, n, Bad) \/ Damage(e, n, None) \/ Create(e, n)
      PROVE  DataInv' /\ ProcInv'
  <2>1. AllIdle
    BY <1>1 DEF ClientStep
  <2> QED BY <1>1, <2>1, DamageKeeps, CreateKeeps, QuietProcs
<1>2. ASSUME NEW e \in Events, Block(e) PROVE DataInv' /\ ProcInv'
  BY <1>2, BlockKeeps
<1>3. ASSUME NEW p \in Procs, NEW e \in Events, cmd_restore(p, e)
      PROVE  DataInv' /\ ProcInv'
  BY <1>3, StartKeeps
<1>4. ASSUME NEW p \in Procs, NEW n \in Files, delete_created_one(p, n) \/ restore_one(p, n)
      PROVE  DataInv' /\ ProcInv'
  BY <1>4, DeleteKeeps, RestoreKeeps
<1>5. ASSUME NEW p \in Procs,
             \/ db_query_by_event(p) \/ Quarantine(p) \/ CopyOpen(p)
             \/ CopyWrite(p) \/ MarkRestored(p) \/ UnlinkBackup(p)
             \/ Finish(p) \/ Crash(p)
      PROVE  DataInv' /\ ProcInv'
  BY <1>5, QueryKeeps, QuarantineKeeps, CopyOpenKeeps, CopyWriteKeeps, MarkKeeps,
     UnlinkKeeps, StopKeeps
<1> QED BY <1>1, <1>2, <1>3, <1>4, <1>5, Zenon DEF Next

-----------------------------------------------------------------------------
(* The types, however many restores run at once, and that a restore runs   *)
(* only once the session of its event is blocked.                          *)
SessionsBlocked == \A p \in Procs : ~At(p, "idle") => proc[p].event \notin active

Types == DataTypes(file, backup, quarantine, protected, status, created, resolved, active)

(* A step of process p.                                                    *)
LEMMA WorkTypes ==
    ASSUME TypeOK, SessionsBlocked, NEW p \in Procs, NEW w \in Work, Fit(w),
           w.stage # "idle" => w.event \notin active,
           proc' = [proc EXCEPT ![p] = w], Types', active' = active
    PROVE  TypeOK' /\ SessionsBlocked'
<1>1. proc \in [Procs -> Work] /\ \A q \in Procs : Fit(proc[q])
  BY TypeParts
<1>2. /\ proc' \in [Procs -> Work] /\ proc'[p] = w
      /\ \A q \in Procs \ {p} : proc'[q] = proc[q]
  BY <1>1
<1>3. \A q \in Procs : Fit(proc'[q])
  BY <1>1, <1>2
<1>4. TypeOK'
  BY <1>2, <1>3, TypeParts DEF Types
<1>5. SessionsBlocked'
  BY <1>2 DEF SessionsBlocked, At
<1> QED BY <1>4, <1>5

(* A restore goes on to another stage.                                     *)
LEMMA GotoTypes ==
    ASSUME TypeOK, SessionsBlocked, NEW p \in Procs,
           NEW stage \in {"rows", "open", "copied", "unlink"}, Goto(p, stage),
           proc[p].stage \in Busy, Types', active' = active
    PROVE  TypeOK' /\ SessionsBlocked'
<1> DEFINE w == [proc[p] EXCEPT !.stage = stage]
<1>1. proc[p] \in Work /\ Fit(proc[p]) /\ proc[p].stage # "idle"
  BY TypeParts DEF Busy
<1>2. proc' = [proc EXCEPT ![p] = w]
  BY DEF Goto
<1>3. /\ w \in Work /\ w.stage = stage /\ w.event = proc[p].event /\ w.path = proc[p].path
      /\ w.content = proc[p].content
  BY <1>1 DEF Work, Stages
<1> HIDE DEF w
<1>4. Fit(w) /\ w.event \notin active
  BY <1>1, <1>3 DEF Fit, SessionsBlocked, At, Busy
<1> QED BY <1>2, <1>3, <1>4, WorkTypes

(* Setting the status of a row keeps the types.                            *)
LEMMA SetTypes ==
    ASSUME TypeOK, NEW p \in Procs, NEW n, NEW st \in Statuses, Set(p, n, st),
           file' \in [Files -> Contents \cup {None}], UNCHANGED <<backup, quarantine>>
    PROVE  Types' /\ active' = active
<1> DEFINE r0 == <<proc[p].event, n>>
<1>1. /\ UNCHANGED <<protected, created, resolved, active>>
      /\ status' = [status EXCEPT ![r0] = st] \/ status' = status
  BY DEF Set
<1> HIDE DEF r0
<1>2. status \in [protected -> Statuses]
  BY DEF TypeOK
<1>3. status' \in [protected -> Statuses]
  BY <1>1, <1>2
<1> QED BY <1>1, <1>3 DEF TypeOK, Types, DataTypes

(* The types of the steps outside a restore.                               *)
LEMMA ClientTypes ==
    ASSUME TypeOK, SessionsBlocked, NEW e \in Events,
           \/ Block(e)
           \/ \E n \in Files : Damage(e, n, Bad) \/ Damage(e, n, None) \/ Create(e, n)
    PROVE  TypeOK' /\ SessionsBlocked'
<1> USE DEF Types
<1>1. Types /\ proc \in [Procs -> Work] /\ \A p \in Procs : Fit(proc[p])
  BY TypeParts
<1>2. ASSUME Types', UNCHANGED proc, active' \subseteq active
      PROVE  TypeOK' /\ SessionsBlocked'
  <2>1. TypeOK'
    BY <1>1, <1>2, TypeParts
  <2>2. SessionsBlocked'
    BY <1>2 DEF SessionsBlocked, At
  <2> QED BY <2>1, <2>2
<1>3. CASE Block(e)
  <2>1. /\ active' = active \ {e} /\ UNCHANGED <<file, backup, quarantine, proc>>
        /\ UNCHANGED <<protected, status, created, resolved>>
    BY <1>3 DEF Block, index
  <2>2. Types'
    BY <1>1, <2>1 DEF DataTypes
  <2> QED BY <1>2, <2>1, <2>2
<1>4. ASSUME NEW n \in Files, NEW c \in {Bad, None}, Damage(e, n, c)
      PROVE  TypeOK' /\ SessionsBlocked'
  <2>1. /\ UNCHANGED <<quarantine, created, resolved, active, proc>>
        /\ backup' = [backup EXCEPT ![n] = IF @ = None THEN file[n] ELSE @]
        /\ file' = [file EXCEPT ![n] = c]
        /\ protected' = protected \cup {<<e, n>>}
        /\ status' = [r \in protected \cup {<<e, n>>} |->
                         IF r \in protected THEN status[r] ELSE "pending"]
    BY <1>4 DEF Damage, Protect
  <2>2. file' \in [Files -> Contents \cup {None}] /\ backup' \in [Files -> Contents \cup {None}]
    BY <1>1, <2>1, Distinct DEF DataTypes
  <2>3. status' \in [protected' -> Statuses]
    BY <1>1, <2>1 DEF DataTypes, Statuses
  <2>4. Types'
    BY <1>1, <2>1, <2>2, <2>3 DEF DataTypes
  <2> QED BY <1>2, <2>1, <2>4
<1>5. ASSUME NEW n \in Files, Create(e, n) PROVE TypeOK' /\ SessionsBlocked'
  <2>1. /\ file' = [file EXCEPT ![n] = Bad] /\ created' = created \cup {<<e, n>>}
        /\ UNCHANGED <<backup, quarantine, protected, status, resolved, active, proc>>
    BY <1>5 DEF Create
  <2>2. file' \in [Files -> Contents \cup {None}]
    BY <1>1, <2>1, Distinct DEF DataTypes
  <2>3. Types'
    BY <1>1, <2>1, <2>2 DEF DataTypes
  <2> QED BY <1>2, <2>1, <2>3
<1> QED BY <1>3, <1>4, <1>5

(* The types of the steps before and after the rows.                       *)
LEMMA EdgeTypes ==
    ASSUME TypeOK, SessionsBlocked, NEW p \in Procs,
           \/ \E e \in Events : cmd_restore(p, e)
           \/ \E n \in Files : delete_created_one(p, n)
           \/ db_query_by_event(p) \/ Finish(p) \/ Crash(p)
    PROVE  TypeOK' /\ SessionsBlocked'
<1>1. /\ Types /\ proc[p] \in Work /\ Fit(proc[p])
      /\ ~At(p, "idle") => proc[p].event \notin active
  BY TypeParts DEF Types, SessionsBlocked
<1>2. ASSUME NEW e \in Events, cmd_restore(p, e) PROVE TypeOK' /\ SessionsBlocked'
  <2> DEFINE t == {c[2] : c \in {d \in created : d[1] = e}}
             w == [Idle EXCEPT !.event = e, !.stage = "delete", !.todo = t]
  <2>1. /\ UNCHANGED <<file, backup, quarantine, active>> /\ e \notin active
        /\ UNCHANGED <<protected, status, created, resolved>>
        /\ proc' = [proc EXCEPT ![p] = w]
    BY <1>2, Zenon DEF cmd_restore, index
  <2>2. t \subseteq Files
    BY <1>1 DEF Types, DataTypes
  <2> HIDE DEF t
  <2>3. w \in Work /\ w.stage = "delete" /\ w.event = e
    BY <2>2 DEF Idle, Work, Stages
  <2> HIDE DEF w
  <2>4. Fit(w)
    BY <2>3 DEF Fit, Busy
  <2>5. Types'
    BY <1>1, <2>1 DEF Types
  <2> QED BY <2>1, <2>3, <2>4, <2>5, WorkTypes
<1>3. ASSUME NEW n \in Files, delete_created_one(p, n) PROVE TypeOK' /\ SessionsBlocked'
  <2>1. /\ At(p, "delete") /\ UNCHANGED <<backup, active>>
        /\ UNCHANGED <<protected, status, created, resolved>>
    BY <1>3 DEF delete_created_one, index
  <2>2. \/ proc' = [proc EXCEPT ![p].todo = @ \ {n}, ![p].found = TRUE]
        \/ proc' = [proc EXCEPT ![p].todo = @ \ {n}]
    BY <1>3, Zenon DEF delete_created_one
  <2>3. \/ UNCHANGED <<file, quarantine>>
        \/ /\ file[n] # None /\ file' = [file EXCEPT ![n] = None]
           /\ quarantine' = quarantine \cup {<<n, file[n]>>}
    BY <1>3, Zenon DEF delete_created_one
  <2>4. file' \in [Files -> Contents \cup {None}] /\ quarantine' \subseteq Files \X Contents
    BY <1>1, <2>3 DEF Types, DataTypes
  <2>5. Types'
    BY <1>1, <2>1, <2>4 DEF Types, DataTypes
  <2>6. ASSUME NEW w \in Work, w.stage = "delete", w.event = proc[p].event,
               proc' = [proc EXCEPT ![p] = w]
        PROVE  TypeOK' /\ SessionsBlocked'
    <3>1. Fit(w) /\ w.event \notin active
      BY <1>1, <2>1, <2>6 DEF Fit, Busy, At
    <3> QED BY <2>1, <2>5, <2>6, <3>1, WorkTypes
  <2>7. CASE proc' = [proc EXCEPT ![p].todo = @ \ {n}, ![p].found = TRUE]
    <3> DEFINE w == [proc[p] EXCEPT !.todo = proc[p].todo \ {n}, !.found = TRUE]
    <3>1. proc' = [proc EXCEPT ![p] = w]
      BY <2>7
    <3>2. w \in Work /\ w.stage = "delete" /\ w.event = proc[p].event
      BY <1>1, <2>1 DEF Work, At
    <3> QED BY <2>6, <3>1, <3>2, Zenon
  <2>8. CASE proc' = [proc EXCEPT ![p].todo = @ \ {n}]
    <3> DEFINE w == [proc[p] EXCEPT !.todo = proc[p].todo \ {n}]
    <3>1. proc' = [proc EXCEPT ![p] = w]
      BY <2>8
    <3>2. w \in Work /\ w.stage = "delete" /\ w.event = proc[p].event
      BY <1>1, <2>1 DEF Work, At
    <3> QED BY <2>6, <3>1, <3>2, Zenon
  <2> QED BY <2>2, <2>7, <2>8
<1>4. CASE db_query_by_event(p)
  <2> DEFINE mine == {r \in protected : r[1] = proc[p].event}
             t == {r[2] : r \in {q \in mine : status[q] = "pending"}}
             b == proc[p].found \/ mine # {}
             w == [proc[p] EXCEPT !.stage = "rows", !.found = b, !.todo = t]
  <2>1. /\ At(p, "delete") /\ UNCHANGED <<file, backup, quarantine, active>>
        /\ UNCHANGED <<protected, status, created, resolved>>
        /\ proc' = [proc EXCEPT ![p].stage = "rows", ![p].found = b, ![p].todo = t]
    BY <1>4, Zenon DEF db_query_by_event, index
  <2>2. b \in BOOLEAN
    BY Zenon
  <2>3. t \subseteq Files
    BY <1>1 DEF Types, DataTypes
  <2> HIDE DEF t, b, mine
  <2>4. proc' = [proc EXCEPT ![p] = w]
    BY <2>1
  <2>5. w \in Work /\ w.stage = "rows" /\ w.event = proc[p].event
    BY <1>1, <2>2, <2>3 DEF Work, Stages
  <2> HIDE DEF w
  <2>6. Fit(w) /\ w.event \notin active /\ Types'
    BY <1>1, <2>1, <2>5 DEF Fit, Busy, At, Types
  <2> QED BY <2>1, <2>4, <2>5, <2>6, WorkTypes
<1>5. CASE Finish(p) \/ Crash(p)
  <2>1. /\ UNCHANGED <<file, backup, quarantine, active, protected, status, created>>
        /\ proc' = [proc EXCEPT ![p] = Idle]
    BY <1>5 DEF Finish, Crash, index
  <2>2. resolved' \subseteq Events
    <3>1. CASE Crash(p)
      BY <1>1, <3>1 DEF Crash, index, Types, DataTypes
    <3>2. CASE Finish(p)
      <4>1. At(p, "rows") /\ (resolved' = resolved \/ resolved' = resolved \cup {proc[p].event})
        BY <3>2, Zenon DEF Finish
      <4> QED BY <1>1, <4>1 DEF Fit, At, Types, DataTypes
    <3> QED BY <1>5, <3>1, <3>2
  <2>3. Idle \in Work /\ Idle.stage = "idle"
    BY DEF Idle, Work, Stages
  <2>4. Fit(Idle) /\ Types'
    BY <1>1, <2>1, <2>2, <2>3 DEF Fit, Busy, Types, DataTypes
  <2> QED BY <2>1, <2>3, <2>4, WorkTypes
<1> QED BY <1>2, <1>3, <1>4, <1>5

(* The types of the steps of restore_one.                                  *)
LEMMA RowTypes ==
    ASSUME TypeOK, SessionsBlocked, NEW p \in Procs,
           \/ \E n \in Files : restore_one(p, n)
           \/ Quarantine(p) \/ CopyOpen(p) \/ CopyWrite(p) \/ MarkRestored(p) \/ UnlinkBackup(p)
    PROVE  TypeOK' /\ SessionsBlocked'
<1> DEFINE n == proc[p].path
<1>1. /\ Types /\ proc[p] \in Work /\ Fit(proc[p])
      /\ ~At(p, "idle") => proc[p].event \notin active
  BY TypeParts DEF Types, SessionsBlocked
<1>2. /\ {"failed", "restored"} \subseteq Statuses
      /\ {"move", "open", "torn", "copied", "unlink"} \subseteq Busy
  BY DEF Statuses, Busy
<1>3. ASSUME NEW m \in Files, restore_one(p, m) PROVE TypeOK' /\ SessionsBlocked'
  <2>1. At(p, "rows") /\ UNCHANGED <<file, backup, quarantine>>
    BY <1>3, Zenon DEF restore_one
  <2>2. ASSUME Set(p, m, "failed"), proc' = [proc EXCEPT ![p].todo = @ \ {m}]
        PROVE  TypeOK' /\ SessionsBlocked'
    <3> DEFINE w == [proc[p] EXCEPT !.todo = proc[p].todo \ {m}]
    <3>1. proc' = [proc EXCEPT ![p] = w]
      BY <2>2
    <3>2. w \in Work /\ w.stage = "rows" /\ w.event = proc[p].event
      BY <1>1, <2>1 DEF Work, At
    <3> HIDE DEF w
    <3>3. Fit(w) /\ w.event \notin active
      BY <1>1, <2>1, <3>2 DEF Fit, Busy, At
    <3>4. file' \in [Files -> Contents \cup {None}]
      BY <1>1, <2>1 DEF Types, DataTypes
    <3>5. Types' /\ active' = active
      BY <1>2, <2>1, <2>2, <3>4, SetTypes
    <3> QED BY <3>1, <3>2, <3>3, <3>5, WorkTypes
  <2>3. ASSUME UNCHANGED <<index, active>>,
               proc' = [proc EXCEPT ![p].todo = @ \ {m}, ![p].path = m, ![p].stage = "move"]
        PROVE  TypeOK' /\ SessionsBlocked'
    <3> DEFINE w == [proc[p] EXCEPT !.todo = proc[p].todo \ {m}, !.path = m, !.stage = "move"]
    <3>1. proc' = [proc EXCEPT ![p] = w]
      BY <2>3
    <3>2. w \in Work /\ w.stage = "move" /\ w.event = proc[p].event /\ w.path = m
      BY <1>1 DEF Work, Stages
    <3> HIDE DEF w
    <3>3. Fit(w) /\ w.event \notin active
      BY <1>1, <2>1, <3>2 DEF Fit, At
    <3>4. Types' /\ active' = active
      BY <1>1, <2>1, <2>3 DEF Types, index
    <3> QED BY <3>1, <3>2, <3>3, <3>4, WorkTypes
  <2> QED BY <1>3, <2>2, <2>3, Zenon DEF restore_one
<1>4. CASE Quarantine(p)
  <2>1. /\ proc[p].stage = "move" /\ Goto(p, "open") /\ UNCHANGED <<backup, active>>
        /\ UNCHANGED <<protected, status, created, resolved>>
        /\ \/ UNCHANGED <<file, quarantine>>
           \/ /\ file[n] # None /\ file' = [file EXCEPT ![n] = None]
              /\ quarantine' = quarantine \cup {<<n, file[n]>>}
    BY <1>4 DEF Quarantine, At, index
  <2>2. n \in Files
    BY <1>1, <1>2, <2>1 DEF Fit
  <2>3. file' \in [Files -> Contents \cup {None}] /\ quarantine' \subseteq Files \X Contents
    BY <1>1, <2>1, <2>2 DEF Types, DataTypes
  <2>4. Types'
    BY <1>1, <2>1, <2>3 DEF Types, DataTypes
  <2> QED BY <1>2, <2>1, <2>4, GotoTypes
<1>5. ASSUME proc[p].stage \in Busy, NEW st \in Statuses, NEW m, Set(p, m, st),
             NEW stage \in {"rows", "unlink"}, Goto(p, stage),
             UNCHANGED <<file, backup, quarantine>>
      PROVE  TypeOK' /\ SessionsBlocked'
  <2>1. file' \in [Files -> Contents \cup {None}]
    BY <1>1, <1>5 DEF Types, DataTypes
  <2>2. Types' /\ active' = active
    BY <1>5, <2>1, SetTypes
  <2> QED BY <1>5, <2>2, GotoTypes
<1>6. CASE CopyOpen(p)
  <2> DEFINE w == [proc[p] EXCEPT !.stage = "torn", !.content = backup[n]]
  <2>1. /\ proc[p].stage = "open" /\ UNCHANGED <<backup, quarantine>>
        /\ \/ Set(p, n, "failed") /\ Goto(p, "rows") /\ UNCHANGED file
           \/ /\ file' = [file EXCEPT ![n] = Torn(p)] /\ backup[n] # None
              /\ proc' = [proc EXCEPT ![p] = w]
              /\ UNCHANGED <<protected, status, created, resolved, active>>
    BY <1>6 DEF CopyOpen, At, index
  <2>2. CASE Set(p, n, "failed") /\ Goto(p, "rows") /\ UNCHANGED file
    BY <1>2, <1>5, <2>1, <2>2
  <2>3. CASE /\ file' = [file EXCEPT ![n] = Torn(p)] /\ backup[n] # None
             /\ proc' = [proc EXCEPT ![p] = w]
             /\ UNCHANGED <<protected, status, created, resolved, active>>
    <3>1. n \in Files /\ proc[p].event \in Events /\ proc[p].event \notin active
      BY <1>1, <1>2, <2>1 DEF Fit, At
    <3>2. backup[n] \in Contents
      BY <1>1, <2>3, <3>1 DEF Types, DataTypes
    <3>3. /\ w \in Work /\ w.stage = "torn" /\ w.event = proc[p].event
          /\ w.path = n /\ w.content = backup[n]
      BY <1>1, <3>2 DEF Work, Stages
    <3> HIDE DEF w
    <3>4. Fit(w)
      BY <3>1, <3>2, <3>3 DEF Fit
    <3>5. file' \in [Files -> Contents \cup {None}]
      BY <1>1, <2>3, Distinct DEF Types, DataTypes
    <3>6. Types'
      BY <1>1, <2>1, <2>3, <3>5 DEF Types, DataTypes
    <3> QED BY <2>3, <3>1, <3>3, <3>4, <3>6, WorkTypes
  <2> QED BY <2>1, <2>2, <2>3
<1>7. CASE CopyWrite(p)
  <2> DEFINE c == proc[p].content
             moved == {IF q = <<n, Torn(p)>> THEN <<n, c>> ELSE q : q \in quarantine}
  <2>1. /\ proc[p].stage = "torn" /\ UNCHANGED backup
        /\ \/ /\ \/ file' = [file EXCEPT ![n] = c] /\ UNCHANGED quarantine
                 \/ quarantine' = moved /\ UNCHANGED file
              /\ Goto(p, "copied") /\ UNCHANGED <<protected, status, created, resolved, active>>
           \/ Set(p, n, "failed") /\ Goto(p, "rows") /\ UNCHANGED <<file, quarantine>>
    BY <1>7 DEF CopyWrite, At, index
  <2>2. CASE Set(p, n, "failed") /\ Goto(p, "rows") /\ UNCHANGED <<file, quarantine>>
    BY <1>2, <1>5, <2>1, <2>2
  <2>3. CASE /\ \/ file' = [file EXCEPT ![n] = c] /\ UNCHANGED quarantine
                \/ quarantine' = moved /\ UNCHANGED file
             /\ Goto(p, "copied") /\ UNCHANGED <<protected, status, created, resolved, active>>
    <3>1. n \in Files /\ c \in Contents
      BY <1>1, <1>2, <2>1 DEF Fit
    <3>2. moved \subseteq Files \X Contents
      BY <1>1, <3>1 DEF Types, DataTypes
    <3> HIDE DEF moved
    <3>3. file' \in [Files -> Contents \cup {None}] /\ quarantine' \subseteq Files \X Contents
      BY <1>1, <2>3, <3>1, <3>2 DEF Types, DataTypes
    <3>4. Types'
      BY <1>1, <2>1, <2>3, <3>3 DEF Types, DataTypes
    <3> QED BY <1>2, <2>1, <2>3, <3>4, GotoTypes
  <2> QED BY <2>1, <2>2, <2>3
<1>8. CASE MarkRestored(p)
  BY <1>2, <1>5, <1>8 DEF MarkRestored, At
<1>9. CASE UnlinkBackup(p)
  <2>1. /\ proc[p].stage = "unlink" /\ Goto(p, "rows")
        /\ backup' = [backup EXCEPT ![n] = None] /\ UNCHANGED <<file, quarantine, active>>
        /\ UNCHANGED <<protected, status, created, resolved>>
    BY <1>9 DEF UnlinkBackup, At, index
  <2>2. backup' \in [Files -> Contents \cup {None}]
    BY <1>1, <2>1 DEF Types, DataTypes
  <2>3. Types'
    BY <1>1, <2>1, <2>2 DEF Types, DataTypes
  <2> QED BY <1>2, <2>1, <2>3, GotoTypes
<1> QED BY <1>3, <1>4, <1>6, <1>7, <1>8, <1>9

(* Types, with the fact that only blocked sessions are restored.           *)
LEMMA TypeInvariant == Spec => [](TypeOK /\ SessionsBlocked)
<1>1. Init => TypeOK /\ SessionsBlocked
  <2> SUFFICES ASSUME Init PROVE TypeOK /\ SessionsBlocked
    OBVIOUS
  <2>1. TypeOK
    BY InitInv, TypeParts DEF DataInv, ProcInv
  <2>2. \A p \in Procs : At(p, "idle")
    BY DEF Init, At, Idle
  <2> QED BY <2>1, <2>2 DEF SessionsBlocked
<1>2. TypeOK /\ SessionsBlocked /\ [Next]_vars => (TypeOK /\ SessionsBlocked)'
  <2>1. ASSUME TypeOK, SessionsBlocked, UNCHANGED vars PROVE TypeOK' /\ SessionsBlocked'
    <3>1. TypeOK'
      BY <2>1 DEF vars, TypeOK, At
    <3> QED BY <2>1, <3>1 DEF vars, SessionsBlocked, At
  <2>2. ASSUME TypeOK, SessionsBlocked, Next PROVE TypeOK' /\ SessionsBlocked'
    BY <2>2, ClientTypes, EdgeTypes, RowTypes, Zenon DEF Next
  <2> QED BY <2>1, <2>2
<1> QED BY <1>1, <1>2, PTL DEF Spec

(* Types: rows keep a status, and every restore what its stage needs, with *)
(* any number of restores at once.                                         *)
THEOREM RecoverTypes == Spec => []TypeOK
BY TypeInvariant, PTL
-----------------------------------------------------------------------------
(* The inductive invariant holds in every serial run.                      *)
THEOREM RestoreInvariant ==
    Spec /\ []OneAtATime /\ Undisturbed => [](DataInv /\ ProcInv)
<1>1. DataInv /\ ProcInv /\ OneAtATime /\ [Next]_vars /\ [ClientStep => AllIdle]_vars
         => (DataInv /\ ProcInv)'
  <2>1. ASSUME DataInv, ProcInv, UNCHANGED vars PROVE DataInv' /\ ProcInv'
    BY <2>1 DEF vars, DataInv, ProcInv
  <2> QED BY <2>1, NextKeeps
<1> QED BY <1>1, InitInv, PTL DEF Spec, Undisturbed

(* The invariant is as strong as the properties.                           *)
LEMMA InvariantGives ==
    ASSUME DataInv, ProcInv
    PROVE  TypeOK /\ NothingLost /\ ChangedAreBack
<1>1. TypeOK
  BY TypeParts DEF DataInv, ProcInv
<1>2. NothingLost
  BY DEF DataInv, Files3, Kept, NothingLost
<1>3. ChangedAreBack
  <2> SUFFICES ASSUME AllRestored, NEW n \in Old, ~Born(n, created)
               PROVE  file[n] = Orig
    BY DEF ChangedAreBack, Born
  <2>1. Back(n, file, backup, protected, status, created)
    BY DEF DataInv, Files3
  <2> QED BY <2>1 DEF Back, AllRestored
<1> QED BY <1>1, <1>2, <1>3

(* Restores that run one after another, undisturbed, killed, failing and   *)
(* repeated as they may be, destroy no original, for any number of files,  *)
(* events and restores.                                                    *)
THEOREM SerialRestoresLoseNothing ==
    Spec /\ []OneAtATime /\ Undisturbed => []NothingLost
BY InvariantGives, RestoreInvariant, PTL

(* And what their rows say is true.                                        *)
THEOREM SerialRestoresBringBack ==
    Spec /\ []OneAtATime /\ Undisturbed => []ChangedAreBack
BY InvariantGives, RestoreInvariant, PTL
-----------------------------------------------------------------------------
(* One event and one restore process at a time, as the daemon alone starts *)
(* them: its session is blocked before the restore.                        *)
OneRestore == (\A p, q \in Procs : p = q) /\ (\A d, e \in Events : d = e)

(* One restore of one event is serial and undisturbed.                     *)
LEMMA OneRestoreIsSerial ==
    ASSUME OneRestore
    PROVE  Spec => []OneAtATime /\ Undisturbed
<1>1. OneAtATime
  BY DEF OneRestore, OneAtATime
<1>2. TypeOK /\ SessionsBlocked => [ClientStep => AllIdle]_vars
  <2> SUFFICES ASSUME TypeOK, SessionsBlocked, ClientStep, NEW p \in Procs PROVE At(p, "idle")
    BY DEF AllIdle
  <2>1. PICK e \in Events : e \in active
    BY DEF ClientStep, Damage, Create
  <2>2. ~At(p, "idle") => proc[p].event \in Events /\ proc[p].event \notin active
    BY DEF TypeOK, SessionsBlocked
  <2> QED BY <2>1, <2>2 DEF OneRestore
<1> QED BY <1>1, <1>2, TypeInvariant, PTL DEF Undisturbed

(* With one event and one restore at a time nothing is lost, whatever      *)
(* fails and however often the restore is killed and repeated: the         *)
(* instance TLC checks, for any number of files.                           *)
THEOREM OneRestoreLosesNothing == ASSUME OneRestore PROVE Spec => []NothingLost
BY OneRestoreIsSerial, SerialRestoresLoseNothing, PTL

(* And the rows of that event say what is so.                              *)
THEOREM OneRestoreBringsBack == ASSUME OneRestore PROVE Spec => []ChangedAreBack
BY OneRestoreIsSerial, SerialRestoresBringBack, PTL
=============================================================================
