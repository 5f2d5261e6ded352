------------------------- MODULE BlockedFileProofs --------------------------
(***************************************************************************)
(* Proofs about BlockedFile for any number of writers, console requests,   *)
(* smbd workers and addresses, whatever fails and whoever is killed: types *)
(* and the lock, that a cache that passes the comparison is current, and   *)
(* that the files implement the abstract BlockList.                        *)
(***************************************************************************)
EXTENDS BlockedFile, SequenceTheorems, WellFoundedInduction, TLAPS

-----------------------------------------------------------------------------
(* What the model's operators on lines compute.  The recursion of          *)
(* LinesWithout is unfolded by the least number for which a claim fails.   *)

(* Every set of numbers that has a member has a least one.                 *)
LEMMA LeastNumber ==
    ASSUME NEW T \in SUBSET Nat, T # {}
    PROVE  \E n \in T : \A m \in T : n <= m
<1> DEFINE R == OpToRel(<, Nat)
<1>1. IsWellFoundedOn(R, Nat)
  BY NatLessThanWellFounded, Zenon
<1>2. \A x, y \in Nat : <<y, x>> \in R <=> y < x
  BY DEF OpToRel
<1> HIDE DEF R
<1>3. PICK x \in T : \A y \in T : ~ (<<y, x>> \in R)
  BY <1>1, WFMin
<1>4. \A y \in T : ~ (y < x)
  BY <1>2, <1>3, Zenon
<1> QED BY <1>4

(* The listed addresses, in terms of positions.                            *)
LEMMA ToSetOfSeq ==
    ASSUME NEW s \in Seq(IPs)
    PROVE  /\ ToSet(s) = {s[i] : i \in 1 .. Len(s)} /\ ToSet(s) \subseteq IPs
           /\ \A ip : Contains(s, ip) <=> ip \in ToSet(s)
BY LenProperties, ElementOfSeq DEF ToSet, Contains

(* A line appended to a list adds its address to the set.                  *)
LEMMA ToSetOfAppend ==
    ASSUME NEW s \in Seq(IPs), NEW ip \in IPs
    PROVE  Append(s, ip) \in Seq(IPs) /\ ToSet(Append(s, ip)) = ToSet(s) \cup {ip}
<1> DEFINE t == Append(s, ip)
<1>1. /\ t \in Seq(IPs) /\ Len(t) = Len(s) + 1 /\ Len(s) \in Nat
      /\ \A i \in 1 .. Len(s) : t[i] = s[i]
      /\ t[Len(s) + 1] = ip
  BY AppendProperties, LenProperties
<1>2. ToSet(t) = {t[i] : i \in 1 .. Len(s) + 1} /\ ToSet(s) = {s[i] : i \in 1 .. Len(s)}
  BY <1>1, ToSetOfSeq
<1> HIDE DEF t
<1>3. ASSUME NEW x PROVE x \in ToSet(t) <=> x \in ToSet(s) \cup {ip}
  <2>1. ASSUME NEW i \in 1 .. Len(s) + 1, x = t[i] PROVE x \in ToSet(s) \cup {ip}
    BY <1>1, <1>2, <2>1
  <2>2. ASSUME NEW i \in 1 .. Len(s), x = s[i] PROVE x \in ToSet(t)
    BY <1>1, <1>2, <2>2
  <2>3. ip \in ToSet(t)
    BY <1>1, <1>2
  <2> QED BY <1>2, <2>1, <2>2, <2>3
<1> QED BY <1>1, <1>3 DEF t

(* What the recursive function in LinesWithout is to satisfy.              *)
Keeping(s, ip, kept) ==
    /\ kept \in [0 .. Len(s) -> Seq(IPs)]
    /\ kept[0] = <<>>
    /\ \A i \in 1 .. Len(s) :
          kept[i] = IF s[i] = ip THEN kept[i - 1] ELSE Append(kept[i - 1], s[i])

(* There is such a function, and LinesWithout uses it.                     *)
LEMMA KeptLines ==
    ASSUME NEW s \in Seq(IPs), NEW ip
    PROVE  \E kept : Keeping(s, ip, kept) /\ LinesWithout(s, ip) = kept[Len(s)]
<1> DEFINE n == Len(s)
           Step(f, i) == IF s[i] = ip THEN f[i - 1] ELSE Append(f[i - 1], s[i])
           Keeps(m, f) == /\ f \in [0 .. m -> Seq(IPs)] /\ f[0] = <<>>
                          /\ \A i \in 1 .. m : f[i] = Step(f, i)
           T == {m \in 0 .. n : ~ \E f : Keeps(m, f)}
<1>1. n \in Nat /\ \A i \in 1 .. n : s[i] \in IPs
  BY LenProperties, ElementOfSeq
<1>2. T = {}
  <2> SUFFICES ASSUME T # {} PROVE FALSE
    OBVIOUS
  <2>1. PICK m \in T : \A k \in T : m <= k
    <3>1. T \subseteq Nat
      BY <1>1
    <3> HIDE DEF T
    <3> QED BY <3>1, LeastNumber
  <2>2. m \in 0 .. n /\ ~ \E f : Keeps(m, f)
    OBVIOUS
  <2>3. m # 0
    <3> DEFINE f == [i \in 0 .. 0 |-> <<>>]
    <3>1. Keeps(0, f)
      BY EmptySeq
    <3> HIDE DEF Keeps, f
    <3> QED BY <2>2, <3>1
  <2>4. PICK f : Keeps(m - 1, f)
    <3> HIDE DEF Keeps
    <3>1. m - 1 \in 0 .. n
      BY <1>1, <2>2, <2>3
    <3>2. m - 1 \notin T
      <4> HIDE DEF T
      <4> QED BY <1>1, <2>1, <2>2, <2>3
    <3> QED BY <3>1, <3>2
  <2> DEFINE g == [i \in 0 .. m |-> IF i = m THEN Step(f, m) ELSE f[i]]
  <2>5. Step(f, m) \in Seq(IPs)
    BY <1>1, <2>2, <2>3, <2>4, AppendProperties
  <2>6. g \in [0 .. m -> Seq(IPs)] /\ g[0] = <<>>
    <3> HIDE DEF Step
    <3> QED BY <1>1, <2>2, <2>3, <2>4, <2>5
  <2>7. ASSUME NEW i \in 1 .. m PROVE g[i] = Step(g, i)
    <3>1. g[i - 1] = f[i - 1]
      BY <1>1, <2>2, <2>3
    <3>2. g[i] = Step(f, i)
      <4> HIDE DEF Step
      <4> QED BY <1>1, <2>2, <2>3, <2>4
    <3> HIDE DEF g
    <3> QED BY <3>1, <3>2
  <2>8. Keeps(m, g)
    <3> HIDE DEF g, Step
    <3> QED BY <2>6, <2>7
  <2> QED
    <3> HIDE DEF Keeps, g
    <3> QED BY <2>2, <2>8
<1>3. PICK f : Keeps(n, f)
  <2> HIDE DEF Keeps
  <2>1. n \in 0 .. n
    BY <1>1
  <2> QED BY <1>2, <2>1
<1> DEFINE Fix(k) == k = [i \in 0 .. n |-> IF i = 0 THEN <<>> ELSE Step(k, i)]
           kept == CHOOSE k : Fix(k)
<1>4. Fix(f)
  <2> HIDE DEF Step
  <2> QED BY <1>1, <1>3
<1>5. Fix(kept)
  <2> HIDE DEF Fix
  <2> QED BY <1>4
<1>6. LinesWithout(s, ip) = kept[n]
  BY DEF LinesWithout
<1>7. kept[0] = <<>> /\ \A i \in 1 .. n : kept[i] = Step(kept, i)
  <2> HIDE DEF kept, Step
  <2> QED BY <1>1, <1>5
<1> DEFINE U == {m \in 0 .. n : kept[m] \notin Seq(IPs)}
<1>8. U = {}
  <2> SUFFICES ASSUME U # {} PROVE FALSE
    OBVIOUS
  <2>1. PICK m \in U : \A k \in U : m <= k
    <3>1. U \subseteq Nat
      BY <1>1
    <3> HIDE DEF U
    <3> QED BY <3>1, LeastNumber
  <2> HIDE DEF kept, Step
  <2>2. m \in 1 .. n
    <3>1. kept[0] \in Seq(IPs)
      BY <1>7, EmptySeq
    <3> QED BY <1>1, <3>1
  <2>3. kept[m - 1] \in Seq(IPs)
    BY <1>1, <2>1, <2>2
  <2>4. kept[m] \in Seq(IPs)
    <3>1. kept[m] = Step(kept, m) /\ s[m] \in IPs
      BY <1>1, <1>7, <2>2
    <3> QED BY <2>3, <3>1, AppendProperties DEF Step
  <2> QED BY <2>4
<1>9. kept \in [0 .. n -> Seq(IPs)]
  <2> HIDE DEF kept, Step
  <2> QED BY <1>5, <1>8
<1> HIDE DEF kept
<1>10. Keeping(s, ip, kept)
  BY <1>7, <1>9 DEF Keeping
<1> QED BY <1>6, <1>10

(* blocker_unblock keeps every line but those of the address, and makes up *)
(* none.                                                                   *)
LEMMA LinesWithoutFacts ==
    ASSUME NEW s \in Seq(IPs), NEW ip
    PROVE  /\ LinesWithout(s, ip) \in Seq(IPs)
           /\ ToSet(LinesWithout(s, ip)) = ToSet(s) \ {ip}
<1> DEFINE n == Len(s)
           Kept(m) == {s[i] : i \in 1 .. m} \ {ip}
<1>1. PICK kept : Keeping(s, ip, kept) /\ LinesWithout(s, ip) = kept[n]
  BY KeptLines
<1>2. n \in Nat /\ \A i \in 1 .. n : s[i] \in IPs
  BY LenProperties, ElementOfSeq
<1> DEFINE T == {m \in 0 .. n : ToSet(kept[m]) # Kept(m)}
<1>3. T = {}
  <2> SUFFICES ASSUME T # {} PROVE FALSE
    OBVIOUS
  <2>1. PICK m \in T : \A k \in T : m <= k
    <3>1. T \subseteq Nat
      BY <1>2
    <3> HIDE DEF T
    <3> QED BY <3>1, LeastNumber
  <2>2. m \in 1 .. n
    <3>1. ToSet(kept[0]) = Kept(0)
      BY <1>1, <1>2, EmptySeq, ToSetOfSeq DEF Keeping
    <3> HIDE DEF Kept
    <3> QED BY <1>2, <3>1
  <2>3. ToSet(kept[m - 1]) = Kept(m - 1)
    <3> HIDE DEF Kept
    <3> QED BY <1>2, <2>1, <2>2
  <2>4. Kept(m) = Kept(m - 1) \cup ({s[m]} \ {ip})
    BY <1>2, <2>2
  <2>5. /\ kept[m - 1] \in Seq(IPs) /\ s[m] \in IPs
        /\ kept[m] = IF s[m] = ip THEN kept[m - 1] ELSE Append(kept[m - 1], s[m])
    <3> HIDE DEF T
    <3>1. m - 1 \in 0 .. n
      BY <1>2, <2>2
    <3> QED BY <1>1, <1>2, <2>2, <3>1 DEF Keeping
  <2>6. ToSet(kept[m]) = Kept(m)
    <3> HIDE DEF Kept
    <3>1. CASE s[m] = ip
      BY <2>3, <2>4, <2>5, <3>1
    <3>2. CASE s[m] # ip
      BY <2>3, <2>4, <2>5, <3>2, ToSetOfAppend
    <3> QED BY <3>1, <3>2
  <2> HIDE DEF Kept
  <2> QED BY <2>6
<1>4. ToSet(kept[n]) = Kept(n)
  <2> HIDE DEF Kept
  <2> QED BY <1>2, <1>3
<1>5. kept[n] \in Seq(IPs)
  BY <1>1, <1>2 DEF Keeping
<1> QED BY <1>1, <1>4, <1>5, ToSetOfSeq

(* The smaller of two numbers.                                             *)
LEMMA MinOfTwo ==
    ASSUME NEW a \in Nat, NEW b \in Nat
    PROVE  Min({a, b}) = IF a <= b THEN a ELSE b
BY DEF Min

(* What is cut out of or joined from lines is lines: the console's         *)
(* list.remove, a write over a file, and a read cut short.                 *)
LEMMA RemoveFirstType ==
    ASSUME NEW s \in Seq(IPs), NEW ip
    PROVE  RemoveFirst(s, ip) \in Seq(IPs)
<1>1. CASE ~ \E i \in 1 .. Len(s) : s[i] = ip
  BY <1>1 DEF RemoveFirst
<1>2. CASE \E i \in 1 .. Len(s) : s[i] = ip
  <2> DEFINE I == {i \in 1 .. Len(s) : s[i] = ip}
             k == Min(I)
  <2>1. Len(s) \in Nat /\ \A i \in 1 .. Len(s) : s[i] \in IPs
    BY LenProperties, ElementOfSeq
  <2>2. k \in I
    <3>1. \E i \in I : \A j \in I : i <= j
      <4>1. I \subseteq Nat /\ I # {}
        BY <1>2, <2>1
      <4> HIDE DEF I
      <4> QED BY <4>1, LeastNumber
    <3> HIDE DEF I
    <3> QED BY <3>1 DEF Min
  <2>3. RemoveFirst(s, ip) = SubSeq(s, 1, k - 1) \o SubSeq(s, k + 1, Len(s))
    BY <1>2 DEF RemoveFirst, RemoveAt, SelectInSeq
  <2>4. k \in 1 .. Len(s)
    <3> HIDE DEF k
    <3> QED BY <2>2
  <2> HIDE DEF k
  <2>5. SubSeq(s, 1, k - 1) \in Seq(IPs) /\ SubSeq(s, k + 1, Len(s)) \in Seq(IPs)
    <3>1. \A i \in 1 .. k - 1 : s[i] \in IPs
      BY <2>1, <2>4
    <3>2. \A i \in k + 1 .. Len(s) : s[i] \in IPs
      BY <2>1, <2>4
    <3>3. k \in Int /\ k - 1 \in Int /\ k + 1 \in Int /\ Len(s) \in Int
      BY <2>1, <2>4
    <3> QED BY <3>1, <3>2, <3>3, SubSeqProperties
  <2> QED BY <2>3, <2>5, ConcatProperties
<1> QED BY <1>1, <1>2

(* A buffer written over a file gives a file; over an empty one, itself.   *)
LEMMA OverwrittenType ==
    ASSUME NEW f \in Content, NEW buf \in Seq(IPs), now \in 1 .. MaxTime
    PROVE  /\ Overwritten(f, buf) \in Content
           /\ f.lines = <<>> => Overwritten(f, buf).lines = buf
<1>1. CASE buf = <<>>
  BY <1>1 DEF Overwritten
<1>2. CASE buf # <<>>
  <2> DEFINE rest == SubSeq(f.lines, Len(buf) + 1, Len(f.lines))
  <2>1. f.lines \in Seq(IPs) /\ Len(f.lines) \in Nat /\ Len(buf) \in Nat \ {0}
    BY <1>2, EmptySeq, LenProperties DEF Content
  <2>2. \A i \in Len(buf) + 1 .. Len(f.lines) : f.lines[i] \in IPs
    <3>1. \A i \in 1 .. Len(f.lines) : f.lines[i] \in IPs
      BY <2>1, ElementOfSeq
    <3> QED BY <2>1, <3>1
  <2>3. rest \in Seq(IPs)
    BY <2>1, <2>2, SubSeqProperties
  <2>4. f.lines = <<>> => rest = <<>>
    BY <2>1, SubSeqEmpty
  <2> HIDE DEF rest
  <2>5. buf \o rest \in Seq(IPs) /\ (rest = <<>> => buf \o rest = buf)
    BY <2>3, ConcatProperties, ConcatEmptySeq
  <2>6. Overwritten(f, buf) = [lines |-> buf \o rest, mtime |-> now]
    BY <1>2 DEF Overwritten, rest
  <2>7. [lines |-> buf \o rest, mtime |-> now] \in Content
    BY <2>5 DEF Content
  <2>8. Overwritten(f, buf).lines = buf \o rest
    BY <2>6
  <2> QED BY <2>4, <2>5, <2>6, <2>7, <2>8, Zenon
<1> QED BY <1>1, <1>2

(* The part of a text that a shorter read returns is a text.               *)
LEMMA PrefixFacts ==
    ASSUME NEW s \in Seq(IPs), NEW t \in Seq(IPs)
    PROVE  LET n == Min({Len(t), Len(s)})
           IN  /\ SubSeq(s, 1, n) \in Seq(IPs)
               /\ t = s => SubSeq(s, 1, n) = s
<1> DEFINE n == Min({Len(t), Len(s)})
<1>1. Len(s) \in Nat /\ Len(t) \in Nat /\ \A i \in 1 .. Len(s) : s[i] \in IPs
  BY LenProperties, ElementOfSeq
<1>2. n = IF Len(t) <= Len(s) THEN Len(t) ELSE Len(s)
  BY <1>1, MinOfTwo
<1>3. n \in Nat /\ n <= Len(s) /\ (t = s => n = Len(s))
  <2> HIDE DEF n
  <2> QED BY <1>1, <1>2
<1> HIDE DEF n
<1>4. SubSeq(s, 1, n) \in Seq(IPs)
  BY <1>1, <1>3, SubSeqProperties
<1>5. t = s => SubSeq(s, 1, n) = s
  BY <1>3, SubSeqFull
<1> QED BY <1>4, <1>5 DEF n
-----------------------------------------------------------------------------
(* The inductive invariant.  Its parts speak of a request, of the files    *)
(* and of the lock as parameters, so that before and after a step are      *)
(* alike.                                                                  *)

(* The stages in which write access to the list is under way.              *)
Section == {"read", "open", "write", "rename"}

(* What holds of the request x of process p, with the files f, and l the   *)
(* holder of the lock: only the end has an answer, exactly the write has a *)
(* file open, which is still there if it has a name, only writers lock and *)
(* they do before they enter the section, and a rebuild knows its lines    *)
(* without reading.                                                        *)
Fits(p, x, f, l) ==
    /\ x \in Work /\ x.req \in Requests[p]
    /\ x.stage # "close" => x.rc = "pending"
    /\ x.fd # "none" <=> x.stage = "write"
    /\ x.fd \in {"tmp", "blocked"} => f[x.fd] # Missing
    /\ p \in Consoles => x.stage \notin {"ensure", "lock"}
    /\ p \in Writers /\ x.stage \in Section => l = p
    /\ x.req.op \in {"sync", "start"} =>
          /\ x.stage # "read"
          /\ x.stage \in {"ensure", "lock", "open", "write"} => x.buf = x.req.arg

(* The lines a reader finds among the files f.                             *)
Lines(f) == IF f["blocked"] = Missing THEN <<>> ELSE f["blocked"].lines

(* What a writer that no console has met is about to put in place is the   *)
(* effect of its request on the list as it is still now.                   *)
Ready(x, f) ==
    LET L == ToSet(Lines(f))
    IN  /\ x.stage \in {"open", "write"} => ToSet(x.buf) = List!Effect(x.req, L)
        /\ x.stage = "write" =>
              x.fd = "tmp" /\ f["tmp"] # Missing /\ f["tmp"].lines = <<>>
        /\ x.stage = "rename" =>
              f["tmp"] # Missing /\ ToSet(f["tmp"].lines) = List!Effect(x.req, L)
        /\ x.stage \in {"open", "write", "rename"} => List!Answer(x.req, L) = "ok"

(* The lock keeps writers apart, the history knows who was disturbed, and  *)
(* whoever was not is ready.                                               *)
FileInv ==
    /\ TypeOK
    /\ \A p \in Procs : proc[p] # Idle => Fits(p, proc[p], file, lock)
    /\ \A p \in overlapped : lock = p
    /\ \A p \in Writers : lock = p /\ Visiting => p \in overlapped
    /\ \A p \in Writers : lock = p /\ p \notin overlapped => Ready(proc[p], file)
-----------------------------------------------------------------------------
(* The values a file takes, and what a reader finds in them.               *)
LEMMA FoundFacts ==
    ASSUME NEW f \in [{"blocked", "tmp"} -> {Missing} \cup Content]
    PROVE  LET found == IF f["blocked"] = Missing THEN NoFile ELSE f["blocked"]
           IN  /\ found \in [lines : Seq(IPs), mtime : 0 .. MaxTime]
               /\ found.lines = Lines(f)
               /\ Lines(f) \in Seq(IPs)
<1>1. NoFile \in [lines : Seq(IPs), mtime : 0 .. MaxTime] /\ NoFile.lines = <<>>
  BY EmptySeq, BlockedFileAssumption DEF NoFile
<1>2. f["blocked"] # Missing
         => f["blocked"] \in [lines : Seq(IPs), mtime : 0 .. MaxTime]
  BY BlockedFileAssumption DEF Content
<1> QED BY <1>1, <1>2 DEF Lines

(* What a worker would load now is the list of blocked.conf.               *)
LEMMA CurrentFacts ==
    ASSUME file \in [{"blocked", "tmp"} -> {Missing} \cup Content]
    PROVE  /\ Current \in [lines : Seq(IPs), mtime : 0 .. MaxTime]
           /\ Current.lines = Lines(file)
           /\ Lines(file) \in Seq(IPs)
BY FoundFacts DEF Current

(* The same of the next state.                                             *)
LEMMA NextCurrentFacts ==
    ASSUME file' \in [{"blocked", "tmp"} -> {Missing} \cup Content]
    PROVE  /\ Current' \in [lines : Seq(IPs), mtime : 0 .. MaxTime]
           /\ Current'.lines = Lines(file')
BY FoundFacts DEF Current, NoFile

(* The requests of a process are those of its program.                     *)
LEMMA RequestFacts ==
    ASSUME NEW p \in Procs, NEW r \in Requests[p]
    PROVE  /\ r \in Request
           /\ p \in Consoles <=> r.op = "remove"
           /\ r.op \in {"sync", "start"} => r.arg \in Seq(IPs)
           /\ r.op \notin {"sync", "start"} => r.arg \in IPs
BY BlockedFileAssumption

(* The history that goes with a step.                                      *)
LEMMA ObserveFacts ==
    ASSUME TypeOK, Observe,
           file' \in [{"blocked", "tmp"} -> {Missing} \cup Content]
    PROVE  /\ newest' \in 0 .. MaxTime /\ twice' \in BOOLEAN
           /\ overlapped' \subseteq Writers
           /\ \A p \in overlapped' : lock' = p
           /\ \A p \in Writers : lock' = p /\ Visiting' => p \in overlapped'
<1>1. Current.mtime \in 0 .. MaxTime /\ Current'.mtime \in 0 .. MaxTime
  <2>1. Current \in [lines : Seq(IPs), mtime : 0 .. MaxTime]
    BY CurrentFacts DEF TypeOK
  <2>2. Current' \in [lines : Seq(IPs), mtime : 0 .. MaxTime]
    BY NextCurrentFacts
  <2> QED BY <2>1, <2>2
<1>2. newest' \in 0 .. MaxTime
  BY <1>1 DEF Observe, TypeOK
<1>3. twice' \in BOOLEAN
  <2> DEFINE old == Current'.mtime <= newest
  <2>1. old \in BOOLEAN /\ twice \in BOOLEAN
    BY DEF TypeOK
  <2>2. twice' = IF Current' = Current THEN twice ELSE old
    BY DEF Observe
  <2> HIDE DEF old
  <2> QED BY <2>1, <2>2, Zenon
<1> QED BY <1>2, <1>3 DEF Observe

(* Whoever holds the lock undisturbed after a step was not disturbed       *)
(* before, and no console is at work.                                      *)
LEMMA Undisturbed ==
    ASSUME Observe, NEW q \in Writers, lock' = q, q \notin overlapped'
    PROVE  q \notin overlapped /\ \A c \in Consoles : proc'[c] = Idle
BY DEF Observe, Visiting

(* A request is not upset by what others do to the files and the lock, as  *)
(* long as an open file stays linked and the lock is not taken from it.    *)
LEMMA StillFits ==
    ASSUME NEW q, NEW x, NEW f, NEW g, NEW l, NEW m, Fits(q, x, f, l),
           \A n \in {"blocked", "tmp"} : f[n] # Missing => g[n] # Missing,
           l = q => m = q
    PROVE  Fits(q, x, g, m)
BY DEF Fits

(* A step that changes one process keeps the invariant if the process      *)
(* still fits, and is ready if it holds the lock; if it removes no file;   *)
(* and if it changes the list, or the temporary file, only with the lock   *)
(* or from the console.                                                    *)
LEMMA UpdateKeepsInv ==
    ASSUME FileInv, Observe, NEW p \in Procs, NEW w,
           proc' = [proc EXCEPT ![p] = w],
           w = Idle \/ Fits(p, w, file', lock'),
           file' \in [{"blocked", "tmp"} -> {Missing} \cup Content],
           \A n \in {"blocked", "tmp"} : file[n] # Missing => file'[n] # Missing,
           \/ lock' = lock
           \/ lock = NoProc /\ lock' = p /\ p \in Writers
           \/ lock = p /\ lock' = NoProc,
           lock' = p => w # Idle,
           UNCHANGED <<worker, now>>,
           p \in Writers /\ lock' = p /\ p \notin overlapped' => Ready(w, file'),
           (p \in Writers /\ lock # p) \/ (p \in Consoles /\ w = Idle)
              => Lines(file') = Lines(file) /\ file'["tmp"] = file["tmp"]
    PROVE  FileInv'
<1>1. TypeOK
  BY DEF FileInv
<1>2. /\ proc' \in [Procs -> {Idle} \cup Work] /\ proc'[p] = w
      /\ \A q \in Procs \ {p} : proc'[q] = proc[q]
  BY <1>1 DEF TypeOK, Fits
<1>3. /\ NoProc \notin Procs /\ Writers \subseteq Procs
      /\ Writers \cap Consoles = {}
  BY BlockedFileAssumption DEF Procs
<1>4. \A q \in Procs : proc'[q] # Idle => Fits(q, proc'[q], file', lock')
  <2> TAKE q \in Procs
  <2>1. CASE q = p
    BY <1>2, <2>1
  <2>2. CASE q # p /\ proc[q] # Idle
    <3>1. Fits(q, proc[q], file, lock) /\ (lock = q => lock' = q)
      BY <1>3, <2>2 DEF FileInv
    <3>2. Fits(q, proc[q], file', lock')
      BY <3>1, StillFits
    <3> QED BY <1>2, <2>2, <3>2
  <2> QED BY <1>2, <2>1, <2>2
<1>5. lock' \in Writers \cup {NoProc} /\ (lock' # NoProc => proc'[lock'] # Idle)
  BY <1>1, <1>2, <1>3 DEF TypeOK
<1>6. \A q \in Writers : lock' = q /\ q \notin overlapped' => Ready(proc'[q], file')
  <2> TAKE q \in Writers
  <2> HAVE lock' = q /\ q \notin overlapped'
  <2>1. CASE q = p
    BY <1>2, <2>1
  <2>2. CASE q # p
    <3>1. lock = q /\ proc'[q] = proc[q]
      BY <1>2, <1>3, <2>2
    <3>2. q \notin overlapped /\ (p \in Consoles => w = Idle)
      BY <1>2, Undisturbed
    <3>3. Lines(file') = Lines(file) /\ file'["tmp"] = file["tmp"]
      BY <2>2, <3>1, <3>2 DEF Procs
    <3> QED BY <3>1, <3>2, <3>3 DEF FileInv, Ready
  <2> QED BY <2>1, <2>2
<1>7. TypeOK'
  BY <1>1, <1>2, <1>4, <1>5, ObserveFacts DEF TypeOK, Fits, NoFile
<1> QED BY <1>1, <1>4, <1>6, <1>7, ObserveFacts DEF FileInv
-----------------------------------------------------------------------------
(* The steps of a request, one by one.                                     *)

(* A request just made.                                                    *)
LEMMA BegunFits ==
    ASSUME FileInv, NEW p \in Procs, NEW r \in Requests[p], Begin(p, r)
    PROVE  \E w : /\ proc' = [proc EXCEPT ![p] = w] /\ w # Idle
                  /\ Fits(p, w, file, lock) /\ w.req = r /\ w.rc = "pending"
<1> DEFINE buf == IF r.op \in {"sync", "start"} THEN r.arg ELSE <<>>
           stage == CASE r.op = "start"  -> "ensure"
                      [] r.op = "remove" -> "read"
                      [] OTHER           -> "lock"
           w == [req |-> r, rc |-> "pending", fd |-> "none", buf |-> buf,
                 stage |-> stage]
<1>1. proc' = [proc EXCEPT ![p] = w]
  BY DEF Begin
<1>2. /\ r \in Request /\ buf \in Seq(IPs)
      /\ r.op \in {"sync", "start"} => buf = r.arg
  BY RequestFacts, EmptySeq
<1>3. /\ stage \in {"ensure", "lock", "read"}
      /\ p \in Consoles => stage = "read"
      /\ stage = "read" => r.op = "remove"
  BY RequestFacts
<1>4. p \in Writers => stage # "read"
  BY <1>3, RequestFacts, BlockedFileAssumption
<1> HIDE DEF buf, stage
<1>5. Fits(p, w, file, lock) /\ w.req = r /\ w.rc = "pending"
  BY <1>2, <1>3, <1>4 DEF Fits, Work, Places, Stages, Answers, Section
<1>6. w # Idle
  BY <1>5, BlockedFileAssumption DEF Fits
<1> HIDE DEF w
<1> QED BY <1>1, <1>5, <1>6

(* A writer starts a request.                                              *)
LEMMA BeginKeepsInv ==
    ASSUME FileInv, Observe, NEW p \in Procs, NEW r \in Requests[p], Begin(p, r)
    PROVE  FileInv'
<1>1. proc[p] = Idle /\ UNCHANGED <<file, lock, worker, now>>
  BY DEF Begin
<1>2. TypeOK /\ p # NoProc /\ lock # p
  BY <1>1, BlockedFileAssumption DEF FileInv, TypeOK
<1>3. PICK w : /\ proc' = [proc EXCEPT ![p] = w] /\ w # Idle
               /\ Fits(p, w, file, lock) /\ w.req = r /\ w.rc = "pending"
  BY BegunFits
<1> QED BY <1>1, <1>2, <1>3, UpdateKeepsInv DEF TypeOK

(* A process that is at some stage, and what moving it to another does.    *)
LEMMA AtFacts ==
    ASSUME FileInv, NEW p \in Procs, NEW stage, At(p, stage)
    PROVE  /\ TypeOK /\ proc[p] # Idle /\ proc[p] \in Work
           /\ proc[p].stage = stage /\ Fits(p, proc[p], file, lock)
           /\ proc[p].req \in Requests[p]
BY DEF FileInv, At, Fits

(* A file just created or truncated.                                       *)
LEMMA EmptyFacts ==
    ASSUME TypeOK
    PROVE  Empty \in Content /\ Empty.lines = <<>> /\ Empty # Missing
<1>1. Empty \in Content
  BY EmptySeq DEF Empty, Content, TypeOK
<1>2. Empty.lines = <<>>
  BY DEF Empty
<1> QED BY <1>1, <1>2, BlockedFileAssumption

(* ensure_blocked_file creates an empty list where there is none.          *)
LEMMA EnsureKeepsInv ==
    ASSUME FileInv, Observe, NEW p \in Procs, ensure_blocked_file(p)
    PROVE  FileInv'
<1> DEFINE w == [proc[p] EXCEPT !.stage = "lock"]
<1>1. At(p, "ensure") /\ proc' = [proc EXCEPT ![p] = w]
      /\ UNCHANGED <<lock, worker, now>>
  BY DEF ensure_blocked_file, Goto
<1>2. TypeOK /\ proc[p] \in Work /\ proc[p].stage = "ensure"
      /\ Fits(p, proc[p], file, lock)
  BY <1>1, AtFacts
<1>3. Empty \in Content /\ Empty.lines = <<>> /\ Empty # Missing
  BY <1>2, EmptyFacts
<1>4. /\ file' \in [{"blocked", "tmp"} -> {Missing} \cup Content]
      /\ \A n \in {"blocked", "tmp"} : file[n] # Missing => file'[n] # Missing
      /\ Lines(file') = Lines(file) /\ file'["tmp"] = file["tmp"]
  BY <1>2, <1>3 DEF ensure_blocked_file, TypeOK, Lines
<1>5. Fits(p, proc[p], file', lock')
  <2>1. lock = p => lock' = p
    BY <1>1
  <2> QED BY <1>2, <1>4, <2>1, StillFits
<1>6. Fits(p, w, file', lock')
  BY <1>2, <1>5 DEF Fits, Work, Stages, Section
<1>7. Ready(w, file')
  BY <1>2 DEF Ready, Work
<1>8. w # Idle
  BY <1>6, BlockedFileAssumption DEF Fits
<1> HIDE DEF w
<1> QED BY <1>1, <1>4, <1>6, <1>7, <1>8, UpdateKeepsInv

(* A writer takes the lock, or fails to.                                   *)
LEMMA LockKeepsInv ==
    ASSUME FileInv, Observe, NEW p \in Procs, blocked_lock(p)
    PROVE  FileInv'
<1> DEFINE w == [proc[p] EXCEPT !.stage = AfterLock(p)]
<1>1. /\ At(p, "lock") /\ lock = NoProc /\ lock' = p
      /\ proc' = [proc EXCEPT ![p] = w]
      /\ UNCHANGED <<file, worker, now>>
  BY DEF blocked_lock, Goto
<1>2. /\ TypeOK /\ proc[p] \in Work /\ proc[p].stage = "lock"
      /\ Fits(p, proc[p], file, lock) /\ proc[p].req \in Requests[p]
  BY <1>1, AtFacts
<1>3. p \in Writers /\ p # NoProc
  BY <1>2, BlockedFileAssumption DEF Fits, Procs
<1>4. AfterLock(p) \in {"open", "read"}
      /\ (AfterLock(p) = "open" <=> proc[p].req.op \in {"sync", "start"})
  BY DEF AfterLock
<1>5. /\ w \in Work /\ w.stage = AfterLock(p) /\ w.req = proc[p].req
      /\ w.buf = proc[p].buf /\ w.rc = proc[p].rc /\ w.fd = proc[p].fd
  BY <1>2, <1>4 DEF Work, Stages
<1> HIDE DEF w
<1>6. Fits(p, w, file, p)
  BY <1>2, <1>3, <1>4, <1>5, BlockedFileAssumption DEF Fits
<1>7. Ready(w, file)
  <2>1. CASE AfterLock(p) = "read"
    BY <1>5, <2>1 DEF Ready
  <2>2. CASE AfterLock(p) = "open"
    <3>1. w.req.op \in {"sync", "start"} /\ w.buf = w.req.arg
      BY <1>2, <1>4, <1>5, <2>2 DEF Fits
    <3>2. \A L : List!Effect(w.req, L) = ToSet(w.buf) /\ List!Answer(w.req, L) = "ok"
      BY <3>1 DEF List!Effect, List!Answer, ToSet
    <3> QED BY <1>5, <2>2, <3>2 DEF Ready
  <2> QED BY <1>4, <2>1, <2>2
<1>8. w # Idle
  BY <1>6, BlockedFileAssumption DEF Fits
<1> QED BY <1>1, <1>2, <1>3, <1>6, <1>7, <1>8, UpdateKeepsInv DEF TypeOK

(* The record of a concluded request.                                      *)
Concluded(x, rc) == [x EXCEPT !.stage = "close", !.rc = rc,
                              !.fd = "none", !.buf = <<>>]

(* A request that has its answer fits every file and lock.                 *)
LEMMA ConcludedFits ==
    ASSUME NEW p, NEW x, NEW f, NEW l, Fits(p, x, f, l), NEW rc \in Answers
    PROVE  /\ \A g, m : Fits(p, Concluded(x, rc), g, m) /\ Ready(Concluded(x, rc), g)
           /\ Concluded(x, rc) # Idle
           /\ Concluded(x, rc).req = x.req /\ Concluded(x, rc).rc = rc
<1> DEFINE w == Concluded(x, rc)
<1>1. /\ w \in Work /\ w.stage = "close" /\ w.fd = "none" /\ w.req = x.req
      /\ w.rc = rc
  BY EmptySeq DEF Fits, Work, Stages, Places, Concluded
<1>2. w # Idle
  BY <1>1, BlockedFileAssumption
<1> HIDE DEF w
<1>3. \A g, m : Fits(p, w, g, m) /\ Ready(w, g)
  BY <1>1 DEF Fits, Ready, Section
<1> QED BY <1>1, <1>2, <1>3 DEF w

(* A writer concludes its request.                                         *)
LEMMA ConcludeKeepsInv ==
    ASSUME FileInv, Observe, NEW p \in Procs, proc[p] # Idle, NEW rc \in Answers,
           Conclude(p, rc), UNCHANGED <<file, lock, worker, now>>
    PROVE  FileInv'
<1> DEFINE w == Concluded(proc[p], rc)
<1>1. proc' = [proc EXCEPT ![p] = w]
  BY DEF Conclude, Concluded
<1>2. TypeOK /\ Fits(p, proc[p], file, lock)
  BY DEF FileInv
<1>3. Fits(p, w, file', lock') /\ Ready(w, file') /\ w # Idle
  BY <1>2, ConcludedFits
<1> HIDE DEF w
<1> QED BY <1>1, <1>2, <1>3, UpdateKeepsInv DEF TypeOK

(* The end of a request, by its own or by a kill.                          *)
LEMMA EndKeepsInv ==
    ASSUME FileInv, Observe, NEW p \in Procs, CloseLock(p) \/ Kill(p)
    PROVE  FileInv'
<1>1. /\ proc' = [proc EXCEPT ![p] = Idle]
      /\ lock' = IF lock = p THEN NoProc ELSE lock
      /\ UNCHANGED <<file, worker, now>>
  BY DEF CloseLock, Kill
<1>2. TypeOK /\ p # NoProc
  BY BlockedFileAssumption DEF FileInv
<1>3. lock' # p
  BY <1>1, <1>2
<1> QED BY <1>1, <1>2, <1>3, UpdateKeepsInv DEF TypeOK

(* What a writer has read, it may rewrite: the lines it prepares are the   *)
(* effect of its request, and not reading anything new it answers so.      *)
LEMMA PreparedLines ==
    ASSUME NEW p \in Procs, NEW r \in Requests[p], r.op \in {"execute", "unblock"},
           NEW s \in Seq(IPs)
    PROVE  LET L == ToSet(s)
               buf == IF r.op = "execute" THEN Append(s, r.arg)
                      ELSE LinesWithout(s, r.arg)
           IN  /\ buf \in Seq(IPs)
               /\ ToSet(buf) = List!Effect(r, L)
               /\ r.op = "unblock" /\ r.arg \notin L
                     => List!Answer(r, L) = "absent" /\ List!Effect(r, L) = L
               /\ r.op = "execute" \/ r.arg \in L => List!Answer(r, L) = "ok"
               /\ r.op = "execute" /\ r.arg \in L => List!Effect(r, L) = L
<1>1. r.arg \in IPs
  BY RequestFacts
<1>2. CASE r.op = "execute"
  BY <1>1, <1>2, ToSetOfAppend DEF List!Effect, List!Answer
<1>3. CASE r.op = "unblock"
  BY <1>1, <1>3, LinesWithoutFacts DEF List!Effect, List!Answer
<1> QED BY <1>2, <1>3

(* The three outcomes of a read: an error, nothing to do, or new lines.    *)
LEMMA ReadOutcomes ==
    ASSUME FileInv, NEW p \in Procs, read_file_text(p)
    PROVE  LET r == proc[p].req
               s == Lines(file)
               Rewrite(buf) == /\ proc' = [proc EXCEPT ![p].stage = "open", ![p].buf = buf]
                               /\ Contains(s, r.arg) \/ r.op = "execute"
           IN  \/ Conclude(p, "err")
               \/ r.op = "execute" /\ Contains(s, r.arg) /\ Conclude(p, "ok")
               \/ r.op # "execute" /\ ~Contains(s, r.arg) /\ Conclude(p, "absent")
               \/ r.op = "execute" /\ Rewrite(Append(s, r.arg))
               \/ r.op = "unblock" /\ Rewrite(LinesWithout(s, r.arg))
               \/ r.op = "remove" /\ Rewrite(RemoveFirst(s, r.arg))
<1>1. At(p, "read")
  BY DEF read_file_text
<1>2. Fits(p, proc[p], file, lock) /\ TypeOK /\ proc[p].stage = "read"
  BY <1>1, AtFacts
<1>3. proc[p].req.op \in {"execute", "unblock", "remove"}
  BY <1>2 DEF Fits, Work, Request, Ops
<1>4. Current.lines = Lines(file)
  BY <1>2, CurrentFacts DEF TypeOK
<1>5. CASE proc[p].req.op = "execute"
  BY <1>4, <1>5, Zenon DEF read_file_text
<1>6. CASE proc[p].req.op = "unblock"
  BY <1>4, <1>6, Zenon DEF read_file_text
<1>7. CASE proc[p].req.op = "remove"
  BY <1>4, <1>7, Zenon DEF read_file_text
<1> QED BY <1>3, <1>5, <1>6, <1>7, Zenon

(* A writer reads the list under the lock.                                 *)
LEMMA ReadKeepsInv ==
    ASSUME FileInv, Observe, NEW p \in Procs, read_file_text(p)
    PROVE  FileInv'
<1> DEFINE r == proc[p].req
           s == Lines(file)
<1>1. At(p, "read") /\ UNCHANGED <<file, lock, worker, now>>
  BY DEF read_file_text
<1>2. /\ TypeOK /\ proc[p] # Idle /\ proc[p] \in Work /\ proc[p].stage = "read"
      /\ Fits(p, proc[p], file, lock) /\ r \in Requests[p]
  BY <1>1, AtFacts
<1>3. s \in Seq(IPs)
  BY <1>2, CurrentFacts DEF TypeOK
<1>4. CASE \E rc \in {"err", "ok", "absent"} : Conclude(p, rc)
  BY <1>1, <1>2, <1>4, ConcludeKeepsInv DEF Answers
<1>5. ASSUME NEW buf \in Seq(IPs),
             proc' = [proc EXCEPT ![p].stage = "open", ![p].buf = buf],
             p \in Writers => /\ ToSet(buf) = List!Effect(r, ToSet(s))
                              /\ List!Answer(r, ToSet(s)) = "ok"
      PROVE  FileInv'
  <2> DEFINE w == [proc[p] EXCEPT !.stage = "open", !.buf = buf]
  <2>1. proc' = [proc EXCEPT ![p] = w]
    BY <1>5
  <2>2. /\ w \in Work /\ w.stage = "open" /\ w.buf = buf /\ w.req = r
        /\ w.rc = proc[p].rc /\ w.fd = proc[p].fd
    BY <1>2 DEF Work, Stages
  <2> HIDE DEF w, r
  <2>3. Fits(p, w, file, lock)
    BY <1>2, <2>2 DEF Fits, Section, r
  <2>4. p \in Writers => Ready(w, file)
    BY <1>5, <2>2 DEF Ready
  <2>5. w # Idle
    BY <2>2, BlockedFileAssumption
  <2> QED BY <1>1, <1>2, <2>1, <2>3, <2>4, <2>5, UpdateKeepsInv DEF TypeOK
<1>6. CASE r.op = "execute" /\ proc' = [proc EXCEPT ![p].stage = "open",
                                                   ![p].buf = Append(s, r.arg)]
  <2>1. /\ Append(s, r.arg) \in Seq(IPs)
        /\ ToSet(Append(s, r.arg)) = List!Effect(r, ToSet(s))
        /\ List!Answer(r, ToSet(s)) = "ok"
    BY <1>2, <1>3, <1>6, PreparedLines
  <2> QED BY <1>5, <1>6, <2>1
<1>7. CASE /\ r.op = "unblock" /\ Contains(s, r.arg)
           /\ proc' = [proc EXCEPT ![p].stage = "open",
                                   ![p].buf = LinesWithout(s, r.arg)]
  <2>1. r.arg \in ToSet(s)
    BY <1>3, <1>7, ToSetOfSeq
  <2>2. /\ LinesWithout(s, r.arg) \in Seq(IPs)
        /\ ToSet(LinesWithout(s, r.arg)) = List!Effect(r, ToSet(s))
        /\ List!Answer(r, ToSet(s)) = "ok"
    BY <1>2, <1>3, <1>7, <2>1, PreparedLines
  <2> QED BY <1>5, <1>7, <2>2
<1>8. CASE r.op = "remove" /\ proc' = [proc EXCEPT ![p].stage = "open",
                                                  ![p].buf = RemoveFirst(s, r.arg)]
  <2>1. RemoveFirst(s, r.arg) \in Seq(IPs) /\ p \notin Writers
    BY <1>2, <1>3, <1>8, RemoveFirstType, RequestFacts, BlockedFileAssumption
  <2> QED BY <1>5, <1>8, <2>1
<1>9. \/ \E rc \in {"err", "ok", "absent"} : Conclude(p, rc)
      \/ r.op = "execute" /\ proc' = [proc EXCEPT ![p].stage = "open",
                                                   ![p].buf = Append(s, r.arg)]
      \/ /\ r.op = "unblock" /\ Contains(s, r.arg)
         /\ proc' = [proc EXCEPT ![p].stage = "open",
                                 ![p].buf = LinesWithout(s, r.arg)]
      \/ r.op = "remove" /\ proc' = [proc EXCEPT ![p].stage = "open",
                                                 ![p].buf = RemoveFirst(s, r.arg)]
  BY ReadOutcomes, Zenon
<1> QED BY <1>4, <1>6, <1>7, <1>8, <1>9, Zenon

(* A writer opens the temporary file.                                      *)
LEMMA OpenKeepsInv ==
    ASSUME FileInv, Observe, NEW p \in Procs, OpenTmp(p)
    PROVE  FileInv'
<1>1. At(p, "open") /\ UNCHANGED <<lock, worker, now>>
  BY DEF OpenTmp
<1>2. /\ TypeOK /\ proc[p] # Idle /\ proc[p] \in Work /\ proc[p].stage = "open"
      /\ Fits(p, proc[p], file, lock)
  BY <1>1, AtFacts
<1>3. CASE Conclude(p, "err") /\ UNCHANGED file
  BY <1>1, <1>2, <1>3, ConcludeKeepsInv DEF Answers
<1>4. CASE /\ file' = [file EXCEPT !["tmp"] = Empty]
           /\ proc' = [proc EXCEPT ![p].stage = "write", ![p].fd = "tmp"]
  <2> DEFINE w == [proc[p] EXCEPT !.stage = "write", !.fd = "tmp"]
  <2>1. proc' = [proc EXCEPT ![p] = w]
    BY <1>4
  <2>2. /\ w \in Work /\ w.stage = "write" /\ w.fd = "tmp"
        /\ w.buf = proc[p].buf /\ w.req = proc[p].req /\ w.rc = proc[p].rc
    BY <1>2 DEF Work, Stages, Places
  <2>3. /\ file' \in [{"blocked", "tmp"} -> {Missing} \cup Content]
        /\ \A n \in {"blocked", "tmp"} : file[n] # Missing => file'[n] # Missing
        /\ Lines(file') = Lines(file)
        /\ file'["tmp"] # Missing /\ file'["tmp"].lines = <<>>
    BY <1>2, <1>4, EmptyFacts DEF TypeOK, Lines
  <2> HIDE DEF w
  <2>4. Fits(p, w, file', lock')
    BY <1>1, <1>2, <2>2, <2>3 DEF Fits, Section
  <2>5. ASSUME p \in Writers, lock' = p, p \notin overlapped' PROVE Ready(w, file')
    <3>1. Ready(proc[p], file)
      BY <1>1, <2>5, Undisturbed DEF FileInv
    <3> QED BY <1>2, <2>2, <2>3, <3>1 DEF Ready
  <2>6. w # Idle /\ (p \in Writers => lock = p)
    BY <1>2, <2>2, BlockedFileAssumption DEF Fits, Section
  <2> QED BY <1>1, <2>1, <2>3, <2>4, <2>5, <2>6, UpdateKeepsInv
<1> QED BY <1>3, <1>4, Zenon DEF OpenTmp

(* A writer writes its buffer, into the file its descriptor is of.         *)
LEMMA WriteKeepsInv ==
    ASSUME FileInv, Observe, NEW p \in Procs, At(p, "write"),
           file' = IF proc[p].fd = "gone" THEN file
                   ELSE [file EXCEPT ![proc[p].fd] = Overwritten(@, proc[p].buf)],
           proc' = [proc EXCEPT ![p].stage = "rename",
                                ![p].fd = "none", ![p].buf = <<>>],
           UNCHANGED <<lock, worker, now>>
    PROVE  FileInv'
<1> DEFINE w == [proc[p] EXCEPT !.stage = "rename", !.fd = "none", !.buf = <<>>]
           fd == proc[p].fd
           f == Overwritten(file[fd], proc[p].buf)
<1>1. /\ TypeOK /\ proc[p] # Idle /\ proc[p] \in Work /\ proc[p].stage = "write"
      /\ Fits(p, proc[p], file, lock)
  BY AtFacts
<1>2. fd \in {"tmp", "blocked", "gone"} /\ (fd # "gone" => file[fd] # Missing)
  BY <1>1 DEF Fits, Work, Places
<1>3. proc' = [proc EXCEPT ![p] = w]
  OBVIOUS
<1>4. /\ w \in Work /\ w.stage = "rename" /\ w.fd = "none"
      /\ w.req = proc[p].req /\ w.rc = proc[p].rc
  BY <1>1, EmptySeq DEF Work, Stages, Places
<1>5. ASSUME fd # "gone"
      PROVE  /\ f \in Content /\ f # Missing
             /\ file[fd].lines = <<>> => f.lines = proc[p].buf
  <2>1. file[fd] \in Content /\ proc[p].buf \in Seq(IPs) /\ now \in 1 .. MaxTime
    BY <1>1, <1>2, <1>5 DEF TypeOK, Work
  <2> QED BY <2>1, OverwrittenType, BlockedFileAssumption
<1>6. file' = IF fd = "gone" THEN file ELSE [file EXCEPT ![fd] = f]
  OBVIOUS
<1> HIDE DEF w, f
<1>7. /\ file' \in [{"blocked", "tmp"} -> {Missing} \cup Content]
      /\ \A n \in {"blocked", "tmp"} : file[n] # Missing => file'[n] # Missing
  BY <1>1, <1>2, <1>5, <1>6 DEF TypeOK
<1>8. Fits(p, w, file', lock')
  BY <1>1, <1>4 DEF Fits, Section
<1>9. ASSUME p \in Writers, lock' = p, p \notin overlapped' PROVE Ready(w, file')
  <2>1. Ready(proc[p], file)
    BY <1>9, Undisturbed DEF FileInv
  <2>2. fd = "tmp" /\ file["tmp"].lines = <<>>
    BY <1>1, <2>1 DEF Ready
  <2>3. Lines(file') = Lines(file) /\ file'["tmp"].lines = proc[p].buf
        /\ file'["tmp"] # Missing
    BY <1>1, <1>5, <1>6, <2>2 DEF TypeOK, Lines
  <2> QED BY <1>1, <1>4, <2>1, <2>3 DEF Ready
<1>10. w # Idle /\ (p \in Writers => lock = p)
  BY <1>1, <1>4, BlockedFileAssumption DEF Fits, Section
<1> QED BY <1>3, <1>7, <1>8, <1>9, <1>10, UpdateKeepsInv

(* The temporary file is renamed or removed.  The open files of the others *)
(* follow their inodes; whoever does it is at its end.                     *)
LEMMA FollowKeepsInv ==
    ASSUME FileInv, Observe, NEW p \in Procs, proc[p] # Idle,
           proc[p].stage \in Section, NEW rc \in Answers, NEW where,
           Follow(p, rc, where), UNCHANGED <<lock, worker, now>>,
           \/ /\ where = [tmp |-> "gone"]
              /\ file' = [file EXCEPT !["tmp"] = Missing]
           \/ /\ where = [tmp |-> "blocked", blocked |-> "gone"]
              /\ file["tmp"] # Missing
              /\ file' = [file EXCEPT !["blocked"] = file["tmp"], !["tmp"] = Missing]
    PROVE  FileInv'
<1> DEFINE w == Concluded(proc[p], rc)
<1>1. TypeOK /\ Fits(p, proc[p], file, lock)
  BY DEF FileInv
<1>2. /\ \A g, m : Fits(p, w, g, m) /\ Ready(w, g)
      /\ w # Idle
  BY <1>1, ConcludedFits
<1>3. proc' = [q \in Procs |->
                 IF q = p THEN w
                 ELSE IF proc[q] # Idle /\ proc[q].fd \in DOMAIN where
                 THEN [proc[q] EXCEPT !.fd = where[proc[q].fd]] ELSE proc[q]]
  BY DEF Follow, Concluded
<1> HIDE DEF w
<1>4. file' \in [{"blocked", "tmp"} -> {Missing} \cup Content]
  BY <1>1 DEF TypeOK
<1>5. ASSUME NEW q \in Procs
      PROVE  /\ proc[q] = Idle => proc'[q] = Idle
             /\ proc[q] # Idle => proc'[q] # Idle /\ Fits(q, proc'[q], file', lock')
  <2>1. CASE q = p
    BY <1>2, <1>3, <2>1
  <2>2. CASE q # p /\ proc[q] = Idle
    BY <1>3, <2>2
  <2>3. CASE q # p /\ proc[q] # Idle
    <3>1. Fits(q, proc[q], file, lock) /\ proc[q] \in Work
      BY <2>3 DEF FileInv, Fits
    <3>2. CASE proc[q].fd \notin DOMAIN where
      <4>1. proc'[q] = proc[q] /\ proc[q].fd # "tmp"
        BY <1>3, <2>3, <3>2
      <4>2. proc[q].fd = "blocked" => file'["blocked"] # Missing
        BY <1>1, <3>1, <3>2 DEF Fits, TypeOK
      <4> QED BY <2>3, <3>1, <4>1, <4>2 DEF Fits
    <3>3. CASE proc[q].fd \in DOMAIN where
      <4> DEFINE x == [proc[q] EXCEPT !.fd = where[proc[q].fd]]
      <4>1. proc'[q] = x
        BY <1>3, <2>3, <3>3
      <4>2. where[proc[q].fd] \in {"gone", "blocked"}
            /\ (where[proc[q].fd] = "blocked" => file'["blocked"] # Missing)
            /\ proc[q].fd # "none"
        BY <1>1, <3>3 DEF TypeOK
      <4>3. /\ x \in Work /\ x.fd = where[proc[q].fd] /\ x.stage = proc[q].stage
            /\ x.req = proc[q].req /\ x.rc = proc[q].rc /\ x.buf = proc[q].buf
        BY <3>1, <4>2 DEF Work, Places
      <4> HIDE DEF x
      <4>4. x # Idle
        BY <4>3, BlockedFileAssumption
      <4>5. Fits(q, x, file', lock')
        BY <3>1, <4>2, <4>3 DEF Fits
      <4> QED BY <2>3, <4>1, <4>4, <4>5
    <3> QED BY <3>2, <3>3
  <2> QED BY <2>1, <2>2, <2>3
<1>6. proc' \in [Procs -> {Idle} \cup Work]
  <2>1. \A q \in Procs : proc'[q] \in {Idle} \cup Work
    BY <1>5 DEF Fits
  <2> QED BY <1>3, <2>1
<1>7. \A q \in Writers : lock' = q /\ q \notin overlapped' => Ready(proc'[q], file')
  <2> TAKE q \in Writers
  <2> HAVE lock' = q /\ q \notin overlapped'
  <2>1. p \notin Consoles
    BY <1>5, Undisturbed
  <2>2. q = p
    BY <1>1, <2>1 DEF Fits, Procs
  <2> QED BY <1>2, <1>3, <2>2
<1>8. TypeOK'
  <2>1. lock' # NoProc => proc'[lock'] # Idle
    BY <1>1, <1>5 DEF TypeOK, Procs
  <2> QED BY <1>1, <1>4, <1>5, <1>6, <2>1, ObserveFacts DEF TypeOK, Fits, NoFile
<1> QED BY <1>1, <1>4, <1>5, <1>7, <1>8, ObserveFacts DEF FileInv

(* A failed write or rename.                                               *)
LEMMA AbortKeepsInv ==
    ASSUME FileInv, Observe, NEW p \in Procs, proc[p] # Idle,
           proc[p].stage \in Section, Abort(p), UNCHANGED <<lock, worker, now>>
    PROVE  FileInv'
<1>1. "err" \in Answers
  BY DEF Answers
<1>2. CASE Conclude(p, "err") /\ UNCHANGED file
  BY <1>1, <1>2, ConcludeKeepsInv
<1>3. CASE /\ file' = [file EXCEPT !["tmp"] = Missing]
           /\ Follow(p, "err", [tmp |-> "gone"])
  BY <1>1, <1>3, FollowKeepsInv
<1> QED BY <1>2, <1>3, Zenon DEF Abort

(* A writer writes the temporary file, or gives up.                        *)
LEMMA WriteTmpKeepsInv ==
    ASSUME FileInv, Observe, NEW p \in Procs, WriteTmp(p)
    PROVE  FileInv'
<1>1. At(p, "write") /\ UNCHANGED <<lock, worker, now>>
  BY Zenon DEF WriteTmp
<1>2. proc[p] # Idle /\ proc[p].stage \in Section
  BY <1>1, AtFacts DEF Section
<1>3. CASE Abort(p)
  BY <1>1, <1>2, <1>3, AbortKeepsInv
<1>4. CASE ~Abort(p)
  <2>1. /\ file' = IF proc[p].fd = "gone" THEN file
                   ELSE [file EXCEPT ![proc[p].fd] = Overwritten(@, proc[p].buf)]
        /\ proc' = [proc EXCEPT ![p].stage = "rename",
                                ![p].fd = "none", ![p].buf = <<>>]
    BY <1>4, Zenon DEF WriteTmp
  <2> QED BY <1>1, <2>1, WriteKeepsInv, Zenon
<1> QED BY <1>3, <1>4

(* A writer puts the temporary file in the place of the list.              *)
LEMMA RenameKeepsInv ==
    ASSUME FileInv, Observe, NEW p \in Procs, Rename(p)
    PROVE  FileInv'
<1>1. At(p, "rename") /\ UNCHANGED <<lock, worker, now>>
  BY Zenon DEF Rename
<1>2. proc[p] # Idle /\ proc[p].stage \in Section /\ "ok" \in Answers
  BY <1>1, AtFacts DEF Section, Answers
<1>3. CASE Abort(p)
  BY <1>1, <1>2, <1>3, AbortKeepsInv
<1>4. CASE /\ file["tmp"] # Missing
           /\ file' = [file EXCEPT !["blocked"] = file["tmp"], !["tmp"] = Missing]
           /\ Follow(p, "ok", [tmp |-> "blocked", blocked |-> "gone"])
  BY <1>1, <1>2, <1>4, FollowKeepsInv
<1> QED BY <1>3, <1>4, Zenon DEF Rename
-----------------------------------------------------------------------------
(* The steps of an smbd worker, and the clock.                             *)
LEMMA JudgeFacts ==
    ASSUME TypeOK, NEW w \in Workers, NEW cache \in {NoCache} \cup Content,
           Judge(w, cache)
    PROVE  /\ worker' \in [Workers -> [stage : {"idle", "load"},
                                       saw : {NoFile} \cup Content,
                                       cache : {NoCache} \cup Content]]
           /\ \A v \in Workers : worker'[v].stage = "load" =>
                 v # w /\ worker[v].stage = "load" /\ worker'[v] = worker[v]
           /\ \A v \in Workers : v # w => worker'[v] = worker[v]
           /\ worker'[w].cache = cache
<1> DEFINE u == [stage |-> "idle", saw |-> NoFile, cache |-> cache]
<1>1. worker' = [worker EXCEPT ![w] = u]
  BY DEF Judge, Unchecked
<1>2. /\ u \in [stage : {"idle", "load"}, saw : {NoFile} \cup Content,
                cache : {NoCache} \cup Content]
      /\ u.stage = "idle" /\ u.cache = cache
  OBVIOUS
<1> HIDE DEF u
<1> QED BY <1>1, <1>2 DEF TypeOK

(* What a worker loads is lines, under the mtime of the file it has seen;  *)
(* and all of the file if that is still there.                             *)
LEMMA LoadFacts ==
    ASSUME TypeOK, NEW w \in Workers, worker[w].stage = "load"
    PROVE  LET saw == worker[w].saw
               new == [lines |-> ReadBlocked(saw), mtime |-> saw.mtime]
           IN  /\ saw \in Content /\ new \in Content
               /\ new.mtime = saw.mtime
               /\ saw.lines = Current.lines => new.lines = Current.lines
<1> DEFINE saw == worker[w].saw
           new == [lines |-> ReadBlocked(saw), mtime |-> saw.mtime]
<1>1. saw \in Content /\ saw.lines \in Seq(IPs) /\ Current.lines \in Seq(IPs)
  BY CurrentFacts DEF TypeOK, Content
<1>2. /\ ReadBlocked(saw) \in Seq(IPs)
      /\ saw.lines = Current.lines => ReadBlocked(saw) = Current.lines
  BY <1>1, PrefixFacts DEF ReadBlocked
<1>3. new \in Content
  BY <1>1, <1>2 DEF Content
<1> QED BY <1>1, <1>2, <1>3

(* A Samba worker looks at the list's time and loads it.                   *)
LEMMA WorkerKeepsInv ==
    ASSUME FileInv, Observe, NEW w \in Workers,
           StatBlocked(w) \/ LoadBlocked(w) \/ LoadFails(w)
    PROVE  FileInv'
<1>1. UNCHANGED <<file, lock, proc, now>>
  BY Zenon DEF StatBlocked, LoadBlocked, LoadFails
<1>2. TypeOK
  BY DEF FileInv
<1>3. /\ worker' \in [Workers -> [stage : {"idle", "load"},
                                  saw : {NoFile} \cup Content,
                                  cache : {NoCache} \cup Content]]
      /\ \A v \in Workers : worker'[v].stage = "load" => worker'[v].saw \in Content
  <2>1. ASSUME NEW cache \in {NoCache} \cup Content, Judge(w, cache)
        PROVE  /\ worker' \in [Workers -> [stage : {"idle", "load"},
                                           saw : {NoFile} \cup Content,
                                           cache : {NoCache} \cup Content]]
               /\ \A v \in Workers : worker'[v].stage = "load"
                                       => worker'[v].saw \in Content
    BY <1>2, <2>1, JudgeFacts DEF TypeOK
  <2>2. worker[w].cache \in {NoCache} \cup Content
    BY <1>2 DEF TypeOK
  <2>3. CASE StatBlocked(w)
    <3>1. CASE Judge(w, NoCache) \/ Judge(w, worker[w].cache)
      BY <2>1, <2>2, <3>1
    <3>2. CASE /\ file["blocked"] # Missing
               /\ worker' = [worker EXCEPT ![w].stage = "load", ![w].saw = Current]
      <4>1. Current \in Content
        BY <1>2, <3>2 DEF Current, TypeOK
      <4> DEFINE u == [worker[w] EXCEPT !.stage = "load", !.saw = Current]
      <4>2. u \in [stage : {"idle", "load"}, saw : {NoFile} \cup Content,
                   cache : {NoCache} \cup Content] /\ u.saw = Current
        BY <1>2, <4>1 DEF TypeOK
      <4>3. worker' = [worker EXCEPT ![w] = u]
        BY <3>2
      <4> HIDE DEF u
      <4> QED BY <1>2, <4>1, <4>2, <4>3 DEF TypeOK
    <3> QED BY <2>3, <3>1, <3>2, Zenon DEF StatBlocked
  <2>4. CASE LoadBlocked(w)
    BY <1>2, <2>1, <2>4, LoadFacts DEF LoadBlocked
  <2>5. CASE LoadFails(w)
    BY <2>1, <2>2, <2>5 DEF LoadFails
  <2> QED BY <2>3, <2>4, <2>5
<1>4. TypeOK'
  BY <1>1, <1>2, <1>3, ObserveFacts DEF TypeOK, NoFile
<1>5. \A q \in Writers : lock' = q /\ q \notin overlapped' => q \notin overlapped
  BY Undisturbed
<1> QED BY <1>1, <1>4, <1>5, ObserveFacts DEF FileInv, TypeOK

(* Time passes.                                                            *)
LEMMA TickKeepsInv ==
    ASSUME FileInv, Observe, Tick
    PROVE  FileInv'
<1>1. UNCHANGED <<file, lock, proc, worker>> /\ now' \in 1 .. MaxTime
  BY BlockedFileAssumption DEF Tick, FileInv, TypeOK
<1>2. TypeOK'
  BY <1>1, ObserveFacts DEF FileInv, TypeOK, NoFile
<1>3. \A q \in Writers : lock' = q /\ q \notin overlapped' => q \notin overlapped
  BY Undisturbed
<1> QED BY <1>1, <1>2, <1>3, ObserveFacts DEF FileInv, TypeOK
-----------------------------------------------------------------------------
(* The invariant holds at first and survives every step.                   *)
LEMMA FileInvInit == Init => FileInv
<1> SUFFICES ASSUME Init PROVE FileInv
  OBVIOUS
<1>1. TypeOK
  <2> DEFINE u == [stage |-> "idle", saw |-> NoFile, cache |-> NoCache]
  <2>1. /\ u \in [stage : {"idle", "load"}, saw : {NoFile} \cup Content,
                  cache : {NoCache} \cup Content]
        /\ u.stage = "idle"
    OBVIOUS
  <2>2. worker = [w \in Workers |-> u]
    BY DEF Init, Unchecked
  <2> HIDE DEF u
  <2>3. /\ worker \in [Workers -> [stage : {"idle", "load"},
                                   saw : {NoFile} \cup Content,
                                   cache : {NoCache} \cup Content]]
        /\ \A w \in Workers : worker[w].stage = "load" => worker[w].saw \in Content
    BY <2>1, <2>2
  <2>4. now \in 1 .. MaxTime /\ newest \in 0 .. MaxTime /\ twice \in BOOLEAN
    <3>1. now = 1 /\ newest = 0 /\ twice \in BOOLEAN
      BY Zenon DEF Init
    <3>2. MaxTime \in Nat \ {0}
      BY BlockedFileAssumption
    <3> QED BY <3>1, <3>2
  <2>5. /\ file \in [{"blocked", "tmp"} -> {Missing} \cup Content]
        /\ proc \in [Procs -> {Idle} \cup Work]
        /\ \A p \in Procs : proc[p] = Idle
        /\ lock = NoProc /\ overlapped = {}
    BY DEF Init
  <2> QED BY <2>3, <2>4, <2>5 DEF TypeOK
<1>2. \A p \in Writers : lock # p
  BY BlockedFileAssumption DEF Init, Procs
<1> QED BY <1>1, <1>2 DEF FileInv, Init

(* The invariant is inductive.                                             *)
LEMMA FileInvNext == FileInv /\ [Next]_vars => FileInv'
<1> SUFFICES ASSUME FileInv, [Next]_vars PROVE FileInv'
  OBVIOUS
<1>1. ASSUME NEW p \in Procs, NEW r \in Requests[p], Begin(p, r), Observe
      PROVE  FileInv'
  BY <1>1, BeginKeepsInv
<1>2. ASSUME NEW p \in Procs, RequestStep(p), Observe PROVE FileInv'
  BY <1>2, EnsureKeepsInv, LockKeepsInv, ReadKeepsInv, OpenKeepsInv,
     WriteTmpKeepsInv, RenameKeepsInv, EndKeepsInv, Zenon DEF RequestStep
<1>3. ASSUME NEW p \in Procs, LockFails(p), Observe PROVE FileInv'
  <2>1. proc[p] # Idle /\ Conclude(p, "err") /\ UNCHANGED <<file, lock, worker, now>>
    BY <1>3 DEF LockFails, At
  <2> QED BY <1>3, <2>1, ConcludeKeepsInv DEF Answers
<1>4. ASSUME NEW p \in Procs, Kill(p), Observe PROVE FileInv'
  BY <1>4, EndKeepsInv
<1>5. ASSUME NEW w \in Workers, StatBlocked(w) \/ LoadBlocked(w) \/ LoadFails(w),
             Observe
      PROVE  FileInv'
  BY <1>5, WorkerKeepsInv
<1>6. CASE Tick /\ Observe
  BY <1>6, TickKeepsInv
<1>7. CASE UNCHANGED vars
  <2>1. UNCHANGED <<file, lock, proc, worker, now, newest, twice, overlapped>>
    BY <1>7 DEF vars, history
  <2>2. TypeOK' /\ (Visiting' <=> Visiting)
    BY <2>1 DEF FileInv, TypeOK, NoFile, Visiting
  <2> QED BY <2>1, <2>2 DEF FileInv
<1> QED BY <1>1, <1>2, <1>3, <1>4, <1>5, <1>6, <1>7, Zenon DEF Next

(* The invariant, for any number of processes of every kind.               *)
THEOREM FileInvariant == Spec => []FileInv
<1> QED BY FileInvInit, FileInvNext, PTL DEF Spec

(* Types, and the lock is never held by anybody who has finished: every    *)
(* way out of blocker_execute, blocker_unblock and blocker_sync_blacklist  *)
(* closes the lock file.                                                   *)
THEOREM BlockedFileTypes == Spec => []TypeOK
<1>1. FileInv => TypeOK
  BY DEF FileInv
<1> QED BY <1>1, FileInvariant, PTL
-----------------------------------------------------------------------------
(* CheckIsCurrent.  A cache, and a file that is about to be read into one, *)
(* is never from the future; and if it carries the mtime of a file that    *)
(* has it for the first time, it is that file.                             *)
AsCurrent(c) ==
    /\ c.mtime <= newest
    /\ c.mtime = Current.mtime /\ ~twice => c.lines = Current.lines

CacheInv ==
    /\ Current.mtime <= newest
    /\ \A w \in Workers : /\ worker[w].stage = "load" => AsCurrent(worker[w].saw)
                          /\ worker[w].cache # NoCache => AsCurrent(worker[w].cache)

(* What has been as current stays so: a change gives the file an mtime     *)
(* later than all it had, or is noted.                                     *)
LEMMA StaysAsCurrent ==
    ASSUME TypeOK, TypeOK', Observe, NEW c \in Content, AsCurrent(c),
           Current.mtime <= newest
    PROVE  AsCurrent(c)'
<1> DEFINE N == [lines : Seq(IPs), mtime : 0 .. MaxTime]
<1>1. Current \in N /\ c.mtime \in Nat /\ newest \in Nat
  BY CurrentFacts, BlockedFileAssumption DEF TypeOK, Content
<1>2. Current' \in N
  BY NextCurrentFacts DEF TypeOK
<1>3. c.mtime <= newest'
  BY <1>1, <1>2 DEF Observe, AsCurrent
<1>4. CASE Current' = Current
  <2>1. twice' = twice
    BY <1>4 DEF Observe
  <2> QED BY <1>3, <1>4, <2>1, Zenon DEF AsCurrent
<1>5. CASE Current' # Current
  <2> DEFINE old == Current'.mtime <= newest
  <2>1. twice' = old
    BY <1>5 DEF Observe
  <2>2. ~old => c.mtime # Current'.mtime
    BY <1>1, <1>2 DEF AsCurrent
  <2> HIDE DEF old
  <2> QED BY <1>3, <2>1, <2>2, Zenon DEF AsCurrent
<1> QED BY <1>4, <1>5

(* Steps that leave the workers alone.                                     *)
LEMMA CacheInvKept ==
    ASSUME TypeOK, TypeOK', CacheInv, Observe, UNCHANGED worker
    PROVE  CacheInv'
<1>1. Current'.mtime <= newest'
  <2>1. Current'.mtime \in 0 .. MaxTime
    BY NextCurrentFacts DEF TypeOK
  <2> QED BY <2>1, BlockedFileAssumption DEF Observe, TypeOK
<1>2. ASSUME NEW w \in Workers, worker[w].stage = "load"
      PROVE  AsCurrent(worker[w].saw)'
  BY <1>2, StaysAsCurrent DEF CacheInv, TypeOK
<1>3. ASSUME NEW w \in Workers, worker[w].cache # NoCache
      PROVE  AsCurrent(worker[w].cache)'
  <2>1. worker[w].cache \in Content
    BY <1>3 DEF TypeOK
  <2> QED BY <1>3, <2>1, StaysAsCurrent DEF CacheInv
<1> QED BY <1>1, <1>2, <1>3 DEF CacheInv

(* A step of a worker: stat takes note of the file as it is, and what is   *)
(* read is either that file or kept under an mtime the file has left.      *)
LEMMA CacheInvWorker ==
    ASSUME TypeOK, TypeOK', CacheInv, Observe, NEW w \in Workers,
           StatBlocked(w) \/ LoadBlocked(w) \/ LoadFails(w)
    PROVE  CacheInv'
<1>1. UNCHANGED file
  BY Zenon DEF StatBlocked, LoadBlocked, LoadFails
<1>2. Current' = Current /\ UNCHANGED <<newest, twice>>
  <2>1. Current' = Current
    BY <1>1 DEF Current, NoFile
  <2>2. Current.mtime \in 0 .. MaxTime /\ newest \in 0 .. MaxTime
        /\ Current.mtime <= newest
    BY CurrentFacts DEF TypeOK, CacheInv
  <2>3. newest' = newest
    BY <2>1, <2>2, BlockedFileAssumption DEF Observe
  <2>4. twice' = twice
    BY <2>1 DEF Observe
  <2> QED BY <2>1, <2>3, <2>4
<1>3. \A c : AsCurrent(c) => AsCurrent(c)'
  BY <1>2, Zenon DEF AsCurrent
<1>4. ASSUME NEW cache \in {NoCache} \cup Content, Judge(w, cache),
             cache # NoCache => AsCurrent(cache)
      PROVE  CacheInv'
  BY <1>2, <1>3, <1>4, JudgeFacts DEF CacheInv
<1>5. CASE StatBlocked(w)
  <2>1. CASE Judge(w, NoCache) \/ Judge(w, worker[w].cache)
    BY <1>4, <2>1 DEF CacheInv, TypeOK
  <2>2. CASE worker' = [worker EXCEPT ![w].stage = "load", ![w].saw = Current]
    <3>1. AsCurrent(Current)
      BY DEF AsCurrent, CacheInv
    <3>2. /\ \A v \in Workers \ {w} : worker'[v] = worker[v]
          /\ worker'[w].saw = Current /\ worker'[w].cache = worker[w].cache
      BY <2>2 DEF TypeOK
    <3> QED BY <1>2, <1>3, <3>1, <3>2 DEF CacheInv
  <2> QED BY <1>5, <2>1, <2>2, Zenon DEF StatBlocked
<1>6. CASE LoadBlocked(w)
  <2> DEFINE saw == worker[w].saw
             new == [lines |-> ReadBlocked(saw), mtime |-> saw.mtime]
  <2>1. worker[w].stage = "load" /\ Judge(w, new)
    BY <1>6 DEF LoadBlocked
  <2>2. AsCurrent(saw) /\ new \in Content /\ new.mtime = saw.mtime
        /\ (saw.lines = Current.lines => new.lines = Current.lines)
    BY <2>1, LoadFacts DEF CacheInv
  <2> HIDE DEF new, saw
  <2>3. AsCurrent(new)
    BY <2>2 DEF AsCurrent
  <2> QED BY <1>4, <2>1, <2>2, <2>3
<1>7. CASE LoadFails(w)
  BY <1>4, <1>7 DEF LoadFails, CacheInv, TypeOK
<1> QED BY <1>5, <1>6, <1>7

(* refresh_blocked_cache: for any number of programs that write the file,  *)
(* with the lock or without, a cache that passes the comparison of the     *)
(* mtime has the lines of the file, unless the last change left an mtime   *)
(* that is not later than all before it.                                   *)
THEOREM ChecksAreCurrent == Spec => []CheckIsCurrent
<1>1. Init => CacheInv
  BY DEF Init, CacheInv, Current, NoFile, Unchecked
<1>2. TypeOK /\ TypeOK' /\ CacheInv /\ [Next]_vars => CacheInv'
  <2> SUFFICES ASSUME TypeOK, TypeOK', CacheInv, [Next]_vars PROVE CacheInv'
    OBVIOUS
  <2>1. CASE UNCHANGED vars
    <3>1. UNCHANGED <<file, worker, newest, twice>>
      BY <2>1 DEF vars, history
    <3>2. Current' = Current
      BY <3>1 DEF Current, NoFile
    <3> QED BY <3>1, <3>2 DEF CacheInv, AsCurrent
  <2>2. ASSUME NEW w \in Workers, StatBlocked(w) \/ LoadBlocked(w) \/ LoadFails(w),
               Observe
        PROVE  CacheInv'
    BY <2>2, CacheInvWorker
  <2>3. CASE UNCHANGED worker /\ Observe
    BY <2>3, CacheInvKept
  <2>4. ASSUME NEW p \in Procs,
               \/ \E r \in Requests[p] : Begin(p, r)
               \/ RequestStep(p) \/ LockFails(p) \/ Kill(p)
        PROVE  UNCHANGED worker
    BY <2>4, Zenon
       DEF Begin, RequestStep, LockFails, Kill, ensure_blocked_file,
           blocked_lock, read_file_text, OpenTmp, WriteTmp, Rename, CloseLock
  <2>5. Tick => UNCHANGED worker
    BY DEF Tick
  <2> QED BY <2>1, <2>2, <2>3, <2>4, <2>5, Zenon DEF Next
<1>3. TypeOK /\ CacheInv => CheckIsCurrent
  BY DEF CacheInv, AsCurrent, CheckIsCurrent
<1> QED BY <1>1, <1>2, <1>3, BlockedFileTypes, PTL DEF Spec
-----------------------------------------------------------------------------
(* Linearizable: every step is one of the abstract list, or leaves it as   *)
(* it is.  What the list sees of a step of process p: the others' answers  *)
(* stay, and p's becomes a.                                                *)
Answers1(p, a) == /\ Answered(p)' = a
                  /\ \A q \in Writers \ {p} : Answered(q)' = Answered(q)

NoAnswer == \A q \in Writers : Answered(q)' = Answered(q)

Listed == ToSet(Lines(file))

(* The steps of BlockList in these terms.                                  *)
ListStep ==
    \/ Listed' = Listed /\ NoAnswer
    \/ \E p \in Writers :
          LET r == Answered(p).req
          IN  \/ /\ Answered(p) = Idle /\ Listed' = Listed
                 /\ \E s \in Requests[p] : Answers1(p, [req |-> s, rc |-> "pending"])
              \/ /\ Answered(p) # Idle /\ Answered(p).rc = "pending"
                 /\ Listed' = List!Effect(r, Listed)
                 /\ Answers1(p, [req |-> r, rc |-> List!Answer(r, Listed)])
              \/ /\ Answered(p) # Idle /\ Answered(p).rc = "pending"
                 /\ Listed' = Listed /\ Answers1(p, [req |-> r, rc |-> "err"])
              \/ Answered(p) # Idle /\ Listed' = Listed /\ Answers1(p, Idle)

(* The answer of a request under way.                                      *)
LEMMA AnsweredFacts ==
    ASSUME FileInv, NEW p \in Procs
    PROVE  /\ proc[p] = Idle <=> Answered(p) = Idle
           /\ proc[p] # Idle => /\ Answered(p) = [req |-> proc[p].req, rc |-> proc[p].rc]
                                /\ Answered(p).req = proc[p].req
                                /\ Answered(p).rc = proc[p].rc
                                /\ proc[p].req \in Requests[p] /\ proc[p].rc \in Answers
<1>1. CASE proc[p] = Idle
  BY <1>1 DEF Answered
<1>2. CASE proc[p] # Idle
  <2>1. proc[p] \in Work /\ proc[p].req \in Requests[p]
    BY <1>2 DEF FileInv, Fits
  <2>2. proc[p].req \in Request /\ proc[p].rc \in Answers
    BY <2>1 DEF Work
  <2>3. [req |-> proc[p].req, rc |-> proc[p].rc] \in [req : Request, rc : Answers]
    BY <2>2
  <2>4. Answered(p) = [req |-> proc[p].req, rc |-> proc[p].rc]
    BY <1>2 DEF Answered
  <2>5. Answered(p) # Idle
    BY <2>3, <2>4, BlockedFileAssumption
  <2> QED BY <1>2, <2>1, <2>2, <2>4, <2>5
<1> QED BY <1>1, <1>2

(* Processes that keep their request and its answer give no answer.        *)
LEMMA SameAnswer ==
    ASSUME NEW q, \/ proc'[q] = proc[q]
                  \/ /\ proc[q] # Idle /\ proc'[q] # Idle
                     /\ proc'[q].req = proc[q].req /\ proc'[q].rc = proc[q].rc
    PROVE  Answered(q)' = Answered(q)
BY DEF Answered

(* The abstract list is a function of the lines of blocked.conf.           *)
LEMMA SamePlace ==
    ASSUME Lines(file') = Lines(file)
    PROVE  Listed' = Listed
BY DEF Listed, Lines

(* A request is concluded, alone or while open files follow their inodes.  *)
LEMMA ConcludeAnswers ==
    ASSUME FileInv, NEW p \in Procs, proc[p] # Idle, NEW rc \in Answers,
           \/ Conclude(p, rc)
           \/ Follow(p, rc, [tmp |-> "gone"])
           \/ Follow(p, rc, [tmp |-> "blocked", blocked |-> "gone"])
    PROVE  Answers1(p, [req |-> Answered(p).req, rc |-> rc])
<1> DEFINE w == Concluded(proc[p], rc)
<1>1. /\ TypeOK /\ Fits(p, proc[p], file, lock)
      /\ Writers \subseteq Procs
  BY DEF FileInv, Procs
<1>2. w # Idle /\ w.req = proc[p].req /\ w.rc = rc
  BY <1>1, ConcludedFits
<1>3. Answered(p).req = proc[p].req
  BY AnsweredFacts
<1>4. CASE Conclude(p, rc)
  <2>1. proc' = [proc EXCEPT ![p] = w]
    BY <1>4 DEF Conclude, Concluded
  <2> HIDE DEF w
  <2>2. proc'[p] = w /\ \A q \in Writers \ {p} : proc'[q] = proc[q]
    BY <1>1, <2>1 DEF TypeOK
  <2>3. Answered(p)' = [req |-> w.req, rc |-> w.rc]
    BY <1>2, <2>2 DEF Answered
  <2>4. \A q \in Writers \ {p} : Answered(q)' = Answered(q)
    BY <2>2, SameAnswer
  <2> QED BY <1>2, <1>3, <2>3, <2>4 DEF Answers1
<1>5. ASSUME NEW where, Follow(p, rc, where),
             \/ where = [tmp |-> "gone"]
             \/ where = [tmp |-> "blocked", blocked |-> "gone"]
      PROVE  Answers1(p, [req |-> Answered(p).req, rc |-> rc])
  <2>1. proc' = [q \in Procs |->
                   IF q = p THEN w
                   ELSE IF proc[q] # Idle /\ proc[q].fd \in DOMAIN where
                   THEN [proc[q] EXCEPT !.fd = where[proc[q].fd]] ELSE proc[q]]
    BY <1>5 DEF Follow, Concluded
  <2> HIDE DEF w
  <2>2. proc'[p] = w
    BY <2>1
  <2>3. Answered(p)' = [req |-> w.req, rc |-> w.rc]
    BY <1>2, <2>2 DEF Answered
  <2>4. ASSUME NEW q \in Writers \ {p} PROVE Answered(q)' = Answered(q)
    <3>1. CASE ~(proc[q] # Idle /\ proc[q].fd \in DOMAIN where)
      <4>1. proc'[q] = proc[q]
        BY <1>1, <2>1, <3>1
      <4> QED BY <4>1, SameAnswer
    <3>2. CASE proc[q] # Idle /\ proc[q].fd \in DOMAIN where
      <4> DEFINE x == [proc[q] EXCEPT !.fd = where[proc[q].fd]]
      <4>1. proc'[q] = x
        BY <1>1, <2>1, <3>2
      <4>2. proc[q] \in Work
        BY <1>1, <3>2 DEF TypeOK
      <4>3. x.req = proc[q].req /\ x.rc = proc[q].rc
        BY <4>2 DEF Work
      <4>4. x # Idle
        <5>1. where[proc[q].fd] \in Places
          BY <1>5, <3>2 DEF Places
        <5>2. x \in Work
          BY <4>2, <5>1 DEF Work
        <5> QED BY <5>2, BlockedFileAssumption
      <4> QED BY <3>2, <4>1, <4>3, <4>4, SameAnswer
    <3> QED BY <3>1, <3>2
  <2> QED BY <1>2, <1>3, <2>3, <2>4 DEF Answers1
<1> QED BY <1>4, <1>5

(* No console is at work, nor has one met the writer in the section.       *)
Quiet == ~Visiting /\ overlapped = {}

(* What the invariant says of a writer at work.                            *)
LEMMA QuietFacts ==
    ASSUME FileInv, Quiet, NEW p \in Procs, proc[p] # Idle
    PROVE  /\ p \in Writers /\ Fits(p, proc[p], file, lock)
           /\ proc[p] \in Work /\ proc[p].req \in Requests[p]
           /\ proc[p].stage \in Section => Ready(proc[p], file)
           /\ Answered(p) # Idle /\ Answered(p).req = proc[p].req
           /\ proc[p].stage # "close" => Answered(p).rc = "pending"
<1>1. p \in Writers
  BY DEF Quiet, Visiting, Procs
<1>2. Fits(p, proc[p], file, lock)
  BY DEF FileInv
<1>3. proc[p].stage \in Section => Ready(proc[p], file)
  BY <1>1, <1>2 DEF FileInv, Fits, Quiet
<1>4. Answered(p) # Idle /\ Answered(p).req = proc[p].req /\ Answered(p).rc = proc[p].rc
  BY AnsweredFacts
<1> QED BY <1>1, <1>2, <1>3, <1>4 DEF Fits

(* A request goes on, and the list is as it was.                           *)
LEMMA GoesOn ==
    ASSUME FileInv, NEW p \in Procs, proc[p] # Idle, NEW w,
           proc' = [proc EXCEPT ![p] = w], w \in Work,
           w.req = proc[p].req, w.rc = proc[p].rc,
           Lines(file') = Lines(file)
    PROVE  ListStep
<1>1. proc'[p] = w /\ \A q \in Writers \ {p} : proc'[q] = proc[q]
  BY DEF FileInv, TypeOK, Procs
<1>2. w # Idle
  BY BlockedFileAssumption
<1>3. NoAnswer
  BY <1>1, <1>2, SameAnswer DEF NoAnswer
<1> QED BY <1>3, SamePlace DEF ListStep

(* A request fails, or finds that there is nothing to do.                  *)
LEMMA Concludes ==
    ASSUME FileInv, Quiet, NEW p \in Procs, proc[p] # Idle,
           proc[p].stage # "close", NEW rc \in Answers,
           \/ Conclude(p, rc)
           \/ Follow(p, rc, [tmp |-> "gone"])
           \/ Follow(p, rc, [tmp |-> "blocked", blocked |-> "gone"]),
           LET r == proc[p].req
           IN  \/ rc = "err" /\ Lines(file') = Lines(file)
               \/ /\ rc = List!Answer(r, Listed)
                  /\ ToSet(Lines(file')) = List!Effect(r, Listed)
    PROVE  ListStep
<1>1. /\ p \in Writers /\ Answered(p) # Idle /\ Answered(p).req = proc[p].req
      /\ Answered(p).rc = "pending"
  BY QuietFacts
<1>2. Answers1(p, [req |-> Answered(p).req, rc |-> rc])
  BY ConcludeAnswers
<1>3. CASE rc = "err" /\ Lines(file') = Lines(file)
  <2>1. Listed' = Listed
    BY <1>3, SamePlace
  <2> QED BY <1>1, <1>2, <1>3, <2>1, Zenon DEF ListStep
<1>4. CASE /\ rc = List!Answer(proc[p].req, Listed)
           /\ ToSet(Lines(file')) = List!Effect(proc[p].req, Listed)
  <2>1. Listed' = List!Effect(Answered(p).req, Listed)
    BY <1>1, <1>4 DEF Listed, Lines
  <2> QED BY <1>1, <1>2, <1>4, <2>1, Zenon DEF ListStep
<1> QED BY <1>3, <1>4

(* The steps of a request, one by one: the list changes with the rename.   *)
LEMMA BeginIsListStep ==
    ASSUME FileInv, NEW p \in Procs, NEW r \in Requests[p], Begin(p, r)
    PROVE  ListStep
<1>0. PICK w : /\ proc' = [proc EXCEPT ![p] = w] /\ w # Idle
               /\ Fits(p, w, file, lock) /\ w.req = r /\ w.rc = "pending"
  BY BegunFits
<1>1. /\ proc[p] = Idle /\ UNCHANGED file /\ proc'[p] = w
      /\ \A q \in Writers \ {p} : proc'[q] = proc[q]
  BY <1>0 DEF Begin, FileInv, TypeOK, Procs
<1>2. Listed' = Listed /\ \A q \in Writers \ {p} : Answered(q)' = Answered(q)
  BY <1>1, SameAnswer DEF Listed, Lines
<1>3. CASE p \notin Writers
  BY <1>2, <1>3 DEF ListStep, NoAnswer
<1>4. CASE p \in Writers
  <2>2. Answered(p)' = [req |-> r, rc |-> "pending"]
    BY <1>0, <1>1 DEF Answered
  <2>3. Answered(p) = Idle /\ Answers1(p, [req |-> r, rc |-> "pending"])
    BY <1>1, <1>2, <2>2 DEF Answered, Answers1
  <2> QED BY <1>2, <1>4, <2>3, Zenon DEF ListStep
<1> QED BY <1>3, <1>4

(* Before it reads, a writer does nothing to the abstract list.            *)
LEMMA MovesAreListSteps ==
    ASSUME FileInv, NEW p \in Procs, ensure_blocked_file(p) \/ blocked_lock(p)
    PROVE  ListStep
<1> DEFINE stage == IF ensure_blocked_file(p) THEN "lock" ELSE AfterLock(p)
           w == [proc[p] EXCEPT !.stage = stage]
<1>1. proc[p] # Idle /\ proc[p] \in Work /\ TypeOK
  BY AtFacts DEF ensure_blocked_file, blocked_lock
<1>2. w \in Work /\ w.req = proc[p].req /\ w.rc = proc[p].rc
  BY <1>1 DEF Work, Stages, AfterLock
<1>3. Lines(file') = Lines(file)
  BY <1>1, EmptyFacts DEF ensure_blocked_file, blocked_lock, Lines, TypeOK
<1>4. proc' = [proc EXCEPT ![p] = w]
  BY Zenon DEF ensure_blocked_file, blocked_lock, Goto
<1> HIDE DEF w
<1> QED BY <1>1, <1>2, <1>3, <1>4, GoesOn

(* A request that has nothing to change takes effect when it reads.        *)
LEMMA ReadIsListStep ==
    ASSUME FileInv, Quiet, NEW p \in Procs, read_file_text(p)
    PROVE  ListStep
<1> DEFINE r == proc[p].req
           s == Lines(file)
<1>1. At(p, "read") /\ UNCHANGED file
  BY DEF read_file_text
<1>2. /\ TypeOK /\ proc[p] # Idle /\ proc[p] \in Work /\ proc[p].stage = "read"
      /\ r \in Requests[p] /\ p \in Writers
  BY <1>1, AtFacts, QuietFacts
<1>3. s \in Seq(IPs) /\ Lines(file') = s /\ Listed = ToSet(s)
  BY <1>1, <1>2, CurrentFacts DEF TypeOK, Listed
<1>4. r.op # "remove" /\ r.op \in Ops
  BY <1>2, RequestFacts, BlockedFileAssumption DEF Request
<1>5. CASE Conclude(p, "err")
  BY <1>2, <1>3, <1>5, Concludes DEF Answers
<1>6. CASE r.op = "execute" /\ Contains(s, r.arg) /\ Conclude(p, "ok")
  <2>1. r.arg \in ToSet(s)
    BY <1>3, <1>6, ToSetOfSeq
  <2>2. List!Answer(r, Listed) = "ok" /\ List!Effect(r, Listed) = ToSet(s)
    BY <1>2, <1>3, <1>6, <2>1, PreparedLines
  <2> QED BY <1>2, <1>3, <1>6, <2>2, Concludes DEF Answers
<1>7. CASE r.op = "unblock" /\ ~Contains(s, r.arg) /\ Conclude(p, "absent")
  <2>1. r.arg \notin ToSet(s)
    BY <1>3, <1>7, ToSetOfSeq
  <2>2. List!Answer(r, Listed) = "absent" /\ List!Effect(r, Listed) = ToSet(s)
    BY <1>2, <1>3, <1>7, <2>1, PreparedLines
  <2> QED BY <1>2, <1>3, <1>7, <2>2, Concludes DEF Answers
<1>8. ASSUME NEW buf \in Seq(IPs),
             proc' = [proc EXCEPT ![p].stage = "open", ![p].buf = buf]
      PROVE  ListStep
  <2> DEFINE w == [proc[p] EXCEPT !.stage = "open", !.buf = buf]
  <2>1. proc' = [proc EXCEPT ![p] = w]
    BY <1>8
  <2>2. w \in Work /\ w.req = proc[p].req /\ w.rc = proc[p].rc
    BY <1>2 DEF Work, Stages
  <2> HIDE DEF w
  <2> QED BY <1>2, <1>3, <2>1, <2>2, GoesOn
<1>9. CASE r.op = "execute" /\ proc' = [proc EXCEPT ![p].stage = "open",
                                                   ![p].buf = Append(s, r.arg)]
  BY <1>2, <1>3, <1>8, <1>9, PreparedLines
<1>10. CASE r.op = "unblock" /\ proc' = [proc EXCEPT ![p].stage = "open",
                                             ![p].buf = LinesWithout(s, r.arg)]
  BY <1>2, <1>3, <1>8, <1>10, PreparedLines
<1>11. \/ Conclude(p, "err")
       \/ r.op = "execute" /\ Contains(s, r.arg) /\ Conclude(p, "ok")
       \/ r.op # "execute" /\ ~Contains(s, r.arg) /\ Conclude(p, "absent")
       \/ r.op = "execute" /\ proc' = [proc EXCEPT ![p].stage = "open",
                                                   ![p].buf = Append(s, r.arg)]
       \/ r.op = "unblock" /\ proc' = [proc EXCEPT ![p].stage = "open",
                                             ![p].buf = LinesWithout(s, r.arg)]
  BY <1>4, ReadOutcomes, Zenon
<1>12. r.op \notin {"sync", "start"}
  BY <1>1, <1>2, AtFacts DEF Fits
<1>13. r.op \in {"execute", "unblock"}
  BY <1>4, <1>12 DEF Ops
<1> HIDE DEF r
<1> QED BY <1>5, <1>6, <1>7, <1>9, <1>10, <1>11, <1>13

(* A request given up in the section has no effect.                        *)
LEMMA AbortIsListStep ==
    ASSUME FileInv, Quiet, NEW p \in Procs, proc[p] # Idle,
           proc[p].stage \in Section, Abort(p)
    PROVE  ListStep
<1>1. CASE Conclude(p, "err") /\ UNCHANGED file
  BY <1>1, Concludes DEF Answers, Section
<1>2. CASE /\ file' = [file EXCEPT !["tmp"] = Missing]
           /\ Follow(p, "err", [tmp |-> "gone"])
  <2>1. Lines(file') = Lines(file)
    BY <1>2 DEF Lines, FileInv, TypeOK
  <2> QED BY <1>2, <2>1, Concludes DEF Answers, Section
<1> QED BY <1>1, <1>2, Zenon DEF Abort

(* Opening the temporary file is not seen.                                 *)
LEMMA OpenIsListStep ==
    ASSUME FileInv, Quiet, NEW p \in Procs, OpenTmp(p)
    PROVE  ListStep
<1>1. /\ TypeOK /\ proc[p] # Idle /\ proc[p] \in Work /\ proc[p].stage = "open"
  BY AtFacts DEF OpenTmp
<1>2. CASE Conclude(p, "err") /\ UNCHANGED file
  BY <1>1, <1>2, Concludes DEF Answers
<1>3. CASE /\ file' = [file EXCEPT !["tmp"] = Empty]
           /\ proc' = [proc EXCEPT ![p].stage = "write", ![p].fd = "tmp"]
  <2> DEFINE w == [proc[p] EXCEPT !.stage = "write", !.fd = "tmp"]
  <2>1. proc' = [proc EXCEPT ![p] = w]
    BY <1>3
  <2>2. w \in Work /\ w.req = proc[p].req /\ w.rc = proc[p].rc
    BY <1>1 DEF Work, Stages, Places
  <2>3. Lines(file') = Lines(file)
    BY <1>1, <1>3 DEF TypeOK, Lines
  <2> HIDE DEF w
  <2> QED BY <1>1, <2>1, <2>2, <2>3, GoesOn
<1> QED BY <1>2, <1>3, Zenon DEF OpenTmp

(* Writing the temporary file is not seen.                                 *)
LEMMA WriteIsListStep ==
    ASSUME FileInv, Quiet, NEW p \in Procs, WriteTmp(p)
    PROVE  ListStep
<1>1. /\ TypeOK /\ proc[p] # Idle /\ proc[p] \in Work /\ proc[p].stage = "write"
  BY AtFacts DEF WriteTmp
<1>2. CASE Abort(p)
  BY <1>1, <1>2, AbortIsListStep DEF Section
<1>3. CASE ~Abort(p)
  <2>1. Ready(proc[p], file)
    BY <1>1, QuietFacts DEF Section
  <2>2. proc[p].fd = "tmp"
    BY <1>1, <2>1 DEF Ready
  <2>3. file' = [file EXCEPT !["tmp"] = Overwritten(file["tmp"], proc[p].buf)]
    BY <1>3, <2>2, Zenon DEF WriteTmp
  <2>4. Lines(file') = Lines(file)
    BY <1>1, <2>3 DEF TypeOK, Lines
  <2> DEFINE w == [proc[p] EXCEPT !.stage = "rename", !.fd = "none", !.buf = <<>>]
  <2>5. proc' = [proc EXCEPT ![p] = w]
    BY <1>3, Zenon DEF WriteTmp
  <2>6. w \in Work /\ w.req = proc[p].req /\ w.rc = proc[p].rc
    BY <1>1, EmptySeq DEF Work, Stages, Places
  <2> HIDE DEF w
  <2> QED BY <1>1, <2>4, <2>5, <2>6, GoesOn
<1> QED BY <1>2, <1>3

(* A request that changes the list takes effect at its rename.             *)
LEMMA RenameIsListStep ==
    ASSUME FileInv, Quiet, NEW p \in Procs, Rename(p)
    PROVE  ListStep
<1>1. /\ TypeOK /\ proc[p] # Idle /\ proc[p] \in Work /\ proc[p].stage = "rename"
  BY AtFacts DEF Rename
<1>2. CASE Abort(p)
  BY <1>1, <1>2, AbortIsListStep DEF Section
<1>3. CASE /\ file["tmp"] # Missing
           /\ file' = [file EXCEPT !["blocked"] = file["tmp"], !["tmp"] = Missing]
           /\ Follow(p, "ok", [tmp |-> "blocked", blocked |-> "gone"])
  <2>1. Ready(proc[p], file)
    BY <1>1, QuietFacts DEF Section
  <2>2. /\ ToSet(file["tmp"].lines) = List!Effect(proc[p].req, Listed)
        /\ List!Answer(proc[p].req, Listed) = "ok"
    BY <1>1, <2>1 DEF Ready, Listed
  <2>3. Lines(file') = file["tmp"].lines
    BY <1>1, <1>3 DEF TypeOK, Lines
  <2> QED BY <1>1, <1>3, <2>2, <2>3, Concludes DEF Answers
<1> QED BY <1>2, <1>3, Zenon DEF Rename

(* A writer returns its answer, or is killed.                              *)
LEMMA EndIsListStep ==
    ASSUME FileInv, NEW p \in Procs, CloseLock(p) \/ Kill(p)
    PROVE  ListStep
<1>1. proc[p] # Idle /\ proc' = [proc EXCEPT ![p] = Idle] /\ UNCHANGED file
  BY DEF CloseLock, Kill, At
<1>2. /\ Answered(p) # Idle /\ Listed' = Listed
      /\ \A q \in Writers \ {p} : Answered(q)' = Answered(q)
  BY <1>1, AnsweredFacts, SameAnswer, SamePlace DEF FileInv, TypeOK, Procs
<1>3. Answered(p)' = Idle
  BY <1>1 DEF Answered, FileInv, TypeOK
<1>4. CASE p \in Writers
  BY <1>2, <1>3, <1>4, Zenon DEF ListStep, Answers1
<1>5. CASE p \notin Writers
  BY <1>2, <1>5 DEF ListStep, NoAnswer
<1> QED BY <1>4, <1>5

(* While nothing interferes, every step is one of the list.                *)
LEMMA QuietStep ==
    ASSUME FileInv, Quiet, Next
    PROVE  ListStep
<1>1. ASSUME NEW p \in Procs, NEW r \in Requests[p], Begin(p, r) PROVE ListStep
  BY <1>1, BeginIsListStep
<1>2. ASSUME NEW p \in Procs, RequestStep(p) PROVE ListStep
  BY <1>2, MovesAreListSteps, ReadIsListStep, OpenIsListStep, WriteIsListStep,
     RenameIsListStep, EndIsListStep, Zenon DEF RequestStep
<1>3. ASSUME NEW p \in Procs, LockFails(p) PROVE ListStep
  <2>1. /\ proc[p] # Idle /\ proc[p].stage # "close" /\ Conclude(p, "err")
        /\ Lines(file') = Lines(file)
    BY <1>3 DEF LockFails, At
  <2> QED BY <2>1, Concludes DEF Answers
<1>4. ASSUME NEW p \in Procs, Kill(p) PROVE ListStep
  BY <1>4, EndIsListStep
<1>5. ASSUME UNCHANGED <<file, proc>> PROVE ListStep
  BY <1>5, SamePlace, SameAnswer DEF ListStep, NoAnswer
<1>6. ASSUME NEW w \in Workers, StatBlocked(w) \/ LoadBlocked(w) \/ LoadFails(w)
      PROVE  UNCHANGED <<file, proc>>
  BY <1>6, Zenon DEF StatBlocked, LoadBlocked, LoadFails
<1>7. Tick => UNCHANGED <<file, proc>>
  BY DEF Tick
<1> QED BY <1>1, <1>2, <1>3, <1>4, <1>5, <1>6, <1>7, Zenon DEF Next

(* What the list sees is what these terms say.                             *)
LEMMA ListStepIsNext ==
    ASSUME TypeOK, TypeOK', ListStep
    PROVE  List!ListNext
<1> DEFINE L == ToSet(Current.lines)
           ops == [p \in Writers |-> Answered(p)]
<1>1. L = Listed /\ L' = Listed'
  BY CurrentFacts, NextCurrentFacts DEF TypeOK, Listed, Lines
<1>2. /\ \A p \in Writers : ops[p] = Answered(p) /\ ops'[p] = Answered(p)'
      /\ ops' \in [Writers -> {Answered(p)' : p \in Writers}]
  OBVIOUS
<1>3. (Visiting \/ overlapped # {})' \in BOOLEAN
  BY Zenon
<1>4. CASE Listed' = Listed /\ NoAnswer
  <2>1. ops' = ops
    BY <1>4 DEF NoAnswer
  <2>2. List!Trespass
    BY <1>1, <1>4, <2>1, Zenon DEF List!Trespass
  <2> QED BY <1>3, <2>2, Zenon DEF List!ListNext
<1>5. ASSUME NEW p \in Writers, NEW a, Answers1(p, a)
      PROVE  ops' = [ops EXCEPT ![p] = a]
  <2>1. ops'[p] = a /\ \A q \in Writers \ {p} : ops'[q] = ops[q]
    BY <1>2, <1>5 DEF Answers1
  <2> QED BY <2>1
<1>6. ASSUME NEW p \in Writers, Answered(p) = Idle, Listed' = Listed,
             NEW r \in Requests[p], Answers1(p, [req |-> r, rc |-> "pending"])
      PROVE  List!Invoke(p, r)
  BY <1>1, <1>2, <1>5, <1>6 DEF List!Invoke, List!Op
<1>7. ASSUME NEW p \in Writers, Answered(p) # Idle, NEW rc,
             Answers1(p, [req |-> Answered(p).req, rc |-> rc])
      PROVE  ops' = [ops EXCEPT ![p].rc = rc]
  <2>1. Answered(p) = [req |-> proc[p].req, rc |-> proc[p].rc]
    BY <1>7 DEF Answered
  <2>2. [Answered(p) EXCEPT !.rc = rc] = [req |-> Answered(p).req, rc |-> rc]
    BY <2>1
  <2>3. ops' = [ops EXCEPT ![p] = [Answered(p) EXCEPT !.rc = rc]]
    BY <1>5, <1>7, <2>2
  <2> QED BY <1>2, <2>3
<1>8. ASSUME NEW p \in Writers, Answered(p) # Idle, Answered(p).rc = "pending",
             Listed' = List!Effect(Answered(p).req, Listed),
             Answers1(p, [req |-> Answered(p).req,
                          rc |-> List!Answer(Answered(p).req, Listed)])
      PROVE  List!Apply(p)
  BY <1>1, <1>2, <1>7, <1>8 DEF List!Apply, List!Pending
<1>9. ASSUME NEW p \in Writers, Answered(p) # Idle, Answered(p).rc = "pending",
             Listed' = Listed, Answers1(p, [req |-> Answered(p).req, rc |-> "err"])
      PROVE  List!Fail(p)
  BY <1>1, <1>2, <1>7, <1>9 DEF List!Fail, List!Pending
<1>10. ASSUME NEW p \in Writers, Answered(p) # Idle, Listed' = Listed,
              Answers1(p, Idle)
       PROVE  List!Finish(p)
  BY <1>1, <1>2, <1>5, <1>10 DEF List!Finish
<1>11. CASE ~(Listed' = Listed /\ NoAnswer)
  <2>1. \E p \in Writers : \/ \E r \in Requests[p] : List!Invoke(p, r)
                           \/ List!Apply(p) \/ List!Fail(p) \/ List!Finish(p)
    BY <1>6, <1>8, <1>9, <1>10, <1>11, Zenon DEF ListStep
  <2> QED BY <1>3, <2>1, Zenon DEF List!ListNext
<1> QED BY <1>4, <1>11

(* While a console is or was in the way, the list is still one of          *)
(* addresses and the answers are answers.                                  *)
LEMMA Interference ==
    ASSUME FileInv, FileInv', ~Quiet
    PROVE  List!ListNext
<1>1. (Visiting \/ overlapped # {})' \in BOOLEAN /\ (Visiting \/ overlapped # {})
  BY Zenon DEF Quiet
<1>2. ToSet(Current'.lines) \subseteq IPs
  <2>1. Current'.lines \in Seq(IPs)
    BY NextCurrentFacts DEF FileInv, TypeOK
  <2> QED BY <2>1, ToSetOfSeq
<1>3. ASSUME NEW p \in Writers PROVE Answered(p)' \in List!OpStates(p)
  <2>1. CASE proc'[p] = Idle
    BY <2>1 DEF Answered, List!OpStates
  <2>2. CASE proc'[p] # Idle
    <3>1. proc'[p] \in Work /\ proc'[p].req \in Requests[p]
      BY <2>2 DEF FileInv, Fits, Procs
    <3>2. proc'[p].rc \in List!Answers
      BY <3>1 DEF Work, Answers, List!Answers
    <3>3. Answered(p)' = [req |-> proc'[p].req, rc |-> proc'[p].rc]
      BY <2>2 DEF Answered
    <3> QED BY <3>1, <3>2, <3>3 DEF List!OpStates, List!Op
  <2> QED BY <2>1, <2>2
<1>4. List!Interfered
  BY <1>1, <1>2, <1>3 DEF List!Interfered
<1> QED BY <1>1, <1>4, Zenon DEF List!ListNext

(* blocked_lock and write_atomic make every request of the daemon and of   *)
(* gfrguard-recover atomic: for any number of them, of console requests    *)
(* and of addresses, the files implement the abstract list.                *)
THEOREM ListImplemented == Spec => Linearizable
<1>1. Init => List!ListInit
  <2> SUFFICES ASSUME Init PROVE List!ListInit
    OBVIOUS
  <2>1. ToSet(Current.lines) = {}
    <3>1. Current.lines = <<>>
      BY DEF Init, Current, NoFile
    <3>2. ToSet(<<>>) = {}
      <4> DEFINE e == <<>>
      <4>1. e \in Seq(IPs) /\ Len(e) = 0
        BY EmptySeq
      <4>2. ToSet(e) = {e[i] : i \in 1 .. Len(e)}
        BY <4>1, ToSetOfSeq
      <4> HIDE DEF e
      <4>3. ToSet(e) = {}
        BY <4>1, <4>2
      <4> QED BY <4>3 DEF e
    <3> QED BY <3>1, <3>2
  <2>2. [p \in Writers |-> Answered(p)] = [p \in Writers |-> Idle]
    BY DEF Init, Answered, Procs
  <2>3. (Visiting \/ overlapped # {}) = FALSE
    BY Zenon DEF Init, Visiting, Procs
  <2> QED BY <2>1, <2>2, <2>3, Zenon DEF List!ListInit
<1>2. FileInv /\ FileInv' /\ [Next]_vars => [List!ListNext]_(List!listVars)
  <2> SUFFICES ASSUME FileInv, FileInv', [Next]_vars
               PROVE  List!ListNext \/ UNCHANGED List!listVars
    OBVIOUS
  <2>1. CASE Next /\ Quiet
    BY <2>1, QuietStep, ListStepIsNext DEF FileInv
  <2>2. CASE ~Quiet
    BY <2>2, Interference
  <2>3. CASE UNCHANGED vars
    <3>1. UNCHANGED <<file, proc, overlapped>>
      BY <2>3 DEF vars, history
    <3> QED BY <3>1 DEF List!listVars, Current, NoFile, Answered, Visiting
  <2> QED BY <2>1, <2>2, <2>3
<1> QED BY <1>1, <1>2, FileInvariant, PTL DEF Spec, Linearizable, List!ListSpec
=============================================================================
