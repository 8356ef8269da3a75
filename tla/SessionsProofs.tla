---------------------------- MODULE SessionsProofs ----------------------------
(***************************************************************************)
(* Theorems about the life of worker sessions.                             *)
(***************************************************************************)
EXTENDS Sessions, FiniteSetTheorems, FunctionTheorems, WellFoundedInduction, TLAPS

-----------------------------------------------------------------------------
(* Names, and the next process and call *)

\* A set of numbers has a least one.
LEMMA LeastExists ==
  ASSUME NEW S \in SUBSET Nat, S # {}
  PROVE  \E x \in S : \A y \in S : x <= y
<1>1. PICK x \in S : \A y \in S : ~(<<y, x>> \in OpToRel(<, Nat))
  BY NatLessThanWellFounded, WFMin
<1>2. ASSUME NEW y \in S
      PROVE  x <= y
  <2>1. y < x => <<y, x>> \in OpToRel(<, Nat)
    BY Zenon DEF OpToRel
  <2>2. ~(y < x)
    BY <1>1, <2>1, Zenon
  <2>3. x \in Nat /\ y \in Nat
    OBVIOUS
  <2> QED  BY <2>2, <2>3
<1> QED  BY <1>2

LEMMA BoundsAreNats ==
  /\ MaxSids \in Nat /\ MaxProcs \in Nat /\ MaxCalls \in Nat /\ MaxMishaps \in Nat
  /\ MaxSids > 0 /\ MaxProcs > 0 /\ MaxCalls > 0
  /\ Sids \subseteq Nat /\ Procs \subseteq Nat /\ Calls \subseteq Nat
  /\ None \notin Sids /\ None \notin Procs /\ None \notin Calls /\ None \notin Assignments
  /\ None \notin Record /\ None \notin ClosedRecord
<1>1. /\ MaxSids \in Nat /\ MaxProcs \in Nat /\ MaxCalls \in Nat /\ MaxMishaps \in Nat
      /\ MaxSids > 0 /\ MaxProcs > 0 /\ MaxCalls > 0
  BY SessionsAssumption
<1> QED  BY <1>1, NoneAssumption DEF Sids, Procs, Calls, Assignments

\* A process that is still free is there for a new pane.
LEMMA NextProcIsFree ==
  ASSUME SpareProc
  PROVE  NextProc \in Procs /\ proc[NextProc].pc = "none"
<1> DEFINE Free == {p \in Procs : proc[p].pc = "none"}
<1>1. Free \in SUBSET Nat /\ Free # {}
  BY BoundsAreNats DEF SpareProc
<1>2. PICK p \in Free : \A q \in Free : p <= q
  BY <1>1, LeastExists
<1>3. \A q \in 1..(p - 1) : proc[q].pc # "none"
  <2> SUFFICES ASSUME NEW q \in 1..(p - 1), proc[q].pc = "none" PROVE FALSE
    OBVIOUS
  <2>1. q \in Free
    BY <1>1, BoundsAreNats DEF Procs
  <2> QED  BY <1>1, <1>2, <2>1
<1> QED  BY <1>2, <1>3 DEF NextProc

\* So is a call.
LEMMA NextCallIsFree ==
  ASSUME Spare
  PROVE  NextCall \in Calls /\ call[NextCall].pc = "free"
<1> DEFINE Free == {c \in Calls : call[c].pc = "free"}
<1>1. Free \in SUBSET Nat /\ Free # {}
  BY BoundsAreNats DEF Spare
<1>2. PICK p \in Free : \A q \in Free : p <= q
  BY <1>1, LeastExists
<1>3. \A q \in 1..(p - 1) : call[q].pc # "free"
  <2> SUFFICES ASSUME NEW q \in 1..(p - 1), call[q].pc = "free" PROVE FALSE
    OBVIOUS
  <2>1. q \in Free
    BY <1>1, BoundsAreNats DEF Calls
  <2> QED  BY <1>1, <1>2, <2>1
<1> QED  BY <1>2, <1>3 DEF NextCall

\* A name of a worker, and one of a nested session.
Plain(name) == name = <<>> \/ name[1] # 0

Numbers == 2..(MaxCalls + MaxSids)

LEMMA Appended ==
  ASSUME NEW base \in Names, NEW k \in Numbers
  PROVE  /\ Append(base, k) \in Names /\ Append(base, k) # base
         /\ Plain(Append(base, k)) <=> Plain(base)
         /\ \A j \in Numbers : Append(base, j) = Append(base, k) => j = k
<1>1. k \in 0..(MaxCalls + MaxSids) /\ k # 0
  BY BoundsAreNats DEF Numbers
<1>2. Append(base, k) \in Names /\ Len(Append(base, k)) = Len(base) + 1 /\ Len(base) \in Nat
  BY <1>1 DEF Names
<1>3. Append(base, k)[Len(base) + 1] = k
  BY <1>1 DEF Names
<1>4. base # <<>> => Append(base, k)[1] = base[1]
  BY <1>1 DEF Names
<1>5. base = <<>> => Append(base, k)[1] = k
  BY <1>1
<1>6. Append(base, k) # <<>>
  BY <1>2
<1>7. \A j \in Numbers : Append(base, j)[Len(base) + 1] = j
  BY BoundsAreNats DEF Names, Numbers
<1> QED  BY <1>1, <1>2, <1>3, <1>4, <1>5, <1>6, <1>7 DEF Plain

\* _resolve_unique_name finds a free name, of the kind of the one asked for:
\* there are more numbers than sessions.
LEMMA UniqueNameIsFree ==
  ASSUME NEW base \in Names, NEW taken, IsFiniteSet(taken), Cardinality(taken) <= MaxSids
  PROVE  /\ UniqueName(base, taken) \in Names /\ UniqueName(base, taken) \notin taken
         /\ Plain(UniqueName(base, taken)) <=> Plain(base)
<1>1. CASE base \notin taken
  BY <1>1 DEF UniqueName
<1>2. CASE base \in taken
  <2> DEFINE Free == {k \in Numbers : Append(base, k) \notin taken}
             others == taken \ {base}
             f == [k \in Numbers |-> Append(base, k)]
  <2>1. Free # {}
    <3> SUFFICES ASSUME \A k \in Numbers : Append(base, k) \in taken PROVE FALSE
      OBVIOUS
    <3>1. IsFiniteSet(others) /\ Cardinality(others) = Cardinality(taken) - 1
      BY <1>2, FS_RemoveElement
    <3>2. f \in Injection(Numbers, others)
      <4>1. \A k \in Numbers : f[k] \in others
        BY Appended
      <4>2. \A j, k \in Numbers : f[j] = f[k] => j = k
        BY Appended
      <4>3. f \in [Numbers -> others]
        BY <4>1
      <4> HIDE DEF f, others
      <4> QED  BY <4>2, <4>3, Fun_IsInj
    <3>3. Cardinality(Numbers) <= Cardinality(others)
      <4> HIDE DEF f, others
      <4> QED  BY <3>1, <3>2, FS_Injection
    <3>4. Cardinality(Numbers) = MaxCalls + MaxSids - 1
      BY FS_Interval, BoundsAreNats DEF Numbers
    <3>5. Cardinality(taken) \in Nat
      BY FS_CardinalityType
    <3> QED  BY <3>1, <3>3, <3>4, <3>5, BoundsAreNats
  <2>2. Free \in SUBSET Nat
    BY BoundsAreNats DEF Numbers
  <2>3. PICK k \in Free : \A j \in Free : k <= j
    <3> HIDE DEF Free
    <3> QED  BY <2>1, <2>2, LeastExists
  <2>4. \A j \in 2..(k - 1) : Append(base, j) \in taken
    <3> SUFFICES ASSUME NEW j \in 2..(k - 1), Append(base, j) \notin taken PROVE FALSE
      OBVIOUS
    <3>1. j \in Free
      BY <2>2, BoundsAreNats DEF Numbers
    <3> QED  BY <2>2, <2>3, <3>1
  <2> DEFINE n == CHOOSE i \in Numbers : /\ Append(base, i) \notin taken
                                         /\ \A j \in 2..(i - 1) : Append(base, j) \in taken
  <2>5. n \in Numbers /\ Append(base, n) \notin taken
    BY <2>3, <2>4
  <2>6. UniqueName(base, taken) = Append(base, n)
    BY <1>2 DEF UniqueName, Numbers
  <2> HIDE DEF n
  <2> QED  BY <2>5, <2>6, Appended
<1> QED  BY <1>1, <1>2

\* Fewer names are taken than there are sessions.
LEMMA TakenIsSmall ==
  ASSUME NEW records, NEW sid
  PROVE  IsFiniteSet(Taken(records, sid)) /\ Cardinality(Taken(records, sid)) <= MaxSids
<1> DEFINE T == {t \in Sids \ {sid} : records[t] # None}
           f == [s \in T |-> records[s].name]
<1>1. IsFiniteSet(Sids) /\ Cardinality(Sids) = MaxSids
  BY FS_Interval, BoundsAreNats DEF Sids
<1>2. IsFiniteSet(T) /\ Cardinality(T) <= MaxSids
  BY <1>1, FS_Subset
<1>3. f \in [T -> Taken(records, sid)] /\ \A n \in Taken(records, sid) : \E s \in T : f[s] = n
  BY DEF Taken
<1>4. f \in Surjection(T, Taken(records, sid))
  <2> HIDE DEF f, T
  <2> QED  BY <1>3, Fun_IsSurj
<1>5. IsFiniteSet(Taken(records, sid)) /\ Cardinality(Taken(records, sid)) <= Cardinality(T)
  <2> HIDE DEF f, T
  <2> QED  BY <1>2, <1>4, FS_Surjection
<1>6. Cardinality(T) \in Nat /\ Cardinality(Taken(records, sid)) \in Nat
  BY <1>2, <1>5, FS_CardinalityType
<1> QED  BY <1>2, <1>5, <1>6, BoundsAreNats

\* Numbers up to a bound have a greatest one, and finitely many have a bound.
LEMMA GreatestExists ==
  ASSUME NEW S \in SUBSET Nat, S # {}, NEW b \in Nat, \A x \in S : x <= b
  PROVE  Max(S) \in S /\ \A x \in S : x <= Max(S)
<1> DEFINE rest == {b - x : x \in S}
<1>1. rest \in SUBSET Nat /\ rest # {}
  <2>1. \A x \in S : x \in Nat /\ b - x \in Nat
    OBVIOUS
  <2> QED  BY <2>1
<1>2. PICK r \in rest : \A y \in rest : r <= y
  <2> HIDE DEF rest
  <2> QED  BY <1>1, LeastExists
<1>3. PICK m \in S : r = b - m
  BY <1>2
<1>4. ASSUME NEW x \in S
      PROVE  m >= x
  <2>1. b - m <= b - x /\ x \in Nat /\ m \in Nat
    BY <1>2, <1>3
  <2> QED  BY <2>1
<1>5. Max(S) \in S /\ \A x \in S : Max(S) >= x
  BY <1>4 DEF Max
<1> QED  BY <1>5

LEMMA BoundExists ==
  ASSUME NEW n \in Nat, NEW f \in [1..n -> Nat]
  PROVE  \E b \in Nat : \A i \in 1..n : f[i] <= b
<1> DEFINE Bounded(k) == \E b \in Nat : \A i \in 1..k : f[i] <= b
           Bad == {k \in Nat : k <= n /\ ~Bounded(k)}
<1> SUFFICES ASSUME Bad # {} PROVE FALSE
  <2>1. n \notin Bad
    OBVIOUS
  <2> QED  BY <2>1
<1>1. Bad \in SUBSET Nat
  OBVIOUS
<1>2. PICK k \in Bad : \A j \in Bad : k <= j
  <2> HIDE DEF Bad
  <2> QED  BY <1>1, LeastExists
<1>3. Bounded(0)
  <2>1. \A i \in 1..0 : f[i] <= 0
    OBVIOUS
  <2> QED  BY <2>1
<1>4. k \in Nat /\ k <= n /\ ~Bounded(k)
  BY <1>2
<1>a. k # 0
  <2> HIDE DEF Bounded
  <2> QED  BY <1>3, <1>4
<1> HIDE DEF Bad
<1>b. k - 1 \notin Bad /\ k - 1 \in Nat /\ k - 1 <= n
  <2>1. \A j \in Bad : k <= j /\ j \in Nat
    BY <1>1, <1>2
  <2> HIDE DEF Bounded
  <2> QED  BY <2>1, <1>4, <1>a
<1>c. Bounded(k - 1)
  <2> HIDE DEF Bounded
  <2> QED  BY <1>b DEF Bad
<1>5. PICK b \in Nat : \A i \in 1..(k - 1) : f[i] <= b
  BY <1>c
<1> HIDE DEF Bounded
<1>6. \A i \in 1..k : f[i] \in Nat
  <2>1. \A i \in 1..k : i \in 1..n
    BY <1>4
  <2> QED  BY <2>1
<1> DEFINE m == IF b <= f[k] THEN f[k] ELSE b
<1>7. \A i \in 1..k : f[i] <= m
  <2>1. ASSUME NEW i \in 1..k PROVE f[i] <= m
    <3>1. i = k \/ i \in 1..(k - 1)
      BY <1>4
    <3>2. f[i] \in Nat /\ f[k] \in Nat
      BY <1>4, <1>6, <1>a
    <3>3. i # k => f[i] <= b
      BY <3>1, <1>5
    <3> QED  BY <3>2, <3>3
  <2> QED  BY <2>1
<1>8. m \in Nat
  BY <1>4, <1>6, <1>a
<1>9. Bounded(k)
  <2> HIDE DEF m
  <2> QED  BY <1>7, <1>8 DEF Bounded
<1> QED  BY <1>4, <1>9

-----------------------------------------------------------------------------
(* Types *)

\* The place of a new closed record is behind all others.
LEMMA NextCloseIsLast ==
  ASSUME TypeOK
  PROVE  /\ NextClose \in Nat
         /\ \A c \in Calls : call[c].at < NextClose
         /\ \A s \in Sids : closed[s] # None => closed[s].at < NextClose
<1> DEFINE f == [c \in 1..MaxCalls |-> call[c].at]
           g == [s \in 1..MaxSids |-> IF closed[s] # None THEN closed[s].at ELSE 0]
           S == {call[c].at : c \in Calls} \union {closed[s].at : s \in {t \in Sids : closed[t] # None}}
<1>1. f \in [1..MaxCalls -> Nat] /\ g \in [1..MaxSids -> Nat]
  BY BoundsAreNats DEF TypeOK, Calls, Sids, ToolCall, ClosedRecord
<1>2. PICK b \in Nat : \A i \in 1..MaxCalls : f[i] <= b
  <2> HIDE DEF f
  <2> QED  BY <1>1, BoundExists, BoundsAreNats
<1>3. PICK d \in Nat : \A i \in 1..MaxSids : g[i] <= d
  <2> HIDE DEF g
  <2> QED  BY <1>1, BoundExists, BoundsAreNats
<1>4. S \in SUBSET Nat /\ S # {} /\ \A x \in S : x <= b + d
  <2>1. \A c \in Calls : call[c].at \in Nat /\ call[c].at <= b
    BY <1>1, <1>2 DEF Calls, TypeOK, ToolCall
  <2>2. \A s \in Sids : closed[s] # None => closed[s].at \in Nat /\ closed[s].at <= d
    BY <1>1, <1>3 DEF Sids, TypeOK, ClosedRecord
  <2>3. 1 \in Calls
    BY BoundsAreNats DEF Calls
  <2>4. \A x \in S : x \in Nat /\ x <= b + d
    <3>1. ASSUME NEW x \in S PROVE x \in Nat /\ x <= b + d
      <4>1. CASE \E c \in Calls : x = call[c].at
        BY <2>1, <4>1
      <4>2. CASE \E t \in Sids : closed[t] # None /\ x = closed[t].at
        BY <2>2, <4>2
      <4> QED  BY <4>1, <4>2
    <3> QED  BY <3>1
  <2>5. S # {}
    BY <2>3
  <2> HIDE DEF S
  <2> QED  BY <2>4, <2>5
<1>5. Max(S) \in S /\ \A x \in S : x <= Max(S)
  <2> HIDE DEF S
  <2>1. b + d \in Nat
    OBVIOUS
  <2> QED  BY <1>4, <2>1, GreatestExists
<1>6. NextClose = 1 + Max(S)
  BY DEF NextClose
<1>7. Max(S) \in Nat
  BY <1>4, <1>5
<1>8. \A x \in S : x \in Nat /\ x < NextClose
  <2> HIDE DEF S
  <2>1. \A x \in S : x \in Nat /\ x <= Max(S)
    BY <1>4, <1>5
  <2> QED  BY <2>1, <1>6, <1>7
<1> HIDE DEF f, g
<1> QED  BY <1>6, <1>7, <1>8
-----------------------------------------------------------------------------
(* Types, and what belongs together in one record *)

\* A record of a worker has a worker's name, one of a nested session its own.
Kind(record) == record.nested <=> ~Plain(record.name)

\* The fields of process p, when u session ids are in use.
ProcFits(r, p, u) ==
    /\ r \in Process /\ Plain(r.name)
    /\ r.pc \in {"none", "dead"} => r.sid = None
    /\ r.pc \notin {"none", "dead"} => r.sid \in 1..u
    /\ r.pc \in {"write", "rewrite", "claim"} => r.rec \in Record /\ r.rec.pid = p /\ Kind(r.rec)
    /\ r.pc = "claim" => ~r.rec.nested

\* The fields of a call, when the sessions in R were resumed.
CallFits(r, R) ==
    /\ r \in ToolCall /\ Plain(r.name)
    /\ r.op = "none" => r.pc \in {"free", "done"} /\ r.sid = None /\ r.copy = None /\ r.before = {}
    /\ r.op = "spawn" => r.pc \in {"tab", "sidecar", "confirm"} /\ r.sid = None /\ r.copy = None
    /\ r.op = "resume" => r.pc \in {"tab", "poll", "fix", "forget"} /\ r.sid \in R
    /\ r.op = "prune" => r.pc = "unlink" /\ r.sid \in Sids
    /\ r.pc \in {"tab", "poll"} => r.copy = None
    /\ r.pc \in {"sidecar", "poll", "fix", "forget"} => r.proc \in Procs
    /\ r.pc \in {"fix", "forget", "unlink"} => r.copy \in Record
    /\ r.copy # None => Kind(r.copy)

FilesFit ==
    \A s \in Sids : /\ active[s] # None => Kind(active[s])
                    /\ closed[s] # None => Plain(closed[s].name)

TypeInv ==
    /\ TypeOK /\ FilesFit
    /\ \A p \in Procs : ProcFits(proc[p], p, used)
    /\ \A c \in Calls : CallFits(call[c], resumed)

\* What a prune leaves, and names in it, are typed.
LEMMA PrunedIsTyped ==
  ASSUME TypeOK
  PROVE  /\ Pruned \in [Sids -> Record \union {None}]
         /\ PrunedLost \in [Sids -> {"new", "no", "pruned", "rotated", "raced"}]
         /\ \A s \in Sids : Pruned[s] # None => Pruned[s] = active[s] /\ active[s] # None
  BY DEF TypeOK, Pruned, PrunedLost

LEMMA NoneIsTyped ==
  NoProc \in Process /\ NoCall \in ToolCall /\ Requested \in Names /\ Plain(Requested)
  BY DEF NoProc, NoCall, Requested, Names, Process, ToolCall, Hooks, Plain

\* Every name that is made unique is a name.
LEMMA UniqueNameIsName ==
  ASSUME NEW base \in Names, NEW records, NEW sid
  PROVE  /\ UniqueName(base, Taken(records, sid)) \in Names
         /\ UniqueName(base, Taken(records, sid)) \notin Taken(records, sid)
         /\ Plain(UniqueName(base, Taken(records, sid))) <=> Plain(base)
  BY TakenIsSmall, UniqueNameIsFree

LEMMA RecordIsTyped ==
  ASSUME NEW r \in Record
  PROVE  /\ r.name \in Names /\ r.pid \in Procs /\ r.window \in Procs \union {None}
         /\ r.nested \in BOOLEAN /\ r # None
  BY BoundsAreNats DEF Record

LEMMA FileIsTyped ==
  ASSUME TypeInv, NEW s \in Sids, active[s] # None
  PROVE  /\ active[s] \in Record /\ active[s].name \in Names /\ active[s].pid \in Procs
         /\ active[s].window \in Procs \union {None}
         /\ active[s].nested \in BOOLEAN /\ Kind(active[s])
  BY RecordIsTyped DEF TypeInv, TypeOK, FilesFit

LEMMA ProcIsTyped ==
  ASSUME TypeInv, NEW p \in Procs
  PROVE  /\ proc[p] \in Process
         /\ proc[p].sid \in Sids \union {None} /\ proc[p].name \in Names
         /\ proc[p].asg \in Assignments \union {None}
         /\ proc[p].parent \in Procs \union {None} /\ proc[p].blind \in BOOLEAN
         /\ proc[p].rec \in Record \union {None} /\ proc[p].again \in BOOLEAN
         /\ ProcFits(proc[p], p, used)
  BY DEF Process, TypeInv, TypeOK

\* A session that starts on a record it knows goes to rewrite it as its own.
LEMMA KnownIsOwn ==
  ASSUME TypeInv, NEW p \in Procs, StartKnown(p)
  PROVE  proc'[p].rec = [active[proc[p].sid] EXCEPT
                           !.pid = p,
                           !.window = IF Pane(p) # None /\ ~active[proc[p].sid].nested
                                      THEN Pane(p) ELSE @]
<1> DEFINE r == [active[proc[p].sid] EXCEPT
                   !.pid = p,
                   !.window = IF Pane(p) # None /\ ~active[proc[p].sid].nested THEN Pane(p) ELSE @]
<1>1. proc' = [proc EXCEPT ![p].pc = "rewrite", ![p].rec = r]
  BY DEF StartKnown
<1> HIDE DEF r
<1>2. proc \in [Procs -> Process]
  BY DEF TypeInv, TypeOK
<1>3. proc'[p].rec = r
  BY <1>1, <1>2 DEF Process
<1> QED  BY <1>3 DEF r

LEMMA CallIsTyped ==
  ASSUME TypeInv, NEW c \in Calls
  PROVE  /\ call[c] \in ToolCall
         /\ call[c].sid \in Sids \union {None} /\ call[c].name \in Names
         /\ call[c].proc \in Procs \union {None} /\ call[c].copy \in Record \union {None}
         /\ call[c].before \in SUBSET Sids /\ call[c].at \in Nat
         /\ CallFits(call[c], resumed)
  BY DEF ToolCall, TypeInv, TypeOK

LEMMA UsedIsTyped ==
  ASSUME TypeInv
  PROVE  /\ used \in Nat /\ 1..used \subseteq Sids
         /\ used < MaxSids => used + 1 \in Sids /\ used + 1 \in 0..MaxSids
         /\ Mishap => mishaps' \in 0..MaxMishaps
  BY BoundsAreNats DEF Sids, TypeInv, TypeOK, Mishap

LEMMA PaneIsTyped ==
  ASSUME TypeInv, NEW p \in Procs
  PROVE  Pane(p) \in Procs \union {None}
  BY ProcIsTyped DEF Pane

\* A step changes one process, one call, or one record.
LEMMA ProcChanges ==
  ASSUME TypeInv, NEW p \in Procs, NEW r, ProcFits(r, p, used'), proc' = [proc EXCEPT ![p] = r],
         used' \in Nat, used <= used'
  PROVE  proc' \in [Procs -> Process] /\ \A q \in Procs : ProcFits(proc'[q], q, used')
<1>1. proc \in [Procs -> Process] /\ r \in Process
  BY DEF TypeInv, TypeOK, ProcFits
<1>2. proc' \in [Procs -> Process]
  BY <1>1
<1>3. \A q \in Procs : proc'[q] = IF q = p THEN r ELSE proc[q]
  BY <1>1
<1>4. \A q \in Procs : ProcFits(proc[q], q, used')
  <2>1. \A q \in Procs : ProcFits(proc[q], q, used)
    BY DEF TypeInv
  <2>2. 1..used \subseteq 1..used'
    BY UsedIsTyped
  <2> QED  BY <2>1, <2>2 DEF ProcFits
<1> QED  BY <1>2, <1>3, <1>4

LEMMA ProcStays ==
  ASSUME TypeInv, UNCHANGED proc, used' \in Nat, used <= used'
  PROVE  proc' \in [Procs -> Process] /\ \A q \in Procs : ProcFits(proc'[q], q, used')
<1>1. \A q \in Procs : ProcFits(proc[q], q, used)
  BY DEF TypeInv
<1>2. 1..used \subseteq 1..used'
  BY UsedIsTyped
<1> QED  BY <1>1, <1>2 DEF ProcFits, TypeInv, TypeOK

LEMMA CallChanges ==
  ASSUME TypeInv, NEW c \in Calls, NEW r, CallFits(r, resumed'), call' = [call EXCEPT ![c] = r],
         resumed \subseteq resumed'
  PROVE  call' \in [Calls -> ToolCall] /\ \A d \in Calls : CallFits(call'[d], resumed')
<1>1. call \in [Calls -> ToolCall] /\ r \in ToolCall
  BY DEF TypeInv, TypeOK, CallFits
<1>2. \A d \in Calls : call'[d] = IF d = c THEN r ELSE call[d]
  BY <1>1
<1>3. \A d \in Calls : CallFits(call[d], resumed')
  <2>1. \A d \in Calls : CallFits(call[d], resumed)
    BY DEF TypeInv
  <2> QED  BY <2>1 DEF CallFits
<1> QED  BY <1>1, <1>2, <1>3

\* A process that has ended, and a call that has returned.
LEMMA EndedFits ==
  /\ \A p \in Procs : \A u : ProcFits([NoProc EXCEPT !.pc = "dead"], p, u)
  /\ \A R : CallFits(Returned, R)
<1>1. [NoProc EXCEPT !.pc = "dead"] \in Process /\ Returned \in ToolCall
  BY NoneIsTyped DEF Process, ToolCall, Returned
<1>2. \A p \in Procs : \A u : ProcFits([NoProc EXCEPT !.pc = "dead"], p, u)
  BY <1>1, NoneIsTyped DEF ProcFits, NoProc
<1>3. \A R : CallFits(Returned, R)
  BY <1>1, NoneIsTyped DEF CallFits, Returned, NoCall
<1> QED  BY <1>2, <1>3

\* The hooks of a session keep the types.
LEMMA StartKeepsTypes ==
  ASSUME TypeInv, NEW p \in Procs,
         StartKnown(p) \/ StartRotated(p) \/ StartNested(p) \/ StartFresh(p)
  PROVE  TypeInv'
<1> DEFINE s == proc[p].sid
<1>1. /\ proc[p].pc = "boot" /\ s \in Sids /\ UNCHANGED <<closed, call, manager, flag, used, resumed>>
      /\ UNCHANGED <<pending, sidecar, brief, gaveUp, shadowed, unborn, mishaps>>
  <2>1. proc[p].pc = "boot"
    BY DEF StartKnown, StartRotated, StartNested, StartFresh, Unknown
  <2>2. s \in Sids
    BY <2>1, ProcIsTyped, UsedIsTyped DEF ProcFits
  <2> QED  BY <2>1, <2>2 DEF StartKnown, StartRotated, StartNested, StartFresh, files, seen
<1>2. ASSUME NEW rec \in Record, rec.pid = p, Kind(rec), NEW pc \in {"write", "rewrite"},
             proc' = [proc EXCEPT ![p].pc = pc, ![p].rec = rec]
      PROVE  proc' \in [Procs -> Process] /\ \A q \in Procs : ProcFits(proc'[q], q, used')
  <2> DEFINE r == [proc[p] EXCEPT !.pc = pc, !.rec = rec]
  <2>1. proc' = [proc EXCEPT ![p] = r]
    BY <1>2, ProcIsTyped DEF TypeInv, TypeOK
  <2>2. r \in Process /\ r.pc = pc /\ r.rec = rec /\ r.sid = proc[p].sid /\ r.name = proc[p].name
    BY ZenonT(40), <1>2, ProcIsTyped DEF Process, Hooks
  <2> HIDE DEF r
  <2>3. ProcFits(r, p, used')
    BY <1>1, <1>2, <2>2, ProcIsTyped DEF ProcFits
  <2>4. used' \in Nat /\ used <= used'
    BY <1>1, UsedIsTyped
  <2> QED  BY <2>1, <2>3, <2>4, ProcChanges
<1>3. \A c \in Calls : CallFits(call'[c], resumed')
  BY <1>1 DEF TypeInv
<1>4. ASSUME StartKnown(p)
      PROVE  TypeInv'
  <2> DEFINE rec == [active[s] EXCEPT !.pid = p,
                       !.window = IF Pane(p) # None /\ ~active[s].nested THEN Pane(p) ELSE @]
  <2>1. /\ active[s] \in Record /\ Kind(active[s])
        /\ proc' = [proc EXCEPT ![p].pc = "rewrite", ![p].rec = rec]
        /\ UNCHANGED <<active, lost>>
    BY <1>1, <1>4, FileIsTyped DEF StartKnown, files, seen
  <2>2. rec \in Record /\ rec.pid = p /\ Kind(rec)
    BY <2>1, PaneIsTyped DEF Record, Kind
  <2> HIDE DEF rec
  <2>3. proc' \in [Procs -> Process] /\ \A q \in Procs : ProcFits(proc'[q], q, used')
    BY <1>2, <2>1, <2>2
  <2> QED  BY <1>1, <1>3, <2>1, <2>3 DEF TypeInv, TypeOK, FilesFit
<1>5. ASSUME StartRotated(p)
      PROVE  TypeInv'
  <2> DEFINE old == SameProcess(p)
             newest == active[Max(old)]
             left == [t \in Sids |-> IF t \in old THEN None ELSE Pruned[t]]
             rec == [newest EXCEPT !.name = UniqueName(@, Taken(left, s)),
                                   !.window = IF Pane(p) # None /\ ~newest.nested THEN Pane(p) ELSE @]
  <2>1. Max(old) \in old
    <3>1. old \in SUBSET Nat /\ old # {} /\ \A x \in old : x <= MaxSids
      BY <1>5, BoundsAreNats DEF StartRotated, SameProcess, Sids
    <3> HIDE DEF old
    <3> QED  BY <3>1, GreatestExists, BoundsAreNats
  <2>2. newest \in Record /\ Kind(newest) /\ newest.pid = p
    BY <2>1, FileIsTyped DEF SameProcess
  <2>3. UniqueName(newest.name, Taken(left, s)) \in Names
        /\ (Plain(UniqueName(newest.name, Taken(left, s))) <=> Plain(newest.name))
    <3>1. newest.name \in Names
      BY <2>2, RecordIsTyped
    <3> HIDE DEF newest, left
    <3> QED  BY <3>1, UniqueNameIsName
  <2>4. rec \in Record /\ rec.pid = p /\ Kind(rec)
    <3> HIDE DEF newest, left
    <3> QED  BY <2>2, <2>3, PaneIsTyped DEF Record, Kind
  <2>5. proc' = [proc EXCEPT ![p].pc = "write", ![p].rec = rec]
    BY <1>5 DEF StartRotated
  <2>6. proc' \in [Procs -> Process] /\ \A q \in Procs : ProcFits(proc'[q], q, used')
    <3> HIDE DEF rec
    <3> QED  BY <1>2, <2>4, <2>5
  <2>7. active' \in [Sids -> Record \union {None}] /\ \A t \in Sids : active'[t] # None => Kind(active'[t])
    <3>1. active' = left
      BY <1>5 DEF StartRotated
    <3>2. \A t \in Sids : left[t] \in {None, Pruned[t]}
      OBVIOUS
    <3>3. TypeOK /\ FilesFit
      BY DEF TypeInv
    <3> QED  BY <3>1, <3>2, <3>3, PrunedIsTyped DEF FilesFit
  <2>8. lost' \in [Sids -> {"new", "no", "pruned", "rotated", "raced"}]
    <3>1. TypeOK
      BY DEF TypeInv
    <3> QED  BY <1>5, <3>1, PrunedIsTyped DEF StartRotated
  <2> HIDE DEF rec, left, newest, old
  <2> QED  BY <1>1, <1>3, <2>6, <2>7, <2>8 DEF TypeInv, TypeOK, FilesFit
<1>6. ASSUME StartNested(p)
      PROVE  TypeInv'
  <2> DEFINE rec == [name |-> <<0, s>>, pid |-> p, window |-> None, nested |-> TRUE]
  <2>1. <<0, s>> \in Names /\ ~Plain(<<0, s>>)
    BY <1>1, BoundsAreNats DEF Names, Plain, Sids
  <2>2. rec \in Record /\ rec.pid = p /\ Kind(rec)
    BY <2>1 DEF Record, Kind
  <2>3. proc' = [proc EXCEPT ![p].pc = "write", ![p].rec = rec] /\ active' = Pruned /\ lost' = PrunedLost
    BY <1>6 DEF StartNested
  <2> HIDE DEF rec
  <2>4. proc' \in [Procs -> Process] /\ \A q \in Procs : ProcFits(proc'[q], q, used')
    BY <1>2, <2>2, <2>3
  <2> QED  BY <1>1, <1>3, <2>3, <2>4, PrunedIsTyped DEF TypeInv, TypeOK, FilesFit
<1>7. ASSUME StartFresh(p)
      PROVE  TypeInv'
  <2> DEFINE name == UniqueName(proc[p].name, Taken(Pruned, s))
             rec == [name |-> name, pid |-> p, window |-> Pane(p), nested |-> FALSE]
  <2>1. name \in Names /\ Plain(name)
    BY ProcIsTyped, UniqueNameIsName DEF ProcFits
  <2>2. rec \in Record /\ rec.pid = p /\ Kind(rec)
    <3> HIDE DEF name
    <3> QED  BY <2>1, PaneIsTyped DEF Record, Kind
  <2>3. proc' = [proc EXCEPT ![p].pc = "write", ![p].rec = rec] /\ active' = Pruned /\ lost' = PrunedLost
    BY <1>7 DEF StartFresh
  <2> HIDE DEF rec
  <2>4. proc' \in [Procs -> Process] /\ \A q \in Procs : ProcFits(proc'[q], q, used')
    BY <1>2, <2>2, <2>3
  <2> QED  BY <1>1, <1>3, <2>3, <2>4, PrunedIsTyped DEF TypeInv, TypeOK, FilesFit
<1> QED  BY <1>4, <1>5, <1>6, <1>7

LEMMA WriteKeepsTypes ==
  ASSUME TypeInv, NEW p \in Procs, StartWrite(p) \/ StartClaim(p)
  PROVE  TypeInv'
<1> DEFINE s == proc[p].sid
<1>1. /\ s \in Sids /\ proc[p].rec \in Record /\ Kind(proc[p].rec)
      /\ proc[p].pc \in {"write", "rewrite", "claim"}
      /\ UNCHANGED <<closed, call, manager, flag, used, resumed, gaveUp, shadowed, unborn, mishaps>>
  <2>1. proc[p].pc \in {"write", "rewrite", "claim"}
    BY DEF StartWrite, StartClaim
  <2> QED  BY <2>1, ProcIsTyped, UsedIsTyped DEF ProcFits, StartWrite, StartClaim, files, seen
<1>2. \A c \in Calls : CallFits(call'[c], resumed')
  BY <1>1 DEF TypeInv
<1>3. ASSUME StartWrite(p)
      PROVE  TypeInv'
  <2> DEFINE pc == IF proc[p].pc = "write" /\ Claims(p) THEN "claim" ELSE "run"
             r == [proc[p] EXCEPT !.pc = pc]
  <2>1. proc' = [proc EXCEPT ![p] = r]
    BY <1>3 DEF StartWrite, ToPc
  <2>2. ProcFits(r, p, used')
    <3>1. r \in Process /\ r.pc = pc /\ r.rec = proc[p].rec /\ r.sid = s /\ r.name = proc[p].name
      BY <1>1, ProcIsTyped DEF Process, Hooks
    <3>2. pc \in {"claim", "run"} /\ (pc = "claim" => ~proc[p].rec.nested)
      BY DEF Claims
    <3> HIDE DEF r, pc
    <3> QED  BY <1>1, <3>1, <3>2, ProcIsTyped DEF ProcFits
  <2>3. proc' \in [Procs -> Process] /\ \A q \in Procs : ProcFits(proc'[q], q, used')
    <3>1. used' \in Nat /\ used <= used'
      BY <1>1, UsedIsTyped
    <3> HIDE DEF r
    <3> QED  BY <2>1, <2>2, <3>1, ProcChanges
  <2>4. active' = [active EXCEPT ![s] = proc[p].rec] /\ UNCHANGED <<pending, sidecar, brief>>
    BY <1>3 DEF StartWrite
  <2>5. lost' \in [Sids -> {"new", "no", "pruned", "rotated", "raced"}]
    BY <1>3 DEF StartWrite, TypeInv, TypeOK
  <2> QED  BY <1>1, <1>2, <2>3, <2>4, <2>5 DEF TypeInv, TypeOK, FilesFit
<1>4. ASSUME StartClaim(p)
      PROVE  TypeInv'
  <2> DEFINE r == [proc[p] EXCEPT !.pc = "run", !.rec = None]
             a == proc[p].asg
  <2>1. proc' = [proc EXCEPT ![p] = r]
    BY <1>4, ProcIsTyped DEF StartClaim, TypeInv, TypeOK
  <2>2. ProcFits(r, p, used')
    <3>1. r \in Process /\ r.pc = "run" /\ r.sid = s /\ r.name = proc[p].name
      BY <1>1, ProcIsTyped DEF Process, Hooks
    <3> HIDE DEF r
    <3> QED  BY <1>1, <3>1, ProcIsTyped DEF ProcFits
  <2>3. proc' \in [Procs -> Process] /\ \A q \in Procs : ProcFits(proc'[q], q, used')
    <3>1. used' \in Nat /\ used <= used'
      BY <1>1, UsedIsTyped
    <3> HIDE DEF r
    <3> QED  BY <2>1, <2>2, <3>1, ProcChanges
  <2>4. \A w \in Procs : [proc[p].rec EXCEPT !.window = w] \in Record /\ Kind([proc[p].rec EXCEPT !.window = w])
    BY <1>1 DEF Record, Kind
  <2>5. active' \in [Sids -> Record \union {None}] /\ (\A t \in Sids : active'[t] # None => Kind(active'[t]))
        /\ sidecar' \in [Calls -> Procs \union {None}] /\ UNCHANGED lost
    BY <1>1, <1>4, <2>4 DEF StartClaim, TypeInv, TypeOK, FilesFit, seen
  <2>6. brief' \in [Sids -> Assignments \union {None}] /\ pending' \subseteq Calls
    BY <1>1, <1>4, ProcIsTyped DEF StartClaim, TypeInv, TypeOK, Unclaimed, Assignments
  <2> QED  BY <1>1, <1>2, <2>3, <2>5, <2>6 DEF TypeInv, TypeOK, FilesFit
<1> QED  BY <1>3, <1>4

\* A process that a session's end, its rotation or its death changes.
LEMMA EndKeepsTypes ==
  ASSUME TypeInv, NEW p \in Procs, EndWrite(p) \/ EndUnlink(p)
  PROVE  TypeInv'
<1> DEFINE s == proc[p].sid
<1>1. /\ proc[p].pc \in {"run", "hup", "ending"} /\ s \in Sids
      /\ UNCHANGED <<pending, sidecar, brief, call, manager, flag, seen, mishaps>>
  <2>1. proc[p].pc \in {"run", "hup", "ending"}
    BY DEF EndWrite, EndUnlink
  <2> QED  BY <2>1, ProcIsTyped, UsedIsTyped DEF ProcFits, EndWrite, EndUnlink
<1>2. \A c \in Calls : CallFits(call'[c], resumed')
  BY <1>1 DEF TypeInv, seen
<1>3. ASSUME NEW u \in Nat, NEW t \in 1..u, used <= u, u <= MaxSids
      PROVE  ProcFits([proc[p] EXCEPT !.pc = "boot", !.sid = t, !.again = FALSE], p, u)
  <2> DEFINE r == [proc[p] EXCEPT !.pc = "boot", !.sid = t, !.again = FALSE]
  <2>1. t \in Sids
    BY <1>3, BoundsAreNats DEF Sids
  <2>2. r \in Process /\ r.pc = "boot" /\ r.sid = t /\ r.name = proc[p].name
    BY <2>1, ProcIsTyped DEF Process, Hooks
  <2>3. ProcFits(r, p, u)
    <3> HIDE DEF r
    <3> QED  BY <2>2, ProcIsTyped DEF ProcFits
  <2> QED  BY <2>3
<1>4. ASSUME EndWrite(p)
      PROVE  TypeInv'
  <2> DEFINE r == [proc[p] EXCEPT !.pc = "ending"]
  <2>1. proc' = [proc EXCEPT ![p] = r] /\ UNCHANGED <<active, used>>
    BY <1>4 DEF EndWrite, ToPc
  <2>2. ProcFits(r, p, used')
    <3>1. r \in Process /\ r.pc = "ending" /\ r.sid = s /\ r.name = proc[p].name
      BY <1>1, ProcIsTyped DEF Process, Hooks
    <3> HIDE DEF r
    <3> QED  BY <1>1, <2>1, <3>1, ProcIsTyped DEF ProcFits
  <2>3. proc' \in [Procs -> Process] /\ \A q \in Procs : ProcFits(proc'[q], q, used')
    <3>1. used' \in Nat /\ used <= used'
      BY <2>1, UsedIsTyped
    <3> HIDE DEF r
    <3> QED  BY <2>1, <2>2, <3>1, ProcChanges
  <2>4. /\ closed' \in [Sids -> ClosedRecord \union {None}]
        /\ \A t \in Sids : closed'[t] # None => Plain(closed'[t].name)
    <3>1. CASE active[s] # None /\ ~active[s].nested
      <4> DEFINE rec == [name |-> active[s].name, at |-> NextClose]
      <4>1. closed' = [closed EXCEPT ![s] = rec]
        BY <1>4, <3>1 DEF EndWrite
      <4>2. NextClose \in Nat
        BY NextCloseIsLast DEF TypeInv
      <4>3. rec \in ClosedRecord /\ Plain(rec.name)
        BY <1>1, <3>1, <4>2, FileIsTyped DEF ClosedRecord, Kind
      <4> HIDE DEF rec
      <4> QED  BY <1>1, <4>1, <4>3 DEF TypeInv, TypeOK, FilesFit
    <3>2. CASE ~(active[s] # None /\ ~active[s].nested)
      BY <1>4, <3>2 DEF EndWrite, TypeInv, TypeOK, FilesFit
    <3> QED  BY <3>1, <3>2
  <2> QED  BY <1>1, <1>2, <2>1, <2>3, <2>4 DEF TypeInv, TypeOK, FilesFit, seen
<1>5. ASSUME EndUnlink(p)
      PROVE  TypeInv'
  <2>1. /\ UNCHANGED closed /\ active' \in [Sids -> Record \union {None}]
        /\ \A t \in Sids : active'[t] # None => Kind(active'[t])
    BY <1>5 DEF EndUnlink, RecordsOf, TypeInv, TypeOK, FilesFit
  <2>2. /\ used' \in 0..MaxSids /\ proc' \in [Procs -> Process]
        /\ \A q \in Procs : ProcFits(proc'[q], q, used')
    <3>1. CASE proc[p].again /\ used < MaxSids
      <4> DEFINE r == [proc[p] EXCEPT !.pc = "boot", !.sid = used + 1, !.again = FALSE]
      <4>1. used' = used + 1 /\ proc' = [proc EXCEPT ![p] = r]
        BY <1>5, <3>1, ProcIsTyped DEF EndUnlink, TypeInv, TypeOK
      <4>2. used' \in Nat /\ used <= used' /\ used' <= MaxSids /\ used + 1 \in 1..used'
        BY <3>1, <4>1, UsedIsTyped, BoundsAreNats
      <4>3. ProcFits(r, p, used')
        BY <1>3, <4>2
      <4>4. used' \in 0..MaxSids
        BY <4>2, BoundsAreNats
      <4> HIDE DEF r
      <4> QED  BY <4>1, <4>2, <4>3, <4>4, ProcChanges
    <3>2. CASE ~(proc[p].again /\ used < MaxSids)
      <4> DEFINE r == [NoProc EXCEPT !.pc = "dead"]
      <4>1. UNCHANGED used /\ proc' = [proc EXCEPT ![p] = r]
        BY <1>5, <3>2 DEF EndUnlink, ToPc
      <4>2. used' \in Nat /\ used <= used'
        BY <4>1, UsedIsTyped
      <4>3. ProcFits(r, p, used')
        BY EndedFits
      <4> HIDE DEF r
      <4> QED  BY <4>1, <4>2, <4>3, ProcChanges DEF TypeInv, TypeOK
    <3> QED  BY <3>1, <3>2
  <2> QED  BY <1>1, <1>2, <2>1, <2>2 DEF TypeInv, TypeOK, FilesFit, seen
<1> QED  BY <1>4, <1>5

\* A process that starts in a free place.
LEMMA NewProcFits ==
  ASSUME TypeInv, NEW sid \in Sids, NEW name \in Names, Plain(name),
         NEW asg \in Assignments \union {None}, NEW blind \in BOOLEAN,
         NEW parent \in Procs \union {None}, NEW u \in Nat, sid <= u, NEW p
  PROVE  ProcFits([NoProc EXCEPT !.pc = "boot", !.sid = sid, !.name = name, !.asg = asg,
                                 !.parent = parent, !.blind = blind], p, u)
<1> DEFINE r == [NoProc EXCEPT !.pc = "boot", !.sid = sid, !.name = name, !.asg = asg,
                               !.parent = parent, !.blind = blind]
<1>1. r \in Process /\ r.pc = "boot" /\ r.sid = sid /\ r.name = name
  BY NoneIsTyped DEF Process, Hooks
<1>2. sid \in 1..u
  BY BoundsAreNats DEF Sids
<1>3. ProcFits(r, p, u)
  <2> HIDE DEF r
  <2> QED  BY <1>1, <1>2 DEF ProcFits
<1> QED  BY <1>3

LEMMA TurnKeepsTypes ==
  ASSUME TypeInv, NEW p \in Procs, Rotate(p) \/ Nest(p) \/ Die(p)
  PROVE  TypeInv'
<1>1. UNCHANGED <<files, call, manager, flag, seen>> /\ Mishap
  BY DEF Rotate, Nest, Die
<1>2. ASSUME used' \in 0..MaxSids, proc' \in [Procs -> Process],
             \A q \in Procs : ProcFits(proc'[q], q, used')
      PROVE  TypeInv'
  BY <1>1, <1>2, UsedIsTyped DEF TypeInv, TypeOK, FilesFit, files, seen
<1>3. ASSUME Rotate(p)
      PROVE  TypeInv'
  <2>1. proc[p].pc = "run" /\ used < MaxSids
    BY <1>3 DEF Rotate
  <2>2. ASSUME NEW r, proc' = [proc EXCEPT ![p] = r], ProcFits(r, p, used'), used' \in {used, used + 1}
        PROVE  TypeInv'
    <3>1. used' \in 0..MaxSids /\ used' \in Nat /\ used <= used'
      BY <2>1, <2>2, UsedIsTyped, BoundsAreNats
    <3> QED  BY <1>2, <2>2, <3>1, ProcChanges
  <2>3. CASE used' = used + 1 /\ proc' = [proc EXCEPT ![p].pc = "boot", ![p].sid = used + 1]
    <3> DEFINE r == [proc[p] EXCEPT !.pc = "boot", !.sid = used + 1]
    <3>1. proc' = [proc EXCEPT ![p] = r]
      BY <2>3, ProcIsTyped DEF TypeInv, TypeOK
    <3>2. r \in Process /\ r.pc = "boot" /\ r.sid = used + 1 /\ r.name = proc[p].name
      BY <2>1, ProcIsTyped, UsedIsTyped DEF Process, Hooks
    <3>3. used + 1 \in 1..used'
      BY <2>3, UsedIsTyped
    <3> HIDE DEF r
    <3>4. ProcFits(r, p, used')
      BY <3>2, <3>3, ProcIsTyped DEF ProcFits
    <3> QED  BY <2>2, <2>3, <3>1, <3>4
  <2>4. CASE UNCHANGED used /\ proc' = [proc EXCEPT ![p].pc = "hup", ![p].again = TRUE]
    <3> DEFINE r == [proc[p] EXCEPT !.pc = "hup", !.again = TRUE]
    <3>1. proc' = [proc EXCEPT ![p] = r]
      BY <2>4, ProcIsTyped DEF TypeInv, TypeOK
    <3>2. r \in Process /\ r.pc = "hup" /\ r.sid = proc[p].sid /\ r.name = proc[p].name
      BY ProcIsTyped DEF Process, Hooks
    <3> HIDE DEF r
    <3>4. ProcFits(r, p, used')
      BY <2>1, <2>4, <3>2, ProcIsTyped DEF ProcFits
    <3> QED  BY <2>2, <2>4, <3>1, <3>4
  <2> QED  BY <1>3, <2>3, <2>4 DEF Rotate
<1>4. ASSUME Nest(p)
      PROVE  TypeInv'
  <2> DEFINE r == [NoProc EXCEPT !.pc = "boot", !.sid = used + 1, !.name = proc[p].name,
                                 !.asg = proc[p].asg, !.parent = p]
  <2>1. /\ proc' = [proc EXCEPT ![NextProc] = r] /\ used' = used + 1 /\ used < MaxSids
        /\ NextProc \in Procs
    BY <1>4, NextProcIsFree DEF Nest
  <2>2. used' \in 0..MaxSids /\ used' \in Nat /\ used <= used' /\ used + 1 \in Sids
    BY <2>1, UsedIsTyped
  <2>3. ProcFits(r, NextProc, used')
    <3>1. r \in Process /\ r.pc = "boot" /\ r.sid = used + 1 /\ r.name = proc[p].name
      BY <2>2, NoneIsTyped, ProcIsTyped DEF Process, Hooks
    <3>2. used + 1 \in 1..used'
      BY <2>1, UsedIsTyped
    <3> HIDE DEF r
    <3> QED  BY <3>1, <3>2, ProcIsTyped DEF ProcFits
  <2> HIDE DEF r
  <2> QED  BY <1>2, <2>1, <2>2, <2>3, ProcChanges
<1>5. ASSUME Die(p)
      PROVE  TypeInv'
  <2> DEFINE r == [NoProc EXCEPT !.pc = "dead"]
  <2>1. proc' = [proc EXCEPT ![p] = r] /\ UNCHANGED used
    BY <1>5 DEF Die, ToPc
  <2>2. used' \in 0..MaxSids /\ used' \in Nat /\ used <= used'
    BY <2>1, UsedIsTyped DEF TypeInv, TypeOK
  <2>3. ProcFits(r, p, used')
    BY EndedFits
  <2> HIDE DEF r
  <2> QED  BY <1>2, <2>1, <2>2, <2>3, ProcChanges
<1> QED  BY <1>3, <1>4, <1>5

\* A call that returns, or goes on to its next step.
LEMMA ReturnsFit ==
  ASSUME TypeInv, NEW c \in Calls, Returns(c), resumed \subseteq resumed'
  PROVE  call' \in [Calls -> ToolCall] /\ \A d \in Calls : CallFits(call'[d], resumed')
<1>1. CallFits(Returned, resumed')
  BY EndedFits
<1>2. call' = [call EXCEPT ![c] = Returned]
  BY DEF Returns
<1> QED  BY <1>1, <1>2, CallChanges


LEMMA SpawnStepKeepsTypes ==
  ASSUME TypeInv, NEW c \in Calls,
         SpawnSidecar(c) \/ SpawnConfirm(c) \/ SpawnNoRegister(c) \/ Expire(c)
  PROVE  TypeInv'
<1>1. /\ UNCHANGED <<active, closed, brief, proc, manager, flag, used, lost, resumed, gaveUp, shadowed, unborn>>
      /\ mishaps' = mishaps \/ Mishap
  BY DEF SpawnSidecar, SpawnConfirm, SpawnNoRegister, Expire, files, seen
<1>2. mishaps' \in 0..MaxMishaps
  BY <1>1, UsedIsTyped DEF TypeInv, TypeOK
<1>3. ASSUME call' \in [Calls -> ToolCall], \A d \in Calls : CallFits(call'[d], resumed'),
             sidecar' \in [Calls -> Procs \union {None}], pending' \subseteq Calls
      PROVE  TypeInv'
  BY <1>1, <1>2, <1>3 DEF TypeInv, TypeOK, FilesFit
<1>4. ASSUME SpawnSidecar(c)
      PROVE  TypeInv'
  <2> DEFINE r == [call[c] EXCEPT !.pc = "confirm"]
  <2>1. call[c].proc \in Procs /\ call[c].op = "spawn" /\ call[c].copy = None
    BY <1>4, CallIsTyped DEF SpawnSidecar, CallFits, ToolCall
  <2>2. call' = [call EXCEPT ![c] = r]
    BY <1>4 DEF SpawnSidecar, ToStep
  <2>3. r \in ToolCall /\ r.pc = "confirm" /\ r.sid = call[c].sid /\ r.op = "spawn" /\ r.name = call[c].name
        /\ r.copy = None
    BY <2>1, CallIsTyped DEF ToolCall
  <2>4. CallFits(r, resumed')
    <3> HIDE DEF r
    <3> QED  BY <1>1, <2>1, <2>3, CallIsTyped DEF CallFits
  <2>5. call' \in [Calls -> ToolCall] /\ \A d \in Calls : CallFits(call'[d], resumed')
    <3> HIDE DEF r
    <3> QED  BY <1>1, <2>2, <2>4, CallChanges
  <2>6. sidecar' \in [Calls -> Procs \union {None}] /\ pending' \subseteq Calls
    BY <1>4, <2>1 DEF SpawnSidecar, TypeInv, TypeOK
  <2> QED  BY <1>3, <2>5, <2>6
<1>5. CASE SpawnConfirm(c) \/ SpawnNoRegister(c)
  <2>1. Returns(c) /\ UNCHANGED <<sidecar, pending>>
    BY <1>5 DEF SpawnConfirm, SpawnNoRegister, files
  <2> QED  BY <1>1, <1>3, <2>1, ReturnsFit DEF TypeInv, TypeOK
<1>6. CASE Expire(c)
  BY <1>1, <1>3, <1>6 DEF Expire, TypeInv, TypeOK
<1> QED  BY <1>4, <1>5, <1>6

LEMMA ResumeStepKeepsTypes ==
  ASSUME TypeInv, NEW c \in Calls,
         ResumeSeen(c) \/ ResumeFix(c) \/ ResumeForget(c) \/ ResumeForked(c) \/ ResumeGivesUp(c)
  PROVE  TypeInv'
<1> DEFINE s == call[c].sid
<1>1. /\ call[c].op = "resume" /\ s \in resumed /\ s \in Sids /\ call[c].proc \in Procs
      /\ call[c].pc \in {"poll", "fix", "forget"}
      /\ UNCHANGED <<pending, sidecar, proc, manager, flag, used, resumed, shadowed, unborn>>
      /\ mishaps' = mishaps \/ Mishap
  <2>1. call[c].pc \in {"poll", "fix", "forget"}
    BY DEF ResumeSeen, ResumeFix, ResumeForget, ResumeForked, ResumeGivesUp
  <2>2. call[c].op = "resume" /\ s \in resumed /\ call[c].proc \in Procs
    BY <2>1, CallIsTyped DEF CallFits, ToolCall
  <2> QED  BY <2>1, <2>2 DEF ResumeSeen, ResumeFix, ResumeForget, ResumeForked, ResumeGivesUp, files,
                             seen, TypeInv, TypeOK
<1>2. mishaps' \in 0..MaxMishaps /\ resumed \subseteq resumed'
  BY <1>1, UsedIsTyped DEF TypeInv, TypeOK
<1>3. ASSUME call' \in [Calls -> ToolCall], \A d \in Calls : CallFits(call'[d], resumed'),
             active' \in [Sids -> Record \union {None}], \A t \in Sids : active'[t] # None => Kind(active'[t]),
             closed' \in {closed, [closed EXCEPT ![s] = None]},
             brief' \in [Sids -> Assignments \union {None}],
             lost' \in [Sids -> {"new", "no", "pruned", "rotated", "raced"}],
             gaveUp' \subseteq Sids
      PROVE  TypeInv'
  <2>1. /\ closed' \in [Sids -> ClosedRecord \union {None}]
        /\ \A t \in Sids : closed'[t] # None => Plain(closed'[t].name)
    BY <1>1, <1>3 DEF TypeInv, TypeOK, FilesFit
  <2> QED  BY <1>1, <1>2, <1>3, <2>1 DEF TypeInv, TypeOK, FilesFit
<1>4. ASSUME ResumeSeen(c)
      PROVE  TypeInv'
  <2> DEFINE pc == IF active[s].window = call[c].proc THEN "forget" ELSE "fix"
  <2>1. /\ active[s] \in Record /\ Kind(active[s])
        /\ call' = [call EXCEPT ![c].copy = active[s], ![c].pc = pc]
        /\ UNCHANGED <<active, closed, brief, lost, gaveUp>>
    BY <1>1, <1>4, FileIsTyped DEF ResumeSeen, files, seen
  <2>2. call' = [call EXCEPT ![c] = [call[c] EXCEPT !.pc = pc, !.copy = active[s]]]
    BY <1>1, <2>1, CallIsTyped DEF TypeInv, TypeOK
  <2>3. pc \in {"fix", "forget"} /\ active[s] # None
    BY <2>1, BoundsAreNats
  <2> DEFINE r == [call[c] EXCEPT !.pc = pc, !.copy = active[s]]
  <2> HIDE DEF pc
  <2>4. r \in ToolCall /\ r.pc = pc /\ r.sid = s /\ r.op = "resume" /\ r.name = call[c].name
        /\ r.copy = active[s] /\ r.proc = call[c].proc
    BY <1>1, <2>1, <2>3, CallIsTyped DEF ToolCall
  <2>5. CallFits(r, resumed')
    <3> HIDE DEF r
    <3> QED  BY <1>1, <2>1, <2>3, <2>4, CallIsTyped DEF CallFits
  <2>6. call' \in [Calls -> ToolCall] /\ \A d \in Calls : CallFits(call'[d], resumed')
    <3> HIDE DEF r
    <3> QED  BY <1>2, <2>2, <2>5, CallChanges DEF r
  <2> QED  BY <1>3, <2>1, <2>6 DEF TypeInv, TypeOK, FilesFit
<1>5. ASSUME ResumeFix(c)
      PROVE  TypeInv'
  <2> DEFINE rec == [call[c].copy EXCEPT !.window = call[c].proc]
             r == [call[c] EXCEPT !.pc = "forget"]
  <2>1. /\ active' = [active EXCEPT ![s] = rec] /\ call' = [call EXCEPT ![c] = r]
        /\ UNCHANGED <<closed, brief, lost, gaveUp>>
    BY <1>5 DEF ResumeFix, ToStep, seen
  <2>2. call[c].copy \in Record /\ Kind(call[c].copy)
    <3>1. call[c].copy \in Record
      BY <1>5, CallIsTyped DEF ResumeFix, CallFits
    <3> QED  BY <3>1, CallIsTyped, BoundsAreNats DEF CallFits
  <2>3. rec \in Record /\ Kind(rec)
    BY <1>1, <2>2 DEF Record, Kind
  <2>4. r \in ToolCall /\ r.pc = "forget" /\ r.sid = s /\ r.op = "resume" /\ r.name = call[c].name
        /\ r.copy = call[c].copy /\ r.proc = call[c].proc
    BY <1>1, CallIsTyped DEF ToolCall
  <2>5. CallFits(r, resumed')
    <3> HIDE DEF r
    <3> QED  BY <1>1, <2>2, <2>4, CallIsTyped DEF CallFits
  <2>6. call' \in [Calls -> ToolCall] /\ \A d \in Calls : CallFits(call'[d], resumed')
    <3> HIDE DEF r
    <3> QED  BY <1>2, <2>1, <2>5, CallChanges
  <2> HIDE DEF rec
  <2> QED  BY <1>1, <1>3, <2>1, <2>3, <2>6 DEF TypeInv, TypeOK, FilesFit
<1>6. CASE ResumeForget(c) \/ ResumeForked(c) \/ ResumeGivesUp(c)
  <2>1. Returns(c) /\ UNCHANGED active /\ closed' \in {closed, [closed EXCEPT ![s] = None]}
    BY <1>6 DEF ResumeForget, ResumeForked, ResumeGivesUp, files
  <2>2. brief' \in [Sids -> Assignments \union {None}]
    <3>1. \/ UNCHANGED brief
          \/ \E t \in Sids : brief' = [brief EXCEPT ![t] = brief[s], ![s] = None]
      BY <1>6 DEF ResumeForget, ResumeForked, ResumeGivesUp, files, Registered
    <3>2. brief \in [Sids -> Assignments \union {None}] /\ brief[s] \in Assignments \union {None}
      BY <1>1 DEF TypeInv, TypeOK
    <3> QED  BY <3>1, <3>2
  <2>3. lost' \in [Sids -> {"new", "no", "pruned", "rotated", "raced"}]
    BY <1>6 DEF ResumeForget, ResumeForked, ResumeGivesUp, TypeInv, TypeOK
  <2>4. gaveUp' \subseteq Sids
    BY <1>1, <1>6, ProcIsTyped DEF ResumeForget, ResumeForked, ResumeGivesUp, TypeInv, TypeOK
  <2> QED  BY <1>2, <1>3, <2>1, <2>2, <2>3, <2>4, ReturnsFit DEF TypeInv, TypeOK, FilesFit
<1> QED  BY <1>4, <1>5, <1>6

LEMMA BeginKeepsTypes ==
  ASSUME TypeInv, SpawnBegin \/ \E s \in Sids : ResumeBegin(s) \/ PruneRead(s)
  PROVE  TypeInv'
<1> DEFINE n == NextCall
<1>1. n \in Calls /\ call[n].pc = "free"
  BY NextCallIsFree DEF SpawnBegin, ResumeBegin, PruneRead, MayCall
<1>2. UNCHANGED <<closed, sidecar, brief, proc, manager, flag, used, gaveUp, shadowed, unborn, mishaps>>
  BY DEF SpawnBegin, ResumeBegin, PruneRead, files, seen
<1>3. ASSUME NEW r, call' = [call EXCEPT ![n] = r], CallFits(r, resumed'),
             resumed \subseteq resumed', resumed' \subseteq Sids, pending' \subseteq Calls,
             \/ active' = Pruned /\ lost' = PrunedLost
             \/ UNCHANGED <<active, lost>>
      PROVE  TypeInv'
  <2>1. call' \in [Calls -> ToolCall] /\ \A d \in Calls : CallFits(call'[d], resumed')
    BY <1>1, <1>3, CallChanges
  <2>2. /\ active' \in [Sids -> Record \union {None}] /\ \A t \in Sids : active'[t] # None => Kind(active'[t])
        /\ lost' \in [Sids -> {"new", "no", "pruned", "rotated", "raced"}]
    BY <1>3, PrunedIsTyped DEF TypeInv, TypeOK, FilesFit
  <2> QED  BY <1>2, <1>3, <2>1, <2>2 DEF TypeInv, TypeOK, FilesFit
<1>4. ASSUME SpawnBegin
      PROVE  TypeInv'
  <2> DEFINE name == UniqueName(Requested, Taken(Pruned, None))
             before == {s \in Sids : Pruned[s] # None}
             r == [NoCall EXCEPT !.op = "spawn", !.pc = "tab", !.name = name, !.before = before]
  <2>1. /\ call' = [call EXCEPT ![n] = r] /\ pending' = pending \union {n}
        /\ active' = Pruned /\ lost' = PrunedLost /\ UNCHANGED resumed
    BY <1>4 DEF SpawnBegin, Begin
  <2>2. name \in Names /\ Plain(name)
    BY NoneIsTyped, UniqueNameIsName
  <2>3. /\ r \in ToolCall /\ r.op = "spawn" /\ r.pc = "tab" /\ r.name = name /\ r.sid = None
        /\ r.copy = None
    <3> HIDE DEF name
    <3> QED  BY <2>2, NoneIsTyped DEF ToolCall, NoCall
  <2>4. CallFits(r, resumed')
    <3> HIDE DEF r, name
    <3> QED  BY <2>2, <2>3 DEF CallFits
  <2>5. pending' \subseteq Calls /\ resumed' \subseteq Sids
    BY <1>1, <2>1 DEF TypeInv, TypeOK
  <2> HIDE DEF r
  <2> QED  BY <1>3, <2>1, <2>4, <2>5
<1>5. ASSUME NEW s \in Sids, ResumeBegin(s)
      PROVE  TypeInv'
  <2> DEFINE before == {t \in Sids : Pruned[t] # None}
             r == [NoCall EXCEPT !.op = "resume", !.pc = "tab", !.name = closed[s].name, !.sid = s,
                                 !.at = closed[s].at, !.before = before]
  <2>1. /\ call' = [call EXCEPT ![n] = r] /\ UNCHANGED pending
        /\ active' = Pruned /\ lost' = PrunedLost /\ resumed' = resumed \union {s}
    BY <1>5 DEF ResumeBegin, Begin
  <2>2. closed[s].name \in Names /\ Plain(closed[s].name) /\ closed[s].at \in Nat
    BY <1>5 DEF ResumeBegin, TypeInv, TypeOK, FilesFit, ClosedRecord
  <2>3. /\ r \in ToolCall /\ r.op = "resume" /\ r.pc = "tab" /\ r.name = closed[s].name /\ r.sid = s
        /\ r.copy = None
    BY <2>2, NoneIsTyped DEF ToolCall, NoCall
  <2>4. CallFits(r, resumed')
    <3> HIDE DEF r
    <3> QED  BY <2>1, <2>2, <2>3 DEF CallFits
  <2>5. pending' \subseteq Calls /\ resumed' \subseteq Sids
    BY <2>1 DEF TypeInv, TypeOK
  <2> HIDE DEF r
  <2> QED  BY <1>3, <2>1, <2>4, <2>5
<1>6. ASSUME NEW s \in Sids, PruneRead(s)
      PROVE  TypeInv'
  <2> DEFINE r == [NoCall EXCEPT !.op = "prune", !.pc = "unlink", !.sid = s, !.copy = active[s]]
  <2>1. call' = [call EXCEPT ![n] = r] /\ UNCHANGED <<pending, active, lost, resumed>>
    BY <1>6 DEF PruneRead, Begin, files, seen
  <2>2. active[s] \in Record /\ Kind(active[s])
    BY <1>6, FileIsTyped DEF PruneRead, Prunable
  <2>3. /\ r \in ToolCall /\ r.op = "prune" /\ r.pc = "unlink" /\ r.name = Requested /\ r.sid = s
        /\ r.copy = active[s]
    BY <2>2, NoneIsTyped DEF ToolCall, NoCall
  <2>4. CallFits(r, resumed')
    <3> HIDE DEF r
    <3> QED  BY <2>1, <2>2, <2>3, NoneIsTyped DEF CallFits
  <2>5. pending' \subseteq Calls /\ resumed' \subseteq Sids
    BY <2>1 DEF TypeInv, TypeOK
  <2> HIDE DEF r
  <2> QED  BY <1>3, <2>1, <2>4, <2>5
<1> QED  BY <1>4, <1>5, <1>6

LEMMA KillKeepsTypes ==
  ASSUME TypeInv, NEW s \in Sids, Kill(s)
  PROVE  TypeInv'
<1> DEFINE p == active[s].window
<1>1. NextCall \in Calls /\ call' = [call EXCEPT ![NextCall] = Returned]
  BY NextCallIsFree DEF Kill, MayCall, Begin
<1>2. UNCHANGED <<files, manager, flag, used, seen, mishaps>>
  BY DEF Kill
<1>3. call' \in [Calls -> ToolCall] /\ \A d \in Calls : CallFits(call'[d], resumed')
  BY <1>1, <1>2, EndedFits, CallChanges DEF seen
<1>4. used' \in Nat /\ used <= used'
  BY <1>2, UsedIsTyped
<1>5. proc' \in [Procs -> Process] /\ \A q \in Procs : ProcFits(proc'[q], q, used')
  <2>1. CASE UNCHANGED proc
    BY <1>4, <2>1, ProcStays
  <2>2. CASE Lives(p) /\ proc[p].pc = "run" /\ proc' = [proc EXCEPT ![p] = [proc[p] EXCEPT !.pc = "hup"]]
    <3> DEFINE r == [proc[p] EXCEPT !.pc = "hup"]
    <3>1. p \in Procs
      BY <2>2, FileIsTyped DEF Kill, Registered, Lives
    <3>2. r \in Process /\ r.pc = "hup" /\ r.sid = proc[p].sid /\ r.name = proc[p].name
      BY <3>1, ProcIsTyped DEF Process, Hooks
    <3> HIDE DEF p
    <3>3. ProcFits(r, p, used')
      <4> HIDE DEF r
      <4> QED  BY <1>2, <2>2, <3>1, <3>2, ProcIsTyped DEF ProcFits
    <3>4. proc' = [proc EXCEPT ![p] = r]
      BY <2>2
    <3> HIDE DEF r
    <3> QED  BY <1>4, <3>1, <3>3, <3>4, ProcChanges
  <2>3. CASE Lives(p) /\ proc' = [proc EXCEPT ![p] = [NoProc EXCEPT !.pc = "dead"]]
    <3> DEFINE r == [NoProc EXCEPT !.pc = "dead"]
    <3>1. p \in Procs
      BY <2>3, FileIsTyped DEF Kill, Registered, Lives
    <3> HIDE DEF p
    <3>3. ProcFits(r, p, used')
      BY <3>1, EndedFits
    <3>4. proc' = [proc EXCEPT ![p] = r]
      BY <2>3
    <3> HIDE DEF r
    <3> QED  BY <1>4, <3>1, <3>3, <3>4, ProcChanges
  <2> QED  BY <2>1, <2>2, <2>3 DEF Kill, ToPc
<1> QED  BY <1>2, <1>3, <1>5 DEF TypeInv, TypeOK, FilesFit, files, seen

LEMMA LaunchFits ==
  ASSUME TypeInv, NEW c \in Calls, SpareProc, NEW sid \in Sids, NEW asg \in Assignments \union {None},
         NEW blind \in BOOLEAN, Launch(sid, call[c].name, asg, blind), used' = Max({used, sid})
  PROVE  /\ NextProc \in Procs /\ used <= used' /\ used' \in 0..MaxSids
         /\ proc' \in [Procs -> Process] /\ \A q \in Procs : ProcFits(proc'[q], q, used')
<1> DEFINE r == [NoProc EXCEPT !.pc = "boot", !.sid = sid, !.name = call[c].name, !.asg = asg, !.blind = blind]
<1>1. NextProc \in Procs /\ proc' = [proc EXCEPT ![NextProc] = r]
  BY NextProcIsFree DEF Launch
<1>2. used \in Nat /\ sid \in Nat /\ used <= MaxSids /\ sid <= MaxSids /\ MaxSids \in Nat /\ sid >= 1
  BY UsedIsTyped, BoundsAreNats DEF Sids, TypeInv, TypeOK
<1>3. used' \in 0..MaxSids /\ used' \in Nat /\ used <= used' /\ sid <= used'
  <2>1. {used, sid} \in SUBSET Nat /\ {used, sid} # {} /\ \A x \in {used, sid} : x <= MaxSids
    BY <1>2
  <2>2. used' \in {used, sid} /\ used <= used' /\ sid <= used'
    BY <1>2, <2>1, GreatestExists
  <2> QED  BY <1>2, <2>2
<1>4. ProcFits(r, NextProc, used')
  <2>1. r \in Process /\ r.pc = "boot" /\ r.sid = sid /\ r.name = call[c].name
    BY NoneIsTyped, CallIsTyped DEF Process, Hooks
  <2>2. sid \in 1..used'
    BY <1>2, <1>3
  <2> HIDE DEF r
  <2> QED  BY <2>1, <2>2, CallIsTyped DEF ProcFits, CallFits
<1> HIDE DEF r
<1> QED  BY <1>1, <1>3, <1>4, ProcChanges

\* The new process of a call: a new session, or the one that is resumed.
LEMMA LaunchedIs ==
  ASSUME TypeInv, NEW c \in Calls, NEW b \in BOOLEAN,
         SpawnTab(c, b) \/ (SpawnFails(c, b) /\ b) \/ ResumeTab(c, b) \/ (ResumeFails(c, b) /\ b)
  PROVE  \E sid \in Sids, asg \in Assignments \union {None}, blind \in BOOLEAN :
            /\ SpareProc /\ Launch(sid, call[c].name, asg, blind) /\ used' = Max({used, sid})
            /\ \/ sid = used + 1
               \/ call[c].op = "resume" /\ call[c].pc = "tab" /\ sid = call[c].sid /\ sid \in resumed
            /\ \/ SpawnTab(c, b) \/ SpawnFails(c, b) \/ ResumeTab(c, b)
               \/ gaveUp' = gaveUp \union {sid}
<1>1. CASE SpawnTab(c, b) \/ (SpawnFails(c, b) /\ b)
  <2>1. SpareProc /\ used < MaxSids /\ used' = used + 1
    BY <1>1 DEF SpawnTab, SpawnFails
  <2>2. \E blind \in BOOLEAN : Launch(used + 1, call[c].name, c, blind)
    BY <1>1 DEF SpawnTab, SpawnFails
  <2>3. used + 1 \in Sids /\ c \in Assignments
    BY <2>1, UsedIsTyped DEF Assignments
  <2>4. used + 1 = Max({used, used + 1})
    <3>1. used \in Nat
      BY UsedIsTyped
    <3>2. {used, used + 1} \in SUBSET Nat /\ {used, used + 1} # {} /\ \A x \in {used, used + 1} : x <= used + 1
      BY <3>1
    <3>3. Max({used, used + 1}) \in {used, used + 1} /\ used + 1 <= Max({used, used + 1})
      BY <3>1, <3>2, GreatestExists
    <3> QED  BY <3>1, <3>3
  <2> QED  BY <1>1, <2>1, <2>2, <2>3, <2>4
<1>2. CASE ResumeTab(c, b) \/ (ResumeFails(c, b) /\ b)
  <2>1. call[c].op = "resume" /\ call[c].pc = "tab" /\ SpareProc
    BY <1>2 DEF ResumeTab, ResumeFails
  <2>2. PICK sid \in ResumedAs(c) : /\ \E blind \in BOOLEAN : Launch(sid, call[c].name, None, blind)
                                    /\ used' = Max({used, sid})
                                    /\ ResumeTab(c, b) \/ gaveUp' = gaveUp \union {sid}
    <3>1. CASE ResumeTab(c, b)
      BY <3>1 DEF ResumeTab
    <3>2. CASE ResumeFails(c, b) /\ b
      BY <3>2 DEF ResumeFails
    <3> QED  BY <1>2, <3>1, <3>2
  <2>3. call[c].sid \in resumed /\ resumed \subseteq Sids
    BY <2>1, CallIsTyped DEF CallFits, TypeInv, TypeOK
  <2>4. sid \in Sids /\ (sid = used + 1 \/ sid = call[c].sid)
    BY <2>2, <2>3 DEF ResumedAs
  <2> QED  BY <2>1, <2>2, <2>3, <2>4
<1> QED  BY <1>1, <1>2

LEMMA LaunchKeepsTypes ==
  ASSUME TypeInv, NEW c \in Calls, NEW b \in BOOLEAN,
         SpawnTab(c, b) \/ SpawnFails(c, b) \/ ResumeTab(c, b) \/ ResumeFails(c, b)
  PROVE  TypeInv'
<1>1. /\ UNCHANGED <<active, closed, sidecar, brief, manager, flag, lost, resumed, shadowed, unborn>>
      /\ pending' \subseteq pending /\ (mishaps' = mishaps \/ Mishap)
      /\ call[c].pc = "tab"
  BY DEF SpawnTab, SpawnFails, ResumeTab, ResumeFails, MaybeBlind, files, seen
<1>2. mishaps' \in 0..MaxMishaps
  BY <1>1, UsedIsTyped DEF TypeInv, TypeOK
<1>3. /\ used <= used' /\ used' \in 0..MaxSids /\ gaveUp' \subseteq Sids
      /\ proc' \in [Procs -> Process] /\ \A q \in Procs : ProcFits(proc'[q], q, used')
  <2>1. CASE UNCHANGED <<proc, used, gaveUp>>
    <3>1. used' \in Nat /\ used <= used'
      BY <2>1, UsedIsTyped
    <3> QED  BY <2>1, <3>1, ProcStays DEF TypeInv, TypeOK
  <2>2. CASE SpawnTab(c, b) \/ (SpawnFails(c, b) /\ b) \/ ResumeTab(c, b) \/ (ResumeFails(c, b) /\ b)
    <3>1. PICK sid \in Sids, asg \in Assignments \union {None}, blind \in BOOLEAN :
             /\ SpareProc /\ Launch(sid, call[c].name, asg, blind) /\ used' = Max({used, sid})
             /\ \/ sid = used + 1
                \/ call[c].op = "resume" /\ call[c].pc = "tab" /\ sid = call[c].sid /\ sid \in resumed
             /\ \/ SpawnTab(c, b) \/ SpawnFails(c, b) \/ ResumeTab(c, b)
                \/ gaveUp' = gaveUp \union {sid}
      BY <2>2, LaunchedIs
    <3>2. gaveUp' \subseteq Sids
      BY <2>2, <3>1 DEF SpawnTab, SpawnFails, ResumeTab, seen, TypeInv, TypeOK
    <3> QED  BY <3>1, <3>2, LaunchFits
  <2> QED  BY <2>1, <2>2 DEF SpawnFails, ResumeFails, seen
<1>4. call' \in [Calls -> ToolCall] /\ \A d \in Calls : CallFits(call'[d], resumed')
  <2>1. CASE Returns(c)
    BY <1>1, <2>1, ReturnsFit
  <2>2. CASE SpawnTab(c, b) \/ ResumeTab(c, b)
    <3> DEFINE pc == IF call[c].op = "spawn" THEN "sidecar" ELSE "poll"
               r == [call[c] EXCEPT !.pc = pc, !.proc = NextProc]
    <3>1. call' = [call EXCEPT ![c] = r]
      BY <2>2, CallIsTyped DEF SpawnTab, ResumeTab, TypeInv, TypeOK
    <3>2. NextProc \in Procs
      BY <2>2, NextProcIsFree DEF SpawnTab, ResumeTab
    <3>3. call[c].op \in {"spawn", "resume"}
      BY <2>2 DEF SpawnTab, ResumeTab
    <3>4. /\ r \in ToolCall /\ r.pc = pc /\ r.proc = NextProc /\ r.op = call[c].op
          /\ r.name = call[c].name /\ r.sid = call[c].sid /\ r.copy = call[c].copy
      BY <3>2, CallIsTyped DEF ToolCall
    <3>5. CallFits(r, resumed')
      <4> HIDE DEF r
      <4> QED  BY <1>1, <3>2, <3>3, <3>4, CallIsTyped DEF CallFits
    <3> HIDE DEF r
    <3> QED  BY <1>1, <3>1, <3>5, CallChanges
  <2> QED  BY <2>1, <2>2 DEF SpawnFails, ResumeFails
<1> QED  BY <1>1, <1>2, <1>3, <1>4 DEF TypeInv, TypeOK, FilesFit

\* The prune that comes late, and the manager's end.
LEMMA OthersKeepTypes ==
  ASSUME TypeInv, (\E c \in Calls : PruneUnlink(c)) \/ ManagerEnds
  PROVE  TypeInv'
<1>1. ASSUME NEW c \in Calls, PruneUnlink(c)
      PROVE  TypeInv'
  <2>1. call[c].sid \in Sids
    BY <1>1, CallIsTyped DEF PruneUnlink, CallFits, ToolCall
  <2>2. call' \in [Calls -> ToolCall] /\ \A d \in Calls : CallFits(call'[d], resumed')
    BY <1>1, ReturnsFit DEF PruneUnlink
  <2>3. /\ active' \in [Sids -> Record \union {None}] /\ \A t \in Sids : active'[t] # None => Kind(active'[t])
        /\ lost' \in [Sids -> {"new", "no", "pruned", "rotated", "raced"}] /\ shadowed' \subseteq Sids
    BY <1>1, <2>1 DEF PruneUnlink, TypeInv, TypeOK, FilesFit
  <2> QED  BY <1>1, <2>2, <2>3 DEF PruneUnlink, TypeInv, TypeOK, FilesFit
<1>2. CASE ManagerEnds
  <2>1. LiveWorkers \in SUBSET Sids /\ unborn' \subseteq Procs /\ mishaps' \in 0..MaxMishaps
    BY <1>2, UsedIsTyped DEF LiveWorkers, Registered, ManagerEnds
  <2> QED  BY <1>2, <2>1 DEF ManagerEnds, TypeInv, TypeOK, FilesFit, files
<1> QED  BY <1>1, <1>2

LEMMA TypesInit == Init => TypeInv
<1> SUFFICES ASSUME Init PROVE TypeInv
  OBVIOUS
<1> DEFINE rec == [name |-> Requested, pid |-> 1, window |-> 1, nested |-> FALSE]
           first == [NoProc EXCEPT !.pc = "run", !.sid = 1, !.asg = 0]
<1>1. 1 \in Sids /\ 1 \in Procs /\ 1 \in 1..used /\ used \in 0..MaxSids /\ 0 \in Assignments
  BY BoundsAreNats DEF Init, Sids, Procs, Assignments
<1>2. rec \in Record /\ Kind(rec)
  BY <1>1, NoneIsTyped DEF Record, Kind
<1>3. first \in Process /\ NoProc \in Process /\ NoCall \in ToolCall
  BY <1>1, NoneIsTyped DEF Process, Hooks
<1>4. (\A p : ProcFits(first, p, used)) /\ (\A p : ProcFits(NoProc, p, used))
  BY <1>1, <1>3, NoneIsTyped DEF ProcFits, NoProc
<1>5. CallFits(NoCall, resumed)
  BY <1>3, NoneIsTyped DEF CallFits, NoCall
<1>6. /\ active = [s \in Sids |-> IF s = 1 THEN rec ELSE None]
      /\ proc = [p \in Procs |-> IF p = 1 THEN first ELSE NoProc]
      /\ call = [c \in Calls |-> NoCall] /\ closed = [s \in Sids |-> None]
  BY DEF Init
<1>9. /\ brief \in [Sids -> Assignments \union {None}] /\ sidecar \in [Calls -> Procs \union {None}]
      /\ lost \in [Sids -> {"new", "no", "pruned", "rotated", "raced"}]
      /\ pending \subseteq Calls /\ mishaps \in 0..MaxMishaps
  BY <1>1, BoundsAreNats DEF Init
<1> HIDE DEF rec, first
<1>7. FilesFit /\ (\A p \in Procs : ProcFits(proc[p], p, used)) /\ \A c \in Calls : CallFits(call[c], resumed)
  BY <1>2, <1>4, <1>5, <1>6 DEF FilesFit
<1>8. TypeOK
  <2>1. active \in [Sids -> Record \union {None}] /\ proc \in [Procs -> Process]
    BY <1>2, <1>3, <1>6
  <2>2. call \in [Calls -> ToolCall] /\ closed \in [Sids -> ClosedRecord \union {None}]
    BY <1>3, <1>6
  <2>3. /\ manager = "runs" /\ flag = None
        /\ resumed = {} /\ gaveUp = {} /\ shadowed = {} /\ unborn = {}
    BY DEF Init
  <2> QED  BY <1>1, <1>9, <2>1, <2>2, <2>3 DEF TypeOK
<1> QED  BY <1>7, <1>8 DEF TypeInv

LEMMA TypesKept == TypeInv /\ [Next]_vars => TypeInv'
<1> SUFFICES ASSUME TypeInv, [Next]_vars PROVE TypeInv'
  OBVIOUS
<1>1. CASE UNCHANGED vars
  BY <1>1 DEF vars, files, seen, TypeInv, TypeOK, FilesFit
<1>2. ASSUME NEW p \in Procs, SessionStep(p) PROVE TypeInv'
  BY <1>2, StartKeepsTypes, WriteKeepsTypes, EndKeepsTypes, TurnKeepsTypes DEF SessionStep
<1>3. ASSUME NEW c \in Calls, CallStep(c) \/ Expire(c) PROVE TypeInv'
  BY <1>3, SpawnStepKeepsTypes, ResumeStepKeepsTypes, LaunchKeepsTypes DEF CallStep
<1> QED  BY <1>1, <1>2, <1>3, BeginKeepsTypes, KillKeepsTypes, OthersKeepTypes DEF Next

-----------------------------------------------------------------------------
(* What a step can do to one record, one process and one call *)

SameWorker(r, q) == r.name = q.name /\ r.pid = q.pid /\ r.nested = q.nested

FileMove(s) ==
    \/ active'[s] = None
    \/ active'[s] = active[s]
    \/ \E p \in Procs : /\ StartWrite(p) \/ StartClaim(p)
                        /\ proc[p].sid = s /\ SameWorker(active'[s], proc[p].rec)
    \/ \E c \in Calls : ResumeFix(c) /\ call[c].sid = s /\ SameWorker(active'[s], call[c].copy)

\* A record changes only with the hook of a process of that session, or with a
\* resume that writes its copy.
LEMMA FileMoves ==
  ASSUME TypeInv, Next, NEW s \in Sids
  PROVE  FileMove(s)
<1>1. CASE UNCHANGED active
  BY <1>1 DEF FileMove
<1>2. CASE active' = Pruned
  BY <1>2 DEF FileMove, Pruned
<1>3. ASSUME NEW p \in Procs, active' = RecordsOf(p) PROVE FileMove(s)
  BY <1>3 DEF FileMove, RecordsOf
<1>4. ASSUME NEW p \in Procs, StartRotated(p) PROVE FileMove(s)
  BY <1>4 DEF FileMove, StartRotated, Pruned
<1>5. ASSUME NEW c \in Calls, PruneUnlink(c) PROVE FileMove(s)
  BY <1>5 DEF FileMove, PruneUnlink, TypeInv, TypeOK
<1>6. ASSUME NEW p \in Procs, StartWrite(p) PROVE FileMove(s)
  <2>1. active'[s] = IF s = proc[p].sid THEN proc[p].rec ELSE active[s]
    BY <1>6 DEF StartWrite, TypeInv, TypeOK
  <2> QED  BY <1>6, <2>1 DEF FileMove, SameWorker
<1>7. ASSUME NEW p \in Procs, StartClaim(p) PROVE FileMove(s)
  <2>1. proc[p].rec \in Record /\ proc[p].pc = "claim"
    BY <1>7, ProcIsTyped DEF StartClaim, ProcFits
  <2>2. \A w : SameWorker([proc[p].rec EXCEPT !.window = w], proc[p].rec)
    BY <2>1 DEF SameWorker, Record
  <2>3. \/ active'[s] = active[s]
        \/ s = proc[p].sid /\ \E w : active'[s] = [proc[p].rec EXCEPT !.window = w]
    <3> DEFINE w == sidecar[proc[p].asg]
    <3>1. \/ UNCHANGED active
          \/ active' = [active EXCEPT ![proc[p].sid] = [proc[p].rec EXCEPT !.window = w]]
      BY <1>7 DEF StartClaim
    <3> HIDE DEF w
    <3> QED  BY <3>1 DEF TypeInv, TypeOK
  <2> QED  BY ZenonT(40), <1>7, <2>2, <2>3 DEF FileMove
<1>8. ASSUME NEW c \in Calls, ResumeFix(c) PROVE FileMove(s)
  <2>1. call[c].copy \in Record
    BY <1>8, CallIsTyped DEF ResumeFix, CallFits
  <2>2. SameWorker([call[c].copy EXCEPT !.window = call[c].proc], call[c].copy)
    BY <2>1 DEF SameWorker, Record
  <2>3. \/ active'[s] = active[s]
        \/ s = call[c].sid /\ active'[s] = [call[c].copy EXCEPT !.window = call[c].proc]
    BY <1>8 DEF ResumeFix, TypeInv, TypeOK
  <2> QED  BY <1>8, <2>2, <2>3 DEF FileMove
<1>9. ASSUME NEW p \in Procs, SessionStep(p) PROVE FileMove(s)
  <2>1. \/ UNCHANGED active \/ active' = Pruned \/ active' = RecordsOf(p)
        \/ StartRotated(p) \/ StartWrite(p) \/ StartClaim(p)
    BY <1>9 DEF SessionStep, StartKnown, StartNested, StartFresh, EndWrite, EndUnlink, Rotate, Nest, Die, files
  <2> QED  BY <1>1, <1>2, <1>3, <1>4, <1>6, <1>7, <2>1
<1>10. ASSUME NEW c \in Calls, CallStep(c) \/ Expire(c) \/ PruneUnlink(c) PROVE FileMove(s)
  <2>1. UNCHANGED active \/ ResumeFix(c) \/ PruneUnlink(c)
    BY <1>10 DEF CallStep, Expire, SpawnSidecar, SpawnConfirm, SpawnNoRegister, ResumeSeen, ResumeForget,
                 ResumeForked, ResumeGivesUp, SpawnTab, SpawnFails, ResumeTab, ResumeFails, files
  <2> QED  BY <1>1, <1>5, <1>8, <2>1
<1>11. ASSUME SpawnBegin \/ (\E t \in Sids : ResumeBegin(t) \/ Kill(t) \/ PruneRead(t)) \/ ManagerEnds
       PROVE  FileMove(s)
  BY <1>1, <1>2, <1>11 DEF SpawnBegin, ResumeBegin, Kill, PruneRead, ManagerEnds, files
<1> QED  BY <1>9, <1>10, <1>11 DEF Next

ClosedMove(s) ==
    \/ closed'[s] = None
    \/ closed'[s] = closed[s]
    \/ \E p \in Procs : EndWrite(p) /\ proc[p].sid = s /\ active[s] # None /\ ~active[s].nested
                          /\ closed'[s] = [name |-> active[s].name, at |-> NextClose]
LEMMA ClosedMoves ==
  ASSUME TypeInv, Next, NEW s \in Sids
  PROVE  ClosedMove(s)
<1>1. CASE UNCHANGED closed
  BY <1>1 DEF ClosedMove
<1>2. ASSUME NEW p \in Procs, EndWrite(p) PROVE ClosedMove(s)
  BY <1>2 DEF ClosedMove, EndWrite, TypeInv, TypeOK
<1>3. ASSUME NEW c \in Calls, ResumeForget(c) \/ ResumeForked(c) PROVE ClosedMove(s)
  BY <1>3 DEF ClosedMove, ResumeForget, ResumeForked, TypeInv, TypeOK
<1>4. ASSUME NEW p \in Procs, SessionStep(p) PROVE ClosedMove(s)
  <2>1. UNCHANGED closed \/ EndWrite(p)
    BY <1>4 DEF SessionStep, StartKnown, StartRotated, StartNested, StartFresh, StartWrite, StartClaim,
                EndUnlink, Rotate, Nest, Die, files
  <2> QED  BY <1>1, <1>2, <2>1
<1>5. ASSUME NEW c \in Calls, CallStep(c) \/ Expire(c) \/ PruneUnlink(c) PROVE ClosedMove(s)
  <2>1. UNCHANGED closed \/ ResumeForget(c) \/ ResumeForked(c)
    BY <1>5 DEF CallStep, Expire, PruneUnlink, SpawnSidecar, SpawnConfirm, SpawnNoRegister, ResumeSeen,
                ResumeFix, ResumeGivesUp, SpawnTab, SpawnFails, ResumeTab, ResumeFails, files
  <2> QED  BY <1>1, <1>3, <2>1
<1>6. ASSUME SpawnBegin \/ (\E t \in Sids : ResumeBegin(t) \/ Kill(t) \/ PruneRead(t)) \/ ManagerEnds
      PROVE  ClosedMove(s)
  BY <1>1, <1>6 DEF SpawnBegin, ResumeBegin, Kill, PruneRead, ManagerEnds, files
<1> QED  BY <1>4, <1>5, <1>6 DEF Next

BriefMove(s) ==
    \/ brief'[s] = None
    \/ brief'[s] = brief[s] /\ brief[s] \notin pending' \ pending
    \/ \E p \in Procs : StartClaim(p) /\ proc[p].sid = s /\ brief'[s] = proc[p].asg
                          /\ brief'[s] \in pending \ pending'
    \/ \E c \in Calls, t \in Sids \ {s} :
          ResumeForked(c) /\ active[s] # None /\ active[s].name = call[c].name
          /\ brief'[s] = brief[t] /\ brief'[t] = None
LEMMA BriefMoves ==
  ASSUME TypeInv, Next, \A a \in pending : call[a].pc # "free",
         \A t \in Sids : brief[t] \in Calls => call[brief[t]].pc # "free", NEW s \in Sids
  PROVE  BriefMove(s)
<1>1. CASE UNCHANGED brief /\ pending' \subseteq pending
  BY <1>1 DEF BriefMove
<1>2. ASSUME NEW p \in Procs, StartClaim(p) PROVE BriefMove(s)
  BY <1>2 DEF BriefMove, StartClaim, TypeInv, TypeOK, Unclaimed
<1>3. ASSUME NEW c \in Calls, ResumeForked(c) PROVE BriefMove(s)
  <2>1. PICK t \in Registered : /\ active[t].name = call[c].name
                                /\ brief' = IF brief[call[c].sid] # None /\ brief[t] = None
                                   THEN [brief EXCEPT ![t] = brief[call[c].sid], ![call[c].sid] = None]
                                   ELSE brief
    BY <1>3 DEF ResumeForked
  <2>2. call[c].sid \in Sids /\ UNCHANGED pending /\ t \in Sids /\ active[t] # None
    BY <1>3, <2>1, CallIsTyped, BoundsAreNats DEF ResumeForked, CallFits, TypeInv, TypeOK, Registered, ToolCall
  <2> QED  BY <1>3, <2>1, <2>2 DEF BriefMove, TypeInv, TypeOK
<1>4. CASE SpawnBegin
  <2>1. UNCHANGED brief /\ pending' = pending \union {NextCall} /\ call[NextCall].pc = "free" /\ NextCall \in Calls
    BY <1>4, NextCallIsFree DEF SpawnBegin, MayCall
  <2> QED  BY <2>1 DEF BriefMove
<1>5. ASSUME NEW p \in Procs, SessionStep(p) PROVE BriefMove(s)
  <2>1. (UNCHANGED brief /\ pending' \subseteq pending) \/ StartClaim(p)
    BY <1>5 DEF SessionStep, StartKnown, StartRotated, StartNested, StartFresh, StartWrite, EndWrite,
                EndUnlink, Rotate, Nest, Die, files
  <2> QED  BY <1>1, <1>2, <2>1
<1>6. ASSUME NEW c \in Calls, CallStep(c) \/ Expire(c) \/ PruneUnlink(c) PROVE BriefMove(s)
  <2>1. (UNCHANGED brief /\ pending' \subseteq pending) \/ ResumeForked(c)
    BY <1>6 DEF CallStep, Expire, PruneUnlink, SpawnSidecar, SpawnConfirm, SpawnNoRegister, ResumeSeen,
                ResumeFix, ResumeForget, ResumeGivesUp, SpawnTab, SpawnFails, ResumeTab, ResumeFails, files
  <2> QED  BY <1>1, <1>3, <2>1
<1>7. ASSUME (\E t \in Sids : ResumeBegin(t) \/ Kill(t) \/ PruneRead(t)) \/ ManagerEnds
      PROVE  BriefMove(s)
  BY <1>1, <1>7 DEF ResumeBegin, Kill, PruneRead, ManagerEnds, files
<1> QED  BY <1>4, <1>5, <1>6, <1>7 DEF Next

\* What a call has read it keeps, but for the record that a resume reads.
SameCall(d) ==
    /\ call'[d].op = call[d].op /\ call'[d].name = call[d].name /\ call'[d].sid = call[d].sid
    /\ call'[d].before = call[d].before /\ call'[d].at = call[d].at

\* A process keeps its session until it is dead; a new one, and one whose
\* session was cleared, gets a new session id, and a resumed one its old.
ProcMove(p) ==
    \/ proc'[p] = proc[p]
    \/ /\ proc[p].pc = "none" /\ proc'[p].pc = "boot" /\ proc'[p].parent \in Procs \union {None}
       /\ \/ used < MaxSids /\ proc'[p].sid = used + 1 /\ used' = used + 1
          \/ \E c \in Calls : /\ call[c].op = "resume" /\ call[c].pc = "tab"
                              /\ proc'[p].sid = call[c].sid /\ proc'[p].parent = None
                              /\ \/ call'[c] = Returned /\ proc'[p].sid \in gaveUp'
                                 \/ call'[c].pc = "poll" /\ call'[c].proc = p /\ SameCall(c)
    \/ /\ proc[p].pc \in {"run", "ending"} /\ proc'[p].pc = "boot" /\ proc'[p].parent = proc[p].parent
       /\ used < MaxSids /\ proc'[p].sid = used + 1 /\ used' = used + 1
    \/ /\ StartKnown(p) \/ StartRotated(p) \/ StartNested(p) \/ StartFresh(p)
       /\ proc[p].pc = "boot" /\ proc'[p].pc = IF StartKnown(p) THEN "rewrite" ELSE "write"
       /\ proc'[p].sid = proc[p].sid /\ proc'[p].parent = proc[p].parent
    \/ /\ StartWrite(p)
       /\ proc'[p].pc = IF proc[p].pc = "write" /\ ~proc[p].rec.nested THEN "claim" ELSE "run"
       /\ proc'[p].sid = proc[p].sid /\ proc'[p].parent = proc[p].parent /\ proc'[p].rec = proc[p].rec
    \/ /\ \/ proc[p].pc = "claim" /\ proc'[p].pc = "run"
          \/ proc[p].pc = "run" /\ proc'[p].pc \in {"hup", "ending"}
          \/ proc[p].pc = "hup" /\ proc'[p].pc = "ending"
       /\ proc'[p].sid = proc[p].sid /\ proc'[p].parent = proc[p].parent
    \/ proc'[p].pc = "dead"

LEMMA ProcMoves ==
  ASSUME TypeInv, Next, NEW p \in Procs
  PROVE  ProcMove(p)
<1>1. CASE UNCHANGED proc
  BY <1>1 DEF ProcMove
<1>2. ASSUME NEW q \in Procs, q # p, NEW r, proc' = [proc EXCEPT ![q] = r]
      PROVE  ProcMove(p)
  BY <1>2 DEF ProcMove, TypeInv, TypeOK
<1>3. ASSUME NEW r, proc' = [proc EXCEPT ![p] = r]
      PROVE  proc'[p] = r
  BY <1>3 DEF TypeInv, TypeOK
<1>4. ASSUME NEW q \in Procs, StartKnown(q) \/ StartRotated(q) \/ StartNested(q) \/ StartFresh(q)
      PROVE  ProcMove(p)
  <2>1. \E rec : proc' = [proc EXCEPT ![q].pc = IF StartKnown(q) THEN "rewrite" ELSE "write", ![q].rec = rec]
    <3>1. CASE StartKnown(q)
      BY <3>1 DEF StartKnown
    <3>2. CASE ~StartKnown(q) /\ StartRotated(q)
      BY <3>2 DEF StartRotated
    <3>3. CASE ~StartKnown(q) /\ (StartNested(q) \/ StartFresh(q))
      BY <3>3 DEF StartNested, StartFresh
    <3> QED  BY <1>4, <3>1, <3>2, <3>3
  <2>2. PICK rec : proc' = [proc EXCEPT ![q].pc = IF StartKnown(q) THEN "rewrite" ELSE "write", ![q].rec = rec]
    BY <2>1
  <2>3. proc[q].pc = "boot"
    BY <1>4 DEF StartKnown, StartRotated, StartNested, StartFresh, Unknown
  <2>4. \A x \in Procs \ {q} : proc'[x] = proc[x]
    BY <2>2 DEF TypeInv, TypeOK
  <2>5. /\ proc'[q].pc = IF StartKnown(q) THEN "rewrite" ELSE "write"
        /\ proc'[q].sid = proc[q].sid /\ proc'[q].parent = proc[q].parent
    BY <2>2, ProcIsTyped DEF Process, TypeInv, TypeOK
  <2> QED  BY <1>4, <2>3, <2>4, <2>5 DEF ProcMove
<1>5. ASSUME NEW q \in Procs, StartWrite(q)
      PROVE  ProcMove(p)
  <2>1. proc' = [proc EXCEPT ![q] = [proc[q] EXCEPT !.pc = IF proc[q].pc = "write" /\ ~proc[q].rec.nested
                                                            THEN "claim" ELSE "run"]]
    BY <1>5 DEF StartWrite, ToPc, Claims
  <2>2. \A x \in Procs \ {q} : proc'[x] = proc[x]
    BY <2>1 DEF TypeInv, TypeOK
  <2>3. /\ proc'[q].pc = IF proc[q].pc = "write" /\ ~proc[q].rec.nested THEN "claim" ELSE "run"
        /\ proc'[q].sid = proc[q].sid /\ proc'[q].parent = proc[q].parent /\ proc'[q].rec = proc[q].rec
    BY <2>1, ProcIsTyped DEF Process, TypeInv, TypeOK
  <2> QED  BY <1>5, <2>2, <2>3 DEF ProcMove
<1>6. ASSUME NEW q \in Procs, StartClaim(q)
      PROVE  ProcMove(p)
  <2>1. \A x \in Procs \ {q} : proc'[x] = proc[x]
    BY <1>6 DEF StartClaim, TypeInv, TypeOK
  <2>2. /\ proc[q].pc = "claim" /\ proc'[q].pc = "run"
        /\ proc'[q].sid = proc[q].sid /\ proc'[q].parent = proc[q].parent
    BY <1>6, ProcIsTyped DEF StartClaim, Process, TypeInv, TypeOK
  <2> QED  BY <2>1, <2>2 DEF ProcMove
<1>7. ASSUME NEW q \in Procs, NEW pc \in {"hup", "ending"}, proc' = [proc EXCEPT ![q] = [proc[q] EXCEPT !.pc = pc]],
             proc[q].pc = "run" \/ (proc[q].pc = "hup" /\ pc = "ending")
      PROVE  ProcMove(p)
  <2>1. \A x \in Procs \ {q} : proc'[x] = proc[x]
    BY <1>7 DEF TypeInv, TypeOK
  <2>2. proc'[q].pc = pc /\ proc'[q].sid = proc[q].sid /\ proc'[q].parent = proc[q].parent
    BY <1>7, ProcIsTyped DEF Process, TypeInv, TypeOK
  <2> QED  BY <1>7, <2>1, <2>2 DEF ProcMove
<1>8. ASSUME NEW q \in Procs, proc' = [proc EXCEPT ![q] = [NoProc EXCEPT !.pc = "dead"]]
      PROVE  ProcMove(p)
  <2>1. q # p \/ proc'[p].pc = "dead"
    BY <1>8 DEF NoProc, TypeInv, TypeOK
  <2> QED  BY <1>2, <1>8, <2>1 DEF ProcMove
<1>9. ASSUME NEW q \in Procs, EndWrite(q) PROVE ProcMove(p)
  BY <1>7, <1>9 DEF EndWrite, ToPc
<1>10. ASSUME NEW q \in Procs, proc[q].pc \in {"run", "ending"}, used < MaxSids, used' = used + 1, NEW b,
              proc' = [proc EXCEPT ![q] = [proc[q] EXCEPT !.pc = "boot", !.sid = used + 1, !.again = b]]
       PROVE  ProcMove(p)
  <2>1. \A x \in Procs \ {q} : proc'[x] = proc[x]
    BY <1>10 DEF TypeInv, TypeOK
  <2>2. proc'[q].pc = "boot" /\ proc'[q].sid = used + 1 /\ proc'[q].parent = proc[q].parent
    BY <1>10, ProcIsTyped DEF Process, TypeInv, TypeOK
  <2> QED  BY <1>10, <2>1, <2>2 DEF ProcMove
<1>11. ASSUME NEW q \in Procs, EndUnlink(q) PROVE ProcMove(p)
  <2>1. CASE proc[q].again /\ used < MaxSids
    <3>1. /\ used' = used + 1 /\ proc[q].pc = "ending"
          /\ proc' = [proc EXCEPT ![q] = [proc[q] EXCEPT !.pc = "boot", !.sid = used + 1, !.again = FALSE]]
      BY <1>11, <2>1, ProcIsTyped DEF EndUnlink, TypeInv, TypeOK
    <3> QED  BY <1>10, <2>1, <3>1
  <2>2. CASE ~(proc[q].again /\ used < MaxSids)
    BY <1>8, <1>11, <2>2 DEF EndUnlink, ToPc
  <2> QED  BY <2>1, <2>2
<1>12. ASSUME NEW q \in Procs, Rotate(q) PROVE ProcMove(p)
  <2>1. CASE used' = used + 1 /\ proc' = [proc EXCEPT ![q].pc = "boot", ![q].sid = used + 1]
    <3>1. \A x \in Procs \ {q} : proc'[x] = proc[x]
      BY <2>1 DEF TypeInv, TypeOK
    <3>2. proc'[q].pc = "boot" /\ proc'[q].sid = used + 1 /\ proc'[q].parent = proc[q].parent
      BY <2>1, ProcIsTyped DEF Process, TypeInv, TypeOK
    <3> QED  BY <1>12, <2>1, <3>1, <3>2 DEF ProcMove, Rotate
  <2>2. CASE proc' = [proc EXCEPT ![q].pc = "hup", ![q].again = TRUE]
    <3>1. \A x \in Procs \ {q} : proc'[x] = proc[x]
      BY <2>2 DEF TypeInv, TypeOK
    <3>2. proc'[q].pc = "hup" /\ proc'[q].sid = proc[q].sid /\ proc'[q].parent = proc[q].parent
      BY <2>2, ProcIsTyped DEF Process, TypeInv, TypeOK
    <3> QED  BY <1>12, <2>2, <3>1, <3>2 DEF ProcMove, Rotate
  <2> QED  BY <1>12, <2>1, <2>2 DEF Rotate
<1>13. ASSUME NEW q \in Procs, Nest(q) PROVE ProcMove(p)
  <2> DEFINE n == NextProc
  <2>1. n \in Procs /\ proc[n].pc = "none" /\ used < MaxSids /\ used' = used + 1
    BY <1>13, NextProcIsFree DEF Nest
  <2> HIDE DEF n
  <2>2. proc' = [proc EXCEPT ![n] = [NoProc EXCEPT !.pc = "boot", !.sid = used + 1,
                   !.name = proc[q].name, !.asg = proc[q].asg, !.parent = q]]
    BY <1>13 DEF Nest, n
  <2>3. \A x \in Procs \ {n} : proc'[x] = proc[x]
    BY <2>2 DEF TypeInv, TypeOK
  <2>4. proc'[n].pc = "boot" /\ proc'[n].sid = used + 1 /\ proc'[n].parent = q
    BY <2>1, <2>2 DEF NoProc, TypeInv, TypeOK
  <2> QED  BY <2>1, <2>3, <2>4 DEF ProcMove
<1>14. ASSUME NEW q \in Procs, SessionStep(q) PROVE ProcMove(p)
  BY <1>4, <1>5, <1>6, <1>8, <1>9, <1>11, <1>12, <1>13, <1>14 DEF SessionStep, Die, ToPc
<1>15. ASSUME NEW c \in Calls, NEW b \in BOOLEAN,
              SpawnTab(c, b) \/ SpawnFails(c, b) \/ ResumeTab(c, b) \/ ResumeFails(c, b)
       PROVE  ProcMove(p)
  <2>1. CASE SpawnTab(c, b) \/ (SpawnFails(c, b) /\ b) \/ ResumeTab(c, b) \/ (ResumeFails(c, b) /\ b)
    <3>1. PICK sid \in Sids, asg \in Assignments \union {None}, blind \in BOOLEAN :
             /\ SpareProc /\ Launch(sid, call[c].name, asg, blind) /\ used' = Max({used, sid})
             /\ \/ sid = used + 1
                \/ call[c].op = "resume" /\ call[c].pc = "tab" /\ sid = call[c].sid /\ sid \in resumed
             /\ \/ SpawnTab(c, b) \/ SpawnFails(c, b) \/ ResumeTab(c, b)
                \/ gaveUp' = gaveUp \union {sid}
      BY <2>1, LaunchedIs
    <3> DEFINE n == NextProc
    <3>2. n \in Procs /\ proc[n].pc = "none"
      BY <3>1, NextProcIsFree
    <3>3. proc' = [proc EXCEPT ![n] = [NoProc EXCEPT !.pc = "boot", !.sid = sid, !.name = call[c].name,
                                                     !.asg = asg, !.blind = blind]]
      BY <3>1 DEF Launch
    <3> HIDE DEF n
    <3>4. \A x \in Procs \ {n} : proc'[x] = proc[x]
      BY <3>3 DEF TypeInv, TypeOK
    <3>5. proc'[n].pc = "boot" /\ proc'[n].sid = sid /\ proc'[n].parent = None
      BY <3>2, <3>3 DEF NoProc, TypeInv, TypeOK
    <3>6. sid = used + 1 => used < MaxSids /\ used' = used + 1
      <4>1. ASSUME sid = used + 1 PROVE used < MaxSids /\ used' = used + 1
        <5>1. used \in Nat /\ used + 1 <= MaxSids /\ MaxSids \in Nat
          BY <4>1, UsedIsTyped, BoundsAreNats DEF Sids
        <5>2. {used, used + 1} \in SUBSET Nat /\ {used, used + 1} # {} /\ \A x \in {used, used + 1} : x <= used + 1
          BY <5>1
        <5>3. Max({used, used + 1}) \in {used, used + 1} /\ used + 1 <= Max({used, used + 1})
          BY <5>1, <5>2, GreatestExists
        <5> QED  BY <3>1, <4>1, <5>1, <5>3
      <4> QED  BY <4>1
    <3>7. CASE sid = used + 1
      BY <3>2, <3>4, <3>5, <3>6, <3>7 DEF ProcMove
    <3>8. CASE sid # used + 1
      <4>1. call[c].op = "resume" /\ call[c].pc = "tab" /\ sid = call[c].sid
        BY <3>1, <3>8
      <4>2. CASE ResumeTab(c, b)
        <5>1. call' = [call EXCEPT ![c].pc = "poll", ![c].proc = n]
          BY <4>2 DEF ResumeTab, n
        <5>2. call'[c].pc = "poll" /\ call'[c].proc = n /\ SameCall(c)
          BY <5>1, CallIsTyped DEF SameCall, ToolCall, TypeInv, TypeOK
        <5> QED  BY <3>2, <3>4, <3>5, <4>1, <5>2 DEF ProcMove
      <4>3. CASE ~ResumeTab(c, b)
        <5>1. ResumeFails(c, b) /\ gaveUp' = gaveUp \union {sid}
          BY <2>1, <3>1, <4>1, <4>3 DEF SpawnTab, SpawnFails
        <5>2. call'[c] = Returned
          BY <5>1 DEF ResumeFails, Returns, TypeInv, TypeOK
        <5> QED  BY <3>2, <3>4, <3>5, <4>1, <5>1, <5>2 DEF ProcMove
      <4> QED  BY <4>2, <4>3
    <3> QED  BY <3>7, <3>8
  <2> QED  BY <1>1, <1>15, <2>1 DEF SpawnFails, ResumeFails
<1>16. ASSUME NEW c \in Calls, CallStep(c) \/ Expire(c) \/ PruneUnlink(c) PROVE ProcMove(p)
  <2>1. \/ UNCHANGED proc
        \/ \E b \in BOOLEAN : SpawnTab(c, b) \/ SpawnFails(c, b) \/ ResumeTab(c, b) \/ ResumeFails(c, b)
    BY <1>16 DEF CallStep, Expire, PruneUnlink, SpawnSidecar, SpawnConfirm, SpawnNoRegister, ResumeSeen,
                 ResumeFix, ResumeForget, ResumeForked, ResumeGivesUp
  <2> QED  BY <1>1, <1>15, <2>1
<1>17. ASSUME NEW s \in Sids, Kill(s) PROVE ProcMove(p)
  <2> DEFINE w == active[s].window
  <2>1. CASE Lives(w) /\ ToPc(w, IF proc[w].pc = "run" THEN "hup" ELSE "dead")
    <3>1. w \in Procs
      BY <1>17, <2>1, FileIsTyped DEF Kill, Registered, Lives
    <3> HIDE DEF w
    <3>2. CASE proc[w].pc = "run"
      BY <1>7, <2>1, <3>1, <3>2 DEF ToPc
    <3>3. CASE proc[w].pc # "run"
      BY <1>8, <2>1, <3>1, <3>3 DEF ToPc
    <3> QED  BY <3>2, <3>3
  <2> QED  BY <1>1, <1>17, <2>1 DEF Kill
<1>18. ASSUME SpawnBegin \/ (\E t \in Sids : ResumeBegin(t) \/ PruneRead(t)) \/ ManagerEnds
       PROVE  ProcMove(p)
  BY <1>1, <1>18 DEF SpawnBegin, ResumeBegin, PruneRead, ManagerEnds
<1> QED  BY <1>14, <1>16, <1>17, <1>18 DEF Next

\* A call keeps what it has read, and goes on or returns.
CallMove(d) ==
    \/ call'[d] = call[d]
    \/ call'[d] = Returned
    \/ /\ SpawnBegin /\ call[d].pc = "free" /\ call'[d].op = "spawn" /\ call'[d].pc = "tab"
       /\ call'[d].name = UniqueName(Requested, Taken(Pruned, None))
       /\ call'[d].before = {s \in Sids : Pruned[s] # None} /\ call'[d].copy = None
    \/ \E s \in Sids :
          /\ ResumeBegin(s) /\ call[d].pc = "free" /\ call'[d].op = "resume" /\ call'[d].pc = "tab"
          /\ call'[d].sid = s /\ call'[d].name = closed[s].name /\ call'[d].at = closed[s].at
          /\ call'[d].before = {t \in Sids : Pruned[t] # None} /\ call'[d].copy = None
    \/ \E s \in Sids :
          /\ PruneRead(s) /\ call[d].pc = "free" /\ call'[d].op = "prune" /\ call'[d].pc = "unlink"
          /\ call'[d].sid = s /\ call'[d].before = {} /\ call'[d].copy = active[s]
    \/ /\ call[d].pc = "tab" /\ call'[d].pc \in {"sidecar", "poll"} /\ call'[d].proc = NextProc
       /\ SpareProc /\ call'[d].copy = call[d].copy /\ SameCall(d)
    \/ /\ call[d].pc = "sidecar" /\ call'[d].pc = "confirm"
       /\ call'[d].proc = call[d].proc /\ call'[d].copy = call[d].copy /\ SameCall(d)
    \/ /\ ResumeSeen(d)
       /\ call'[d].pc = IF active[call[d].sid].window = call[d].proc THEN "forget" ELSE "fix"
       /\ call'[d].proc = call[d].proc /\ call'[d].copy = active[call[d].sid] /\ SameCall(d)
    \/ /\ ResumeFix(d) /\ call'[d].pc = "forget"
       /\ call'[d].proc = call[d].proc /\ call'[d].copy = call[d].copy /\ SameCall(d)

LEMMA CallMoves ==
  ASSUME TypeInv, Next, NEW d \in Calls
  PROVE  CallMove(d)
<1>1. CASE UNCHANGED call
  BY <1>1 DEF CallMove
<1>2. ASSUME NEW c \in Calls, NEW r, call' = [call EXCEPT ![c] = r]
      PROVE  (d # c => call'[d] = call[d]) /\ call'[c] = r
  BY <1>2 DEF TypeInv, TypeOK
<1>3. ASSUME NEW c \in Calls, Returns(c) PROVE CallMove(d)
  BY <1>2, <1>3 DEF Returns, CallMove
<1>4. ASSUME NEW c \in Calls, SpawnSidecar(c) \/ ResumeSeen(c) \/ ResumeFix(c) PROVE CallMove(d)
  <2>1. \A e \in Calls \ {c} : call'[e] = call[e]
    BY <1>4 DEF SpawnSidecar, ResumeSeen, ResumeFix, ToStep, TypeInv, TypeOK
  <2>2. CASE SpawnSidecar(c)
    <3>1. call'[c] = [call[c] EXCEPT !.pc = "confirm"] /\ call[c].pc = "sidecar"
      BY <2>2 DEF SpawnSidecar, ToStep, TypeInv, TypeOK
    <3>2. /\ call'[c].pc = "confirm" /\ SameCall(c)
          /\ call'[c].proc = call[c].proc /\ call'[c].copy = call[c].copy
      BY <3>1, CallIsTyped DEF ToolCall, SameCall
    <3> QED  BY <2>1, <3>1, <3>2 DEF CallMove
  <2>3. CASE ResumeSeen(c)
    <3> DEFINE pc == IF active[call[c].sid].window = call[c].proc THEN "forget" ELSE "fix"
    <3>1. call' = [call EXCEPT ![c].copy = active[call[c].sid], ![c].pc = pc]
      BY <2>3 DEF ResumeSeen
    <3> HIDE DEF pc
    <3>2. /\ call'[c].pc = pc /\ SameCall(c)
          /\ call'[c].proc = call[c].proc /\ call'[c].copy = active[call[c].sid]
      BY <3>1, CallIsTyped DEF ToolCall, SameCall, TypeInv, TypeOK
    <3> QED  BY <2>1, <2>3, <3>2 DEF CallMove, pc
  <2>4. CASE ResumeFix(c)
    <3>1. call'[c] = [call[c] EXCEPT !.pc = "forget"]
      BY <2>4 DEF ResumeFix, ToStep, TypeInv, TypeOK
    <3>2. /\ call'[c].pc = "forget" /\ SameCall(c)
          /\ call'[c].proc = call[c].proc /\ call'[c].copy = call[c].copy
      BY <3>1, CallIsTyped DEF ToolCall, SameCall
    <3> QED  BY <2>1, <2>4, <3>2 DEF CallMove
  <2> QED  BY <1>4, <2>2, <2>3, <2>4
<1>5. ASSUME NEW c \in Calls, NEW b \in BOOLEAN, SpawnTab(c, b) \/ ResumeTab(c, b) PROVE CallMove(d)
  <2> DEFINE pc == IF SpawnTab(c, b) THEN "sidecar" ELSE "poll"
  <2>1. /\ call' = [call EXCEPT ![c].pc = pc, ![c].proc = NextProc]
        /\ call[c].pc = "tab" /\ SpareProc
    BY <1>5 DEF SpawnTab, ResumeTab
  <2> HIDE DEF pc
  <2>2. \A e \in Calls \ {c} : call'[e] = call[e]
    BY <2>1 DEF TypeInv, TypeOK
  <2>3. call'[c].pc = pc /\ SameCall(c) /\ call'[c].proc = NextProc /\ call'[c].copy = call[c].copy
    BY <2>1, CallIsTyped DEF ToolCall, SameCall, TypeInv, TypeOK
  <2> QED  BY <2>1, <2>2, <2>3 DEF CallMove, pc
<1>6. CASE SpawnBegin
  <2> DEFINE n == NextCall
             r == [NoCall EXCEPT !.op = "spawn", !.pc = "tab",
                                 !.name = UniqueName(Requested, Taken(Pruned, None)),
                                 !.before = {s \in Sids : Pruned[s] # None}]
  <2>1. call' = [call EXCEPT ![n] = r] /\ n \in Calls /\ call[n].pc = "free"
    BY <1>6, NextCallIsFree DEF SpawnBegin, Begin, MayCall
  <2>2. (d # n => call'[d] = call[d]) /\ call'[n] = r
    <3> HIDE DEF r, n
    <3> QED  BY <1>2, <2>1
  <2>3. /\ r.op = "spawn" /\ r.pc = "tab" /\ r.name = UniqueName(Requested, Taken(Pruned, None))
        /\ r.before = {s \in Sids : Pruned[s] # None} /\ r.copy = None
    BY DEF NoCall
  <2> HIDE DEF r, n
  <2> QED  BY <1>6, <2>1, <2>2, <2>3 DEF CallMove
<1>7. ASSUME NEW s \in Sids, ResumeBegin(s) PROVE CallMove(d)
  <2> DEFINE n == NextCall
             r == [NoCall EXCEPT !.op = "resume", !.pc = "tab", !.name = closed[s].name, !.sid = s,
                                 !.at = closed[s].at, !.before = {t \in Sids : Pruned[t] # None}]
  <2>1. call' = [call EXCEPT ![n] = r] /\ n \in Calls /\ call[n].pc = "free"
    BY <1>7, NextCallIsFree DEF ResumeBegin, Begin, MayCall
  <2>2. (d # n => call'[d] = call[d]) /\ call'[n] = r
    <3> HIDE DEF r, n
    <3> QED  BY <1>2, <2>1
  <2>3. /\ r.op = "resume" /\ r.pc = "tab" /\ r.name = closed[s].name /\ r.sid = s /\ r.at = closed[s].at
        /\ r.before = {t \in Sids : Pruned[t] # None} /\ r.copy = None
    BY DEF NoCall
  <2> HIDE DEF r, n
  <2> QED  BY <1>7, <2>1, <2>2, <2>3 DEF CallMove
<1>8. ASSUME NEW s \in Sids, PruneRead(s) PROVE CallMove(d)
  <2> DEFINE n == NextCall
             r == [NoCall EXCEPT !.op = "prune", !.pc = "unlink", !.sid = s, !.copy = active[s]]
  <2>1. call' = [call EXCEPT ![n] = r] /\ n \in Calls /\ call[n].pc = "free"
    BY <1>8, NextCallIsFree DEF PruneRead, Begin
  <2>2. (d # n => call'[d] = call[d]) /\ call'[n] = r
    <3> HIDE DEF r, n
    <3> QED  BY <1>2, <2>1
  <2>3. r.op = "prune" /\ r.pc = "unlink" /\ r.sid = s /\ r.before = {} /\ r.copy = active[s]
    BY DEF NoCall
  <2> HIDE DEF r, n
  <2> QED  BY <1>8, <2>1, <2>2, <2>3 DEF CallMove
<1>9. ASSUME NEW s \in Sids, Kill(s) PROVE CallMove(d)
  <2>1. NextCall \in Calls /\ call' = [call EXCEPT ![NextCall] = Returned]
    BY <1>9, NextCallIsFree DEF Kill, MayCall, Begin
  <2> QED  BY <1>3, <2>1 DEF Returns
<1>10. ASSUME NEW p \in Procs, SessionStep(p) PROVE CallMove(d)
  <2>1. UNCHANGED call
    BY <1>10 DEF SessionStep, StartKnown, StartRotated, StartNested, StartFresh, StartWrite, StartClaim,
                 EndWrite, EndUnlink, Rotate, Nest, Die
  <2> QED  BY <1>1, <2>1
<1>11. ASSUME NEW c \in Calls, CallStep(c) \/ Expire(c) \/ PruneUnlink(c) PROVE CallMove(d)
  <2>1. \/ UNCHANGED call \/ Returns(c) \/ SpawnSidecar(c) \/ ResumeSeen(c) \/ ResumeFix(c)
        \/ \E b \in BOOLEAN : SpawnTab(c, b) \/ ResumeTab(c, b)
    BY <1>11 DEF CallStep, Expire, PruneUnlink, SpawnConfirm, SpawnNoRegister, SpawnFails, ResumeFails,
                 ResumeForget, ResumeForked, ResumeGivesUp
  <2> QED  BY <1>1, <1>3, <1>4, <1>5, <2>1
<1> QED  BY <1>1, <1>6, <1>7, <1>8, <1>9, <1>10, <1>11 DEF Next, ManagerEnds

\* Only a closed session is resumed, session ids in use stay so.
LEMMA ResumedGrows ==
  ASSUME TypeInv, Next
  PROVE  /\ resumed \subseteq resumed'
         /\ \A s \in resumed' \ resumed : s \in Sids /\ ResumeBegin(s) /\ closed[s] # None
<1>1. CASE UNCHANGED resumed
  BY <1>1
<1>2. ASSUME NEW s \in Sids, ResumeBegin(s)
      PROVE  /\ resumed \subseteq resumed'
             /\ \A t \in resumed' \ resumed : t \in Sids /\ ResumeBegin(t) /\ closed[t] # None
  BY <1>2 DEF ResumeBegin
<1>3. ASSUME NEW p \in Procs, SessionStep(p) PROVE UNCHANGED resumed
  BY <1>3 DEF SessionStep, StartKnown, StartRotated, StartNested, StartFresh, StartWrite, StartClaim,
              EndWrite, EndUnlink, Rotate, Nest, Die, seen
<1>4. ASSUME NEW c \in Calls, CallStep(c) \/ Expire(c) \/ PruneUnlink(c) PROVE UNCHANGED resumed
  BY <1>4 DEF CallStep, Expire, PruneUnlink, SpawnSidecar, SpawnConfirm, SpawnNoRegister, ResumeSeen,
              ResumeFix, ResumeForget, ResumeForked, ResumeGivesUp, SpawnTab, SpawnFails, ResumeTab,
              ResumeFails, seen
<1>5. ASSUME SpawnBegin \/ (\E t \in Sids : Kill(t) \/ PruneRead(t)) \/ ManagerEnds PROVE UNCHANGED resumed
  BY <1>5 DEF SpawnBegin, Kill, PruneRead, ManagerEnds, seen
<1> QED  BY <1>1, <1>2, <1>3, <1>4, <1>5 DEF Next

LEMMA UsedGrows ==
  ASSUME TypeInv, Next
  PROVE  used \in Nat /\ used' \in Nat /\ used <= used'
<1>1. used \in Nat
  BY UsedIsTyped
<1>2. CASE UNCHANGED used \/ used' = used + 1
  BY <1>1, <1>2
<1>3. ASSUME NEW c \in Calls, NEW b \in BOOLEAN,
             SpawnTab(c, b) \/ (SpawnFails(c, b) /\ b) \/ ResumeTab(c, b) \/ (ResumeFails(c, b) /\ b)
      PROVE  used \in Nat /\ used' \in Nat /\ used <= used'
  <2>1. PICK sid \in Sids, asg \in Assignments \union {None}, blind \in BOOLEAN :
           /\ SpareProc /\ Launch(sid, call[c].name, asg, blind) /\ used' = Max({used, sid})
           /\ \/ sid = used + 1
              \/ call[c].op = "resume" /\ call[c].pc = "tab" /\ sid = call[c].sid /\ sid \in resumed
           /\ \/ SpawnTab(c, b) \/ SpawnFails(c, b) \/ ResumeTab(c, b)
              \/ gaveUp' = gaveUp \union {sid}
    BY <1>3, LaunchedIs
  <2>2. used' \in 0..MaxSids /\ used <= used'
    BY <2>1, LaunchFits
  <2> QED  BY <1>1, <2>2, BoundsAreNats
<1>4. ASSUME NEW p \in Procs, SessionStep(p) PROVE UNCHANGED used \/ used' = used + 1
  BY <1>4 DEF SessionStep, StartKnown, StartRotated, StartNested, StartFresh, StartWrite, StartClaim,
              EndWrite, EndUnlink, Rotate, Nest, Die
<1>5. ASSUME NEW c \in Calls, CallStep(c) \/ Expire(c) \/ PruneUnlink(c)
      PROVE  \/ UNCHANGED used
             \/ \E b \in BOOLEAN : \/ SpawnTab(c, b) \/ (SpawnFails(c, b) /\ b)
                                   \/ ResumeTab(c, b) \/ (ResumeFails(c, b) /\ b)
  BY <1>5 DEF CallStep, Expire, PruneUnlink, SpawnSidecar, SpawnConfirm, SpawnNoRegister, ResumeSeen,
              ResumeFix, ResumeForget, ResumeForked, ResumeGivesUp, SpawnFails, ResumeFails
<1>6. ASSUME SpawnBegin \/ (\E t \in Sids : ResumeBegin(t) \/ Kill(t) \/ PruneRead(t)) \/ ManagerEnds
      PROVE  UNCHANGED used
  BY <1>6 DEF SpawnBegin, ResumeBegin, Kill, PruneRead, ManagerEnds
<1> QED  BY <1>2, <1>3, <1>4, <1>5, <1>6 DEF Next

\* A step changes one process.
LEMMA OneProcessMoves ==
  ASSUME TypeInv, Next
  PROVE  \E p : \A q \in Procs : q # p => proc'[q] = proc[q]
<1>1. CASE UNCHANGED proc
  BY <1>1
<1>2. ASSUME NEW p, NEW r, proc' = [proc EXCEPT ![p] = r]
      PROVE  \E x : \A q \in Procs : q # x => proc'[q] = proc[q]
  BY <1>2 DEF TypeInv, TypeOK
<1>3. ASSUME NEW p \in Procs, SessionStep(p) PROVE \E x : \A q \in Procs : q # x => proc'[q] = proc[q]
  <2>1. CASE Nest(p)
    BY <1>2, <2>1 DEF Nest
  <2>2. CASE ~Nest(p)
    <3>1. \A q \in Procs : q # p => proc'[q] = proc[q]
      BY <1>3, <2>2 DEF SessionStep, StartKnown, StartRotated, StartNested, StartFresh, StartWrite, StartClaim,
                        EndWrite, EndUnlink, Rotate, Die, ToPc, TypeInv, TypeOK
    <3> QED  BY <3>1
  <2> QED  BY <2>1, <2>2
<1>4. ASSUME NEW c \in Calls, CallStep(c) \/ Expire(c) \/ PruneUnlink(c)
      PROVE  \E x : \A q \in Procs : q # x => proc'[q] = proc[q]
  <2>1. UNCHANGED proc \/ \E sid, name, asg, blind : Launch(sid, name, asg, blind)
    BY <1>4 DEF CallStep, Expire, PruneUnlink, SpawnSidecar, SpawnConfirm, SpawnNoRegister, ResumeSeen,
                ResumeFix, ResumeForget, ResumeForked, ResumeGivesUp, SpawnTab, SpawnFails, ResumeTab, ResumeFails
  <2> QED  BY <1>1, <1>2, <2>1 DEF Launch
<1>5. ASSUME NEW s \in Sids, Kill(s) PROVE \E x : \A q \in Procs : q # x => proc'[q] = proc[q]
  BY <1>1, <1>2, <1>5 DEF Kill, ToPc
<1> QED  BY <1>1, <1>3, <1>4, <1>5 DEF Next, SpawnBegin, ResumeBegin, PruneRead, ManagerEnds

\* Assignments are written by spawns, and only hooks and forked resumes move them.
LEMMA PendingGrows ==
  ASSUME TypeInv, Next, NEW a \in pending'
  PROVE  a \in pending \/ (SpawnBegin /\ a = NextCall /\ a \in Calls /\ call[a].pc = "free")
<1>1. CASE SpawnBegin
  BY <1>1, NextCallIsFree DEF SpawnBegin, MayCall
<1>2. CASE pending' \subseteq pending
  BY <1>2
<1>3. ASSUME NEW p \in Procs, SessionStep(p) PROVE pending' \subseteq pending
  BY <1>3 DEF SessionStep, StartKnown, StartRotated, StartNested, StartFresh, StartWrite, StartClaim,
              EndWrite, EndUnlink, Rotate, Nest, Die, files, Unclaimed
<1>4. ASSUME NEW c \in Calls, CallStep(c) \/ Expire(c) \/ PruneUnlink(c) PROVE pending' \subseteq pending
  BY <1>4 DEF CallStep, Expire, PruneUnlink, SpawnSidecar, SpawnConfirm, SpawnNoRegister, ResumeSeen,
              ResumeFix, ResumeForget, ResumeForked, ResumeGivesUp, SpawnTab, SpawnFails, ResumeTab,
              ResumeFails, files
<1>5. ASSUME (\E t \in Sids : ResumeBegin(t) \/ Kill(t) \/ PruneRead(t)) \/ ManagerEnds
      PROVE  pending' \subseteq pending
  BY <1>5 DEF ResumeBegin, Kill, PruneRead, ManagerEnds, files
<1> QED  BY <1>1, <1>2, <1>3, <1>4, <1>5 DEF Next

LEMMA BriefChanges ==
  ASSUME Next
  PROVE  UNCHANGED brief \/ (\E p \in Procs : StartClaim(p)) \/ (\E c \in Calls : ResumeForked(c))
<1>1. ASSUME NEW p \in Procs, SessionStep(p) PROVE UNCHANGED brief \/ StartClaim(p)
  BY <1>1 DEF SessionStep, StartKnown, StartRotated, StartNested, StartFresh, StartWrite,
              EndWrite, EndUnlink, Rotate, Nest, Die, files
<1>2. ASSUME NEW c \in Calls, CallStep(c) \/ Expire(c) \/ PruneUnlink(c) PROVE UNCHANGED brief \/ ResumeForked(c)
  BY <1>2 DEF CallStep, Expire, PruneUnlink, SpawnSidecar, SpawnConfirm, SpawnNoRegister, ResumeSeen,
              ResumeFix, ResumeForget, ResumeGivesUp, SpawnTab, SpawnFails, ResumeTab, ResumeFails, files
<1>3. ASSUME SpawnBegin \/ (\E t \in Sids : ResumeBegin(t) \/ Kill(t) \/ PruneRead(t)) \/ ManagerEnds
      PROVE  UNCHANGED brief
  BY <1>3 DEF SpawnBegin, ResumeBegin, Kill, PruneRead, ManagerEnds, files
<1> QED  BY <1>1, <1>2, <1>3 DEF Next

-----------------------------------------------------------------------------
(* A session that starts has nothing yet, unless it was resumed *)

Starting(p) == proc[p].pc \in {"boot", "write"}
Writing(p) == proc[p].pc \in {"write", "rewrite", "claim"}

Untouched(s) ==
    /\ active[s] = None /\ closed[s] = None /\ brief[s] = None /\ s \notin resumed
    /\ \A c \in Calls : s \notin call[c].before

\* The same of the state after the step.
StaysUntouched(s) ==
    /\ active'[s] = None /\ closed'[s] = None /\ brief'[s] = None /\ s \notin resumed'
    /\ \A c \in Calls : s \notin call'[c].before

NewUntouched == \A s \in Sids : s > used => Untouched(s)
FirstStart ==
    \A p \in Procs : Starting(p) /\ proc[p].sid \notin resumed => Untouched(proc[p].sid)
OwnSession ==
    \A p, q \in Procs : p # q /\ proc[p].sid # None /\ proc[p].sid = proc[q].sid
                        => proc[p].sid \in resumed
RewriteIsResumed == \A p \in Procs : proc[p].pc = "rewrite" => proc[p].sid \in resumed
\* Records name processes that were started.
Recorded ==
    /\ \A s \in Sids : active[s] # None => proc[active[s].pid].pc # "none"
    /\ \A c \in Calls : call[c].copy # None => proc[call[c].copy.pid].pc # "none"
\* The process that resumes a session is new: no record names it.
ResumedBoot ==
    \A p \in Procs : proc[p].pc = "boot" /\ proc[p].sid \in resumed =>
        /\ proc[p].parent = None
        /\ \A s \in Sids : active[s] # None => active[s].pid # p
        /\ \A c \in Calls : call[c].copy # None => call[c].copy.pid # p
\* Until a hook has claimed, the record is the one that it wrote.
ClaimIsWritten ==
    \A p \in Procs : proc[p].pc = "claim" /\ proc[p].sid \notin resumed /\ active[proc[p].sid] # None
                     => SameWorker(active[proc[p].sid], proc[p].rec)
Bare(s) == s \notin resumed /\ closed[s] = None /\ brief[s] = None
NestedIsBare ==
    /\ \A s \in Sids : active[s] # None /\ active[s].nested => Bare(s)
    /\ \A p \in Procs : Writing(p) /\ proc[p].rec.nested => Bare(proc[p].sid)
    /\ \A c \in Calls : call[c].op = "resume" /\ call[c].copy # None => ~call[c].copy.nested
BriefOfCall ==
    /\ \A a \in pending : call[a].pc # "free"
    /\ \A s \in Sids : brief[s] \in Calls => call[brief[s]].pc # "free"
OneBrief ==
    \A s \in Sids : brief[s] # None => brief[s] \notin pending /\ \A t \in Sids : brief[t] = brief[s] => t = s

StartInv ==
    /\ TypeInv /\ NewUntouched /\ FirstStart /\ OwnSession /\ RewriteIsResumed /\ Recorded
    /\ ResumedBoot /\ ClaimIsWritten /\ NestedIsBare /\ BriefOfCall /\ OneBrief

\* The session of a process that lives.
LEMMA LiveSid ==
  ASSUME TypeInv, NEW p \in Procs
  PROVE  /\ proc[p].pc \in {"none", "dead"} <=> proc[p].sid = None
         /\ proc[p].sid # None => proc[p].sid \in Sids /\ proc[p].sid \in Nat /\ proc[p].sid <= used
         /\ Writing(p) => proc[p].rec \in Record /\ proc[p].rec.pid = p /\ Kind(proc[p].rec)
         /\ proc[p].pc = "claim" => ~proc[p].rec.nested
<1>1. ProcFits(proc[p], p, used) /\ used \in Nat /\ 1..used \subseteq Sids /\ None \notin Sids
  BY ProcIsTyped, UsedIsTyped, BoundsAreNats
<1> QED  BY <1>1 DEF ProcFits, Writing

\* What resumes touch was resumed before.
LEMMA ResumeSid ==
  ASSUME TypeInv, NEW c \in Calls
  PROVE  /\ ResumeFix(c) => call[c].sid \in resumed /\ call[c].op = "resume" /\ call[c].copy \in Record
                            /\ call[c].copy # None /\ Kind(call[c].copy)
         /\ ResumeSeen(c) => call[c].sid \in resumed /\ call[c].op = "resume" /\ active[call[c].sid] # None
                             /\ call[c].sid \in Sids
         /\ call[c].op = "resume" => call[c].sid \in resumed /\ call[c].sid \in Sids
         /\ Plain(call[c].name)
<1>1. CallFits(call[c], resumed) /\ call[c] \in ToolCall /\ resumed \subseteq Sids
  BY CallIsTyped DEF TypeInv, TypeOK
<1> QED  BY <1>1, BoundsAreNats DEF CallFits, ToolCall, ResumeFix, ResumeSeen

LEMMA UntouchedStays ==
  ASSUME StartInv, Next, NEW s \in Sids, Untouched(s),
         \A p \in Procs : proc[p].sid = s => Starting(p) /\ ~StartWrite(p)
  PROVE  StaysUntouched(s)
<1>1. TypeInv /\ BriefOfCall
  BY DEF StartInv
<1>2. active'[s] = None
  <2>1. FileMove(s)
    BY <1>1, FileMoves
  <2>2. \A c \in Calls : ~(ResumeFix(c) /\ call[c].sid = s)
    BY <1>1, ResumeSid DEF Untouched
  <2>3. \A p \in Procs : ~(StartClaim(p) /\ proc[p].sid = s)
    BY DEF StartClaim, Starting
  <2> QED  BY <2>1, <2>2, <2>3 DEF FileMove, Untouched
<1>3. closed'[s] = None
  <2>1. ClosedMove(s)
    BY <1>1, ClosedMoves
  <2> QED  BY <2>1 DEF ClosedMove, Untouched
<1>4. brief'[s] = None
  <2>1. BriefMove(s)
    BY <1>1, BriefMoves DEF BriefOfCall
  <2>3. \A p \in Procs : ~(StartClaim(p) /\ proc[p].sid = s)
    BY DEF StartClaim, Starting
  <2> QED  BY <2>1, <2>3 DEF BriefMove, Untouched
<1>5. s \notin resumed'
  BY <1>1, ResumedGrows DEF Untouched
<1>6. ASSUME NEW c \in Calls PROVE s \notin call'[c].before
  <2>1. CallMove(c)
    BY <1>1, CallMoves
  <2>2. Pruned[s] = None
    BY DEF Pruned, Untouched
  <2>3. Returned.before = {}
    BY DEF Returned, NoCall
  <2> QED  BY <2>1, <2>2, <2>3 DEF CallMove, SameCall, Untouched
<1> QED  BY <1>2, <1>3, <1>4, <1>5, <1>6 DEF StaysUntouched

LEMMA NewStaysUntouched ==
  ASSUME StartInv, Next
  PROVE  NewUntouched'
<1> SUFFICES ASSUME NEW s \in Sids, s > used' PROVE StaysUntouched(s)
  BY DEF NewUntouched, Untouched, StaysUntouched
<1>1. TypeInv
  BY DEF StartInv
<1>2. used \in Nat /\ used' \in Nat /\ used <= used' /\ s \in Nat
  BY <1>1, UsedGrows, BoundsAreNats
<1>3. \A p \in Procs : proc[p].sid # s
  BY <1>1, <1>2, LiveSid, BoundsAreNats
<1>4. Untouched(s)
  BY <1>2 DEF StartInv, NewUntouched
<1> QED  BY <1>3, <1>4, UntouchedStays

\* A new session id is nobody's.
LEMMA NewSid ==
  ASSUME StartInv, Next, used < MaxSids
  PROVE  /\ used + 1 \in Sids /\ Untouched(used + 1) /\ StaysUntouched(used + 1)
         /\ \A p \in Procs : proc[p].sid # used + 1
<1>1. TypeInv
  BY DEF StartInv
<1>2. used + 1 \in Sids /\ used \in Nat /\ used + 1 > used
  BY <1>1, UsedIsTyped
<1>3. \A p \in Procs : proc[p].sid # used + 1
  BY <1>1, <1>2, LiveSid, BoundsAreNats
<1>4. Untouched(used + 1)
  BY <1>2 DEF StartInv, NewUntouched
<1>5. StaysUntouched(used + 1)
  BY <1>2, <1>3, <1>4, UntouchedStays
<1> QED  BY <1>2, <1>3, <1>4, <1>5

LEMMA FirstStartStays ==
  ASSUME StartInv, Next
  PROVE  FirstStart'
<1> SUFFICES ASSUME NEW p \in Procs, Starting(p)', proc'[p].sid \notin resumed'
             PROVE  StaysUntouched(proc'[p].sid)
  BY DEF FirstStart, Untouched, StaysUntouched
<1>1. TypeInv /\ FirstStart /\ OwnSession
  BY DEF StartInv
<1>2. ProcMove(p) /\ resumed \subseteq resumed'
  BY <1>1, ProcMoves, ResumedGrows
<1>3. CASE used < MaxSids /\ proc'[p].sid = used + 1
  BY <1>3, NewSid
<1>4. CASE Starting(p) /\ proc'[p].sid = proc[p].sid /\ ~StartWrite(p)
  <2> DEFINE s == proc[p].sid
  <2>1. s \in Sids /\ s \notin resumed /\ Untouched(s)
    BY <1>1, <1>2, <1>4, LiveSid DEF Starting, FirstStart
  <2>2. \A q \in Procs : proc[q].sid = s => q = p
    BY <1>1, <2>1, BoundsAreNats DEF OwnSession
  <2>3. StaysUntouched(s)
    BY <1>4, <2>1, <2>2, UntouchedStays
  <2> QED  BY <1>4, <2>3
<1>5. ~(StartWrite(p) /\ proc'[p].pc \in {"claim", "run"})
  BY DEF Starting
<1>6. \A c \in Calls : call[c].op = "resume" => proc'[p].sid # call[c].sid
  BY <1>1, <1>2, ResumeSid
<1>7. StartWrite(p) => proc'[p].pc \in {"claim", "run"}
  <2>1. StartWrite(p) => proc'[p].pc = IF proc[p].pc = "write" /\ Claims(p) THEN "claim" ELSE "run"
    BY ProcIsTyped, <1>1 DEF StartWrite, ToPc, TypeInv, TypeOK, Process
  <2> QED  BY <2>1
<1> QED  BY <1>2, <1>3, <1>4, <1>5, <1>6, <1>7 DEF ProcMove, Starting

LEMMA OwnSessionStays ==
  ASSUME StartInv, Next
  PROVE  OwnSession'
<1> SUFFICES ASSUME NEW p \in Procs, NEW q \in Procs, p # q, proc'[p].sid # None,
                    proc'[p].sid = proc'[q].sid, proc'[p].sid \notin resumed'
             PROVE  FALSE
  BY DEF OwnSession
<1>1. TypeInv /\ OwnSession /\ TypeInv'
  BY TypesKept DEF StartInv
<1>2. ProcMove(p) /\ ProcMove(q) /\ resumed \subseteq resumed'
  BY <1>1, ProcMoves, ResumedGrows
<1>3. proc'[p].pc \notin {"none", "dead"} /\ proc'[q].pc \notin {"none", "dead"}
  <2>1. ProcFits(proc'[p], p, used') /\ ProcFits(proc'[q], q, used')
    BY <1>1 DEF TypeInv
  <2> QED  BY <2>1 DEF ProcFits
<1>4. \A c \in Calls : call[c].op = "resume" => proc'[p].sid # call[c].sid
  BY <1>1, <1>2, ResumeSid
<1>5. \/ proc'[p].sid = proc[p].sid
      \/ used < MaxSids /\ proc'[p].sid = used + 1 /\ proc[p].pc \in {"none", "run", "ending"} /\ proc'[p].pc = "boot"
  BY <1>2, <1>3, <1>4 DEF ProcMove
<1>6. \/ proc'[q].sid = proc[q].sid
      \/ used < MaxSids /\ proc'[q].sid = used + 1 /\ proc[q].pc \in {"none", "run", "ending"} /\ proc'[q].pc = "boot"
  BY <1>2, <1>3, <1>4 DEF ProcMove
<1>7. ~(proc'[p].sid = proc[p].sid /\ proc'[q].sid = proc[q].sid)
  BY <1>1, <1>2 DEF OwnSession
<1>8. used < MaxSids
  BY <1>5, <1>6, <1>7
<1>9. proc[p].sid # used + 1 /\ proc[q].sid # used + 1
  BY <1>8, NewSid
<1>10. proc'[p].sid = used + 1 /\ proc'[q].sid = used + 1
  BY <1>5, <1>6, <1>7
<1>11. proc[p] # proc'[p] /\ proc[q] # proc'[q]
  BY <1>9, <1>10
<1> QED  BY <1>1, <1>11, OneProcessMoves

LEMMA RewriteStaysResumed ==
  ASSUME StartInv, Next
  PROVE  RewriteIsResumed'
<1> SUFFICES ASSUME NEW p \in Procs, proc'[p].pc = "rewrite" PROVE proc'[p].sid \in resumed'
  BY DEF RewriteIsResumed
<1>1. TypeInv /\ RewriteIsResumed /\ FirstStart
  BY DEF StartInv
<1>2. ProcMove(p) /\ resumed \subseteq resumed'
  BY <1>1, ProcMoves, ResumedGrows
<1>3. CASE proc'[p] = proc[p]
  BY <1>1, <1>2, <1>3 DEF RewriteIsResumed
<1>4. CASE StartKnown(p) /\ proc'[p].sid = proc[p].sid
  <2>1. proc[p].pc = "boot" /\ active[proc[p].sid] # None
    BY <1>4 DEF StartKnown
  <2> QED  BY <1>1, <1>2, <1>4, <2>1 DEF FirstStart, Starting, Untouched
<1> QED  BY <1>2, <1>3, <1>4 DEF ProcMove

LEMMA RecordedStays ==
  ASSUME StartInv, Next
  PROVE  Recorded'
<1>1. TypeInv /\ Recorded /\ TypeInv'
  BY TypesKept DEF StartInv
<1>2. \A p \in Procs : proc[p].pc # "none" => proc'[p].pc # "none"
  BY <1>1, ProcMoves DEF ProcMove
<1>3. ASSUME NEW s \in Sids, active'[s] # None
      PROVE  proc'[active'[s].pid].pc # "none"
  <2>1. active'[s].pid \in Procs
    <3>1. active'[s] \in Record
      BY <1>1, <1>3 DEF TypeInv, TypeOK
    <3> QED  BY <3>1, RecordIsTyped
  <2>2. proc[active'[s].pid].pc # "none"
    <3>1. FileMove(s)
      BY <1>1, FileMoves
    <3>2. ASSUME NEW p \in Procs, StartWrite(p) \/ StartClaim(p), SameWorker(active'[s], proc[p].rec)
          PROVE  proc[active'[s].pid].pc # "none"
      <4>1. Writing(p)
        BY <3>2 DEF StartWrite, StartClaim, Writing
      <4>2. active'[s].pid = p
        BY <1>1, <3>2, <4>1, LiveSid DEF SameWorker
      <4> QED  BY <4>1, <4>2 DEF Writing
    <3>3. ASSUME NEW c \in Calls, ResumeFix(c), SameWorker(active'[s], call[c].copy)
          PROVE  proc[active'[s].pid].pc # "none"
      BY <1>1, <3>3, ResumeSid DEF SameWorker, Recorded
    <3> QED  BY <1>1, <1>3, <3>1, <3>2, <3>3 DEF FileMove, Recorded
  <2> QED  BY <1>2, <2>1, <2>2
<1>4. ASSUME NEW c \in Calls, call'[c].copy # None
      PROVE  proc'[call'[c].copy.pid].pc # "none"
  <2>1. call'[c].copy.pid \in Procs
    <3>1. call'[c] \in ToolCall
      BY <1>1 DEF TypeInv, TypeOK
    <3> QED  BY <1>4, <3>1, RecordIsTyped DEF ToolCall
  <2>2. proc[call'[c].copy.pid].pc # "none"
    <3>1. CallMove(c)
      BY <1>1, CallMoves
    <3>2. Returned.copy = None
      BY DEF Returned, NoCall
    <3>3. call'[c].copy = call[c].copy \/ \E s \in Sids : call'[c].copy = active[s]
      BY <1>1, <1>4, <3>1, <3>2, ResumeSid DEF CallMove
    <3> QED  BY <1>1, <1>4, <3>3 DEF Recorded
  <2> QED  BY <1>2, <2>1, <2>2
<1> QED  BY <1>3, <1>4 DEF Recorded

LEMMA ResumedBootStays ==
  ASSUME StartInv, Next
  PROVE  ResumedBoot'
<1>1. TypeInv /\ TypeInv' /\ FirstStart /\ Recorded /\ ResumedBoot
  BY TypesKept DEF StartInv
<1> SUFFICES ASSUME NEW p \in Procs, proc'[p].pc = "boot", proc'[p].sid \in resumed'
             PROVE  /\ proc'[p].parent = None
                    /\ \A s \in Sids : active'[s] # None => active'[s].pid # p
                    /\ \A c \in Calls : call'[c].copy # None => call'[c].copy.pid # p
  BY DEF ResumedBoot
<1>2. /\ proc'[p].parent = None
      /\ \A s \in Sids : active[s] # None => active[s].pid # p
      /\ \A c \in Calls : call[c].copy # None => call[c].copy.pid # p
      /\ proc[p].pc \in {"none", "boot"}
  <2>1. ProcMove(p)
    BY <1>1, ProcMoves
  <2>2. CASE proc'[p] = proc[p]
    <3>1. proc[p].sid \in resumed
      <4>1. proc[p].sid \notin resumed => Untouched(proc[p].sid)
        BY <1>1, <2>2 DEF FirstStart, Starting
      <4> QED  BY <1>1, <2>2, <4>1, ResumedGrows DEF Untouched
    <3> QED  BY <1>1, <2>2, <3>1 DEF ResumedBoot
  <2>3. ~(used < MaxSids /\ proc'[p].sid = used + 1)
    BY NewSid DEF StaysUntouched
  <2>4. CASE proc[p].pc = "none" /\ proc'[p].parent = None
    BY <1>1, <2>4 DEF Recorded
  <2>5. ~(StartWrite(p) /\ proc'[p].pc = IF proc[p].pc = "write" /\ ~proc[p].rec.nested THEN "claim" ELSE "run")
    OBVIOUS
  <2> QED  BY <2>1, <2>2, <2>3, <2>4, <2>5 DEF ProcMove
<1>3. ASSUME NEW s \in Sids, active'[s] # None
      PROVE  active'[s].pid # p
  <2>1. FileMove(s)
    BY <1>1, FileMoves
  <2>2. ASSUME NEW q \in Procs, StartWrite(q) \/ StartClaim(q), SameWorker(active'[s], proc[q].rec)
        PROVE  active'[s].pid # p
    <3>1. Writing(q)
      BY <2>2 DEF StartWrite, StartClaim, Writing
    <3>2. active'[s].pid = q
      BY <1>1, <2>2, <3>1, LiveSid DEF SameWorker
    <3> QED  BY <1>2, <3>1, <3>2 DEF Writing
  <2>3. ASSUME NEW c \in Calls, ResumeFix(c), SameWorker(active'[s], call[c].copy)
        PROVE  active'[s].pid # p
    BY <1>1, <1>2, <2>3, ResumeSid DEF SameWorker
  <2> QED  BY <1>2, <1>3, <2>1, <2>2, <2>3 DEF FileMove
<1>4. ASSUME NEW c \in Calls, call'[c].copy # None
      PROVE  call'[c].copy.pid # p
  <2>1. CallMove(c)
    BY <1>1, CallMoves
  <2>2. Returned.copy = None
    BY DEF Returned, NoCall
  <2>3. call'[c].copy = call[c].copy \/ \E s \in Sids : call'[c].copy = active[s]
    BY <1>1, <1>4, <2>1, <2>2, ResumeSid DEF CallMove
  <2> QED  BY <1>2, <1>4, <2>3
<1> QED  BY <1>2, <1>3, <1>4

LEMMA ClaimStaysWritten ==
  ASSUME StartInv, Next
  PROVE  ClaimIsWritten'
<1> SUFFICES ASSUME NEW p \in Procs, proc'[p].pc = "claim", proc'[p].sid \notin resumed',
                    active'[proc'[p].sid] # None
             PROVE  SameWorker(active'[proc'[p].sid], proc'[p].rec)
  BY DEF ClaimIsWritten, SameWorker
<1> DEFINE s == proc[p].sid
<1>1. TypeInv /\ OwnSession /\ ClaimIsWritten
  BY DEF StartInv
<1>2. ProcMove(p) /\ resumed \subseteq resumed'
  BY <1>1, ProcMoves, ResumedGrows
<1>3. proc'[p].sid = s /\ s \in Sids /\ proc'[p].rec = proc[p].rec /\ s \notin resumed
  <2>1. proc'[p].sid = s /\ proc'[p].rec = proc[p].rec /\ Writing(p)
    BY <1>2 DEF ProcMove, StartWrite, Writing
  <2> QED  BY <1>1, <1>2, <2>1, LiveSid DEF Writing
<1>4. FileMove(s)
  BY <1>1, <1>3, FileMoves
<1>5. \A q \in Procs : proc[q].sid = s => q = p
  BY <1>1, <1>3, BoundsAreNats DEF OwnSession
<1>6. \A c \in Calls : ~(ResumeFix(c) /\ call[c].sid = s)
  BY <1>1, <1>3, ResumeSid
<1>7. CASE SameWorker(active'[s], proc[p].rec)
  BY <1>3, <1>7 DEF SameWorker
<1>8. CASE active'[s] = active[s] /\ ~StartWrite(p)
  <2>1. proc[p].pc = "claim"
    BY <1>2, <1>8 DEF ProcMove
  <2>2. SameWorker(active[s], proc[p].rec)
    BY <1>1, <1>3, <1>8, <2>1 DEF ClaimIsWritten
  <2> QED  BY <1>3, <1>8, <2>2 DEF SameWorker
<1>9. CASE StartWrite(p)
  <2>1. active'[s] = proc[p].rec
    BY <1>1, <1>3, <1>9 DEF StartWrite, TypeInv, TypeOK
  <2> QED  BY <1>3, <2>1 DEF SameWorker
<1> QED  BY <1>3, <1>4, <1>5, <1>6, <1>7, <1>8, <1>9 DEF FileMove

\* A nested session has no brief, and is not resumed.
LEMMA BareStays ==
  ASSUME StartInv, Next, NEW s \in Sids, Bare(s), active[s] = None \/ active[s].nested,
         \A p \in Procs : proc[p].sid = s => ~StartClaim(p)
  PROVE  s \notin resumed' /\ closed'[s] = None /\ brief'[s] = None
<1>1. TypeInv /\ BriefOfCall
  BY DEF StartInv
<1>2. s \notin resumed'
  BY <1>1, ResumedGrows DEF Bare
<1>3. closed'[s] = None
  BY <1>1, ClosedMoves DEF ClosedMove, Bare
<1>4. brief'[s] = None
  <2>1. BriefMove(s)
    BY <1>1, BriefMoves DEF BriefOfCall
  <2>2. \A c \in Calls : ~(active[s] # None /\ active[s].name = call[c].name)
    BY <1>1, ResumeSid, FileIsTyped DEF Kind
  <2> QED  BY <2>1, <2>2 DEF BriefMove, Bare
<1> QED  BY <1>2, <1>3, <1>4

LEMMA NestedStaysBare ==
  ASSUME StartInv, Next
  PROVE  NestedIsBare'
<1>1. /\ TypeInv /\ TypeInv' /\ FirstStart /\ OwnSession /\ RewriteIsResumed /\ ResumedBoot
      /\ ClaimIsWritten /\ NestedIsBare /\ BriefOfCall
  BY TypesKept DEF StartInv
<1>2. ASSUME NEW s \in Sids, active[s] # None, active[s].nested
      PROVE  s \notin resumed' /\ closed'[s] = None /\ brief'[s] = None
  <2>1. Bare(s)
    BY <1>1, <1>2 DEF NestedIsBare
  <2>2. ASSUME NEW p \in Procs, proc[p].sid = s, StartClaim(p) PROVE FALSE
    <3>1. proc[p].pc = "claim" /\ ~proc[p].rec.nested
      BY <1>1, <2>2, LiveSid DEF StartClaim
    <3>2. SameWorker(active[s], proc[p].rec)
      BY <1>1, <1>2, <2>1, <2>2, <3>1 DEF ClaimIsWritten, Bare
    <3> QED  BY <1>2, <3>1, <3>2 DEF SameWorker
  <2> QED  BY <1>2, <2>1, <2>2, BareStays
<1>3. ASSUME NEW p \in Procs, Writing(p), proc[p].rec.nested
      PROVE  /\ proc[p].sid \in Sids /\ proc[p].sid \notin resumed'
             /\ closed'[proc[p].sid] = None /\ brief'[proc[p].sid] = None
  <2> DEFINE s == proc[p].sid
  <2>1. Bare(s) /\ s \in Sids /\ proc[p].pc # "claim"
    BY <1>1, <1>3, LiveSid DEF NestedIsBare, Writing
  <2>2. proc[p].pc = "write"
    BY <1>1, <1>3, <2>1 DEF RewriteIsResumed, Writing, Bare
  <2>3. active[s] = None
    BY <1>1, <2>1, <2>2 DEF FirstStart, Starting, Untouched, Bare
  <2>4. \A q \in Procs : proc[q].sid = s => q = p
    BY <1>1, <2>1, BoundsAreNats DEF OwnSession, Bare
  <2>5. ~StartClaim(p)
    BY <2>1 DEF StartClaim
  <2> QED  BY <2>1, <2>3, <2>4, <2>5, BareStays
<1>4. ASSUME NEW s \in Sids, active'[s] # None, active'[s].nested
      PROVE  Bare(s)'
  <2>1. FileMove(s)
    BY <1>1, FileMoves
  <2>2. ASSUME NEW p \in Procs, StartWrite(p) \/ StartClaim(p), proc[p].sid = s,
               SameWorker(active'[s], proc[p].rec)
        PROVE  s \notin resumed' /\ closed'[s] = None /\ brief'[s] = None
    <3>1. Writing(p) /\ proc[p].rec.nested
      BY <1>4, <2>2 DEF StartWrite, StartClaim, Writing, SameWorker
    <3> QED  BY <1>3, <2>2, <3>1
  <2>3. \A c \in Calls : ~(ResumeFix(c) /\ SameWorker(active'[s], call[c].copy))
    BY <1>1, <1>4, ResumeSid DEF NestedIsBare, SameWorker
  <2> QED  BY <1>2, <1>4, <2>1, <2>2, <2>3 DEF FileMove, Bare
<1>5. ASSUME NEW p \in Procs, Writing(p)', proc'[p].rec.nested
      PROVE  Bare(proc[p].sid)'
  <2>1. ProcMove(p)
    BY <1>1, ProcMoves
  <2>2. CASE proc'[p] = proc[p]
    BY <1>3, <1>5, <2>2 DEF Writing, Bare
  <2>3. CASE /\ StartKnown(p) \/ StartRotated(p) \/ StartNested(p) \/ StartFresh(p)
             /\ proc'[p].sid = proc[p].sid
    <3> DEFINE s == proc[p].sid
    <3>1. proc[p].pc = "boot" /\ s \in Sids
      BY <1>1, <2>3, LiveSid DEF StartKnown, StartRotated, StartNested, StartFresh, Unknown
    <3>2. s \notin resumed
      <4>1. CASE StartKnown(p)
        <5>1. proc'[p].rec.nested = active[s].nested /\ active[s] # None
          <6>1. active[s] \in Record /\ active[s] # None
            BY <1>1, <3>1, <4>1, FileIsTyped DEF StartKnown
          <6>2. proc'[p].rec = [active[s] EXCEPT !.pid = p, !.window = IF Pane(p) # None /\ ~active[s].nested
                                                                       THEN Pane(p) ELSE @]
            BY <1>1, <4>1, KnownIsOwn
          <6> QED  BY <6>1, <6>2 DEF Record
        <5> QED  BY <1>1, <1>5, <3>1, <5>1 DEF NestedIsBare, Bare
      <4>2. CASE StartRotated(p)
        <5>1. PICK t \in SameProcess(p) : TRUE
          BY <4>2 DEF StartRotated
        <5> QED  BY <1>1, <3>1, <5>1 DEF ResumedBoot, SameProcess
      <4>3. CASE StartNested(p)
        BY <1>1, <3>1, <4>3 DEF StartNested, HasParent, Lives, ResumedBoot
      <4>4. CASE StartFresh(p)
        <5>1. ~proc'[p].rec.nested
          BY <4>4, ProcIsTyped, <1>1 DEF StartFresh, Process, TypeInv, TypeOK
        <5> QED  BY <1>5, <5>1
      <4> QED  BY <2>3, <4>1, <4>2, <4>3, <4>4
    <3>3. Untouched(s)
      BY <1>1, <3>1, <3>2 DEF FirstStart, Starting
    <3>4. \A q \in Procs : proc[q].sid = s => q = p
      BY <1>1, <3>1, <3>2, BoundsAreNats DEF OwnSession
    <3>5. StaysUntouched(s)
      BY <3>1, <3>3, <3>4, UntouchedStays DEF Starting, StartWrite
    <3> QED  BY <2>3, <3>5 DEF Bare, StaysUntouched
  <2>4. CASE StartWrite(p) /\ proc'[p].pc = IF proc[p].pc = "write" /\ ~proc[p].rec.nested THEN "claim" ELSE "run"
    <3>1. proc'[p].pc = "claim"
      BY <1>5, <2>4 DEF Writing
    <3>2. ~proc'[p].rec.nested
      <4>1. ProcFits(proc'[p], p, used')
        BY <1>1 DEF TypeInv
      <4> QED  BY <3>1, <4>1 DEF ProcFits
    <3> QED  BY <1>5, <3>2
  <2> QED  BY <1>5, <2>1, <2>2, <2>3, <2>4 DEF ProcMove, Writing
<1>6. ASSUME NEW c \in Calls, call'[c].op = "resume", call'[c].copy # None
      PROVE  ~call'[c].copy.nested
  <2>1. CallMove(c)
    BY <1>1, CallMoves
  <2>2. Returned.copy = None
    BY DEF Returned, NoCall
  <2>3. CASE ResumeSeen(c) /\ call'[c].copy = active[call[c].sid]
    BY <1>1, <1>6, <2>3, ResumeSid DEF NestedIsBare, Bare
  <2>4. CASE call'[c].op = call[c].op /\ call'[c].copy = call[c].copy
    BY <1>1, <1>6, <2>4 DEF NestedIsBare
  <2> QED  BY <1>6, <2>1, <2>2, <2>3, <2>4 DEF CallMove, SameCall
<1> QED  BY <1>4, <1>5, <1>6 DEF NestedIsBare

LEMMA BriefStaysOfCall ==
  ASSUME StartInv, Next
  PROVE  BriefOfCall'
<1>1. TypeInv /\ BriefOfCall /\ TypeInv'
  BY TypesKept DEF StartInv
<1>2. \A c \in Calls : call[c].pc # "free" => call'[c].pc # "free"
  <2>1. Returned.pc = "done"
    BY DEF Returned, NoCall
  <2> QED  BY <1>1, <2>1, CallMoves DEF CallMove
<1>3. ASSUME NEW a \in pending'
      PROVE  call'[a].pc # "free"
  <2>1. a \in pending \/ (SpawnBegin /\ a = NextCall)
    BY <1>1, <1>3, PendingGrows
  <2>2. CASE a \in pending
    BY <1>1, <1>2, <2>2 DEF BriefOfCall, TypeInv, TypeOK
  <2>3. CASE SpawnBegin /\ a = NextCall
    <3> DEFINE r == [NoCall EXCEPT !.op = "spawn", !.pc = "tab",
                                   !.name = UniqueName(Requested, Taken(Pruned, None)),
                                   !.before = {s \in Sids : Pruned[s] # None}]
    <3>1. call' = [call EXCEPT ![a] = r] /\ a \in Calls /\ r.pc = "tab"
      BY <2>3, NextCallIsFree DEF SpawnBegin, Begin, MayCall, NoCall
    <3> HIDE DEF r
    <3> QED  BY <1>1, <3>1 DEF TypeInv, TypeOK
  <2> QED  BY <2>1, <2>2, <2>3
<1>4. ASSUME NEW s \in Sids, brief'[s] \in Calls
      PROVE  call'[brief'[s]].pc # "free"
  <2>1. BriefMove(s)
    BY <1>1, BriefMoves DEF BriefOfCall
  <2>2. call[brief'[s]].pc # "free"
    BY <1>1, <1>4, <2>1, BoundsAreNats DEF BriefMove, BriefOfCall
  <2> QED  BY <1>2, <1>4, <2>2
<1> QED  BY <1>3, <1>4 DEF BriefOfCall

LEMMA OneBriefStays ==
  ASSUME StartInv, Next
  PROVE  OneBrief'
<1>1. TypeInv /\ BriefOfCall /\ OneBrief
  BY DEF StartInv
<1>2. \A s \in Sids : BriefMove(s)
  BY <1>1, BriefMoves DEF BriefOfCall
<1>3. \A a \in pending' : a \in pending \/ call[a].pc = "free"
  BY <1>1, PendingGrows
<1>4. ASSUME NEW s \in Sids, brief'[s] # None
      PROVE  brief'[s] \notin pending' /\ \A t \in Sids : brief'[t] = brief'[s] => t = s
  <2>1. CASE UNCHANGED brief
    BY <1>1, <1>2, <1>4, <2>1 DEF BriefMove, OneBrief
  <2>2. ASSUME NEW p \in Procs, StartClaim(p)
        PROVE  brief'[s] \notin pending' /\ \A t \in Sids : brief'[t] = brief'[s] => t = s
    <3>1. proc[p].sid \in Sids
      BY <1>1, <2>2, LiveSid DEF StartClaim
    <3>2. \/ UNCHANGED brief
          \/ /\ proc[p].asg \in pending /\ pending' = pending \ {proc[p].asg}
             /\ brief' = [brief EXCEPT ![proc[p].sid] = proc[p].asg]
      BY <2>2 DEF StartClaim, Unclaimed
    <3> QED  BY <1>1, <1>4, <2>1, <3>1, <3>2 DEF OneBrief, TypeInv, TypeOK
  <2>3. ASSUME NEW c \in Calls, ResumeForked(c)
        PROVE  brief'[s] \notin pending' /\ \A t \in Sids : brief'[t] = brief'[s] => t = s
    <3>1. call[c].sid \in Sids /\ UNCHANGED pending
      BY <1>1, <2>3, CallIsTyped, BoundsAreNats DEF ResumeForked, CallFits, TypeInv, TypeOK, ToolCall
    <3>2. \/ UNCHANGED brief
          \/ \E t \in Sids : /\ brief[t] = None
                             /\ brief' = [brief EXCEPT ![t] = brief[call[c].sid], ![call[c].sid] = None]
      BY <2>3 DEF ResumeForked, Registered
    <3> QED  BY <1>1, <1>4, <2>1, <3>1, <3>2 DEF OneBrief, TypeInv, TypeOK
  <2>4. UNCHANGED brief \/ (\E p \in Procs : StartClaim(p)) \/ (\E c \in Calls : ResumeForked(c))
    BY BriefChanges
  <2> QED  BY <2>1, <2>2, <2>3, <2>4
<1> QED  BY <1>4 DEF OneBrief

LEMMA StartInit == Init => StartInv
<1> SUFFICES ASSUME Init PROVE StartInv
  OBVIOUS
<1>1. TypeInv
  BY TypesInit
<1>2. /\ used = 1 /\ resumed = {} /\ pending = {}
      /\ \A s \in Sids : closed[s] = None /\ (s # 1 => active[s] = None /\ brief[s] = None)
      /\ 1 \in Sids /\ brief[1] = 0 /\ 1 \in Procs
      /\ active[1] = [name |-> Requested, pid |-> 1, window |-> 1, nested |-> FALSE]
      /\ proc[1] = [NoProc EXCEPT !.pc = "run", !.sid = 1, !.asg = 0]
      /\ \A p \in Procs : p # 1 => proc[p] = NoProc
      /\ \A c \in Calls : call[c] = NoCall
  BY BoundsAreNats DEF Init, Sids, Procs
<1>3. proc[1].pc = "run" /\ \A p \in Procs : p # 1 => proc[p].pc = "none" /\ proc[p].sid = None
  BY <1>2 DEF NoProc
<1>4. \A c \in Calls : call[c].before = {} /\ call[c].copy = None /\ call[c].op = "none"
  BY <1>2 DEF NoCall
<1>5. \A p \in Procs : proc[p].pc \notin {"boot", "write", "rewrite", "claim"}
  BY <1>3
<1>6. active[1].pid = 1 /\ active[1].nested = FALSE
  BY <1>2
<1>7. NewUntouched /\ FirstStart /\ RewriteIsResumed /\ ResumedBoot /\ ClaimIsWritten
  BY <1>2, <1>4, <1>5, BoundsAreNats DEF NewUntouched, Untouched, FirstStart, Starting, RewriteIsResumed,
                                         ResumedBoot, ClaimIsWritten
<1>8. OwnSession
  BY <1>3 DEF OwnSession
<1>9. Recorded
  BY <1>2, <1>3, <1>4, <1>6 DEF Recorded
<1>10. NestedIsBare
  BY <1>2, <1>4, <1>5, <1>6 DEF NestedIsBare, Writing
<1>11. BriefOfCall /\ OneBrief
  BY <1>2, BoundsAreNats DEF BriefOfCall, OneBrief, Calls
<1> QED  BY <1>1, <1>7, <1>8, <1>9, <1>10, <1>11 DEF StartInv

LEMMA StartKept == StartInv /\ [Next]_vars => StartInv'
<1>1. ASSUME StartInv, Next PROVE StartInv'
  <2>1. TypeInv'
    BY <1>1, TypesKept DEF StartInv
  <2> QED  BY <1>1, <2>1, NewStaysUntouched, FirstStartStays, OwnSessionStays, RewriteStaysResumed, RecordedStays,
              ResumedBootStays, ClaimStaysWritten, NestedStaysBare, BriefStaysOfCall, OneBriefStays DEF StartInv
<1>2. ASSUME StartInv, UNCHANGED vars PROVE StartInv'
  <2>1. TypeInv'
    BY <1>2, TypesKept DEF StartInv
  <2>2. (NewUntouched /\ FirstStart /\ OwnSession /\ RewriteIsResumed /\ Recorded)'
    BY <1>2 DEF vars, files, seen, StartInv, NewUntouched, Untouched, FirstStart, Starting, OwnSession,
                RewriteIsResumed, Recorded
  <2>3. (ResumedBoot /\ ClaimIsWritten /\ NestedIsBare /\ BriefOfCall /\ OneBrief)'
    BY <1>2 DEF vars, files, seen, StartInv, ResumedBoot, ClaimIsWritten, NestedIsBare, Writing, Bare,
                SameWorker, BriefOfCall, OneBrief
  <2> QED  BY <2>1, <2>2, <2>3 DEF StartInv
<1> QED  BY <1>1, <1>2

LEMMA StartHolds == Spec => []StartInv
BY StartInit, StartKept, PTL DEF Spec

\* The records that the hooks of sessions and the calls of a manager write for
\* each other are what their readers take them for (registry.py, hooks.py and
\* mcp_server.py).
THEOREM TypeCorrect == Spec => []TypeOK
<1>1. StartInv => TypeOK
  BY DEF StartInv, TypeInv
<1> QED  BY <1>1, StartHolds, PTL

\* An assignment is in one place: in pending/, or in the hands of one session,
\* which is no nested one (_claim_pending_assignment, hooks.py:71).
THEOREM BriefsAreClaimedOnce == Spec => []BriefIsInOnePlace
<1>1. ASSUME StartInv PROVE BriefIsInOnePlace
  <2>1. ASSUME NEW a \in Assignments
        PROVE  Cardinality({s \in Sids : brief[s] = a}) + (IF a \in pending THEN 1 ELSE 0) <= 1
    <3> DEFINE has == {s \in Sids : brief[s] = a}
    <3>1. a # None
      BY BoundsAreNats
    <3>2. CASE has = {}
      <4>1. Cardinality(has) = 0
        BY <3>2, FS_EmptySet
      <4> HIDE DEF has
      <4> QED  BY <4>1 DEF has
    <3>3. ASSUME NEW s \in has
          PROVE  Cardinality(has) + (IF a \in pending THEN 1 ELSE 0) <= 1
      <4>1. has = {s} /\ a \notin pending
        BY <1>1, <3>1, <3>3 DEF StartInv, OneBrief
      <4>2. Cardinality(has) = 1
        BY <4>1, FS_Singleton
      <4> HIDE DEF has
      <4> QED  BY <4>1, <4>2
    <3> QED  BY <3>2, <3>3
  <2>2. \A s \in Sids : active[s] # None /\ active[s].nested => brief[s] = None
    BY <1>1 DEF StartInv, NestedIsBare, Bare
  <2> QED  BY <2>1, <2>2 DEF BriefIsInOnePlace
<1> QED  BY <1>1, StartHolds, PTL

-----------------------------------------------------------------------------
(* A spawn reports a new session *)

\* The names of the sessions that were registered before a spawn are not its own.
SpawnedIsNew ==
    \A c \in Calls : call[c].op = "spawn" => \A s \in call[c].before \ resumed :
        /\ active[s] # None => active[s].name # call[c].name
        /\ \A p \in Procs : proc[p].pc = "claim" /\ proc[p].sid = s => proc[p].rec.name # call[c].name

LEMMA SpawnedStaysNew ==
  ASSUME StartInv, SpawnedIsNew, Next
  PROVE  SpawnedIsNew'
<1>1. /\ TypeInv /\ TypeInv' /\ FirstStart /\ RewriteIsResumed /\ OwnSession /\ ClaimIsWritten
      /\ resumed \subseteq resumed'
  BY TypesKept, ResumedGrows DEF StartInv
<1> SUFFICES ASSUME NEW c \in Calls, call'[c].op = "spawn", NEW s \in call'[c].before \ resumed'
             PROVE  /\ active'[s] # None => active'[s].name # call'[c].name
                    /\ \A p \in Procs : proc'[p].pc = "claim" /\ proc'[p].sid = s
                                        => proc'[p].rec.name # call'[c].name
  BY DEF SpawnedIsNew
<1>2. s \in Sids /\ s \notin resumed
  <2>1. call'[c] \in ToolCall
    BY <1>1 DEF TypeInv, TypeOK
  <2> QED  BY <1>1, <2>1 DEF ToolCall
<1>3. \A q \in Procs : ProcMove(q)
  BY <1>1, ProcMoves
<1>4. \A d \in Calls : ~(ResumeFix(d) /\ call[d].sid = s)
  BY <1>1, <1>2, ResumeSid
<1>5. CASE call[c].op = "spawn" /\ call'[c].name = call[c].name /\ call'[c].before = call[c].before
  <2>1. /\ active[s] # None => active[s].name # call[c].name
        /\ \A p \in Procs : proc[p].pc = "claim" /\ proc[p].sid = s => proc[p].rec.name # call[c].name
    BY <1>2, <1>5 DEF SpawnedIsNew
  <2>2. ASSUME NEW p \in Procs, StartWrite(p), proc[p].sid = s PROVE FALSE
    <3>1. proc[p].pc = "write"
      BY <1>1, <1>2, <2>2 DEF StartWrite, RewriteIsResumed
    <3> QED  BY <1>1, <1>2, <1>5, <2>2, <3>1 DEF FirstStart, Starting, Untouched
  <2>3. active'[s] # None => active'[s].name # call[c].name
    <3>1. FileMove(s)
      BY <1>1, <1>2, FileMoves
    <3>2. \A p \in Procs : StartClaim(p) => proc[p].pc = "claim"
      BY DEF StartClaim
    <3> QED  BY <1>4, <2>1, <2>2, <3>1, <3>2 DEF FileMove, SameWorker
  <2>4. ASSUME NEW p \in Procs, proc'[p].pc = "claim", proc'[p].sid = s
        PROVE  proc'[p].rec.name # call[c].name
    <3>1. proc'[p] = proc[p] \/ (StartWrite(p) /\ proc'[p].sid = proc[p].sid)
      BY <1>3, <2>4 DEF ProcMove
    <3> QED  BY <2>1, <2>2, <2>4, <3>1
  <2> QED  BY <1>5, <2>3, <2>4
<1>6. CASE SpawnBegin /\ call'[c].name = UniqueName(Requested, Taken(Pruned, None))
           /\ call'[c].before = {t \in Sids : Pruned[t] # None}
  <2>1. active' = Pruned /\ UNCHANGED proc
    BY <1>6 DEF SpawnBegin
  <2>2. call'[c].name \notin Taken(Pruned, None)
    BY <1>6, NoneIsTyped, UniqueNameIsName
  <2>3. Pruned[s] # None /\ Pruned[s] = active[s]
    BY <1>6 DEF Pruned
  <2>4. Pruned[s].name # call'[c].name
    BY <1>2, <2>2, <2>3, BoundsAreNats DEF Taken
  <2>5. ASSUME NEW p \in Procs, proc[p].pc = "claim", proc[p].sid = s
        PROVE  proc[p].rec.name = active[s].name
    BY <1>1, <1>2, <2>3, <2>5 DEF ClaimIsWritten, SameWorker
  <2> QED  BY <2>1, <2>3, <2>4, <2>5
<1>7. CallMove(c)
  BY <1>1, CallMoves
<1>8. Returned.op = "none"
  BY DEF Returned, NoCall
<1> QED  BY <1>5, <1>6, <1>7, <1>8 DEF CallMove, SameCall

\* A spawn never reports as its worker a session that was registered before it
\* and not resumed since, whoever has dropped, rewritten or restored records
\* meanwhile (_confirm_spawn_registration, mcp_server.py:1918).
THEOREM SpawnsReportTheirOwn == Spec => []SpawnReportsANewSession
<1>1. Init => SpawnedIsNew
  BY DEF Init, SpawnedIsNew, NoCall
<1>2. SpawnedIsNew /\ UNCHANGED vars => SpawnedIsNew'
  BY DEF SpawnedIsNew, vars, files, seen
<1>3. ASSUME StartInv, SpawnedIsNew PROVE SpawnReportsANewSession
  <2>1. \A c \in Calls : call[c].pc = "confirm" => call[c].op = "spawn"
    <3>1. ASSUME NEW c \in Calls, call[c].pc = "confirm" PROVE call[c].op = "spawn"
      BY <1>3, <3>1, CallIsTyped DEF StartInv, CallFits, ToolCall
    <3> QED  BY <3>1
  <2> QED  BY <1>3, <2>1 DEF SpawnReportsANewSession, SpawnedIsNew, Registered
<1> QED  BY <1>1, <1>2, <1>3, SpawnedStaysNew, StartHolds, PTL DEF Spec

-----------------------------------------------------------------------------
(* The flag of a manager that ends *)

NestedHasParent ==
    /\ \A s \in Sids : active[s] # None /\ active[s].nested /\ Lives(active[s].pid)
                       => proc[active[s].pid].parent # None
    /\ \A p \in Procs : Writing(p) /\ proc[p].rec.nested => proc[p].parent # None
\* Workers that the manager left behind registered have set the flag.
FlagIsSet ==
    manager = "ended" =>
        /\ \A p \in Procs \ unborn : proc[p].pc # "none"
        /\ flag # None \/ \A p \in Procs \ unborn : ~Lives(p) \/ proc[p].parent # None

\* A process that lives and was there before keeps its parent, a dead one stays dead.
LEMMA LivesOn ==
  ASSUME TypeInv, Next, NEW p \in Procs, proc[p].pc # "none"
  PROVE  Lives(p)' => Lives(p) /\ proc'[p].parent = proc[p].parent
<1>1. ProcMove(p) /\ p # None
  BY ProcMoves, BoundsAreNats
<1>2. ASSUME StartWrite(p) PROVE proc[p].pc # "dead"
  BY <1>2 DEF StartWrite
<1> QED  BY <1>1, <1>2 DEF ProcMove, Lives

LEMMA NestedKeepsParent ==
  ASSUME StartInv, NestedHasParent, Next
  PROVE  NestedHasParent'
<1>1. /\ TypeInv /\ TypeInv' /\ FirstStart /\ Recorded /\ NestedIsBare
  BY TypesKept DEF StartInv
<1>2. ASSUME NEW s \in Sids, active'[s] # None, active'[s].nested,
             proc'[active'[s].pid].pc \notin {"none", "dead"}
      PROVE  proc'[active'[s].pid].parent # None
  <2>1. FileMove(s)
    BY <1>1, FileMoves
  <2>2. CASE active'[s] = active[s]
    <3>1. active[s].pid \in Procs /\ proc[active[s].pid].pc # "none"
      BY <1>1, <1>2, <2>2, FileIsTyped DEF Recorded
    <3>2. Lives(active[s].pid) /\ proc'[active[s].pid].parent = proc[active[s].pid].parent
      <4>1. proc'[active[s].pid].pc \notin {"none", "dead"}
        BY <1>2, <2>2
      <4> DEFINE p == active[s].pid
      <4>3. ProcMove(p)
        BY <1>1, <3>1, ProcMoves
      <4>4. ~(StartWrite(p) /\ proc[p].pc = "dead")
        BY DEF StartWrite
      <4> HIDE DEF p
      <4>5. proc[p].pc \notin {"none", "dead"} /\ proc'[p].parent = proc[p].parent
        BY <3>1, <4>1, <4>3, <4>4 DEF ProcMove, p
      <4> QED  BY <3>1, <4>5, BoundsAreNats DEF p, Lives
    <3> QED  BY <1>2, <2>2, <3>2 DEF NestedHasParent
  <2>3. ASSUME NEW p \in Procs, StartWrite(p) \/ StartClaim(p), SameWorker(active'[s], proc[p].rec)
        PROVE  proc'[active'[s].pid].parent # None
    <3>1. Writing(p) /\ proc[p].rec.nested /\ proc[p].rec.pid = p /\ proc[p].pc # "none"
      BY <1>1, <1>2, <2>3, LiveSid DEF StartWrite, StartClaim, Writing, SameWorker
    <3>2. active'[s].pid = p /\ proc[p].parent # None
      BY <2>3, <3>1 DEF SameWorker, NestedHasParent
    <3>3. proc'[p].parent = proc[p].parent
      <4>1. proc'[p].pc \notin {"none", "dead"}
        BY <1>2, <3>2
      <4> QED  BY <1>1, <3>1, <4>1, ProcMoves DEF ProcMove
    <3> QED  BY <3>2, <3>3
  <2>4. \A c \in Calls : ~(ResumeFix(c) /\ SameWorker(active'[s], call[c].copy))
    BY <1>1, <1>2, ResumeSid DEF NestedIsBare, SameWorker
  <2> QED  BY <1>2, <2>1, <2>2, <2>3, <2>4 DEF FileMove
<1>3. ASSUME NEW p \in Procs, Writing(p)', proc'[p].rec.nested
      PROVE  proc'[p].parent # None
  <2>1. ProcMove(p)
    BY <1>1, ProcMoves
  <2>2. CASE proc'[p] = proc[p]
    BY <1>3, <2>2 DEF NestedHasParent, Writing
  <2>3. CASE /\ StartKnown(p) \/ StartRotated(p) \/ StartNested(p) \/ StartFresh(p)
             /\ proc'[p].sid = proc[p].sid /\ proc'[p].parent = proc[p].parent
    <3> DEFINE s == proc[p].sid
    <3>1. proc[p].pc = "boot" /\ s \in Sids /\ Lives(p)
      BY <1>1, <2>3, LiveSid, BoundsAreNats DEF StartKnown, StartRotated, StartNested, StartFresh, Unknown, Lives
    <3>2. CASE StartKnown(p)
      <4>1. active[s] \in Record /\ active[s] # None
        BY <1>1, <3>1, <3>2, FileIsTyped DEF StartKnown
      <4>2. proc'[p].rec = [active[s] EXCEPT !.pid = p, !.window = IF Pane(p) # None /\ ~active[s].nested
                                                                   THEN Pane(p) ELSE @]
        BY <1>1, <3>2, KnownIsOwn
      <4>3. active[s].nested
        BY <1>3, <4>1, <4>2 DEF Record
      <4>4. s \notin resumed
        BY <1>1, <3>1, <4>1, <4>3 DEF NestedIsBare, Bare
      <4> QED  BY <1>1, <3>1, <4>1, <4>4 DEF FirstStart, Starting, Untouched
    <3>3. CASE StartRotated(p)
      <4> DEFINE t == Max(SameProcess(p))
                 left == [u \in Sids |-> IF u \in SameProcess(p) THEN None ELSE Pruned[u]]
                 name == UniqueName(active[t].name, Taken(left, s))
                 pane == IF Pane(p) # None /\ ~active[t].nested THEN Pane(p) ELSE active[t].window
      <4>1. t \in SameProcess(p)
        <5>1. SameProcess(p) \in SUBSET Nat /\ SameProcess(p) # {} /\ \A x \in SameProcess(p) : x <= MaxSids
          BY <3>3, BoundsAreNats DEF StartRotated, SameProcess, Sids
        <5> QED  BY <5>1, GreatestExists, BoundsAreNats
      <4>2. t \in Sids /\ active[t] # None /\ active[t].pid = p /\ active[t] \in Record
        BY <1>1, <4>1, FileIsTyped DEF SameProcess
      <4>3. proc'[p].rec = [active[t] EXCEPT !.name = name, !.window = pane]
        <5> DEFINE r == [active[t] EXCEPT !.name = name, !.window = pane]
        <5>1. proc' = [proc EXCEPT ![p].pc = "write", ![p].rec = r]
          BY <3>3 DEF StartRotated
        <5> HIDE DEF r
        <5>2. proc'[p].rec = r
          BY <1>1, <5>1, ProcIsTyped DEF Process, TypeInv, TypeOK
        <5> QED  BY <5>2 DEF r
      <4>4. active[t].nested
        <5> HIDE DEF t, name, pane
        <5> QED  BY <1>3, <4>2, <4>3 DEF Record
      <4> HIDE DEF t
      <4>5. proc[p].parent # None
        BY <3>1, <4>2, <4>4 DEF NestedHasParent
      <4> QED  BY <2>3, <4>5
    <3>4. CASE StartNested(p)
      BY <2>3, <3>4 DEF StartNested, HasParent, Lives
    <3>5. CASE StartFresh(p)
      <4>1. ~proc'[p].rec.nested
        BY <1>1, <3>5, ProcIsTyped DEF StartFresh, Process, TypeInv, TypeOK
      <4> QED  BY <1>3, <4>1
    <3> QED  BY <2>3, <3>2, <3>3, <3>4, <3>5
  <2>4. CASE StartWrite(p) /\ proc'[p].pc = IF proc[p].pc = "write" /\ ~proc[p].rec.nested THEN "claim" ELSE "run"
    <3>1. proc'[p].pc = "claim"
      BY <1>3, <2>4 DEF Writing
    <3>2. ~proc'[p].rec.nested
      <4>1. ProcFits(proc'[p], p, used')
        BY <1>1 DEF TypeInv
      <4> QED  BY <3>1, <4>1 DEF ProcFits
    <3> QED  BY <1>3, <3>2
  <2> QED  BY <1>3, <2>1, <2>2, <2>3, <2>4 DEF ProcMove, Writing
<1>4. \A s \in Sids : active'[s] # None /\ active'[s].nested
                        /\ active'[s].pid # None /\ proc'[active'[s].pid].pc \notin {"none", "dead"}
                     => proc'[active'[s].pid].parent # None
  BY <1>2
<1> QED  BY <1>3, <1>4 DEF NestedHasParent, Lives

LEMMA ManagerChanges ==
  ASSUME Next
  PROVE  ManagerEnds \/ UNCHANGED <<manager, flag, unborn>>
<1>1. ASSUME NEW p \in Procs, SessionStep(p) PROVE UNCHANGED <<manager, flag, unborn>>
  BY <1>1 DEF SessionStep, StartKnown, StartRotated, StartNested, StartFresh, StartWrite, StartClaim,
              EndWrite, EndUnlink, Rotate, Nest, Die, seen
<1>2. ASSUME NEW c \in Calls, CallStep(c) \/ Expire(c) \/ PruneUnlink(c) PROVE UNCHANGED <<manager, flag, unborn>>
  BY <1>2 DEF CallStep, Expire, PruneUnlink, SpawnSidecar, SpawnConfirm, SpawnNoRegister, ResumeSeen,
              ResumeFix, ResumeForget, ResumeForked, ResumeGivesUp, SpawnTab, SpawnFails, ResumeTab,
              ResumeFails, seen
<1>3. ASSUME SpawnBegin \/ (\E t \in Sids : ResumeBegin(t) \/ Kill(t) \/ PruneRead(t))
      PROVE  UNCHANGED <<manager, flag, unborn>>
  BY <1>3 DEF SpawnBegin, ResumeBegin, Kill, PruneRead, seen
<1> QED  BY <1>1, <1>2, <1>3 DEF Next

LEMMA FlagStaysSet ==
  ASSUME StartInv, NestedHasParent, FlagIsSet, Next
  PROVE  FlagIsSet'
<1>1. TypeInv /\ Recorded
  BY DEF StartInv
<1>2. CASE ManagerEnds
  <2>1. /\ flag' = IF LiveWorkers # {} THEN LiveWorkers ELSE None
        /\ unborn' = {p \in Procs : ~\E s \in Sids : active[s] # None /\ active[s].pid = p}
        /\ UNCHANGED proc
    BY <1>2 DEF ManagerEnds
  <2>2. \A p \in Procs \ unborn' : \E s \in Sids : active[s] # None /\ active[s].pid = p
    BY <2>1
  <2>3. \A p \in Procs \ unborn' : proc'[p].pc # "none"
    BY <1>1, <2>1, <2>2 DEF Recorded
  <2>4. CASE LiveWorkers # {}
    <3>1. flag' # None
      <4>1. LiveWorkers \in SUBSET Sids
        BY DEF LiveWorkers, Registered
      <4> QED  BY <2>1, <2>4, <4>1, NoneAssumption
    <3> QED  BY <2>3, <3>1 DEF FlagIsSet
  <2>5. CASE LiveWorkers = {}
    <3>1. ASSUME NEW p \in Procs \ unborn', Lives(p) PROVE proc[p].parent # None
      <4>1. PICK s \in Sids : active[s] # None /\ active[s].pid = p
        BY <2>2
      <4>2. active[s].nested
        BY <2>5, <3>1, <4>1 DEF LiveWorkers, Registered
      <4> QED  BY <3>1, <4>1, <4>2 DEF NestedHasParent
    <3>2. \A p \in Procs \ unborn' : Lives(p)' => Lives(p)
      BY <2>1 DEF Lives
    <3> QED  BY <2>1, <2>3, <3>1, <3>2 DEF FlagIsSet
  <2> QED  BY <2>4, <2>5
<1>3. CASE UNCHANGED <<manager, flag, unborn>>
  <2>1. CASE manager = "ended"
    <3>1. ASSUME NEW p \in Procs \ unborn
          PROVE  /\ proc'[p].pc # "none"
                 /\ Lives(p)' => Lives(p) /\ proc'[p].parent = proc[p].parent
      <4>1. proc[p].pc # "none"
        BY <2>1 DEF FlagIsSet
      <4>2. proc'[p].pc # "none"
        BY <1>1, <4>1, ProcMoves DEF ProcMove
      <4> QED  BY <1>1, <4>1, <4>2, LivesOn
    <3> QED  BY <1>3, <2>1, <3>1 DEF FlagIsSet
  <2>2. CASE manager # "ended"
    BY <1>3, <2>2 DEF FlagIsSet
  <2> QED  BY <2>1, <2>2
<1> QED  BY <1>2, <1>3, ManagerChanges

LEMMA FlagHolds == Spec => [](NestedHasParent /\ FlagIsSet)
<1>1. Init => NestedHasParent /\ FlagIsSet
  <2> SUFFICES ASSUME Init PROVE NestedHasParent /\ FlagIsSet
    OBVIOUS
  <2>1. \A s \in Sids : active[s] # None => active[s].nested = FALSE
    BY DEF Init
  <2>2. \A p \in Procs : ~Writing(p)
    BY DEF Init, Writing, NoProc
  <2> QED  BY <2>1, <2>2 DEF Init, NestedHasParent, FlagIsSet
<1>2. NestedHasParent /\ FlagIsSet /\ UNCHANGED vars => (NestedHasParent /\ FlagIsSet)'
  BY DEF NestedHasParent, FlagIsSet, Lives, Writing, vars, files, seen
<1> QED  BY <1>1, <1>2, NestedKeepsParent, FlagStaysSet, StartHolds, PTL DEF Spec

-----------------------------------------------------------------------------
(* One process per session, with its own record *)

Unshared(s) == s \notin gaveUp \union shadowed
Working(p) == proc[p].pc \in {"claim", "run", "hup", "ending"}

\* A process that has registered has its record, one that starts has none yet.
OwnRecord ==
    \A p \in Procs : Lives(p) /\ Unshared(proc[p].sid) =>
        /\ proc[p].pc # "rewrite"
        /\ Working(p) => active[proc[p].sid] # None /\ active[proc[p].sid].pid = p
        /\ Starting(p) => active[proc[p].sid] = None
Alone ==
    \A p, q \in Procs : p # q /\ proc[p].sid # None /\ Unshared(proc[p].sid)
                        => proc[q].sid # proc[p].sid
\* While the process of a resume starts, the resume waits for it.
ResumedIsAwaited ==
    \A p \in Procs : Starting(p) /\ proc[p].sid \in resumed /\ Unshared(proc[p].sid)
                     /\ closed[proc[p].sid] # None =>
        \E c \in Calls : /\ call[c].op = "resume" /\ call[c].pc = "poll" /\ call[c].proc = p
                         /\ call[c].sid = proc[p].sid /\ call[c].name = closed[proc[p].sid].name
NoOtherTab(c) ==
    \A d \in Calls \ {c} : call[d].op = "resume" /\ call[d].sid = call[c].sid => call[d].pc # "tab"
\* A resume that is about to start a process is the only one of its session.
ResumeIsFirst ==
    \A c \in Calls : call[c].op = "resume" /\ call[c].pc = "tab" /\ Unshared(call[c].sid) =>
        /\ active[call[c].sid] = None /\ \A p \in Procs : proc[p].sid # call[c].sid
        /\ closed[call[c].sid] = None \/ closed[call[c].sid].name = call[c].name
        /\ NoOtherTab(c)
\* The copy that a resume writes back names the process that has the session.
FixIsOwn ==
    \A c \in Calls : call[c].pc = "fix" /\ Unshared(call[c].sid) =>
        /\ \A p \in Procs : proc[p].sid = call[c].sid => Working(p) /\ call[c].copy.pid = p
        /\ NoOtherTab(c)
PrunesDead == \A c \in Calls : call[c].pc = "unlink" => ~Lives(call[c].copy.pid)

SoleInv == OwnRecord /\ Alone /\ ResumedIsAwaited /\ ResumeIsFirst /\ FixIsOwn /\ PrunesDead

LEMMA SharedGrows ==
  ASSUME Next
  PROVE  gaveUp \subseteq gaveUp' /\ shadowed \subseteq shadowed'
<1>1. ASSUME NEW p \in Procs, SessionStep(p) PROVE UNCHANGED <<gaveUp, shadowed>>
  BY <1>1 DEF SessionStep, StartKnown, StartRotated, StartNested, StartFresh, StartWrite, StartClaim,
              EndWrite, EndUnlink, Rotate, Nest, Die, seen
<1>2. ASSUME NEW c \in Calls, CallStep(c) \/ Expire(c) \/ PruneUnlink(c)
      PROVE  gaveUp \subseteq gaveUp' /\ shadowed \subseteq shadowed'
  BY <1>2 DEF CallStep, Expire, PruneUnlink, SpawnSidecar, SpawnConfirm, SpawnNoRegister, ResumeSeen,
              ResumeFix, ResumeForget, ResumeForked, ResumeGivesUp, SpawnTab, SpawnFails, ResumeTab,
              ResumeFails, seen
<1>3. ASSUME SpawnBegin \/ (\E t \in Sids : ResumeBegin(t) \/ Kill(t) \/ PruneRead(t)) \/ ManagerEnds
      PROVE  UNCHANGED <<gaveUp, shadowed>>
  BY <1>3 DEF SpawnBegin, ResumeBegin, Kill, PruneRead, ManagerEnds, seen
<1> QED  BY <1>1, <1>2, <1>3 DEF Next

\* What takes a record away.
LEMMA FileLoss ==
  ASSUME TypeInv, Next, NEW s \in Sids, active[s] # None, active'[s] = None
  PROVE  \/ Prunable(s) /\ lost'[s] = PrunedLost[s]
         \/ \E p \in Procs : EndUnlink(p) /\ proc[p].sid = s
         \/ \E p \in Procs : StartRotated(p) /\ active[s].pid = p /\ proc[p].sid # s /\ lost'[s] = "rotated"
         \/ \E c \in Calls : PruneUnlink(c) /\ call[c].sid = s
<1> DEFINE Lost == \/ Prunable(s) /\ lost'[s] = PrunedLost[s]
                   \/ \E p \in Procs : EndUnlink(p) /\ proc[p].sid = s
                   \/ \E p \in Procs : StartRotated(p) /\ active[s].pid = p /\ proc[p].sid # s /\ lost'[s] = "rotated"
                   \/ \E c \in Calls : PruneUnlink(c) /\ call[c].sid = s
<1>1. active' # active
  OBVIOUS
<1>2. CASE active' = Pruned /\ lost' = PrunedLost
  BY <1>2 DEF Pruned
<1>3. ASSUME NEW p \in Procs, SessionStep(p) PROVE Lost
  <2>1. ASSUME StartRotated(p) PROVE Lost
    <3>1. active' = [t \in Sids |-> IF t \in SameProcess(p) THEN None ELSE Pruned[t]]
      BY <2>1 DEF StartRotated
    <3>2. s \in SameProcess(p) => active[s].pid = p /\ proc[p].sid # s /\ lost'[s] = "rotated"
      BY <2>1 DEF SameProcess, StartRotated
    <3>3. s \notin SameProcess(p) => Prunable(s) /\ lost'[s] = PrunedLost[s]
      BY <2>1, <3>1 DEF Pruned, StartRotated
    <3> QED  BY <2>1, <3>2, <3>3
  <2>2. CASE EndUnlink(p)
    BY <2>2 DEF EndUnlink, RecordsOf
  <2>3. ASSUME StartWrite(p) \/ StartClaim(p) PROVE Lost
    <3>1. Writing(p)
      BY <2>3 DEF StartWrite, StartClaim, Writing
    <3>2. proc[p].rec \in Record
      BY <3>1, LiveSid
    <3>3. \/ UNCHANGED active
          \/ \E w \in Procs \union {None} :
               active' = [active EXCEPT ![proc[p].sid] = [proc[p].rec EXCEPT !.window = w]]
          \/ active' = [active EXCEPT ![proc[p].sid] = proc[p].rec]
      BY <2>3 DEF StartWrite, StartClaim, TypeInv, TypeOK
    <3>4. \A w \in Procs \union {None} : [proc[p].rec EXCEPT !.window = w] \in Record
      BY <3>2 DEF Record
    <3>5. ASSUME NEW r \in Record, active' = [active EXCEPT ![proc[p].sid] = r] PROVE FALSE
      <4>1. active'[s] = active[s] \/ active'[s] = r
        BY <3>5 DEF TypeInv, TypeOK
      <4> QED  BY <4>1, RecordIsTyped
    <3> QED  BY <1>1, <3>2, <3>3, <3>4, <3>5
  <2> QED  BY <1>1, <1>2, <1>3, <2>1, <2>2, <2>3 DEF SessionStep, StartKnown, StartNested, StartFresh, EndWrite,
                                                     Rotate, Nest, Die, files
<1>4. ASSUME NEW c \in Calls, CallStep(c) \/ Expire(c) \/ PruneUnlink(c) PROVE Lost
  <2>1. CASE PruneUnlink(c)
    BY <2>1 DEF PruneUnlink, TypeInv, TypeOK
  <2>2. ASSUME ResumeFix(c) PROVE Lost
    <3>1. [call[c].copy EXCEPT !.window = call[c].proc] \in Record
      BY <2>2, CallIsTyped DEF ResumeFix, CallFits, Record
    <3>2. active' = [active EXCEPT ![call[c].sid] = [call[c].copy EXCEPT !.window = call[c].proc]]
      BY <2>2 DEF ResumeFix
    <3>3. ASSUME NEW r \in Record, active' = [active EXCEPT ![call[c].sid] = r] PROVE FALSE
      <4>1. active'[s] = active[s] \/ active'[s] = r
        BY <3>3 DEF TypeInv, TypeOK
      <4> QED  BY <4>1, RecordIsTyped
    <3> QED  BY <3>1, <3>2, <3>3
  <2> QED  BY <1>1, <1>4, <2>1, <2>2 DEF CallStep, Expire, SpawnSidecar, SpawnConfirm, SpawnNoRegister, ResumeSeen,
                 ResumeForget, ResumeForked, ResumeGivesUp, SpawnTab, SpawnFails, ResumeTab, ResumeFails, files
<1>5. ASSUME SpawnBegin \/ (\E t \in Sids : ResumeBegin(t) \/ Kill(t) \/ PruneRead(t)) \/ ManagerEnds
      PROVE  Lost
  BY <1>1, <1>2, <1>5 DEF SpawnBegin, ResumeBegin, Kill, PruneRead, ManagerEnds, files
<1> QED  BY <1>3, <1>4, <1>5 DEF Next

\* A resume that stops waiting has forgotten the session or gives up.
LEMMA PollEnds ==
  ASSUME TypeInv, Next, NEW c \in Calls, call[c].pc = "poll", call'[c] = Returned
  PROVE  \/ ResumeForked(c)
         \/ ResumeGivesUp(c)
<1>1. call'[c].pc = "done" /\ call[c].op = "resume"
  BY CallIsTyped DEF Returned, NoCall, CallFits, ToolCall
<1>2. \A d \in Calls : \A r : d # c /\ call' = [call EXCEPT ![d] = r] => call'[c] = call[c]
  BY DEF TypeInv, TypeOK
<1>3. ASSUME NEW p \in Procs, SessionStep(p) PROVE FALSE
  BY <1>1, <1>3 DEF SessionStep, StartKnown, StartRotated, StartNested, StartFresh, StartWrite, StartClaim,
                    EndWrite, EndUnlink, Rotate, Nest, Die
<1>4. ASSUME NEW d \in Calls, CallStep(d) \/ Expire(d) \/ PruneUnlink(d)
      PROVE  ResumeForked(c) \/ ResumeGivesUp(c)
  <2>1. UNCHANGED call \/ \E r : call' = [call EXCEPT ![d] = r]
    <3>1. CASE Expire(d) \/ PruneUnlink(d)
      BY <3>1 DEF Expire, PruneUnlink, Returns
    <3>2. CASE SpawnSidecar(d) \/ ResumeSeen(d) \/ ResumeFix(d)
      BY <3>2 DEF SpawnSidecar, ResumeSeen, ResumeFix, ToStep
    <3>3. CASE SpawnConfirm(d) \/ SpawnNoRegister(d) \/ ResumeForget(d) \/ ResumeForked(d) \/ ResumeGivesUp(d)
      BY <3>3 DEF SpawnConfirm, SpawnNoRegister, ResumeForget, ResumeForked, ResumeGivesUp, Returns
    <3>4. ASSUME NEW b \in BOOLEAN, SpawnTab(d, b) \/ SpawnFails(d, b) \/ ResumeTab(d, b) \/ ResumeFails(d, b)
          PROVE  \E r : call' = [call EXCEPT ![d] = r]
      BY <3>4 DEF SpawnTab, SpawnFails, ResumeTab, ResumeFails, Returns
    <3> QED  BY <1>4, <3>1, <3>2, <3>3, <3>4 DEF CallStep
  <2>2. d = c
    BY <1>1, <1>2, <2>1
  <2>3. ~(ResumeSeen(c) \/ Expire(c))
    <3>1. ~Expire(c)
      BY DEF Expire
    <3>2. ASSUME ResumeSeen(c) PROVE FALSE
      <4>1. active[call[c].sid] \in Record
        BY <3>2, ResumeSid, FileIsTyped
      <4>2. call'[c].copy = active[call[c].sid]
        <5>1. CallMove(c)
          BY CallMoves
        <5> QED  BY <1>1, <3>2, <5>1 DEF ResumeSeen, TypeInv, TypeOK, ToolCall
      <4> QED  BY <4>1, <4>2, BoundsAreNats DEF Returned, NoCall
    <3> QED  BY <3>1, <3>2
  <2> QED  BY <1>1, <1>4, <2>2, <2>3 DEF CallStep, PruneUnlink, SpawnSidecar, SpawnConfirm, SpawnNoRegister,
                 ResumeFix, ResumeForget, SpawnTab, SpawnFails, ResumeTab, ResumeFails
<1>5. ASSUME SpawnBegin \/ (\E t \in Sids : ResumeBegin(t) \/ Kill(t) \/ PruneRead(t)) \/ ManagerEnds
      PROVE  FALSE
  <2>1. (NextCall # c /\ NextCall \in Calls) \/ UNCHANGED call
    BY <1>5, NextCallIsFree DEF SpawnBegin, ResumeBegin, Kill, PruneRead, ManagerEnds, MayCall, Spare
  <2>2. \E r : call' = [call EXCEPT ![NextCall] = r] \/ UNCHANGED call
    BY <1>5 DEF SpawnBegin, ResumeBegin, Kill, PruneRead, ManagerEnds, Begin
  <2> QED  BY <1>1, <1>2, <2>1, <2>2
<1> QED  BY <1>3, <1>4, <1>5 DEF Next

\* Who has a session after a step had it before, or just got it.
SidMove(p) ==
    \/ proc'[p].sid = proc[p].sid
    \/ used < MaxSids /\ proc'[p].sid = used + 1 /\ StaysUntouched(used + 1) /\ proc'[p].pc = "boot"
    \/ \E c \in Calls : /\ call[c].op = "resume" /\ call[c].pc = "tab" /\ proc[p].pc = "none"
                        /\ proc'[p].sid = call[c].sid /\ proc'[p].pc = "boot"
                        /\ \/ call'[c] = Returned /\ proc'[p].sid \in gaveUp'
                           \/ call'[c].pc = "poll" /\ call'[c].proc = p /\ SameCall(c)

LEMMA SidMoves ==
  ASSUME StartInv, Next, NEW p \in Procs, proc'[p].sid # None
  PROVE  SidMove(p)
<1>1. TypeInv /\ TypeInv'
  BY TypesKept DEF StartInv
<1>2. proc'[p].pc # "dead"
  <2>1. ProcFits(proc'[p], p, used')
    BY <1>1 DEF TypeInv
  <2> QED  BY <2>1 DEF ProcFits
<1>3. ProcMove(p)
  BY <1>1, ProcMoves
<1>4. used < MaxSids => StaysUntouched(used + 1)
  BY NewSid
<1> QED  BY <1>2, <1>3, <1>4 DEF ProcMove, SidMove

\* The pc of a process that keeps its session.
LEMMA KeepsWorking ==
  ASSUME StartInv, Next, NEW p \in Procs, proc'[p].sid # None, proc'[p].sid = proc[p].sid
  PROVE  /\ Working(p) => Working(p)' /\ ~EndUnlink(p)
         /\ Starting(p)' => Starting(p) /\ ~StartWrite(p)
         /\ Working(p)' => Working(p) \/ (StartWrite(p) /\ proc[p].pc \in {"write", "rewrite"})
         /\ proc'[p].pc = "rewrite" => proc[p].pc = "rewrite" \/ (proc[p].pc = "boot" /\ StartKnown(p))
<1>1. TypeInv /\ TypeInv' /\ proc[p].sid \in Sids
  BY LiveSid, TypesKept DEF StartInv
<1>2. proc'[p].pc # "dead"
  <2>1. ProcFits(proc'[p], p, used')
    BY <1>1 DEF TypeInv
  <2> QED  BY <2>1 DEF ProcFits
<1>3. ProcMove(p)
  BY <1>1, ProcMoves
<1>4. ~(used < MaxSids /\ proc'[p].sid = used + 1)
  BY <1>1, NewSid
<1>5. proc[p].pc # "none"
  BY <1>1, LiveSid
<1>6. EndUnlink(p) => proc'[p] # proc[p] /\ proc[p].pc = "ending"
  <2>1. ASSUME EndUnlink(p), proc'[p] = proc[p] PROVE FALSE
    <3>1. proc[p].pc = "ending" /\ proc \in [Procs -> Process] /\ proc[p] \in Process
      BY <1>1, <2>1 DEF EndUnlink, TypeInv, TypeOK
    <3>2. CASE proc' = [proc EXCEPT ![p].pc = "boot", ![p].sid = used + 1, ![p].again = FALSE]
      BY <2>1, <3>1, <3>2 DEF Process
    <3>3. CASE ToPc(p, "dead")
      BY <2>1, <3>1, <3>3 DEF ToPc, NoProc
    <3> QED  BY <2>1, <3>2, <3>3 DEF EndUnlink
  <2> QED  BY <2>1 DEF EndUnlink
<1>7. ~(StartWrite(p) /\ proc[p].pc \notin {"write", "rewrite"}) /\ (StartWrite(p) => proc'[p].pc \in {"claim", "run"})
  <2>1. ASSUME StartWrite(p) PROVE proc'[p].pc \in {"claim", "run"}
    BY ProcIsTyped, <1>1, <2>1 DEF StartWrite, ToPc, TypeInv, TypeOK, Process
  <2> QED  BY <2>1 DEF StartWrite
<1>8. StartKnown(p) \/ StartRotated(p) \/ StartNested(p) \/ StartFresh(p) => proc[p].pc = "boot"
  BY DEF StartKnown, StartRotated, StartNested, StartFresh, Unknown
<1> QED  BY <1>2, <1>3, <1>4, <1>5, <1>6, <1>7, <1>8 DEF ProcMove, Working, Starting

\* A process that goes on with its session keeps its record.
LEMMA OwnerKeepsRecord ==
  ASSUME StartInv, SoleInv, Next, NEW p \in Procs, Working(p), proc'[p].sid = proc[p].sid,
         proc[p].sid \notin gaveUp' \union shadowed'
  PROVE  active'[proc[p].sid] # None /\ active'[proc[p].sid].pid = p
<1> DEFINE s == proc[p].sid
<1>1. TypeInv /\ s \in Sids /\ s # None /\ Lives(p) /\ Unshared(s)
  BY LiveSid, SharedGrows, BoundsAreNats DEF StartInv, Working, Lives, Unshared
<1>2. active[s] # None /\ active[s].pid = p /\ \A q \in Procs : proc[q].sid = s => q = p
  BY <1>1 DEF SoleInv, OwnRecord, Alone
<1>3. ~EndUnlink(p)
  BY <1>1, KeepsWorking
<1> HIDE DEF s
<1>4. active'[s] # None
  <2> SUFFICES ASSUME active'[s] = None PROVE FALSE
    OBVIOUS
  <2>1. \/ Prunable(s)
        \/ \E q \in Procs : EndUnlink(q) /\ proc[q].sid = s
        \/ \E q \in Procs : StartRotated(q) /\ active[s].pid = q /\ proc[q].sid # s
        \/ \E c \in Calls : PruneUnlink(c) /\ call[c].sid = s
    BY <1>1, <1>2, FileLoss
  <2>2. ~Prunable(s)
    BY <1>1, <1>2 DEF Prunable
  <2>3. ASSUME NEW c \in Calls, PruneUnlink(c), call[c].sid = s PROVE FALSE
    <3>1. call[c].copy.pid # p
      BY <1>1, <2>3 DEF PruneUnlink, SoleInv, PrunesDead
    <3>2. s \in shadowed'
      BY <1>2, <2>3, <3>1 DEF PruneUnlink
    <3> QED  BY <3>2 DEF s
  <2>4. ASSUME StartRotated(p), proc[p].sid # s PROVE FALSE
    BY <2>4 DEF s
  <2> QED  BY <1>2, <1>3, <2>1, <2>2, <2>3, <2>4
<1>5. active'[s].pid = p
  <2>1. FileMove(s)
    BY <1>1, FileMoves
  <2>2. ASSUME NEW q \in Procs, StartWrite(q) \/ StartClaim(q), proc[q].sid = s, SameWorker(active'[s], proc[q].rec)
        PROVE  active'[s].pid = p
    <3>1. q = p /\ Writing(q)
      BY <1>2, <2>2 DEF StartWrite, StartClaim, Writing
    <3> QED  BY <1>1, <2>2, <3>1, LiveSid DEF SameWorker
  <2>3. ASSUME NEW c \in Calls, ResumeFix(c), call[c].sid = s, SameWorker(active'[s], call[c].copy)
        PROVE  active'[s].pid = p
    BY <1>1, <2>3 DEF ResumeFix, SoleInv, FixIsOwn, SameWorker, s
  <2> QED  BY <1>2, <1>4, <2>1, <2>2, <2>3 DEF FileMove
<1> QED  BY <1>4, <1>5 DEF s

\* No record appears where nobody is about to write one.
LEMMA StaysNone ==
  ASSUME StartInv, SoleInv, Next, NEW s \in Sids, active[s] = None, Unshared(s),
         \A p \in Procs : proc[p].sid = s => Starting(p) /\ ~StartWrite(p),
         \A c \in Calls : call[c].pc = "fix" /\ call[c].sid = s
                          => (\E p \in Procs : proc[p].sid = s) \/ (\E d \in Calls \ {c} :
                               call[d].op = "resume" /\ call[d].pc = "tab" /\ call[d].sid = s)
  PROVE  active'[s] = None
<1>1. FileMove(s)
  BY FileMoves DEF StartInv
<1>2. \A p \in Procs : proc[p].sid = s => ~StartClaim(p) /\ ~StartWrite(p)
  BY DEF StartClaim, Starting
<1>3. ASSUME NEW c \in Calls, ResumeFix(c), call[c].sid = s PROVE FALSE
  BY <1>3 DEF ResumeFix, SoleInv, FixIsOwn, NoOtherTab, Working, Starting
<1> QED  BY <1>1, <1>2, <1>3 DEF FileMove

LEMMA OwnRecordStays ==
  ASSUME StartInv, SoleInv, Next
  PROVE  OwnRecord'
<1> SUFFICES ASSUME NEW p \in Procs, Lives(p)', proc'[p].sid \notin gaveUp' \union shadowed'
             PROVE  /\ proc'[p].pc # "rewrite"
                    /\ Working(p)' => active'[proc'[p].sid] # None /\ active'[proc'[p].sid].pid = p
                    /\ Starting(p)' => active'[proc'[p].sid] = None
  BY DEF OwnRecord, Unshared
<1> DEFINE s == proc'[p].sid
<1>1. TypeInv /\ TypeInv' /\ s \in Sids /\ s # None /\ Unshared(s)
  <2>1. TypeInv /\ TypeInv'
    BY TypesKept DEF StartInv
  <2>2. s # None /\ s \in 1..used' /\ 1..used' \subseteq Sids
    <3>1. ProcFits(proc'[p], p, used') /\ used' \in 0..MaxSids
      BY <2>1 DEF TypeInv, TypeOK
    <3> QED  BY <3>1, BoundsAreNats DEF ProcFits, Lives, Sids
  <2> QED  BY <2>1, <2>2, SharedGrows DEF Unshared
<1>2. SidMove(p)
  BY <1>1, SidMoves
<1>3. CASE proc'[p].sid = proc[p].sid
  <2>1. Lives(p) /\ proc[p].sid = s
    BY <1>1, <1>3, LiveSid, BoundsAreNats DEF Lives
  <2>2. /\ proc[p].pc # "rewrite" /\ (Starting(p) => active[s] = None)
        /\ \A q \in Procs : proc[q].sid = s => q = p
    BY <1>1, <2>1 DEF SoleInv, OwnRecord, Alone
  <2>3. /\ Starting(p)' => Starting(p) /\ ~StartWrite(p)
        /\ Working(p)' => Working(p) \/ (StartWrite(p) /\ proc[p].pc \in {"write", "rewrite"})
        /\ proc'[p].pc = "rewrite" => proc[p].pc = "rewrite" \/ (proc[p].pc = "boot" /\ StartKnown(p))
    BY <1>1, <1>3, KeepsWorking
  <2>4. proc'[p].pc # "rewrite"
    BY <2>1, <2>2, <2>3 DEF StartKnown, Starting
  <2>5. CASE Working(p)
    BY <1>1, <1>3, <2>1, <2>4, <2>5, <2>3, OwnerKeepsRecord DEF Working, Starting
  <2>6. CASE StartWrite(p)
    <3>1. active'[s] = proc[p].rec /\ Writing(p)
      BY <1>1, <2>1, <2>6 DEF StartWrite, Writing, TypeInv, TypeOK
    <3>2. active'[s] # None /\ active'[s].pid = p
      BY <1>1, <3>1, LiveSid, RecordIsTyped
    <3> QED  BY <2>3, <2>4, <2>6, <3>2
  <2>7. Starting(p)' => active'[s] = None
    <3>1. ASSUME Starting(p)' PROVE active'[s] = None
      BY <1>1, <2>1, <2>2, <2>3, <3>1, StaysNone
    <3> QED  BY <3>1
  <2> HIDE DEF s
  <2> QED  BY <2>3, <2>4, <2>5, <2>6, <2>7 DEF s
<1>4. CASE used < MaxSids /\ proc'[p].sid = used + 1 /\ StaysUntouched(used + 1) /\ proc'[p].pc = "boot"
  BY <1>4 DEF StaysUntouched, Working
<1>5. ASSUME NEW c \in Calls, call[c].op = "resume", call[c].pc = "tab", s = call[c].sid, proc'[p].pc = "boot"
      PROVE  active'[s] = None
  <2>1. active[s] = None /\ \A q \in Procs : proc[q].sid # s
    BY <1>1, <1>5 DEF SoleInv, ResumeIsFirst
  <2>2. \A d \in Calls : call[d].pc = "fix" => c \in Calls \ {d}
    BY <1>5
  <2> HIDE DEF s
  <2> QED  BY <1>1, <1>5, <2>1, <2>2, StaysNone
<1> QED  BY <1>2, <1>3, <1>4, <1>5 DEF SidMove, Working

LEMMA AloneStays ==
  ASSUME StartInv, SoleInv, Next
  PROVE  Alone'
<1>1. TypeInv /\ TypeInv'
  BY TypesKept DEF StartInv
<1>2. ASSUME NEW p \in Procs, NEW q \in Procs, p # q, proc'[q] = proc[q], proc'[p].sid # None,
             proc'[q].sid = proc'[p].sid, proc'[p].sid \notin gaveUp' \union shadowed'
      PROVE  FALSE
  <2> DEFINE s == proc'[p].sid
  <2>1. SidMove(p)
    BY <1>2, SidMoves
  <2>2. proc[q].sid = s /\ Unshared(s)
    BY <1>2, SharedGrows DEF Unshared
  <2>3. CASE proc[p].sid = s
    BY <1>2, <2>2, <2>3 DEF SoleInv, Alone
  <2>4. CASE used < MaxSids /\ s = used + 1
    BY <2>2, <2>4, NewSid
  <2>5. ASSUME NEW c \in Calls, call[c].op = "resume", call[c].pc = "tab", s = call[c].sid PROVE FALSE
    BY <2>2, <2>5 DEF SoleInv, ResumeIsFirst
  <2> QED  BY <2>1, <2>3, <2>4, <2>5 DEF SidMove
<1>3. PICK x : \A q \in Procs : q # x => proc'[q] = proc[q]
  BY <1>1, OneProcessMoves
<1>4. ASSUME NEW p \in Procs, NEW q \in Procs, p # q, proc'[p].sid # None,
             proc'[q].sid = proc'[p].sid, proc'[p].sid \notin gaveUp' \union shadowed'
      PROVE  FALSE
  <2>1. proc'[p] = proc[p] \/ proc'[q] = proc[q]
    BY <1>3, <1>4
  <2> QED  BY <1>2, <1>4, <2>1
<1> QED  BY <1>4 DEF Alone, Unshared

LEMMA ResumedStaysAwaited ==
  ASSUME StartInv, SoleInv, Next
  PROVE  ResumedIsAwaited'
<1> SUFFICES ASSUME NEW p \in Procs, Starting(p)', proc'[p].sid \in resumed', closed'[proc'[p].sid] # None,
                    proc'[p].sid \notin gaveUp' \union shadowed'
             PROVE  \E c \in Calls : /\ call'[c].op = "resume" /\ call'[c].pc = "poll" /\ call'[c].proc = p
                                     /\ call'[c].sid = proc'[p].sid /\ call'[c].name = closed'[proc'[p].sid].name
  BY DEF ResumedIsAwaited, Unshared
<1> DEFINE s == proc'[p].sid
<1>1. TypeInv /\ FirstStart /\ s \in Sids /\ s # None /\ Unshared(s)
  <2>1. TypeInv /\ TypeInv' /\ FirstStart
    BY TypesKept DEF StartInv
  <2>2. s \in Sids
    BY <2>1 DEF TypeInv, TypeOK
  <2> QED  BY <2>1, <2>2, SharedGrows, BoundsAreNats DEF Unshared
<1>2. SidMove(p) /\ ClosedMove(s)
  BY <1>1, SidMoves, ClosedMoves
<1>3. CASE proc'[p].sid = proc[p].sid
  <2>1. /\ Starting(p) /\ ~StartWrite(p) /\ Lives(p)
        /\ \A q \in Procs : proc[q].sid = s => q = p
        /\ active[s] = None
    <3>1. Starting(p) /\ ~StartWrite(p)
      BY <1>1, <1>3, KeepsWorking
    <3>2. Lives(p)
      BY <3>1, BoundsAreNats DEF Starting, Lives
    <3> QED  BY <1>1, <1>3, <3>1, <3>2 DEF SoleInv, Alone, OwnRecord
  <2>2. closed'[s] = closed[s]
    <3>1. ASSUME NEW q \in Procs, EndWrite(q), proc[q].sid = s PROVE FALSE
      BY <2>1, <3>1 DEF EndWrite, Starting
    <3> QED  BY <1>2, <3>1 DEF ClosedMove
  <2>3. s \in resumed
    <3>1. s \notin resumed => closed[s] = None
      BY <1>1, <1>3, <2>1 DEF FirstStart, Untouched
    <3> QED  BY <2>2, <3>1
  <2>4. PICK c \in Calls : /\ call[c].op = "resume" /\ call[c].pc = "poll" /\ call[c].proc = p
                           /\ call[c].sid = s /\ call[c].name = closed[s].name
    BY <1>1, <1>3, <2>1, <2>2, <2>3 DEF SoleInv, ResumedIsAwaited
  <2>5. CallMove(c)
    BY <1>1, CallMoves
  <2>6. ~ResumeSeen(c)
    BY <2>1, <2>4 DEF ResumeSeen
  <2>7. ~ResumeFix(c)
    BY <2>4 DEF ResumeFix
  <2>8. call'[c] # Returned
    <3>1. ASSUME ResumeForked(c) PROVE FALSE
      BY <1>1, <2>4, <3>1 DEF ResumeForked, TypeInv, TypeOK
    <3>2. ASSUME ResumeGivesUp(c) PROVE FALSE
      BY <1>1, <1>3, <2>4, <3>2 DEF ResumeGivesUp
    <3> QED  BY <1>1, <2>4, <3>1, <3>2, PollEnds
  <2>9. call'[c] = call[c]
    BY <2>4, <2>5, <2>6, <2>7, <2>8 DEF CallMove
  <2> QED  BY <2>2, <2>4, <2>9
<1>4. ASSUME s = used + 1, StaysUntouched(used + 1) PROVE FALSE
  BY <1>4 DEF StaysUntouched
<1>5. ASSUME NEW c \in Calls, call[c].op = "resume", call[c].pc = "tab", s = call[c].sid,
             call'[c].pc = "poll", call'[c].proc = p, SameCall(c)
      PROVE  call'[c].op = "resume" /\ call'[c].sid = s /\ call'[c].name = closed'[s].name
  <2>1. /\ \A q \in Procs : proc[q].sid # s
        /\ closed[s] = None \/ closed[s].name = call[c].name
    BY <1>1, <1>5 DEF SoleInv, ResumeIsFirst
  <2>2. closed'[s] = closed[s]
    BY <1>2, <2>1 DEF ClosedMove
  <2> QED  BY <1>5, <2>1, <2>2 DEF SameCall
<1> QED  BY <1>2, <1>3, <1>4, <1>5 DEF SidMove

\* A resume begins only when nobody has the session, or another resume of it.
LEMMA BeginsAlone ==
  ASSUME StartInv, SoleInv, NEW s \in Sids, ResumeBegin(s), Unshared(s)
  PROVE  /\ \A p \in Procs : proc[p].sid # s
         /\ \A d \in Calls : call[d].op = "resume" /\ call[d].sid = s => call[d].pc # "tab"
         /\ \A d \in Calls : call[d].pc # "fix"
<1>1. TypeInv /\ FirstStart
  BY DEF StartInv
<1>2. closed[s] # None /\ Pruned[s] = None /\ \A d \in Calls : call[d].op = "resume" => call[d].name # closed[s].name
  BY <1>1 DEF ResumeBegin, NotInFlight, InFlight
<1>3. ASSUME NEW p \in Procs, proc[p].sid = s PROVE FALSE
  <2>1. Lives(p) /\ s # None
    BY <1>1, <1>3, LiveSid, BoundsAreNats DEF Lives
  <2>2. ~Starting(p)
    <3>1. ASSUME Starting(p) PROVE s \in resumed
      BY <1>1, <1>2, <1>3, <3>1 DEF FirstStart, Untouched
    <3> QED  BY <1>2, <1>3, <3>1 DEF SoleInv, ResumedIsAwaited
  <2>3. ~Working(p)
    <3>1. ASSUME active[s] # None, active[s].pid = p PROVE FALSE
      BY <1>2, <2>1, <3>1 DEF Pruned, Prunable
    <3> QED  BY <1>3, <2>1, <3>1 DEF SoleInv, OwnRecord
  <2>4. proc[p].pc # "rewrite"
    BY <1>3, <2>1 DEF SoleInv, OwnRecord
  <2>5. proc[p].pc \in Hooks \union {"none", "run", "hup", "ending", "dead"}
    BY <1>1, ProcIsTyped DEF Process
  <2> QED  BY <2>1, <2>2, <2>3, <2>4, <2>5 DEF Hooks, Starting, Working, Lives
<1>4. \A d \in Calls : call[d].op = "resume" /\ call[d].sid = s => call[d].pc # "tab"
  BY <1>2 DEF SoleInv, ResumeIsFirst
<1>5. \A d \in Calls : call[d].pc # "fix"
  BY BoundsAreNats DEF ResumeBegin, MayCall, HasThread
<1> QED  BY <1>3, <1>4, <1>5

\* A call that is at its tab for a session was so before, or begins with it.
LEMMA TabMoves ==
  ASSUME StartInv, Next, NEW d \in Calls, call'[d].op = "resume", call'[d].pc = "tab"
  PROVE  \/ call'[d] = call[d]
         \/ call[d].pc = "free" /\ call'[d].sid \in Sids /\ ResumeBegin(call'[d].sid)
            /\ call'[d].name = closed[call'[d].sid].name
<1>1. CallMove(d)
  BY CallMoves DEF StartInv
<1> QED  BY <1>1 DEF CallMove, Returned, NoCall

LEMMA OtherTabs ==
  ASSUME StartInv, Next, NEW c \in Calls, NoOtherTab(c), ~ResumeBegin(call[c].sid)
  PROVE  \A d \in Calls \ {c} : call'[d].op = "resume" /\ call'[d].sid = call[c].sid => call'[d].pc # "tab"
BY TabMoves DEF NoOtherTab

LEMMA ResumeStaysFirst ==
  ASSUME StartInv, SoleInv, Next
  PROVE  ResumeIsFirst'
<1>1. TypeInv /\ TypeInv'
  BY TypesKept DEF StartInv
<1> SUFFICES ASSUME NEW c \in Calls, call'[c].op = "resume", call'[c].pc = "tab",
                    call'[c].sid \notin gaveUp' \union shadowed'
             PROVE  /\ active'[call'[c].sid] = None /\ \A p \in Procs : proc'[p].sid # call'[c].sid
                    /\ closed'[call'[c].sid] = None \/ closed'[call'[c].sid].name = call'[c].name
                    /\ \A d \in Calls \ {c} : call'[d].op = "resume" /\ call'[d].sid = call'[c].sid
                                              => call'[d].pc # "tab"
  BY DEF ResumeIsFirst, Unshared, NoOtherTab
<1> DEFINE s == call'[c].sid
<1>2. s \in Sids /\ s # None /\ Unshared(s)
  <2>1. CallFits(call'[c], resumed') /\ resumed' \subseteq Sids
    BY <1>1 DEF TypeInv, TypeOK
  <2> QED  BY <2>1, SharedGrows, BoundsAreNats DEF Unshared, CallFits
<1>3. CASE call'[c] = call[c]
  <2>1. /\ active[s] = None /\ \A p \in Procs : proc[p].sid # s
        /\ closed[s] = None \/ closed[s].name = call[c].name
        /\ NoOtherTab(c)
    BY <1>2, <1>3 DEF SoleInv, ResumeIsFirst
  <2>2. ~ResumeBegin(s)
    BY <1>2, <1>3, BeginsAlone
  <2>3. \A d \in Calls \ {c} : call'[d].op = "resume" /\ call'[d].sid = s => call'[d].pc # "tab"
    BY <1>2, <1>3, <2>1, <2>2, OtherTabs
  <2>4. closed'[s] = None \/ closed'[s].name = call[c].name
    BY <1>1, <1>2, <2>1, ClosedMoves DEF ClosedMove
  <2>5. ASSUME NEW p \in Procs, proc'[p].sid = s PROVE FALSE
    <3>1. SidMove(p)
      BY <1>2, <2>5, SidMoves
    <3>2. ~(s = used + 1 /\ StaysUntouched(used + 1))
      BY <1>1, <1>3, ResumeSid, ResumedGrows DEF StaysUntouched
    <3>3. ASSUME NEW d \in Calls, call[d].op = "resume", call[d].pc = "tab", s = call[d].sid,
                 call'[d] = Returned \/ call'[d].pc = "poll"
          PROVE  FALSE
      BY <1>3, <2>1, <3>3 DEF NoOtherTab, Returned, NoCall
    <3> QED  BY <2>1, <2>5, <3>1, <3>2, <3>3 DEF SidMove
  <2>6. active'[s] = None
    <3>1. \A d \in Calls : call[d].pc = "fix" => c \in Calls \ {d}
      BY <1>3
    <3> HIDE DEF s
    <3>2. call[c].op = "resume" /\ call[c].pc = "tab" /\ call[c].sid = s
      BY <1>3 DEF s
    <3> QED  BY <1>2, <2>1, <3>1, <3>2, StaysNone
  <2> QED  BY <1>3, <2>3, <2>4, <2>5, <2>6
<1>4. CASE call[c].pc = "free" /\ ResumeBegin(s) /\ call'[c].name = closed[s].name
  <2>1. /\ \A p \in Procs : proc[p].sid # s
        /\ \A d \in Calls : call[d].op = "resume" /\ call[d].sid = s => call[d].pc # "tab"
    BY <1>2, <1>4, BeginsAlone
  <2>2. active' = Pruned /\ Pruned[s] = None /\ UNCHANGED <<closed, proc>>
    BY <1>4 DEF ResumeBegin
  <2>3. ASSUME NEW d \in Calls \ {c}, call'[d].op = "resume", call'[d].sid = s, call'[d].pc = "tab" PROVE FALSE
    <3>1. call'[d] = call[d]
      <4> DEFINE n == NextCall
                 r == [NoCall EXCEPT !.op = "resume", !.pc = "tab", !.name = closed[s].name, !.sid = s,
                                     !.at = closed[s].at, !.before = {t \in Sids : Pruned[t] # None}]
      <4>1. call' = [call EXCEPT ![n] = r]
        BY <1>4 DEF ResumeBegin, Begin
      <4> HIDE DEF n, r
      <4>2. call'[c] # call[c]
        BY <1>4
      <4> QED  BY <1>1, <4>1, <4>2 DEF TypeInv, TypeOK
    <3> QED  BY <2>1, <2>3, <3>1
  <2> QED  BY <1>4, <2>1, <2>2, <2>3
<1> QED  BY <1>3, <1>4, TabMoves

LEMMA FixStaysOwn ==
  ASSUME StartInv, SoleInv, Next
  PROVE  FixIsOwn'
<1>1. TypeInv /\ TypeInv'
  BY TypesKept DEF StartInv
<1> SUFFICES ASSUME NEW c \in Calls, call'[c].pc = "fix", call'[c].sid \notin gaveUp' \union shadowed'
             PROVE  /\ \A p \in Procs : proc'[p].sid = call'[c].sid => Working(p)' /\ call'[c].copy.pid = p
                    /\ \A d \in Calls \ {c} : call'[d].op = "resume" /\ call'[d].sid = call'[c].sid
                                              => call'[d].pc # "tab"
  BY DEF FixIsOwn, Unshared, NoOtherTab
<1> DEFINE s == call'[c].sid
<1>2. s \in Sids /\ s # None /\ Unshared(s) /\ call'[c].op = "resume"
  <2>1. CallFits(call'[c], resumed') /\ call'[c] \in ToolCall /\ resumed' \subseteq Sids
    BY <1>1 DEF TypeInv, TypeOK
  <2> QED  BY <2>1, SharedGrows, BoundsAreNats DEF Unshared, CallFits, ToolCall
<1>3. call'[c] = call[c] \/ (ResumeSeen(c) /\ call'[c].copy = active[call[c].sid] /\ SameCall(c))
  <2>1. CallMove(c)
    BY <1>1, CallMoves
  <2> QED  BY <2>1 DEF CallMove, Returned, NoCall
<1>4. /\ \A p \in Procs : proc[p].sid = s => Working(p) /\ call'[c].copy.pid = p
      /\ NoOtherTab(c) /\ s = call[c].sid /\ call[c].pc \in {"poll", "fix"} /\ s \in resumed
      /\ ~ResumeBegin(s) \/ call[c].pc # "fix"
  <2>1. CASE call'[c] = call[c]
    <3>1. ~ResumeBegin(s)
      BY <1>2, <2>1, BeginsAlone
    <3> QED  BY <1>1, <1>2, <2>1, <3>1, ResumeSid DEF SoleInv, FixIsOwn
  <2>2. CASE ResumeSeen(c) /\ call'[c].copy = active[call[c].sid] /\ SameCall(c)
    <3>1. s = call[c].sid /\ call[c].pc = "poll" /\ active[s] # None /\ s \in resumed
      BY <1>1, <2>2, ResumeSid DEF ResumeSeen, SameCall
    <3>2. ASSUME NEW p \in Procs, proc[p].sid = s PROVE Working(p) /\ active[s].pid = p
      <4>1. Lives(p)
        BY <1>1, <1>2, <3>2, LiveSid, BoundsAreNats DEF Lives
      <4>2. proc[p].pc \in Hooks \union {"none", "run", "hup", "ending", "dead"}
        BY <1>1, ProcIsTyped DEF Process
      <4> QED  BY <1>2, <3>1, <3>2, <4>1, <4>2 DEF SoleInv, OwnRecord, Hooks, Lives, Working, Starting
    <3>3. NoOtherTab(c)
      BY <1>2, <3>1 DEF SoleInv, ResumeIsFirst, NoOtherTab
    <3> QED  BY <2>2, <3>1, <3>2, <3>3
  <2> QED  BY <1>3, <2>1, <2>2
<1>5. ASSUME NEW d \in Calls \ {c}, call'[d].op = "resume", call'[d].sid = s, call'[d].pc = "tab" PROVE FALSE
  <2>1. CASE call'[d] = call[d]
    BY <1>4, <1>5, <2>1 DEF NoOtherTab
  <2>2. CASE ResumeBegin(s)
    <3>1. call'[c] = call[c]
      <4>1. NextCall \in Calls /\ NextCall # c /\ \E r : call' = [call EXCEPT ![NextCall] = r]
        BY <1>4, <2>2, NextCallIsFree DEF ResumeBegin, MayCall, Begin
      <4> QED  BY <1>1, <4>1 DEF TypeInv, TypeOK
    <3> QED  BY <1>4, <2>2, <3>1
  <2> QED  BY <1>5, <2>1, <2>2, TabMoves
<1>6. ASSUME NEW p \in Procs, proc'[p].sid = s PROVE Working(p)' /\ call'[c].copy.pid = p
  <2>1. SidMove(p)
    BY <1>2, <1>6, SidMoves
  <2>2. ~(s = used + 1 /\ StaysUntouched(used + 1))
    BY <1>4, ResumedGrows, <1>1 DEF StaysUntouched
  <2>3. ASSUME NEW d \in Calls, call[d].op = "resume", call[d].pc = "tab", s = call[d].sid PROVE FALSE
    BY <1>4, <2>3 DEF NoOtherTab
  <2>4. proc[p].sid = s
    BY <1>6, <2>1, <2>2, <2>3 DEF SidMove
  <2> QED  BY <1>2, <1>4, <1>6, <2>4, KeepsWorking
<1> QED  BY <1>5, <1>6

LEMMA PrunesStayDead ==
  ASSUME StartInv, SoleInv, Next
  PROVE  PrunesDead'
<1>1. TypeInv /\ TypeInv' /\ Recorded
  BY TypesKept DEF StartInv
<1>2. ASSUME NEW c \in Calls, call'[c].pc = "unlink"
      PROVE  call'[c].copy.pid = None \/ proc'[call'[c].copy.pid].pc \in {"none", "dead"}
  <2>1. CallMove(c)
    BY <1>1, CallMoves
  <2>2. /\ call'[c].copy.pid \in Procs /\ ~Lives(call'[c].copy.pid)
        /\ proc[call'[c].copy.pid].pc # "none"
    <3>1. CASE call'[c] = call[c]
      <4>1. call[c].copy \in Record
        BY <1>1, <1>2, <3>1, CallIsTyped DEF CallFits
      <4> QED  BY <1>1, <1>2, <3>1, <4>1, RecordIsTyped DEF SoleInv, PrunesDead, Recorded
    <3>2. ASSUME NEW t \in Sids, PruneRead(t), call'[c].copy = active[t]
          PROVE  /\ call'[c].copy.pid \in Procs /\ ~Lives(call'[c].copy.pid)
                 /\ proc[call'[c].copy.pid].pc # "none"
      <4>1. active[t] # None /\ ~Lives(active[t].pid)
        BY <3>2 DEF PruneRead, Prunable
      <4> QED  BY <1>1, <3>2, <4>1, FileIsTyped DEF Recorded
    <3> QED  BY <1>2, <2>1, <3>1, <3>2 DEF CallMove, Returned, NoCall
  <2>3. \A x \in Procs : ~Lives(x) /\ proc[x].pc # "none" => proc'[x].pc \in {"none", "dead"}
    BY <1>1, LivesOn, BoundsAreNats DEF Lives
  <2> QED  BY <2>2, <2>3
<1> QED  BY <1>2 DEF PrunesDead, Lives

LEMMA SoleHolds == Spec => []SoleInv
<1>1. Init => SoleInv
  <2> SUFFICES ASSUME Init PROVE SoleInv
    OBVIOUS
  <2>1. /\ \A p \in Procs : p # 1 => proc[p].sid = None /\ proc[p].pc = "none"
        /\ proc[1].pc = "run" /\ proc[1].sid = 1 /\ 1 \in Procs /\ 1 \in Sids
        /\ active[1] = [name |-> Requested, pid |-> 1, window |-> 1, nested |-> FALSE]
        /\ \A c \in Calls : call[c].op = "none" /\ call[c].pc = "free"
    BY BoundsAreNats DEF Init, NoProc, NoCall, Sids, Procs
  <2>2. active[1].pid = 1 /\ active[1] # None
    <3>1. active[1] \in Record
      BY <2>1, NoneIsTyped DEF Record
    <3>2. active[1].pid = 1
      BY <2>1
    <3> QED  BY <3>1, <3>2, RecordIsTyped
  <2>3. OwnRecord /\ Alone /\ ResumedIsAwaited
    BY <2>1, <2>2, BoundsAreNats DEF OwnRecord, Lives, Working, Starting, Alone, ResumedIsAwaited
  <2>4. ResumeIsFirst /\ FixIsOwn /\ PrunesDead
    BY <2>1 DEF ResumeIsFirst, FixIsOwn, PrunesDead
  <2> QED  BY <2>3, <2>4 DEF SoleInv
<1>2. ASSUME SoleInv, UNCHANGED vars PROVE SoleInv'
  <2>1. (OwnRecord /\ Alone /\ ResumedIsAwaited)'
    BY <1>2 DEF vars, files, seen, SoleInv, OwnRecord, Lives, Working, Starting, Alone, ResumedIsAwaited, Unshared
  <2>2. (ResumeIsFirst /\ FixIsOwn /\ PrunesDead)'
    BY <1>2 DEF vars, files, seen, SoleInv, ResumeIsFirst, FixIsOwn, PrunesDead, NoOtherTab, Lives, Working, Unshared
  <2> QED  BY <2>1, <2>2 DEF SoleInv
<1>3. ASSUME StartInv, SoleInv, Next PROVE SoleInv'
  BY <1>3, OwnRecordStays, AloneStays, ResumedStaysAwaited, ResumeStaysFirst, FixStaysOwn, PrunesStayDead DEF SoleInv
<1> QED  BY <1>1, <1>2, <1>3, StartHolds, PTL DEF Spec

\* Two processes work in one session only where a resume of it gave up before
\* its process registered, or a prune removed another's record
\* (resume_worker_impl, mcp_server.py:1724).
THEOREM SessionsAreSingle == Spec => []OneProcessPerSession
<1>1. ASSUME StartInv, SoleInv PROVE OneProcessPerSession
  <2>1. \A p \in Procs : Lives(p) => proc[p].sid # None
    BY <1>1, LiveSid DEF StartInv, Lives
  <2> QED  BY <1>1, <2>1 DEF OneProcessPerSession, SoleInv, Alone, Unshared
<1> QED  BY <1>1, StartHolds, SoleHolds, PTL

\* A session that runs has its own record, with the same exceptions; and the
\* manager's end leaves a flag for the workers that run
\* (_prune_stale_active_records, registry.py:34; _flag_orphaned_workers, hooks.py:597).
THEOREM RunningAreRegistered == Spec => []RunningIsRegistered
<1>1. ASSUME StartInv, SoleInv, FlagIsSet PROVE RunningIsRegistered
  <2>1. \A p \in Procs : proc[p].pc = "run" => Lives(p) /\ Working(p)
    BY BoundsAreNats DEF Lives, Working
  <2> QED  BY <1>1, <2>1 DEF RunningIsRegistered, StartInv, TypeInv, SoleInv, OwnRecord, Unshared, FlagIsSet
<1> QED  BY <1>1, StartHolds, SoleHolds, FlagHolds, PTL

-----------------------------------------------------------------------------
(* A worker that registered can be found again *)

\* What is not yet, or never, a worker's session.
NestedIsNoWorker ==
    /\ \A s \in Sids : active[s] # None /\ active[s].nested => lost[s] # "no"
    /\ \A p \in Procs : Writing(p) /\ proc[p].rec.nested => lost[proc[p].sid] # "no"
    /\ \A p \in Procs : Starting(p) /\ proc[p].sid \notin resumed => lost[proc[p].sid] # "no"
    /\ \A s \in Sids : s > used => lost[s] # "no"
\* A process that has ended left a closed record, and no resume has that one.
EndingIsClosed ==
    \A p \in Procs : proc[p].pc = "ending" /\ Unshared(proc[p].sid) =>
        /\ lost[proc[p].sid] = "no" => closed[proc[p].sid] # None
        /\ closed[proc[p].sid] # None =>
              \A c \in Calls : call[c].op = "resume" /\ call[c].sid = proc[p].sid
                               => closed[proc[p].sid].at # call[c].at
\* A resume forgets the closed record that it found only if it has seen an active one.
ForgetsTheFound ==
    \A c \in Calls : /\ call[c].pc = "forget" /\ Unshared(call[c].sid) /\ lost[call[c].sid] = "no"
                     /\ closed[call[c].sid] # None /\ closed[call[c].sid].at = call[c].at
                     => active[call[c].sid] # None

LEMMA LostMoves ==
  ASSUME TypeInv, Next, NEW s \in Sids, lost'[s] = "no"
  PROVE  \/ lost[s] = "no"
         \/ \E p \in Procs : /\ StartWrite(p) /\ proc[p].sid = s /\ ~proc[p].rec.nested
                             /\ active'[s] = proc[p].rec /\ active'[s] # None
<1>1. ASSUME UNCHANGED lost PROVE lost[s] = "no"
  BY <1>1
<1>2. ASSUME lost' = PrunedLost PROVE lost[s] = "no"
  BY <1>2 DEF PrunedLost
<1>3. ASSUME NEW t, NEW v \in {"pruned", "rotated", "raced"}, lost' = [lost EXCEPT ![t] = v]
      PROVE  lost[s] = "no"
  BY <1>3 DEF TypeInv, TypeOK
<1>4. ASSUME NEW p \in Procs, StartRotated(p) PROVE lost[s] = "no"
  BY <1>4 DEF StartRotated, PrunedLost
<1>5. ASSUME NEW p \in Procs, StartWrite(p), lost[s] # "no"
      PROVE  proc[p].sid = s /\ ~proc[p].rec.nested /\ active'[s] = proc[p].rec /\ active'[s] # None
  <2>1. ~proc[p].rec.nested /\ lost' = [lost EXCEPT ![proc[p].sid] = "no"] /\ Writing(p)
    BY <1>5 DEF StartWrite, Writing
  <2>2. proc[p].sid = s
    BY <1>5, <2>1 DEF TypeInv, TypeOK
  <2>3. active'[s] = proc[p].rec
    BY <1>5, <2>2 DEF StartWrite, TypeInv, TypeOK
  <2> QED  BY <2>1, <2>2, <2>3, LiveSid, RecordIsTyped
<1>6. ASSUME NEW p \in Procs, SessionStep(p)
      PROVE  \/ lost[s] = "no"
             \/ /\ StartWrite(p) /\ proc[p].sid = s /\ ~proc[p].rec.nested
                /\ active'[s] = proc[p].rec /\ active'[s] # None
  BY <1>1, <1>2, <1>4, <1>5, <1>6 DEF SessionStep, StartKnown, StartNested, StartFresh, StartClaim,
                                      EndWrite, EndUnlink, Rotate, Nest, Die, seen
<1>7. ASSUME NEW c \in Calls, CallStep(c) \/ Expire(c) \/ PruneUnlink(c) PROVE lost[s] = "no"
  BY <1>1, <1>3, <1>7 DEF CallStep, Expire, PruneUnlink, SpawnSidecar, SpawnConfirm, SpawnNoRegister, ResumeSeen,
              ResumeFix, ResumeForget, ResumeForked, ResumeGivesUp, SpawnTab, SpawnFails, ResumeTab,
              ResumeFails, seen
<1>8. ASSUME SpawnBegin \/ (\E t \in Sids : ResumeBegin(t) \/ Kill(t) \/ PruneRead(t)) \/ ManagerEnds
      PROVE  lost[s] = "no"
  BY <1>1, <1>2, <1>8 DEF SpawnBegin, ResumeBegin, Kill, PruneRead, ManagerEnds, seen
<1> QED  BY <1>6, <1>7, <1>8 DEF Next

\* The record that session_end writes is later than what any resume has found.
LEMMA EndLeavesRecord ==
  ASSUME TypeInv, NEW p \in Procs, EndWrite(p), NEW s \in Sids, proc[p].sid = s, active[s] # None, ~active[s].nested
  PROVE  closed'[s] # None /\ \A c \in Calls : closed'[s].at # call[c].at
<1> DEFINE r == [name |-> active[s].name, at |-> NextClose]
<1>1. closed' = [closed EXCEPT ![s] = r]
  BY DEF EndWrite
<1>2. NextClose \in Nat /\ \A c \in Calls : call[c].at < NextClose /\ call[c].at \in Nat
  BY NextCloseIsLast, CallIsTyped DEF TypeInv
<1>3. r \in ClosedRecord /\ r.at = NextClose
  BY <1>2, FileIsTyped DEF ClosedRecord
<1> HIDE DEF r
<1>4. closed'[s] = r
  BY <1>1 DEF TypeInv, TypeOK
<1>5. r # None
  BY <1>3, NoneAssumption
<1> QED  BY <1>2, <1>3, <1>4, <1>5

\* Only resumes forget closed records.
LEMMA ClosedLoss ==
  ASSUME TypeInv, Next, NEW s \in Sids, closed[s] # None, closed'[s] = None
  PROVE  \E c \in Calls : (ResumeForget(c) \/ ResumeForked(c)) /\ call[c].sid = s
<1>1. closed' # closed
  OBVIOUS
<1>2. ASSUME NEW p \in Procs, SessionStep(p) PROVE FALSE
  <2>1. ASSUME EndWrite(p) PROVE FALSE
    <3>1. active[proc[p].sid] # None /\ ~active[proc[p].sid].nested
      BY <1>1, <2>1 DEF EndWrite
    <3>2. proc[p].sid = s
      BY <2>1 DEF EndWrite, TypeInv, TypeOK
    <3> QED  BY <2>1, <3>1, <3>2, EndLeavesRecord
  <2> QED  BY <1>1, <1>2, <2>1 DEF SessionStep, StartKnown, StartRotated, StartNested, StartFresh, StartWrite,
                                   StartClaim, EndUnlink, Rotate, Nest, Die, files
<1>3. ASSUME NEW c \in Calls, CallStep(c) \/ Expire(c) \/ PruneUnlink(c)
      PROVE  (ResumeForget(c) \/ ResumeForked(c)) /\ call[c].sid = s
  <2>1. ResumeForget(c) \/ ResumeForked(c)
    BY <1>1, <1>3 DEF CallStep, Expire, PruneUnlink, SpawnSidecar, SpawnConfirm, SpawnNoRegister, ResumeSeen,
              ResumeFix, ResumeGivesUp, SpawnTab, SpawnFails, ResumeTab, ResumeFails, files
  <2>2. closed' = [closed EXCEPT ![call[c].sid] = None]
    BY <2>1 DEF ResumeForget, ResumeForked
  <2> QED  BY <2>1, <2>2 DEF TypeInv, TypeOK
<1>4. ASSUME SpawnBegin \/ (\E t \in Sids : ResumeBegin(t) \/ Kill(t) \/ PruneRead(t)) \/ ManagerEnds
      PROVE  FALSE
  BY <1>1, <1>4 DEF SpawnBegin, ResumeBegin, Kill, PruneRead, ManagerEnds, files
<1> QED  BY <1>2, <1>3, <1>4 DEF Next

\* A session ends with the record that session_end writes.
LEMMA EndsByWriting ==
  ASSUME TypeInv, Next, NEW p \in Procs, proc[p].pc # "ending", proc'[p].pc = "ending"
  PROVE  EndWrite(p)
<1>1. proc[p].pc \in {"run", "hup"} /\ proc'[p] # proc[p]
  <2>1. ProcMove(p)
    BY ProcMoves
  <2> QED  BY <2>1 DEF ProcMove
<1>2. ASSUME NEW q, NEW r, proc' = [proc EXCEPT ![q] = r] PROVE q = p /\ r.pc = "ending"
  BY <1>1, <1>2 DEF TypeInv, TypeOK
<1>3. SpareProc => NextProc # p
  BY <1>1, NextProcIsFree
<1>4. ASSUME NEW q \in Procs, NEW pc, ToPc(q, pc) PROVE q = p /\ pc = "ending"
  <2>1. CASE pc = "dead"
    BY <1>2, <1>4, <2>1 DEF ToPc, NoProc
  <2>2. CASE pc # "dead"
    <3>1. proc[q] \in Process /\ proc' = [proc EXCEPT ![q] = [proc[q] EXCEPT !.pc = pc]]
      BY <1>4, <2>2, ProcIsTyped DEF ToPc
    <3>2. q = p /\ [proc[q] EXCEPT !.pc = pc].pc = "ending"
      BY <1>2, <3>1
    <3> QED  BY <3>1, <3>2 DEF Process
  <2> QED  BY <2>1, <2>2
<1>5. ASSUME NEW q \in Procs, SessionStep(q) PROVE EndWrite(p)
  <2>1. ~Nest(q)
    BY <1>2, <1>3 DEF Nest
  <2>2. ~Die(q) /\ ~StartWrite(q) /\ (EndWrite(q) => q = p)
    BY <1>4 DEF Die, StartWrite, EndWrite
  <2>3. ~Rotate(q)
    <3>1. ASSUME Rotate(q) PROVE FALSE
      <4>1. proc'[q].pc \in {"boot", "hup"}
        BY <3>1, ProcIsTyped DEF Rotate, Process, TypeInv, TypeOK
      <4>2. q # p => proc'[p] = proc[p]
        BY <3>1 DEF Rotate, TypeInv, TypeOK
      <4> QED  BY <1>1, <4>1, <4>2
    <3> QED  BY <3>1
  <2>4. ~EndUnlink(q)
    <3>1. ASSUME EndUnlink(q), proc[q].again, used < MaxSids PROVE FALSE
      BY <1>1, <1>2, <3>1 DEF EndUnlink
    <3>2. ASSUME ToPc(q, "dead") PROVE FALSE
      BY <1>4, <3>2
    <3> QED  BY <3>1, <3>2 DEF EndUnlink
  <2>5. ~(StartKnown(q) \/ StartRotated(q) \/ StartNested(q) \/ StartFresh(q) \/ StartClaim(q))
    BY <1>1 DEF StartKnown, StartRotated, StartNested, StartFresh, Unknown, StartClaim, TypeInv, TypeOK
  <2> QED  BY <1>5, <2>1, <2>2, <2>3, <2>4, <2>5 DEF SessionStep
<1>6. ASSUME NEW c \in Calls, CallStep(c) \/ Expire(c) \/ PruneUnlink(c) PROVE FALSE
  <2>1. ASSUME NEW sid, NEW name, NEW asg, NEW blind, SpareProc, Launch(sid, name, asg, blind) PROVE FALSE
    BY <1>2, <1>3, <2>1 DEF Launch
  <2>2. ASSUME NEW b \in BOOLEAN, SpawnTab(c, b) \/ SpawnFails(c, b) \/ ResumeTab(c, b) \/ ResumeFails(c, b)
        PROVE  FALSE
    BY <1>1, <2>1, <2>2 DEF SpawnTab, SpawnFails, ResumeTab, ResumeFails
  <2> QED  BY <1>1, <1>6, <2>2 DEF CallStep, Expire, PruneUnlink, SpawnSidecar, SpawnConfirm, SpawnNoRegister,
              ResumeSeen, ResumeFix, ResumeForget, ResumeForked, ResumeGivesUp
<1>7. ASSUME NEW s \in Sids, Kill(s) PROVE FALSE
  <2>1. active[s] # None /\ (UNCHANGED proc \/ (Lives(active[s].window)
           /\ ToPc(active[s].window, IF proc[active[s].window].pc = "run" THEN "hup" ELSE "dead")))
    BY <1>7 DEF Kill, Registered
  <2>2. Lives(active[s].window) => active[s].window \in Procs
    BY <2>1, FileIsTyped DEF Lives
  <2> QED  BY <1>1, <1>4, <2>1, <2>2
<1> QED  BY <1>1, <1>5, <1>6, <1>7 DEF Next, SpawnBegin, ResumeBegin, PruneRead, ManagerEnds

\* A worker's first record is written by the only process of its session.
LEMMA NotAWorker ==
  ASSUME StartInv, Next, NEW p \in Procs, proc[p].sid # None, proc[p].sid \notin resumed,
         lost[proc[p].sid] # "no", ~(StartWrite(p) /\ ~proc[p].rec.nested)
  PROVE  lost'[proc[p].sid] # "no"
<1>1. TypeInv /\ proc[p].sid \in Sids /\ OwnSession
  BY LiveSid DEF StartInv
<1>2. \A q \in Procs : proc[q].sid = proc[p].sid => q = p
  BY <1>1 DEF OwnSession
<1> QED  BY <1>1, <1>2, LostMoves

LEMMA NestedStaysNoWorker ==
  ASSUME StartInv, NestedIsNoWorker, Next
  PROVE  NestedIsNoWorker'
<1>1. /\ TypeInv /\ TypeInv' /\ NestedIsBare /\ NestedIsBare' /\ resumed \subseteq resumed'
  BY StartKept, ResumedGrows DEF StartInv
<1>2. ASSUME NEW s \in Sids, active'[s] # None, active'[s].nested, lost'[s] = "no" PROVE FALSE
  <2>1. lost[s] = "no"
    BY <1>1, <1>2, LostMoves
  <2>2. FileMove(s)
    BY <1>1, FileMoves
  <2>3. ASSUME NEW p \in Procs, StartWrite(p) \/ StartClaim(p), proc[p].sid = s, SameWorker(active'[s], proc[p].rec)
        PROVE  FALSE
    BY <1>2, <2>1, <2>3 DEF StartWrite, StartClaim, Writing, SameWorker, NestedIsNoWorker
  <2>4. ASSUME NEW c \in Calls, ResumeFix(c), SameWorker(active'[s], call[c].copy) PROVE FALSE
    BY <1>1, <1>2, <2>4, ResumeSid DEF NestedIsBare, SameWorker
  <2> QED  BY <1>2, <2>1, <2>2, <2>3, <2>4 DEF FileMove, NestedIsNoWorker
<1>3. ASSUME NEW p \in Procs, Writing(p)', proc'[p].rec.nested
      PROVE  lost'[proc'[p].sid] # "no"
  <2>1. proc'[p].sid \notin resumed' /\ proc'[p].sid \notin resumed
    BY <1>1, <1>3 DEF NestedIsBare, Bare
  <2>2. ProcMove(p)
    BY <1>1, ProcMoves
  <2>3. CASE proc'[p] = proc[p]
    <3>1. Writing(p) /\ proc[p].rec.nested /\ proc[p].sid # None
      BY <1>1, <1>3, <2>3, LiveSid DEF Writing
    <3> QED  BY <2>1, <2>3, <3>1, NotAWorker DEF NestedIsNoWorker
  <2>4. CASE proc[p].pc = "boot" /\ proc'[p].sid = proc[p].sid
    <3>1. proc[p].sid # None /\ Starting(p) /\ ~StartWrite(p)
      BY <1>1, <2>4, LiveSid DEF Starting, StartWrite
    <3> QED  BY <2>1, <2>4, <3>1, NotAWorker DEF NestedIsNoWorker
  <2>5. CASE StartWrite(p) /\ proc'[p].pc = IF proc[p].pc = "write" /\ ~proc[p].rec.nested THEN "claim" ELSE "run"
    <3>1. proc'[p].pc = "claim" /\ ProcFits(proc'[p], p, used')
      BY <1>1, <1>3, <2>5 DEF Writing, TypeInv
    <3> QED  BY <1>3, <3>1 DEF ProcFits
  <2> QED  BY <1>3, <2>2, <2>3, <2>4, <2>5 DEF ProcMove, Writing
<1>4. ASSUME NEW p \in Procs, Starting(p)', proc'[p].sid \notin resumed', lost'[proc'[p].sid] = "no"
      PROVE  FALSE
  <2>1. proc'[p].sid # None
    <3>1. ProcFits(proc'[p], p, used') /\ used' \in Nat
      BY <1>1, UsedGrows DEF TypeInv
    <3>2. proc'[p].sid \in Nat
      BY <1>4, <3>1 DEF ProcFits, Starting
    <3> QED  BY <3>2, NoneAssumption
  <2>2. SidMove(p)
    BY <2>1, SidMoves
  <2>3. proc'[p].sid # proc[p].sid
    <3>1. ASSUME proc'[p].sid = proc[p].sid PROVE FALSE
      <4>1. Starting(p) /\ ~StartWrite(p)
        BY <1>4, <2>1, <3>1, KeepsWorking
      <4> QED  BY <1>1, <1>4, <2>1, <3>1, <4>1, NotAWorker DEF NestedIsNoWorker
    <3> QED  BY <3>1
  <2>4. ~(used < MaxSids /\ proc'[p].sid = used + 1)
    <3>1. ASSUME used < MaxSids, proc'[p].sid = used + 1 PROVE FALSE
      <4>1. used + 1 \in Sids /\ used + 1 > used /\ \A q \in Procs : proc[q].sid # used + 1
        BY <1>1, <3>1, NewSid, UsedIsTyped
      <4> QED  BY <1>1, <1>4, <3>1, <4>1, LostMoves DEF NestedIsNoWorker
    <3> QED  BY <3>1
  <2> QED  BY <1>1, <1>4, <2>2, <2>3, <2>4, ResumeSid DEF SidMove
<1>5. ASSUME NEW s \in Sids, s > used', lost'[s] = "no" PROVE FALSE
  <2>1. used \in Nat /\ used' \in Nat /\ used <= used' /\ s \in Nat
    BY <1>1, UsedGrows, BoundsAreNats
  <2>2. \A p \in Procs : proc[p].sid # s
    BY <1>1, <1>5, <2>1, LiveSid, BoundsAreNats
  <2> QED  BY <1>1, <1>5, <2>1, <2>2, LostMoves DEF NestedIsNoWorker
<1> QED  BY <1>2, <1>3, <1>4, <1>5 DEF NestedIsNoWorker

FoundInv == NestedIsNoWorker /\ EndingIsClosed /\ ForgetsTheFound /\ WorkerIsSomewhere

\* A worker whose process keeps its session was one before.
LEMMA EndingStaysClosed ==
  ASSUME StartInv, SoleInv, FoundInv, Next
  PROVE  EndingIsClosed'
<1>1. TypeInv /\ TypeInv' /\ NestedIsBare
  BY TypesKept DEF StartInv
<1> SUFFICES ASSUME NEW p \in Procs, proc'[p].pc = "ending", proc'[p].sid \notin gaveUp' \union shadowed'
             PROVE  /\ lost'[proc'[p].sid] = "no" => closed'[proc'[p].sid] # None
                    /\ closed'[proc'[p].sid] # None =>
                          \A c \in Calls : call'[c].op = "resume" /\ call'[c].sid = proc'[p].sid
                                           => closed'[proc'[p].sid].at # call'[c].at
  BY DEF EndingIsClosed, Unshared
<1> DEFINE s == proc[p].sid
<1>2. proc'[p].sid = s /\ proc[p].pc \in {"run", "hup", "ending"}
  <2>1. ProcMove(p)
    BY <1>1, ProcMoves
  <2> QED  BY <2>1 DEF ProcMove
<1>3. s \in Sids /\ s # None /\ Unshared(s) /\ Lives(p) /\ Working(p)
  BY <1>1, <1>2, LiveSid, SharedGrows, BoundsAreNats DEF Lives, Working, Unshared
<1>4. active[s] # None /\ active[s].pid = p /\ \A q \in Procs : proc[q].sid = s => q = p
  BY <1>3 DEF SoleInv, OwnRecord, Alone
<1>5. ASSUME NEW c \in Calls, call'[c].op = "resume", call'[c].sid = s
      PROVE  call[c].op = "resume" /\ call[c].sid = s /\ call'[c].at = call[c].at
  <2>1. CallMove(c)
    BY <1>1, CallMoves
  <2>2. ~ResumeBegin(s)
    BY <1>3, BeginsAlone
  <2> QED  BY <1>5, <2>1, <2>2 DEF CallMove, SameCall, Returned, NoCall
<1>6. lost'[s] = "no" => lost[s] = "no"
  <2>1. ~StartWrite(p)
    BY <1>2 DEF StartWrite
  <2> QED  BY <1>1, <1>3, <1>4, <2>1, LostMoves
<1>7. CASE proc[p].pc # "ending"
  <2>1. EndWrite(p)
    BY <1>1, <1>7, EndsByWriting
  <2>2. CASE active[s].nested
    <3>1. UNCHANGED closed /\ closed[s] = None
      BY <1>1, <1>3, <1>4, <2>1, <2>2 DEF EndWrite, NestedIsBare, Bare
    <3> QED  BY <1>2, <1>3, <1>4, <1>6, <2>2, <3>1 DEF FoundInv, NestedIsNoWorker
  <2>3. CASE ~active[s].nested
    BY <1>1, <1>2, <1>3, <1>4, <1>5, <2>1, <2>3, EndLeavesRecord
  <2> QED  BY <2>2, <2>3
<1>8. CASE proc[p].pc = "ending"
  <2>1. ASSUME closed'[s] # None PROVE closed'[s] = closed[s]
    <3>1. ~EndWrite(p)
      BY <1>8 DEF EndWrite
    <3>2. ClosedMove(s)
      BY <1>1, <1>3, ClosedMoves
    <3> QED  BY <1>4, <2>1, <3>1, <3>2 DEF ClosedMove
  <2>2. /\ lost[s] = "no" => closed[s] # None
        /\ closed[s] # None => \A c \in Calls : call[c].op = "resume" /\ call[c].sid = s
                                                => closed[s].at # call[c].at
    BY <1>3, <1>8 DEF FoundInv, EndingIsClosed
  <2>3. ASSUME lost'[s] = "no", closed'[s] = None PROVE FALSE
    <3>1. PICK c \in Calls : (ResumeForget(c) \/ ResumeForked(c)) /\ call[c].sid = s
      BY <1>1, <1>3, <1>6, <2>2, <2>3, ClosedLoss
    <3>2. call[c].op = "resume"
      BY <1>1, <3>1, CallIsTyped DEF ResumeForget, ResumeForked, CallFits, ToolCall
    <3>3. closed[s] # None /\ closed[s].at # call[c].at
      BY <1>6, <2>2, <2>3, <3>1, <3>2
    <3>4. lost'[s] \in {"raced", "rotated"}
      BY <1>1, <1>3, <3>1, <3>3 DEF ResumeForget, ResumeForked, TypeInv, TypeOK
    <3> QED  BY <2>3, <3>4
  <2> HIDE DEF s
  <2>4. closed'[s] # None => \A c \in Calls : call'[c].op = "resume" /\ call'[c].sid = s => closed'[s].at # call'[c].at
    BY <1>5, <2>1, <2>2
  <2> QED  BY <1>2, <2>3, <2>4
<1> QED  BY <1>7, <1>8

\* How a record that a worker has goes, when its closed one cannot take its place.
LEMMA NoWorkerLosesIts ==
  ASSUME StartInv, FoundInv, Next, NEW s \in Sids, Unshared(s), active[s] # None, active'[s] = None,
         lost[s] = "no", lost'[s] = "no",
         closed[s] = None \/ \E c \in Calls : call[c].pc = "forget" /\ call[c].op = "resume" /\ call[c].sid = s
                                                 /\ closed[s].at = call[c].at
  PROVE  FALSE
<1>1. TypeInv
  BY DEF StartInv
<1>2. closed[s] = None \/ Forgetting(s)
  BY DEF Forgetting
<1>3. ~(Prunable(s) /\ lost'[s] = PrunedLost[s])
  BY <1>2 DEF PrunedLost
<1>4. ASSUME NEW c \in Calls, PruneUnlink(c), call[c].sid = s PROVE FALSE
  BY <1>1, <1>2, <1>4 DEF PruneUnlink, TypeInv, TypeOK
<1>5. ASSUME NEW p \in Procs, EndUnlink(p), proc[p].sid = s PROVE FALSE
  BY <1>5 DEF EndUnlink, FoundInv, EndingIsClosed
<1> QED  BY <1>1, <1>3, <1>4, <1>5, FileLoss

LEMMA ForgetsStillFound ==
  ASSUME StartInv, SoleInv, FoundInv, Next
  PROVE  ForgetsTheFound'
<1>1. TypeInv /\ TypeInv'
  BY TypesKept DEF StartInv
<1> SUFFICES ASSUME NEW c \in Calls, call'[c].pc = "forget", call'[c].sid \notin gaveUp' \union shadowed',
                    lost'[call'[c].sid] = "no", closed'[call'[c].sid] # None,
                    closed'[call'[c].sid].at = call'[c].at, active'[call'[c].sid] = None
             PROVE  FALSE
  BY DEF ForgetsTheFound, Unshared
<1> DEFINE s == call'[c].sid
<1>2. s \in Sids /\ Unshared(s)
  <2>1. CallFits(call'[c], resumed') /\ call'[c] \in ToolCall /\ resumed' \subseteq Sids
    BY <1>1 DEF TypeInv, TypeOK
  <2> QED  BY <2>1, SharedGrows, BoundsAreNats DEF Unshared, CallFits, ToolCall
<1>3. CallMove(c)
  BY <1>1, CallMoves
<1>4. CASE call'[c] = call[c]
  <2>1. call[c].op = "resume" /\ call[c].pc = "forget" /\ call[c].sid = s
    BY <1>1, <1>4, CallIsTyped DEF CallFits, ToolCall
  <2>2. lost[s] = "no"
    BY <1>1, <1>2, LostMoves
  <2>3. closed'[s] = closed[s]
    <3>1. ASSUME NEW p \in Procs, EndWrite(p), proc[p].sid = s, active[s] # None, ~active[s].nested PROVE FALSE
      BY <1>1, <1>2, <1>4, <3>1, EndLeavesRecord
    <3> QED  BY <1>1, <1>2, <3>1, ClosedMoves DEF ClosedMove
  <2>4. active[s] # None
    BY <1>2, <1>4, <2>1, <2>2, <2>3 DEF FoundInv, ForgetsTheFound
  <2> HIDE DEF s
  <2>5. closed[s].at = call[c].at
    BY <1>4, <2>3 DEF s
  <2>6. active'[s] = None /\ lost'[s] = "no"
    BY DEF s
  <2> QED  BY <1>2, <2>1, <2>2, <2>4, <2>5, <2>6, NoWorkerLosesIts
<1>5. CASE ResumeSeen(c) /\ SameCall(c)
  BY <1>5 DEF ResumeSeen, SameCall, files
<1>6. CASE ResumeFix(c) /\ SameCall(c)
  <2>1. [call[c].copy EXCEPT !.window = call[c].proc] \in Record
    BY <1>1, <1>6, CallIsTyped DEF ResumeFix, CallFits, Record
  <2>2. active'[s] = [call[c].copy EXCEPT !.window = call[c].proc]
    BY <1>1, <1>2, <1>6 DEF ResumeFix, SameCall, TypeInv, TypeOK
  <2> QED  BY <2>1, <2>2, RecordIsTyped
<1> QED  BY <1>3, <1>4, <1>5, <1>6 DEF CallMove, Returned, NoCall

LEMMA WorkerStaysSomewhere ==
  ASSUME StartInv, SoleInv, FoundInv, Next
  PROVE  WorkerIsSomewhere'
<1>1. TypeInv
  BY DEF StartInv
<1> SUFFICES ASSUME NEW s \in Sids, lost'[s] = "no", s \notin gaveUp' \union shadowed',
                    active'[s] = None, closed'[s] = None
             PROVE  FALSE
  BY DEF WorkerIsSomewhere
<1>2. Unshared(s) /\ lost[s] = "no"
  BY <1>1, SharedGrows, LostMoves DEF Unshared
<1>3. CASE closed[s] # None
  <2>1. PICK c \in Calls : (ResumeForget(c) \/ ResumeForked(c)) /\ call[c].sid = s
    BY <1>1, <1>3, ClosedLoss
  <2>2. ResumeForget(c) /\ closed[s].at = call[c].at
    BY <1>1, <1>3, <2>1 DEF ResumeForget, ResumeForked, TypeInv, TypeOK
  <2>3. active[s] # None
    BY <1>2, <1>3, <2>1, <2>2 DEF ResumeForget, FoundInv, ForgetsTheFound
  <2> QED  BY <2>2, <2>3 DEF ResumeForget
<1>4. CASE closed[s] = None
  <2>1. active[s] # None
    BY <1>2, <1>4 DEF FoundInv, WorkerIsSomewhere, Unshared
  <2> QED  BY <1>2, <1>4, <2>1, NoWorkerLosesIts
<1> QED  BY <1>3, <1>4

LEMMA FoundHolds == Spec => []FoundInv
<1>1. Init => FoundInv
  <2> SUFFICES ASSUME Init PROVE FoundInv
    OBVIOUS
  <2>1. TypeInv
    BY TypesInit
  <2>2. /\ \A p \in Procs : proc[p].pc \notin {"boot", "write", "rewrite", "claim", "ending"}
        /\ \A c \in Calls : call[c].pc = "free"
        /\ \A s \in Sids : lost[s] = "no" => s = 1 /\ active[s].nested = FALSE
        /\ \A s \in Sids : active[s] # None <=> s = 1
        /\ used = 1
    <3>1. active[1] # None
      <4>1. [name |-> Requested, pid |-> 1, window |-> 1, nested |-> FALSE] \in Record
        BY NoneIsTyped, BoundsAreNats DEF Record, Procs
      <4>2. active[1] = [name |-> Requested, pid |-> 1, window |-> 1, nested |-> FALSE]
        BY BoundsAreNats DEF Init, Sids
      <4>3. active[1] \in Record
        BY <4>1, <4>2
      <4> QED  BY <4>3, RecordIsTyped
    <3> QED  BY <3>1 DEF Init, NoProc, NoCall
  <2> QED  BY <2>2, BoundsAreNats DEF FoundInv, NestedIsNoWorker, EndingIsClosed, ForgetsTheFound, WorkerIsSomewhere,
                          Writing, Starting
<1>2. ASSUME FoundInv, UNCHANGED vars PROVE FoundInv'
  BY <1>2 DEF vars, files, seen, FoundInv, NestedIsNoWorker, EndingIsClosed, ForgetsTheFound, WorkerIsSomewhere,
              Writing, Starting, Unshared
<1>3. ASSUME StartInv, SoleInv, FoundInv, Next PROVE FoundInv'
  BY <1>3, NestedStaysNoWorker, EndingStaysClosed, ForgetsStillFound, WorkerStaysSomewhere DEF FoundInv
<1> QED  BY <1>1, <1>2, <1>3, StartHolds, SoleHolds, PTL DEF Spec

\* A worker that has registered can be found again: in active/, or in closed/,
\* from where it is resumed, whatever dies on the way (session_end, hooks.py:646-672).
THEOREM WorkersAreFound == Spec => []WorkerIsSomewhere
<1>1. FoundInv => WorkerIsSomewhere
  BY DEF FoundInv
<1> QED  BY <1>1, FoundHolds, PTL
===============================================================================
