----------------------------- MODULE LockProofs -------------------------------
(***************************************************************************)
(* What is kept by a lock.  The loops' run lock: however many runs contend *)
(* for it, they exclude each other, whichever of them dies where, until    *)
(* one overstays or a steal was decided on a look at an earlier lock.  The *)
(* worker slots: they never let a worker too many in but by a lapse, and   *)
(* their file implements the semaphore.  The action executor's ledger: it  *)
(* keeps an action from being done twice.                                  *)
(***************************************************************************)
EXTENDS RunLock, Slots, Executor, FiniteSetTheorems, FunctionTheorems, SequenceTheorems, TLAPS

(***************************************************************************)
(* The run lock.                                                           *)
(***************************************************************************)
\* The run made a directory and has not given it up.
Inside(p) == pc[p] \in {"echo", "held", "rm"}

\* Only one run is inside: the one whose pid the file holds, or that is about
\* to write it.
OneInside ==
    /\ \A p, q \in Procs : Inside(p) /\ Inside(q) => p = q
    /\ \A p \in Procs : Inside(p) => dir # "none" /\ pid = (IF pc[p] = "echo" THEN NoPid ELSE p)

\* Nobody is inside an over-aged lock.
AgedIsLeft == dir = "aged" => \A p \in Procs : ~Inside(p)

\* A run that judges the lock it looked at: if somebody is inside, it is the
\* run whose pid was read; and a steal was decided on an abandoned lock.
FreshLook ==
    \A p \in Procs \ stale :
      /\ pc[p] = "kill" /\ holder[p] # NoPid => \A q \in Procs : Inside(q) => q = holder[p]
      /\ pc[p] = "mv" => \A q \in Procs : ~Inside(q)

\* All this holds until a run overstays or a steal is decided on a look at an
\* earlier lock.
Orderly == OneInside /\ AgedIsLeft /\ FreshLook

LockInv == LockTypeOK /\ (overstayed = {} /\ ~blind => Orderly)

(***************************************************************************)
(* Proofs                                                                  *)
(***************************************************************************)
\* Before any run began nothing is held.
LEMMA LockInitInv == LockInit => LockInv
  <1> SUFFICES ASSUME LockInit PROVE LockInv
    OBVIOUS
  <1>1. LockTypeOK
    <2>1. deaths \in 0..MaxDeaths /\ pid \in Procs \union {NoPid}
      BY RunLockAssumption DEF LockInit
    <2>2. overstayed \union stale \subseteq Procs /\ blind \in BOOLEAN
      BY DEF LockInit
    <2> QED
      BY <2>1, <2>2 DEF LockInit, LockTypeOK
  <1>2. \A p \in Procs : pc[p] = "start"
    BY DEF LockInit
  <1>3. Orderly
    BY <1>2 DEF LockInit, Orderly, OneInside, AgedIsLeft, FreshLook, Inside
  <1> QED
    BY <1>1, <1>3 DEF LockInv

\* The types are inductive by themselves.
LEMMA LockTypeInductive == LockTypeOK /\ [LockNext]_lockVars => LockTypeOK'
  <1> SUFFICES ASSUME LockTypeOK, [LockNext]_lockVars
               PROVE  LockTypeOK'
    OBVIOUS
  <1> USE RunLockAssumption DEF LockTypeOK
  <1>1. ASSUME NEW p \in Procs, Acquire(p)
        PROVE  LockTypeOK'
    <2>1. CASE Mkdir(p)
      BY <2>1 DEF Mkdir, Goto
    <2>2. CASE ReadHolder(p) \/ CheckHolder(p)
      BY <2>2 DEF ReadHolder, CheckHolder, Goto, ghosts
    <2>3. CASE CheckAge(p) \/ Steal(p) \/ Poll(p)
      BY <2>3 DEF CheckAge, Steal, Poll, Goto, ghosts
    <2>4. CASE WritePid(p)
      BY <2>4 DEF WritePid, Goto, ghosts
    <2> QED
      BY <1>1, <2>1, <2>2, <2>3, <2>4 DEF Acquire
  <1>2. ASSUME NEW p \in Procs, Begin(p) \/ GiveUp(p) \/ ReleaseLock(p)
        PROVE  LockTypeOK'
    BY <1>2 DEF Begin, GiveUp, ReleaseLock, CheckOwner, Remove, Goto, ghosts
  <1>3. ASSUME NEW p \in Procs, Die(p)
        PROVE  LockTypeOK'
    BY <1>3 DEF Die, Goto, ghosts
  <1>4. CASE Age
    BY <1>4 DEF Age
  <1>5. CASE UNCHANGED lockVars
    BY <1>5 DEF lockVars, ghosts
  <1> QED
    BY <1>1, <1>2, <1>3, <1>4, <1>5 DEF LockNext

\* A step that leaves the directory alone, lets nobody in and lets no fresh run
\* decide anything keeps the order; so does one that lets somebody out.
LEMMA QuietKeeps ==
  ASSUME LockTypeOK, LockTypeOK', Orderly, NEW p \in Procs, NEW label, Goto(p, label),
         label \notin {"kill", "mv", "echo", "held"}, label = "rm" => pc[p] = "held",
         UNCHANGED <<dir, pid, holder>>,
         \A q \in Procs \ {p} : q \in stale' <=> q \in stale
  PROVE  Orderly'
  <1>0. /\ pc'[p] = label
        /\ \A q \in Procs : q # p => pc'[q] = pc[q]
    BY DEF Goto, LockTypeOK
  <1>1. \A q \in Procs : Inside(q)' => Inside(q) /\ (pc'[q] = "echo" <=> pc[q] = "echo")
    BY <1>0 DEF Inside
  <1>2. OneInside'
    BY <1>0, <1>1 DEF Orderly, OneInside
  <1>3. AgedIsLeft'
    BY <1>1 DEF Orderly, AgedIsLeft
  <1>4. FreshLook'
    BY <1>0, <1>1 DEF Orderly, FreshLook
  <1> QED
    BY <1>2, <1>3, <1>4 DEF Orderly

\* The directory goes and nobody is inside any more.
LEMMA EmptyKeeps ==
  ASSUME dir' = "none", \A q \in Procs : ~Inside(q)'
  PROVE  Orderly'
  BY DEF Orderly, OneInside, AgedIsLeft, FreshLook

\* mkdir: there was no directory, so nobody was inside, and whoever is about
\* to judge an earlier one is stale.
LEMMA MkdirKeeps ==
  ASSUME LockTypeOK, LockTypeOK', Orderly, NEW p \in Procs, Mkdir(p)
  PROVE  Orderly'
  <1>1. CASE dir # "none"
    <2>1. Goto(p, "read") /\ UNCHANGED <<dir, pid, holder, stale>>
      BY <1>1 DEF Mkdir
    <2> QED
      BY <2>1, QuietKeeps
  <1>2. CASE dir = "none"
    <2>0. /\ pc[p] = "mkdir" /\ pc'[p] = "echo" /\ dir' = "young"
          /\ \A q \in Procs : q # p => pc'[q] = pc[q]
          /\ UNCHANGED <<pid, holder>> /\ pid = NoPid
          /\ stale' = stale \union {q \in Procs : pc[q] \in {"kill", "age", "mv"}}
      BY <1>2 DEF Mkdir, Goto, LockTypeOK
    <2>1. \A q \in Procs : Inside(q)' => q = p
      BY <1>2, <2>0 DEF Orderly, OneInside, Inside
    <2>2. OneInside' /\ AgedIsLeft'
      BY <2>0, <2>1 DEF OneInside, AgedIsLeft
    <2>3. FreshLook'
      BY <2>0 DEF FreshLook
    <2> QED
      BY <2>2, <2>3 DEF Orderly
  <1> QED
    BY <1>1, <1>2

\* The pid that is read is that of the run inside.
LEMMA ReadHolderKeeps ==
  ASSUME LockTypeOK, LockTypeOK', Orderly, NEW p \in Procs, ReadHolder(p)
  PROVE  Orderly'
  <1>0. /\ pc[p] = "read" /\ pc'[p] = "kill" /\ holder'[p] = pid /\ stale' = stale \ {p}
        /\ \A q \in Procs : q # p => pc'[q] = pc[q] /\ holder'[q] = holder[q]
        /\ UNCHANGED <<dir, pid>>
    BY DEF ReadHolder, Goto, LockTypeOK
  <1>1. \A q \in Procs : Inside(q)' <=> Inside(q)
    BY <1>0 DEF Inside
  <1>2. OneInside' /\ AgedIsLeft'
    <2>1. \A q \in Procs : Inside(q) => pc'[q] = pc[q]
      BY <1>0 DEF Inside
    <2> QED
      BY <1>0, <1>1, <2>1 DEF Orderly, OneInside, AgedIsLeft
  <1>3. pid # NoPid => \A q \in Procs : Inside(q) => q = pid
    BY DEF Orderly, OneInside
  <1>4. FreshLook'
    BY <1>0, <1>1, <1>3 DEF Orderly, FreshLook
  <1> QED
    BY <1>2, <1>4 DEF Orderly

\* A steal is decided: nobody is inside, if the look was at this lock.
LEMMA DecisionKeeps ==
  ASSUME LockTypeOK, LockTypeOK', Orderly, NEW p \in Procs, Goto(p, "mv"), ~Inside(p),
         p \notin stale' => \A q \in Procs : ~Inside(q),
         UNCHANGED <<dir, pid, holder>>,
         \A q \in Procs \ {p} : q \in stale' <=> q \in stale
  PROVE  Orderly'
  <1>0. /\ pc'[p] = "mv" /\ \A q \in Procs : q # p => pc'[q] = pc[q]
    BY DEF Goto, LockTypeOK
  <1>1. \A q \in Procs : Inside(q)' <=> Inside(q)
    BY <1>0 DEF Inside
  <1>2. OneInside' /\ AgedIsLeft'
    <2>1. \A q \in Procs : Inside(q) => pc'[q] = pc[q]
      BY <1>0
    <2> QED
      BY <1>1, <2>1 DEF Orderly, OneInside, AgedIsLeft
  <1>3. FreshLook'
    BY <1>0, <1>1 DEF Orderly, FreshLook
  <1> QED
    BY <1>2, <1>3 DEF Orderly

LEMMA CheckHolderKeeps ==
  ASSUME LockTypeOK, LockTypeOK', Orderly, NEW p \in Procs, CheckHolder(p)
  PROVE  Orderly'
  <1>0. /\ pc[p] = "kill" /\ ~Inside(p) /\ UNCHANGED <<dir, pid, holder, stale>>
    BY DEF CheckHolder, Inside, ghosts
  <1>1. CASE holder[p] # NoPid /\ Dead(holder[p])
    <2>1. p \notin stale => \A q \in Procs : ~Inside(q)
      BY <1>0, <1>1 DEF Orderly, FreshLook, Dead, Inside
    <2>2. Goto(p, "mv")
      BY <1>1 DEF CheckHolder
    <2> QED
      BY <1>0, <2>1, <2>2, DecisionKeeps
  <1>2. CASE ~(holder[p] # NoPid /\ Dead(holder[p]))
    <2>1. Goto(p, "age")
      BY <1>2 DEF CheckHolder
    <2> QED
      BY <1>0, <2>1, QuietKeeps
  <1> QED
    BY <1>1, <1>2

\* The age is that of the lock as it is now, and nobody is inside an old one.
LEMMA CheckAgeKeeps ==
  ASSUME LockTypeOK, LockTypeOK', Orderly, NEW p \in Procs, CheckAge(p)
  PROVE  Orderly'
  <1>0. /\ pc[p] = "age" /\ ~Inside(p) /\ UNCHANGED <<dir, pid, holder>> /\ stale' = stale \ {p}
    BY DEF CheckAge, Inside
  <1>1. CASE dir = "aged"
    <2>1. Goto(p, "mv") /\ \A q \in Procs : ~Inside(q)
      BY <1>1 DEF CheckAge, Orderly, AgedIsLeft
    <2> QED
      BY <1>0, <2>1, DecisionKeeps
  <1>2. CASE dir # "aged"
    <2>1. Goto(p, "poll")
      BY <1>2 DEF CheckAge
    <2> QED
      BY <1>0, <2>1, QuietKeeps
  <1> QED
    BY <1>1, <1>2

\* The mv takes an abandoned lock, none at all, or one the run did not look at.
LEMMA StealKeeps ==
  ASSUME LockTypeOK, Orderly, NEW p \in Procs, Steal(p), ~blind'
  PROVE  Orderly'
  <1>0. /\ pc[p] = "mv" /\ pc'[p] \in {"mkdir", "poll"} /\ dir' = "none"
        /\ \A q \in Procs : q # p => pc'[q] = pc[q]
        /\ dir = "none" \/ p \notin stale
    BY DEF Steal, Goto, LockTypeOK
  <1>1. \A q \in Procs : ~Inside(q)
    BY <1>0 DEF Orderly, FreshLook, OneInside
  <1>2. \A q \in Procs : ~Inside(q)'
    BY <1>0, <1>1 DEF Inside
  <1> QED
    BY <1>0, <1>2, EmptyKeeps

LEMMA WritePidKeeps ==
  ASSUME LockTypeOK, LockTypeOK', Orderly, NEW p \in Procs, WritePid(p)
  PROVE  Orderly'
  <1>0. /\ pc[p] = "echo" /\ pc'[p] = "held" /\ Inside(p) /\ dir # "none" /\ pid' = p
        /\ \A q \in Procs : q # p => pc'[q] = pc[q]
        /\ UNCHANGED <<dir, holder, stale>>
    BY DEF WritePid, Goto, LockTypeOK, Inside, Orderly, OneInside, ghosts
  <1>1. \A q \in Procs : Inside(q)' <=> q = p
    BY <1>0 DEF Inside, Orderly, OneInside
  <1>2. OneInside' /\ AgedIsLeft'
    BY <1>0, <1>1 DEF Orderly, OneInside, AgedIsLeft
  <1>3. FreshLook'
    BY <1>0, <1>1 DEF Orderly, FreshLook
  <1> QED
    BY <1>2, <1>3 DEF Orderly

\* release: the run inside finds its own pid, and leaves nobody inside.
LEMMA ReleaseLockKeeps ==
  ASSUME LockTypeOK, LockTypeOK', Orderly, NEW p \in Procs, ReleaseLock(p)
  PROVE  Orderly'
  <1>1. CASE CheckOwner(p)
    <2>1. pc[p] = "held" /\ (Goto(p, "rm") \/ Goto(p, "exited")) /\ UNCHANGED <<dir, pid, holder, stale>>
      BY <1>1 DEF CheckOwner, ghosts
    <2> QED
      BY <2>1, QuietKeeps
  <1>2. CASE Remove(p)
    <2>0. /\ pc[p] = "rm" /\ pc'[p] = "exited" /\ dir' = "none"
          /\ \A q \in Procs : q # p => pc'[q] = pc[q]
      BY <1>2 DEF Remove, Goto, LockTypeOK
    <2>1. \A q \in Procs : ~Inside(q)'
      BY <2>0 DEF Orderly, OneInside, Inside
    <2> QED
      BY <2>0, <2>1, EmptyKeeps
  <1> QED
    BY <1>1, <1>2 DEF ReleaseLock

\* Whoever is inside an over-aging lock overstays: then nothing is claimed.
LEMMA AgeKeeps ==
  ASSUME LockTypeOK, Orderly, Age, overstayed' = {}
  PROVE  Orderly'
  <1>1. UNCHANGED <<pid, pc, holder, stale>> /\ dir = "young" /\ dir' = "aged"
    BY DEF Age
  <1>2. \A q \in Procs : ~Inside(q)
    BY DEF Age, Inside
  <1> QED
    BY <1>1, <1>2 DEF Orderly, OneInside, AgedIsLeft, FreshLook, Inside

LEMMA NextKeeps ==
  ASSUME LockInv, [LockNext]_lockVars
  PROVE  LockInv'
  <1>0. LockTypeOK /\ LockTypeOK'
    BY LockTypeInductive DEF LockInv
  <1> SUFFICES ASSUME overstayed' = {}, ~blind' PROVE Orderly'
    BY <1>0 DEF LockInv
  <1>o. Orderly
    <2>1. overstayed' = overstayed \/ Age
      BY DEF LockNext, lockVars, ghosts, Begin, Acquire, GiveUp, ReleaseLock, Die, Mkdir,
         ReadHolder, CheckHolder, CheckAge, Steal, Poll, WritePid, CheckOwner, Remove
    <2>2. overstayed \subseteq overstayed'
      BY <2>1 DEF Age
    <2>3. blind' = blind \/ \E p \in Procs : Steal(p)
      BY DEF LockNext, lockVars, ghosts, Begin, Acquire, GiveUp, ReleaseLock, Die, Age, Mkdir,
         ReadHolder, CheckHolder, CheckAge, Poll, WritePid, CheckOwner, Remove
    <2>4. blind => blind'
      BY <1>0, <2>3, Zenon DEF Steal, LockTypeOK
    <2> QED
      BY <2>2, <2>4 DEF LockInv
  <1>1. ASSUME NEW p \in Procs, Acquire(p)
        PROVE  Orderly'
    <2>1. CASE Poll(p)
      <3>1. Goto(p, "mkdir") /\ UNCHANGED <<dir, pid, holder, stale>>
        BY <2>1 DEF Poll, ghosts
      <3> QED
        BY <1>0, <1>o, <3>1, QuietKeeps
    <2> QED
      BY <1>0, <1>o, <1>1, <2>1, MkdirKeeps, ReadHolderKeeps, CheckHolderKeeps, CheckAgeKeeps,
         StealKeeps, WritePidKeeps, Zenon DEF Acquire
  <1>2. ASSUME NEW p \in Procs, Begin(p) \/ GiveUp(p) \/ Die(p)
        PROVE  Orderly'
    <2>1. /\ Goto(p, "mkdir") \/ Goto(p, "exited") \/ Goto(p, "killed")
          /\ UNCHANGED <<dir, pid, holder, stale>>
      BY <1>2 DEF Begin, GiveUp, Die, ghosts
    <2> QED
      BY <1>0, <1>o, <2>1, QuietKeeps
  <1>3. CASE UNCHANGED lockVars
    BY <1>o, <1>3 DEF lockVars, ghosts, Orderly, OneInside, AgedIsLeft, FreshLook, Inside
  <1> QED
    BY <1>0, <1>o, <1>1, <1>2, <1>3, ReleaseLockKeeps, AgeKeeps DEF LockNext

(***************************************************************************)
(* Theorems                                                                *)
(***************************************************************************)
\* The variables of runlock.sh keep their types, for any number of runs.
THEOREM LockTypeCorrect == LockSpec => []LockTypeOK
  <1>1. LockInit => LockTypeOK
    BY LockInitInv DEF LockInv
  <1> QED
    BY <1>1, LockTypeInductive, PTL DEF LockSpec

\* However many runs contend, two never hold the lock at once until one has
\* held it beyond RUNLOCK_MAX_HOLD_SEC or a steal was decided on a look at an
\* earlier lock, although the directory, its pid file and the steal are
\* separate commands and a run may die between any two of them.
THEOREM RunsExclude == LockSpec => []Exclusive
  <1>1. LockInv => Exclusive
    BY DEF LockInv, Orderly, OneInside, Exclusive, Holding, Inside
  <1>2. LockInv /\ [LockNext]_lockVars => LockInv'
    BY NextKeeps
  <1> QED
    BY <1>1, <1>2, LockInitInv, PTL DEF LockSpec

-------------------------------------------------------------------------------
(***************************************************************************)
(* The worker slots.                                                       *)
(***************************************************************************)
\* Slot s of session w counts: it is in the file, by w's record and server.
Counts(s, w) ==
    \E h \in holders : h.slot = s /\ h.sid = w /\ w \in active /\ server[w] = h.pid

\* The file never lists more holders than the largest cap.
FileBounded == IsFiniteSet(holders) /\ Cardinality(holders) <= Cap

\* A slot at work counts unless its holder lapsed, and so does one that is on
\* its way to its session.
WorkCounts ==
    /\ \A w \in Workers : \A s \in working[w] \ lapsed : Counts(s, w)
    /\ \A w \in Workers : call[w] = "granted" /\ arg[w] \notin lapsed => Counts(arg[w], w)

\* A slot has at most one place: in the hands of one session, or in one call.
OnePlace ==
    /\ \A v, w \in Workers : arg[v] \notin working[w]
    /\ \A v, w \in Workers : v # w => working[v] \intersect working[w] = {}
    /\ \A v, w \in Workers : v # w /\ arg[v] = arg[w] => arg[v] = NoSlot
    /\ \A w \in Workers : call[w] \in {"none", "acquire"} => arg[w] = NoSlot

\* Slots come from grants.
OnlyGranted ==
    /\ SlotsOf(holders) \subseteq granted
    /\ \A w \in Workers : working[w] \subseteq granted
    /\ \A w \in Workers : arg[w] \in granted \union {NoSlot}

\* A call that was granted is about a slot.
GrantNamesSlot == \A w \in Workers : call[w] = "granted" => arg[w] # NoSlot

TypeInv == TypeOK /\ GrantNamesSlot

IInv == TypeInv /\ FileBounded /\ WorkCounts /\ OnePlace /\ OnlyGranted

\* A step of session w that is one of the slot calls, or something that
\* happens to the session.
CallStep(w) ==
    \/ AcquireBegin(w) \/ Admit(w) \/ Full(w) \/ TimeOut(w) \/ Deliver(w) \/ Lose(w)
    \/ ReleaseBegin(w) \/ Release(w)

LifeStep(w) ==
    \/ LoseRecord(w) \/ Register(w) \/ ServerDies(w) \/ SessionDies(w) \/ ServerStarts(w)

(***************************************************************************)
(* Facts about sets of holders                                             *)
(***************************************************************************)
\* There are no more slots than holders.
LEMMA SlotsNoMore ==
  ASSUME NEW H, IsFiniteSet(H)
  PROVE  IsFiniteSet(SlotsOf(H)) /\ Cardinality(SlotsOf(H)) <= Cardinality(H)
  <1> DEFINE f == [h \in H |-> h.slot]
  <1>1. f \in [H -> SlotsOf(H)]
    BY DEF SlotsOf
  <1>2. \A s \in SlotsOf(H) : \E h \in H : f[h] = s
    BY DEF SlotsOf
  <1> HIDE DEF f
  <1>3. f \in Surjection(H, SlotsOf(H))
    BY <1>1, <1>2, Fun_IsSurj
  <1> QED
    BY <1>3, FS_Surjection

\* One more holder adds at most one to their number, and its slot.
LEMMA OneMore ==
  ASSUME NEW H, IsFiniteSet(H), NEW x
  PROVE  /\ IsFiniteSet(H \union {x})
         /\ Cardinality(H \union {x}) <= Cardinality(H) + 1
  <1>1. Cardinality(H) \in Nat
    BY FS_CardinalityType
  <1>2. /\ IsFiniteSet(H \union {x})
        /\ Cardinality(H \union {x}) = IF x \in H THEN Cardinality(H) ELSE Cardinality(H) + 1
    BY FS_AddElement
  <1> QED
    BY <1>1, <1>2

LEMMA OneMoreSlot ==
  ASSUME NEW H, NEW x
  PROVE  SlotsOf(H \union {x}) = SlotsOf(H) \union {x.slot}
  BY DEF SlotsOf

\* Eviction leaves a part of the file.
LEMMA FreshPart ==
  /\ Fresh \subseteq holders
  /\ SlotsOf(Fresh) \subseteq SlotsOf(holders)
  BY DEF Fresh, SlotsOf

(***************************************************************************)
(* Types                                                                   *)
(***************************************************************************)
LEMMA InitInv == Init => IInv
  BY SlotsAssumption, FS_EmptySet
  DEF Init, IInv, TypeInv, GrantNamesSlot, TypeOK, FileBounded, WorkCounts, OnePlace, OnlyGranted,
      Counts, SlotsOf, Pids

LEMMA TypeInductive == TypeInv /\ [Next]_vars => TypeInv'
  <1> SUFFICES ASSUME TypeInv, [Next]_vars
               PROVE  TypeInv'
    OBVIOUS
  <1> USE SlotsAssumption DEF TypeOK, TypeInv, GrantNamesSlot
  <1>1. ASSUME NEW w \in Workers, Admit(w)
        PROVE  TypeInv'
    <2>1. PICK s \in SlotIds \ granted :
             /\ holders' = Fresh \union {[slot |-> s, sid |-> w, pid |-> server[w]]}
             /\ granted' = granted \union {s}
             /\ call' = [call EXCEPT ![w] = "granted"]
             /\ arg' = [arg EXCEPT ![w] = s]
             /\ lapsed' = IF w \in active THEN lapsed ELSE lapsed \union {s}
      BY <1>1 DEF Admit
    <2>2. [slot |-> s, sid |-> w, pid |-> server[w]] \in [slot : SlotIds, sid : Workers, pid : Pids]
      BY <1>1 DEF Admit, Up
    <2>3. holders' \subseteq [slot : SlotIds, sid : Workers, pid : Pids]
      BY <2>1, <2>2, FreshPart
    <2> QED
      BY <1>1, <2>1, <2>3 DEF Admit
  <1>2. ASSUME NEW w \in Workers, AcquireBegin(w) \/ Full(w) \/ TimeOut(w)
        PROVE  TypeInv'
    BY <1>2, FreshPart DEF AcquireBegin, Full, TimeOut, file, process, caller
  <1>3. ASSUME NEW w \in Workers, Deliver(w) \/ Lose(w)
        PROVE  TypeInv'
    <2>1. arg[w] \in SlotIds
      BY <1>3 DEF Deliver, Lose
    <2> QED
      BY <1>3, <2>1 DEF Deliver, Lose, file, process
  <1>4. ASSUME NEW w \in Workers, ReleaseBegin(w) \/ Release(w)
        PROVE  TypeInv'
    BY <1>4 DEF ReleaseBegin, Release, file, process
  <1>5. ASSUME NEW w \in Workers, LifeStep(w)
        PROVE  TypeInv'
    <2>1. HeldBy(w) \subseteq SlotIds
      BY DEF HeldBy, SlotsOf
    <2> QED
      BY <1>5, <2>1 DEF LifeStep, LoseRecord, Register, ServerDies, SessionDies, ServerStarts,
           file, process, caller, Up, Pids
  <1>6. CASE UNCHANGED vars
    BY <1>6 DEF vars
  <1> QED
    BY <1>1, <1>2, <1>3, <1>4, <1>5, <1>6 DEF Next, LifeStep

\* The slots, sessions and calls keep their types, for any numbers of workers,
\* slots and restarts.
THEOREM TypeCorrect == Spec => []TypeOK
  <1>1. Init => TypeInv
    BY InitInv DEF IInv
  <1>2. TypeInv => TypeOK
    BY DEF TypeInv
  <1> QED
    BY <1>1, <1>2, TypeInductive, PTL DEF Spec

(***************************************************************************)
(* The inductive invariant                                                 *)
(***************************************************************************)
\* A slot is written to the file only below the cap of the caller.
LEMMA AdmitKeeps ==
  ASSUME IInv, TypeInv', NEW w \in Workers, Admit(w)
  PROVE  IInv'
  <1> USE DEF IInv, TypeInv, TypeOK, GrantNamesSlot
  <1>0. PICK s \in SlotIds \ granted :
           /\ holders' = Fresh \union {[slot |-> s, sid |-> w, pid |-> server[w]]}
           /\ granted' = granted \union {s}
           /\ call' = [call EXCEPT ![w] = "granted"]
           /\ arg' = [arg EXCEPT ![w] = s]
           /\ lapsed' = IF w \in active THEN lapsed ELSE lapsed \union {s}
    BY DEF Admit
  <1> DEFINE new == [slot |-> s, sid |-> w, pid |-> server[w]]
  <1>1. UNCHANGED <<active, server, working>> /\ Cardinality(Fresh) < CapOf[w]
    BY DEF Admit
  <1>2. FileBounded'
    <2>1. IsFiniteSet(Fresh) /\ Cardinality(Fresh) \in Nat
      BY FreshPart, FS_Subset, FS_CardinalityType DEF FileBounded
    <2>2. IsFiniteSet(holders') /\ Cardinality(holders') <= Cardinality(Fresh) + 1
      <3>1. /\ IsFiniteSet(Fresh \union {new})
            /\ Cardinality(Fresh \union {new}) <= Cardinality(Fresh) + 1
        <4> HIDE DEF new
        <4> QED
          BY <2>1, OneMore
      <3> QED
        BY <1>0, <3>1
    <2>3. Cardinality(holders') \in Nat
      BY <2>2, FS_CardinalityType
    <2> QED
      BY <1>1, <2>1, <2>2, <2>3, SlotsAssumption DEF FileBounded
  <1>3. \A t, v : Counts(t, v) => Counts(t, v)'
    <2>1. Fresh \subseteq holders'
      BY <1>0
    <2> QED
      BY <1>1, <2>1 DEF Counts, Fresh
  <1>4. w \in active => Counts(s, w)'
    <2>1. new \in holders' /\ new.slot = s /\ new.sid = w /\ new.pid = server[w]
      BY <1>0
    <2> HIDE DEF new
    <2> QED
      BY <2>1, <1>1 DEF Counts
  <1>5. WorkCounts'
    BY <1>0, <1>1, <1>3, <1>4 DEF WorkCounts
  <1>6. OnePlace'
    BY <1>0, <1>1, SlotsAssumption DEF OnePlace, OnlyGranted
  <1>7. OnlyGranted'
    <2>1. SlotsOf(holders') \subseteq SlotsOf(Fresh) \union {s}
      BY <1>0 DEF SlotsOf
    <2> QED
      BY <1>0, <1>1, <2>1, FreshPart DEF OnlyGranted
  <1> QED
    BY <1>2, <1>5, <1>6, <1>7

\* A file that only lost holders is no larger.
LEMMA Shrinks ==
  ASSUME FileBounded, Cap \in Nat, holders' \subseteq holders
  PROVE  FileBounded' /\ SlotsOf(holders') \subseteq SlotsOf(holders)
  <1>1. IsFiniteSet(holders') /\ Cardinality(holders') <= Cardinality(holders)
    BY FS_Subset DEF FileBounded
  <1>2. Cardinality(holders) \in Nat /\ Cardinality(holders') \in Nat
    BY <1>1, FS_CardinalityType DEF FileBounded
  <1> QED
    BY <1>1, <1>2 DEF FileBounded, SlotsOf

\* Evicting does not touch a holder that counts.
LEMMA EvictKeeps ==
  ASSUME IInv, TypeInv', NEW w \in Workers, Full(w) \/ TimeOut(w)
  PROVE  IInv'
  <1> USE DEF IInv, TypeInv, TypeOK, GrantNamesSlot
  <1>1. /\ holders' = Fresh
        /\ UNCHANGED <<active, server, working, lapsed, granted, arg>>
        /\ \A v \in Workers : call'[v] = call[v] \/ (v = w /\ call[v] = "acquire" /\ call'[v] = "none")
    BY DEF Full, TimeOut, process, caller
  <1>2. FileBounded' /\ SlotsOf(holders') \subseteq SlotsOf(holders)
    BY <1>1, FreshPart, Shrinks, SlotsAssumption
  <1>3. \A t, v : Counts(t, v) => Counts(t, v)'
    BY <1>1 DEF Counts, Fresh
  <1>4. WorkCounts'
    BY <1>1, <1>3 DEF WorkCounts
  <1>5. OnePlace' /\ OnlyGranted'
    BY <1>1, <1>2 DEF OnePlace, OnlyGranted
  <1> QED
    BY <1>2, <1>4, <1>5

\* The file stays while a session gets, loses or begins to release a slot.
LEMMA HandKeeps ==
  ASSUME IInv, TypeInv', NEW w \in Workers,
         AcquireBegin(w) \/ Deliver(w) \/ Lose(w) \/ ReleaseBegin(w)
  PROVE  IInv'
  <1> USE SlotsAssumption DEF IInv, TypeInv, TypeOK, GrantNamesSlot
  <1>1. UNCHANGED <<holders, granted, active, server, lapsed>>
    BY DEF AcquireBegin, Deliver, Lose, ReleaseBegin, file, process
  <1>2. FileBounded' /\ \A t, v : Counts(t, v) => Counts(t, v)'
    BY <1>1 DEF FileBounded, Counts
  <1>3. CASE AcquireBegin(w)
    BY <1>1, <1>2, <1>3 DEF AcquireBegin, WorkCounts, OnePlace, OnlyGranted
  <1>4. CASE Deliver(w)
    BY <1>1, <1>2, <1>4 DEF Deliver, WorkCounts, OnePlace, OnlyGranted
  <1>5. CASE Lose(w)
    BY <1>1, <1>2, <1>5 DEF Lose, WorkCounts, OnePlace, OnlyGranted
  <1>6. CASE ReleaseBegin(w)
    BY <1>1, <1>2, <1>6 DEF ReleaseBegin, WorkCounts, OnePlace, OnlyGranted
  <1> QED
    BY <1>3, <1>4, <1>5, <1>6

\* A release takes out one slot, which nobody else has.
LEMMA ReleaseKeeps ==
  ASSUME IInv, TypeInv', NEW w \in Workers, Release(w)
  PROVE  IInv'
  <1> USE SlotsAssumption DEF IInv, TypeInv, TypeOK, GrantNamesSlot
  <1>1. /\ holders' = {h \in holders : h.slot # arg[w]}
        /\ UNCHANGED <<granted, active, server, lapsed, working>>
        /\ call' = [call EXCEPT ![w] = "none"]
        /\ arg' = [arg EXCEPT ![w] = NoSlot]
    BY DEF Release, process
  <1>2. FileBounded' /\ SlotsOf(holders') \subseteq SlotsOf(holders)
    BY <1>1, Shrinks
  <1>3. \A t, v : Counts(t, v) /\ t # arg[w] => Counts(t, v)'
    BY <1>1 DEF Counts
  <1>4. \A v \in Workers : v # w /\ call[v] = "granted" => arg[v] # arg[w]
    BY DEF OnePlace
  <1>5. WorkCounts'
    BY <1>1, <1>3, <1>4 DEF WorkCounts, OnePlace
  <1>6. OnePlace' /\ OnlyGranted'
    BY <1>1, <1>2 DEF OnePlace, OnlyGranted
  <1> QED
    BY <1>2, <1>5, <1>6

\* What stops to count, or counts again, has lapsed.
LEMMA LifeKeeps ==
  ASSUME IInv, TypeInv', NEW w \in Workers, LifeStep(w)
  PROVE  IInv'
  <1> USE SlotsAssumption DEF IInv, TypeInv, TypeOK, GrantNamesSlot
  <1>1. /\ UNCHANGED <<holders, granted>>
        /\ \A v \in Workers : v # w => /\ UNCHANGED <<call[v], arg[v], working[v], server[v]>>
                                       /\ v \in active' <=> v \in active
        /\ call'[w] \in {call[w], "none"} /\ arg'[w] \in {arg[w], NoSlot}
        /\ working'[w] \in {working[w], {}}
        /\ call'[w] = call[w] => arg'[w] = arg[w] \/ call[w] = "none"
        /\ call'[w] # call[w] => arg'[w] = NoSlot
        /\ lapsed \subseteq lapsed'
    BY DEF LifeStep, LoseRecord, Register, ServerDies, SessionDies, ServerStarts, file, process, caller
  <1>2. FileBounded'
    BY <1>1 DEF FileBounded
  <1>3. \A t, v : v \in Workers /\ Counts(t, v) => Counts(t, v)' \/ t \in lapsed'
    <2> SUFFICES ASSUME NEW t, NEW v \in Workers, Counts(t, v)
                 PROVE  Counts(t, v)' \/ t \in lapsed'
      OBVIOUS
    <2>1. CASE v # w
      BY <1>1, <2>1 DEF Counts
    <2>2. CASE v = w /\ (LoseRecord(w) \/ ServerDies(w) \/ SessionDies(w))
      BY <2>2 DEF Counts, LoseRecord, ServerDies, SessionDies, HeldBy, SlotsOf
    <2>3. CASE v = w /\ (Register(w) \/ ServerStarts(w))
      BY <2>3 DEF Counts, Register, ServerStarts, Up, Pids
    <2> QED
      BY <2>1, <2>2, <2>3 DEF LifeStep
  <1>4. WorkCounts'
    BY <1>1, <1>3 DEF WorkCounts
  <1>5. OnePlace'
    BY <1>1 DEF OnePlace
  <1>6. OnlyGranted'
    BY <1>1 DEF OnlyGranted
  <1> QED
    BY <1>2, <1>4, <1>5, <1>6

\* Every step keeps the invariant.
LEMMA Inductive == IInv /\ [Next]_vars => IInv'
  <1> SUFFICES ASSUME IInv, [Next]_vars
               PROVE  IInv'
    OBVIOUS
  <1>1. TypeInv'
    BY TypeInductive DEF IInv
  <1>2. ASSUME NEW w \in Workers, CallStep(w)
        PROVE  IInv'
    BY <1>1, <1>2, AdmitKeeps, EvictKeeps, HandKeeps, ReleaseKeeps DEF CallStep
  <1>3. ASSUME NEW w \in Workers, LifeStep(w)
        PROVE  IInv'
    BY <1>1, <1>3, LifeKeeps
  <1>4. CASE UNCHANGED vars
    BY <1>1, <1>4
    DEF vars, IInv, FileBounded, WorkCounts, OnePlace, OnlyGranted, Counts
  <1> QED
    BY <1>2, <1>3, <1>4 DEF Next, CallStep, LifeStep

LEMMA InvCorrect == Spec => []IInv
  BY InitInv, Inductive, PTL DEF Spec

(***************************************************************************)
(* Results                                                                 *)
(***************************************************************************)
\* However acquires, releases, evictions, deaths and restarts interleave, the
\* slots at work whose holder did not lapse never exceed the largest cap.
THEOREM CapIsKept == Spec => []CapKept
  <1>1. IInv => CapKept
    <2> SUFFICES ASSUME IInv
                 PROVE  CapKept
      OBVIOUS
    <2>1. Working \ lapsed \subseteq SlotsOf(holders)
      BY DEF IInv, WorkCounts, Counts, Working, SlotsOf
    <2>2. /\ IsFiniteSet(SlotsOf(holders))
          /\ Cardinality(SlotsOf(holders)) <= Cardinality(holders)
      BY SlotsNoMore DEF IInv, FileBounded
    <2>3. /\ IsFiniteSet(Working \ lapsed)
          /\ Cardinality(Working \ lapsed) <= Cardinality(SlotsOf(holders))
      BY <2>1, <2>2, FS_Subset
    <2>4. /\ Cardinality(Working \ lapsed) \in Nat
          /\ Cardinality(SlotsOf(holders)) \in Nat
          /\ Cardinality(holders) \in Nat
      BY <2>2, <2>3, FS_CardinalityType DEF IInv, FileBounded
    <2> QED
      BY <2>2, <2>3, <2>4, SlotsAssumption DEF IInv, FileBounded, CapKept
  <1> QED
    BY <1>1, InvCorrect, PTL

\* A step of the file is a step of the semaphore.
LEMMA SemaphoreStep == IInv /\ IInv' /\ [Next]_vars => [Semaphores!Next]_(Semaphores!vars)
  <1> SUFFICES ASSUME IInv, IInv', [Next]_vars
               PROVE  Semaphores!Next \/ UNCHANGED <<SlotsOf(holders), granted>>
    BY DEF Semaphores!vars
  <1>1. ASSUME NEW w \in Workers, Admit(w)
        PROVE  Semaphores!Grant
    <2>1. PICK s \in SlotIds \ granted :
             /\ holders' = Fresh \union {[slot |-> s, sid |-> w, pid |-> server[w]]}
             /\ granted' = granted \union {s}
      BY <1>1 DEF Admit
    <2> DEFINE gone == SlotsOf(holders) \ SlotsOf(Fresh)
    <2>2. SlotsOf(holders') = SlotsOf(Fresh) \union {s}
      <3> DEFINE new == [slot |-> s, sid |-> w, pid |-> server[w]]
      <3>1. new.slot = s /\ holders' = Fresh \union {new}
        BY <2>1
      <3> HIDE DEF new
      <3> QED
        BY <3>1, OneMoreSlot
    <2>3. SlotsOf(holders)' = (SlotsOf(holders) \ gone) \union {s}
      BY <2>2, FreshPart DEF SlotsOf
    <2>4. gone \in SUBSET SlotsOf(holders)
      OBVIOUS
    <2>5. Cardinality(SlotsOf(holders)') <= Cap
      <3>1. IsFiniteSet(holders') /\ Cardinality(holders') <= Cap
        BY DEF IInv, FileBounded
      <3>2. /\ IsFiniteSet(SlotsOf(holders'))
            /\ Cardinality(SlotsOf(holders')) <= Cardinality(holders')
        BY <3>1, SlotsNoMore
      <3>3. Cardinality(holders') \in Nat /\ Cardinality(SlotsOf(holders')) \in Nat
        BY <3>1, <3>2, FS_CardinalityType
      <3>4. SlotsOf(holders)' = SlotsOf(holders')
        BY DEF SlotsOf
      <3> QED
        BY <3>1, <3>2, <3>3, <3>4, SlotsAssumption
    <2> HIDE DEF gone
    <2>6. /\ SlotsOf(holders)' = (SlotsOf(holders) \ gone) \union {s}
          /\ granted' = granted \union {s}
          /\ Cardinality(SlotsOf(holders)') <= Cap
      BY <2>1, <2>3, <2>5
    <2>7. \E t \in SlotIds \ granted, l \in SUBSET SlotsOf(holders) :
             /\ SlotsOf(holders)' = (SlotsOf(holders) \ l) \union {t}
             /\ granted' = granted \union {t}
             /\ Cardinality(SlotsOf(holders)') <= Cap
      BY <2>4, <2>6
    <2> QED
      BY <2>7 DEF Semaphores!Grant, Cardinality, Semaphores!Cardinality
  <1>2. ASSUME NEW w \in Workers, Full(w) \/ TimeOut(w) \/ Release(w)
        PROVE  Semaphores!Return
    <2>1. holders' \subseteq holders /\ UNCHANGED granted
      BY <1>2, FreshPart DEF Full, TimeOut, Release
    <2> QED
      BY <2>1 DEF Semaphores!Return, SlotsOf
  <1>3. ASSUME NEW w \in Workers,
               AcquireBegin(w) \/ Deliver(w) \/ Lose(w) \/ ReleaseBegin(w) \/ LifeStep(w)
        PROVE  UNCHANGED <<SlotsOf(holders), granted>>
    <2>1. UNCHANGED <<holders, granted>>
      BY <1>3 DEF AcquireBegin, Deliver, Lose, ReleaseBegin, LifeStep, LoseRecord, Register,
           ServerDies, SessionDies, ServerStarts, file
    <2> QED
      BY <2>1 DEF SlotsOf
  <1>4. CASE UNCHANGED vars
    BY <1>4 DEF vars, SlotsOf
  <1> QED
    BY <1>1, <1>2, <1>3, <1>4 DEF Next, LifeStep, Semaphores!Next

\* The slot file implements the semaphore: a slot is granted once, and never
\* do more than Cap slots count.
THEOREM SlotsImplementSemaphore == Spec => ImplementsSemaphore
  <1>1. Init => Semaphores!Init
    BY DEF Init, Semaphores!Init, SlotsOf
  <1> QED
    BY <1>1, SemaphoreStep, InvCorrect, PTL DEF Spec, ImplementsSemaphore, Semaphores!Spec

\* An MCP server has the pid of its latest start, and a holder that of one.
PidsAreStarts ==
    /\ \A w \in Workers : server[w] <= starts[w]
    /\ \A h \in holders : h.pid <= starts[h.sid]

\* A holder whose MCP server still runs is at work, in a call, or was lost on
\* the way; its record may go and come back meanwhile.
HoldersHaveUsers ==
    \A h \in holders : server[h.sid] = h.pid =>
        h.slot \in working[h.sid] \union {arg[h.sid]} \union lost

UserInv == PidsAreStarts /\ HoldersHaveUsers

\* Every step keeps the users of the holders.
LEMMA UsersKept == IInv /\ UserInv /\ [Next]_vars => UserInv'
  <1> SUFFICES ASSUME IInv, UserInv, [Next]_vars
               PROVE  UserInv'
    OBVIOUS
  <1> USE SlotsAssumption DEF IInv, TypeInv, TypeOK, UserInv
  <1>1. ASSUME NEW w \in Workers, Admit(w)
        PROVE  UserInv'
    <2>1. PICK s \in SlotIds \ granted :
             /\ holders' = Fresh \union {[slot |-> s, sid |-> w, pid |-> server[w]]}
             /\ arg' = [arg EXCEPT ![w] = s]
      BY <1>1 DEF Admit
    <2> DEFINE new == [slot |-> s, sid |-> w, pid |-> server[w]]
    <2>2. new.slot = s /\ new.sid = w /\ new.pid = server[w] /\ holders' = Fresh \union {new}
      BY <2>1
    <2> HIDE DEF new
    <2>3. UNCHANGED <<server, starts, working, lost>> /\ call[w] = "acquire"
      BY <1>1 DEF Admit
    <2>4. PidsAreStarts'
      BY <2>2, <2>3, FreshPart DEF PidsAreStarts
    <2>5. ASSUME NEW h \in Fresh, server[h.sid] = h.pid
          PROVE  h.slot \in working[h.sid] \union {arg'[h.sid]} \union lost
      <3>1. h \in holders /\ h.sid \in Workers /\ h.slot \in SlotIds
        BY FreshPart
      <3>2. arg[w] = NoSlot
        BY <2>3 DEF OnePlace
      <3> QED
        BY <2>1, <2>5, <3>1, <3>2 DEF HoldersHaveUsers
    <2>6. s \in {arg'[w]}
      BY <2>1
    <2> QED
      BY <2>2, <2>3, <2>4, <2>5, <2>6 DEF HoldersHaveUsers
  <1>2. ASSUME NEW w \in Workers, Full(w) \/ TimeOut(w) \/ AcquireBegin(w)
        PROVE  UserInv'
    <2>1. holders' \subseteq holders /\ UNCHANGED <<server, starts, arg, working, lost>>
      BY <1>2, FreshPart DEF Full, TimeOut, AcquireBegin, file, process, caller
    <2> QED
      BY <2>1 DEF PidsAreStarts, HoldersHaveUsers
  <1>3. ASSUME NEW w \in Workers, Deliver(w) \/ Lose(w) \/ ReleaseBegin(w)
        PROVE  UserInv'
    <2>1. UNCHANGED <<holders, server, starts>>
      BY <1>3 DEF Deliver, Lose, ReleaseBegin, file, process
    <2>2. ASSUME NEW h \in holders, server[h.sid] = h.pid
          PROVE  h.slot \in working'[h.sid] \union {arg'[h.sid]} \union lost'
      <3>1. h.sid \in Workers /\ h.slot \in SlotIds
        OBVIOUS
      <3>2. h.slot \in working[h.sid] \union {arg[h.sid]} \union lost
        BY <2>2 DEF HoldersHaveUsers
      <3>3. CASE Deliver(w) \/ Lose(w)
        BY <3>1, <3>2, <3>3 DEF Deliver, Lose
      <3>4. CASE ReleaseBegin(w)
        BY <3>1, <3>2, <3>4 DEF ReleaseBegin, OnePlace
      <3> QED
        BY <1>3, <3>3, <3>4
    <2> QED
      BY <2>1, <2>2 DEF PidsAreStarts, HoldersHaveUsers
  <1>4. ASSUME NEW w \in Workers, Release(w)
        PROVE  UserInv'
    <2>1. /\ holders' = {h \in holders : h.slot # arg[w]}
          /\ UNCHANGED <<server, starts, working, lost>> /\ arg' = [arg EXCEPT ![w] = NoSlot]
      BY <1>4 DEF Release, process
    <2> QED
      BY <2>1 DEF PidsAreStarts, HoldersHaveUsers
  <1>5. ASSUME NEW w \in Workers, LoseRecord(w) \/ Register(w)
        PROVE  UserInv'
    BY <1>5 DEF LoseRecord, Register, file, caller, PidsAreStarts, HoldersHaveUsers
  <1>6. ASSUME NEW w \in Workers, ServerDies(w) \/ SessionDies(w)
        PROVE  UserInv'
    <2>1. /\ UNCHANGED <<holders, starts, lost>> /\ server' = [server EXCEPT ![w] = 0]
          /\ \A v \in Workers : v # w => UNCHANGED <<arg[v], working[v]>>
      BY <1>6 DEF ServerDies, SessionDies, file
    <2> QED
      BY <2>1 DEF PidsAreStarts, HoldersHaveUsers, Pids
  <1>7. ASSUME NEW w \in Workers, ServerStarts(w)
        PROVE  UserInv'
    <2>1. /\ UNCHANGED <<holders, arg, working, lost>>
          /\ starts' = [starts EXCEPT ![w] = @ + 1]
          /\ server' = [server EXCEPT ![w] = starts[w] + 1]
      BY <1>7 DEF ServerStarts, file, caller
    <2>2. \A v \in Workers : starts[v] \in Nat /\ server[v] \in Nat
      BY DEF Pids
    <2> QED
      BY <2>1, <2>2 DEF PidsAreStarts, HoldersHaveUsers, Pids
  <1>8. CASE UNCHANGED vars
    BY <1>8 DEF vars, PidsAreStarts, HoldersHaveUsers
  <1> QED
    BY <1>1, <1>2, <1>3, <1>4, <1>5, <1>6, <1>7, <1>8 DEF Next

\* What an attempt that finds the category full leaves in the file are slots
\* of live sessions: the dead, earlier servers and releases block nobody.
THEOREM OnlyUsersBlock == Spec => BlockedByUsers
  <1>1. Init => UserInv
    BY SlotsAssumption DEF Init, UserInv, PidsAreStarts, HoldersHaveUsers
  <1>2. ASSUME IInv, UserInv, NEW w \in Workers, Full(w) \/ TimeOut(w)
        PROVE  SlotsOf(holders') \subseteq Accounted
    <2>1. holders' = Fresh
      BY <1>2 DEF Full, TimeOut
    <2>2. ASSUME NEW h \in Fresh
          PROVE  h.slot \in Accounted
      <3>1. h \in holders /\ server[h.sid] = h.pid /\ h.sid \in Workers
        BY <1>2 DEF Fresh, IInv, TypeInv, TypeOK
      <3> QED
        BY <1>2, <3>1 DEF UserInv, HoldersHaveUsers, Accounted, Working
    <2> QED
      BY <2>1, <2>2 DEF SlotsOf
  <1>3. IInv /\ UserInv /\ [Next]_vars
          => [\A w \in Workers : Full(w) \/ TimeOut(w) => SlotsOf(holders') \subseteq Accounted]_vars
    BY <1>2
  <1> QED
    BY <1>1, <1>3, InvCorrect, UsersKept, PTL DEF Spec, BlockedByUsers

(***************************************************************************)
(* The action executor.  The ledger keeps an action from being done twice  *)
(* because a call decides under the lock, and while it holds the lock      *)
(* nobody else adds to the ledger: what it read stays true of every item   *)
(* it has not come to.  The inductive invariant says that, and follows     *)
(* every attempt that may still take effect, the running one and those     *)
(* whose call died, until a failure of its key is on record.               *)
(***************************************************************************)
\* Only the holder of the lock is past it.
Locked == \A c \in Calls : running[c].pc # "idle" => lock = c

\* The ledger is written ahead of every actuator, and behind every effect.
OnRecord ==
    /\ effect \subseteq ledger.dispatched
    /\ orphan \subseteq ledger.dispatched
    /\ ledger.executed \subseteq effect

\* What took effect twice, or may yet, has a failure on record.
Repeats ==
    /\ twice \subseteq ledger.failed
    /\ orphan \intersect effect \subseteq ledger.failed

\* A call's items are of its verb.
OwnItems(c) ==
    running[c].pc = "read" =>
        \A i \in 1..Len(running[c].items) : running[c].items[i].key \in OfVerb(running[c].verb)

\* The actuator of the first item is under way, or its outcome is due.
Attempting(c) == running[c].pc \in {"start", "wait", "outcome"}
Planned(c) == running[c].pc \in {"run", "item", "start", "wait", "outcome"}

\* The items a call will execute: each once, none executed, and none with an
\* attempt of unknown outcome.
Execute(c, i) == i \in 1..Len(running[c].todo) /\ running[c].todo[i].kind = "EXECUTE"

PlanHolds(c) ==
    Planned(c) =>
        /\ \A i \in 1..Len(running[c].todo) : Execute(c, i) =>
             /\ running[c].todo[i].key \notin ledger.executed
             /\ \/ running[c].todo[i].key \notin ledger.dispatched
                \/ running[c].todo[i].key \in ledger.failed
                \/ i = 1 /\ Attempting(c)
        /\ \A i, j \in 1..Len(running[c].todo) : 
             Execute(c, i) /\ Execute(c, j) /\ i # j => running[c].todo[i].key # running[c].todo[j].key

\* The attempt at the first item: its intent is on record, and a key that has
\* taken effect or may do so by an orphan has failed before.
AttemptHolds(c) ==
    Attempting(c) =>
        /\ Execute(c, 1)
        /\ Cur(c) \in ledger.dispatched
        /\ running[c].pc = "start" \/ (running[c].pc = "wait" /\ ~running[c].acted) =>
             (Cur(c) \in effect \union orphan => Cur(c) \in ledger.failed)
        /\ (running[c].pc = "wait" /\ running[c].acted) \/ (running[c].pc = "outcome" /\ running[c].ok) =>
             Cur(c) \in effect

Holds(c) == OwnItems(c) /\ PlanHolds(c) /\ AttemptHolds(c)

Inv ==
    /\ ExecutorTypeOK /\ Locked /\ OnRecord /\ Repeats
    /\ \A c \in Calls : Holds(c)

-----------------------------------------------------------------------------
(* Types *)

LEMMA FunctionIsSequence ==
    ASSUME NEW S, NEW n \in Nat, NEW f \in [1..n -> S]
    PROVE  f \in Seq(S) /\ Len(f) = n
OBVIOUS

\* A proposal is a sequence of items of the verb.
LEMMA ProposalsAreSequences ==
    ASSUME NEW v \in Verbs, NEW items \in Proposals(v)
    PROVE  /\ items \in Seq([key : Keys, gate : Gates])
           /\ \A i \in 1..Len(items) : items[i].key \in OfVerb(v)
<1>1. PICK n \in 0..MaxItems : items \in [1..n -> Items(v)]  BY DEF Proposals
<1>2. n \in Nat  OBVIOUS
<1>3. \A x \in Items(v) : x \in [key : Keys, gate : Gates] /\ x.key \in OfVerb(v)
  BY DEF Items, OfVerb, Keys
<1>4. \A i \in 1..n : items[i] \in Items(v)  BY <1>1
<1>5. items \in [1..n -> [key : Keys, gate : Gates]]  BY <1>1, <1>3, <1>4
<1>6. items \in Seq([key : Keys, gate : Gates]) /\ Len(items) = n
  BY <1>2, <1>5, FunctionIsSequence
<1> QED  BY <1>3, <1>4, <1>6

\* A plan is a sequence of decided items.
LEMMA PlansAreSequences ==
    ASSUME NEW items \in Seq([key : Keys, gate : Gates])
    PROVE  /\ Plan(items) \in Seq(Decided)
           /\ Len(Plan(items)) = Len(items)
           /\ \A i \in 1..Len(items) :
                Plan(items)[i] = [key |-> items[i].key, kind |-> Disposition(items, i)]
<1>1. \A i \in 1..Len(items) : Disposition(items, i) \in Kinds
  BY DEF Disposition, Kinds
<1>2. \A i \in 1..Len(items) : items[i].key \in Keys
  <2>1. \A i \in 1..Len(items) : items[i] \in [key : Keys, gate : Gates]  BY ElementOfSeq
  <2> QED  BY <2>1
<1>3. Plan(items) \in [1..Len(items) -> Decided]
  BY <1>1, <1>2 DEF Plan, Decided
<1>4. Len(items) \in Nat  BY LenProperties
<1>5. Plan(items) \in Seq(Decided) /\ Len(Plan(items)) = Len(items)
  BY <1>3, <1>4, FunctionIsSequence
<1> QED  BY <1>5 DEF Plan

-----------------------------------------------------------------------------
(* Type correctness *)

Pcs == {"idle", "read", "run", "item", "start", "wait", "outcome"}
ItemsOf == [key : Keys, gate : Gates]
CallType == [pc : Pcs, verb : Verbs \union {None}, items : Seq(ItemsOf),
             todo : Seq(Decided), acted : BOOLEAN, ok : BOOLEAN]

LEMMA IdleIsTyped == Idle \in CallType
BY DEF Idle, CallType, Pcs

\* The parts of the type invariant in the terms of this module.
Parts ==
    /\ ledger \in [dispatched : SUBSET Keys, executed : SUBSET Keys,
                   failed : SUBSET Keys, torn : BOOLEAN]
    /\ lock \in Calls \union {None}
    /\ running \in [Calls -> CallType]
    /\ orphan \in SUBSET Keys /\ effect \in SUBSET Keys /\ twice \in SUBSET Keys
    /\ budget \in [runs : Nat, faults : Nat]

LEMMA TypeParts == (ExecutorTypeOK <=> Parts) /\ (ExecutorTypeOK' <=> Parts')
BY DEF ExecutorTypeOK, Parts, CallType, Pcs, ItemsOf

\* The item an attempt is about is one the call decided on.
LEMMA CurIsKey ==
    ASSUME ExecutorTypeOK, NEW c \in Calls, running[c].todo # <<>>
    PROVE  /\ Cur(c) \in Keys /\ Head(running[c].todo) = running[c].todo[1]
           /\ Tail(running[c].todo) \in Seq(Decided)
           /\ Len(Tail(running[c].todo)) = Len(running[c].todo) - 1
           /\ 1 \in 1..Len(running[c].todo)
           /\ \A i \in 1..Len(Tail(running[c].todo)) :
                i + 1 \in 1..Len(running[c].todo) /\ Tail(running[c].todo)[i] = running[c].todo[i + 1]
<1>1. running[c].todo \in Seq(Decided)  BY TypeParts DEF Parts, CallType
<1>2. Head(running[c].todo) \in Decided  BY <1>1, HeadTailProperties
<1>3. Len(running[c].todo) \in Nat \ {0}  BY <1>1, EmptySeq
<1>4. /\ Tail(running[c].todo) \in Seq(Decided)
      /\ Len(Tail(running[c].todo)) = Len(running[c].todo) - 1
      /\ \A i \in 1..Len(Tail(running[c].todo)) : Tail(running[c].todo)[i] = running[c].todo[i + 1]
  BY <1>1, HeadTailProperties
<1>5. Head(running[c].todo) = running[c].todo[1]  BY <1>1
<1> QED  BY <1>2, <1>3, <1>4, <1>5 DEF Cur, Decided

\* A step of one call that replaces its record by a typed one.
LEMMA CallIsTyped ==
    ASSUME running \in [Calls -> CallType], NEW c \in Calls, NEW r \in CallType,
           running' = [running EXCEPT ![c] = r]
    PROVE  running' \in [Calls -> CallType]
OBVIOUS
\* An attempt is about the first item there is.
LEMMA AttemptHasItem ==
    ASSUME ExecutorTypeOK, NEW c \in Calls, AttemptHolds(c), Attempting(c)
    PROVE  running[c].todo # <<>>
<1>1. running[c].todo \in Seq(Decided)  BY TypeParts DEF Parts, CallType
<1>2. 1 \in 1..Len(running[c].todo)  BY DEF AttemptHolds, Execute
<1> QED  BY <1>1, <1>2

LEMMA TypeStep == Inv /\ [ExecutorNext]_executorVars => ExecutorTypeOK'
<1> SUFFICES ASSUME Inv, [ExecutorNext]_executorVars PROVE Parts'  BY TypeParts
<1>p. ExecutorTypeOK /\ Parts  BY TypeParts DEF Inv
<1>0. running \in [Calls -> CallType]  BY <1>p DEF Parts
<1>1. ASSUME NEW c \in Calls, NEW v \in Verbs, NEW items \in Proposals(v),
             AcquireLock(c, v, items)
      PROVE  Parts'
  <2>1. items \in Seq(ItemsOf)  BY ProposalsAreSequences DEF ItemsOf
  <2>2. [Idle EXCEPT !.pc = "read", !.verb = v, !.items = items] \in CallType
    BY <2>1, IdleIsTyped DEF CallType, Pcs
  <2>3. running' \in [Calls -> CallType]  BY <1>0, <1>1, <2>2 DEF AcquireLock
  <2> QED  BY <1>p, <1>1, <2>3 DEF AcquireLock, Parts
<1>2. ASSUME NEW c \in Calls, ReadLedger(c) PROVE Parts'
  <2>1. Plan(running[c].items) \in Seq(Decided)
    BY <1>0, PlansAreSequences DEF CallType, ItemsOf
  <2>2. [running[c] EXCEPT !.pc = "run", !.todo = Plan(running[c].items)] \in CallType
    BY <1>0, <2>1 DEF CallType, Pcs
  <2>3. CASE Anomaly(running[c].verb) \/ NoId(running[c].items)
    <3>1. running' \in [Calls -> CallType] /\ lock' = None
      BY <1>0, <1>2, <2>3, IdleIsTyped DEF ReadLedger
    <3> QED  BY <1>p, <1>2, <3>1 DEF ReadLedger, Parts
  <2>4. CASE ~(Anomaly(running[c].verb) \/ NoId(running[c].items))
    <3>1. running' \in [Calls -> CallType] /\ lock' = lock
      BY <1>0, <1>2, <2>2, <2>4 DEF ReadLedger
    <3> QED  BY <1>p, <1>2, <3>1 DEF ReadLedger, Parts
  <2> QED  BY <2>3, <2>4
<1>3. ASSUME NEW c \in Calls, AppendRun(c) PROVE Parts'
  <2>1. [running[c] EXCEPT !.pc = "item"] \in CallType  BY <1>0 DEF CallType, Pcs
  <2>2. running' \in [Calls -> CallType]  BY <1>0, <1>3, <2>1 DEF AppendRun
  <2> QED  BY <1>p, <1>3, <2>2 DEF AppendRun, Parts
<1>4. ASSUME NEW c \in Calls, Skip(c) PROVE Parts'
  <2>1. Tail(running[c].todo) \in Seq(Decided)  BY <1>p, <1>4, CurIsKey DEF Skip
  <2>2. [running[c] EXCEPT !.todo = Tail(running[c].todo)] \in CallType  BY <1>0, <2>1 DEF CallType
  <2>3. running' \in [Calls -> CallType]  BY <1>0, <1>4, <2>2 DEF Skip
  <2> QED  BY <1>p, <1>4, <2>3 DEF Skip, Parts
<1>5. ASSUME NEW c \in Calls, AppendDispatch(c) PROVE Parts'
  <2>1. [running[c] EXCEPT !.pc = "start"] \in CallType  BY <1>0 DEF CallType, Pcs
  <2>2. running' \in [Calls -> CallType]  BY <1>0, <1>5, <2>1 DEF AppendDispatch
  <2>3. Cur(c) \in Keys  BY <1>p, <1>5, CurIsKey DEF AppendDispatch
  <2> QED  BY <1>p, <1>5, <2>2, <2>3 DEF AppendDispatch, Parts
<1>6. ASSUME NEW c \in Calls, Start(c) PROVE Parts'
  <2>1. [running[c] EXCEPT !.pc = "wait", !.acted = FALSE] \in CallType  BY <1>0 DEF CallType, Pcs
  <2>2. running' \in [Calls -> CallType]  BY <1>0, <1>6, <2>1 DEF Start
  <2> QED  BY <1>p, <1>6, <2>2 DEF Start, Parts
<1>7. ASSUME NEW c \in Calls, SpawnError(c) PROVE Parts'
  <2>1. [running[c] EXCEPT !.pc = "outcome", !.ok = FALSE] \in CallType  BY <1>0 DEF CallType, Pcs
  <2>2. running' \in [Calls -> CallType]  BY <1>0, <1>7, <2>1 DEF SpawnError
  <2> QED  BY <1>p, <1>7, <2>2 DEF SpawnError, Parts
<1>8. ASSUME NEW c \in Calls, Act(c) PROVE Parts'
  <2>1. [running[c] EXCEPT !.acted = TRUE] \in CallType  BY <1>0 DEF CallType
  <2>2. running' \in [Calls -> CallType]  BY <1>0, <1>8, <2>1 DEF Act
  <2>3. Cur(c) \in Keys  BY <1>p, <1>8, CurIsKey, AttemptHasItem DEF Act, Inv, Holds, Attempting
  <2> QED  BY <1>p, <1>8, <2>2, <2>3 DEF Act, TakesEffect, Parts
<1>9. ASSUME NEW c \in Calls, NEW ok \in BOOLEAN, Exit(c, ok) PROVE Parts'
  <2>1. [running[c] EXCEPT !.pc = "outcome", !.ok = ok] \in CallType  BY <1>0 DEF CallType, Pcs
  <2>2. running' \in [Calls -> CallType]  BY <1>0, <1>9, <2>1 DEF Exit
  <2> QED  BY <1>p, <1>9, <2>2 DEF Exit, Parts
<1>10. ASSUME NEW c \in Calls, AppendOutcome(c) PROVE Parts'
  <2>1. Cur(c) \in Keys /\ Tail(running[c].todo) \in Seq(Decided)
    BY <1>p, <1>10, CurIsKey, AttemptHasItem DEF AppendOutcome, Inv, Holds, Attempting
  <2>2. [running[c] EXCEPT !.pc = "item", !.todo = Tail(running[c].todo)] \in CallType
    BY <1>0, <2>1 DEF CallType, Pcs
  <2>3. running' \in [Calls -> CallType]  BY <1>0, <1>10, <2>2 DEF AppendOutcome
  <2> QED  BY <1>p, <1>10, <2>1, <2>3 DEF AppendOutcome, Parts
<1>11. ASSUME NEW c \in Calls, Return(c) PROVE Parts'
  <2>1. running' \in [Calls -> CallType]  BY <1>0, <1>11, IdleIsTyped DEF Return
  <2> QED  BY <1>p, <1>11, <2>1 DEF Return, Parts
<1>12. ASSUME NEW c \in Calls, CallDies(c) PROVE Parts'
  <2>1. running' \in [Calls -> CallType]  BY <1>0, <1>12, IdleIsTyped DEF CallDies
  <2>2. running[c].pc = "wait" => Cur(c) \in Keys
    BY <1>p, CurIsKey, AttemptHasItem DEF Inv, Holds, Attempting
  <2>3. orphan' \in SUBSET Keys  BY <1>p, <1>12, <2>2 DEF CallDies, Parts
  <2> QED  BY <1>p, <1>12, <2>1, <2>3 DEF CallDies, Parts
<1>13. ASSUME NEW k \in Keys, OrphanActs(k) \/ OrphanEnds(k) PROVE Parts'
  BY <1>p, <1>13 DEF OrphanActs, OrphanEnds, TakesEffect, Parts
<1>14. ASSUME NEW k \in Keys, Settle(k) PROVE Parts'
  BY <1>p, <1>14 DEF Settle, Parts
<1>15. CASE Mend  BY <1>p, <1>15 DEF Mend, Parts
<1>16. CASE UNCHANGED executorVars  BY <1>p, <1>16 DEF executorVars, Parts
<1> QED
  BY <1>1, <1>2, <1>3, <1>4, <1>5, <1>6, <1>7, <1>8, <1>9, <1>10, <1>11, <1>12, <1>13,
     <1>14, <1>15, <1>16 DEF ExecutorNext, Step
-----------------------------------------------------------------------------
(* The step of one call *)

\* While one call has the lock, or none has and one takes it, the others are
\* idle and nothing is owed to them.
LEMMA OthersAreIdle ==
    ASSUME Inv, NEW c \in Calls, running[c].pc # "idle" \/ lock = None,
           \A d \in Calls \ {c} : running'[d] = running[d], Holds(c)',
           lock' = c \/ running'[c].pc = "idle"
    PROVE  Locked' /\ \A d \in Calls : Holds(d)'
<1>1. \A d \in Calls \ {c} : running[d].pc = "idle"
  BY CallsAssumption DEF Inv, Locked
<1>2. \A d \in Calls \ {c} : running'[d].pc = "idle"  BY <1>1
<1>3. \A d \in Calls \ {c} : Holds(d)'
  BY <1>2 DEF Holds, OwnItems, PlanHolds, AttemptHolds, Planned, Attempting
<1> QED  BY <1>2, <1>3 DEF Locked

\* An idle call owes nothing.
LEMMA IdleHolds == ASSUME NEW c \in Calls, running'[c].pc = "idle" PROVE Holds(c)'
BY DEF Holds, OwnItems, PlanHolds, AttemptHolds, Planned, Attempting

\* What a call reads under the lock makes its plan hold.
LEMMA PlanIsFresh ==
    ASSUME Inv, NEW c \in Calls, running[c].pc = "read",
           ~Anomaly(running[c].verb), ~NoId(running[c].items),
           NEW i \in 1..Len(running[c].items), Disposition(running[c].items, i) = "EXECUTE"
    PROVE  /\ running[c].items[i].gate = "ok"
           /\ ~InBatch(running[c].items, i)
           /\ running[c].items[i].key \notin ledger.executed
           /\ \/ running[c].items[i].key \notin ledger.dispatched
              \/ running[c].items[i].key \in ledger.failed
<1>1. running[c].items[i] \in ItemsOf
  <2>1. running[c].items \in Seq(ItemsOf)  BY TypeParts DEF Inv, Parts, CallType
  <2> QED  BY <2>1, ElementOfSeq
<1>2. /\ running[c].items[i].gate \in {"noid", "ok"}
      /\ running[c].items[i].key \notin ledger.executed
      /\ ~InBatch(running[c].items, i)
  BY <1>1 DEF Disposition, ItemsOf, Gates
<1>3. running[c].items[i].key \in OfVerb(running[c].verb)  BY DEF Inv, Holds, OwnItems
<1>4. running[c].items[i].key \notin Unresolved  BY <1>3 DEF Anomaly
<1> QED  BY <1>2, <1>4 DEF NoId, Unresolved

LEMMA ReadLedgerHolds ==
    ASSUME Inv, NEW c \in Calls, ReadLedger(c)
    PROVE  Holds(c)'
<1> DEFINE its == running[c].items
<1>0. running \in [Calls -> CallType]  BY TypeParts DEF Inv, Parts
<1>1. CASE Anomaly(running[c].verb) \/ NoId(its)
  <2>1. running'[c].pc = "idle"  BY <1>0, <1>1 DEF ReadLedger, Idle
  <2> QED  BY <2>1, IdleHolds
<1>2. CASE ~(Anomaly(running[c].verb) \/ NoId(its))
  <2>1. running'[c].pc = "run" /\ running'[c].todo = Plan(its) /\ ledger' = ledger
    BY <1>0, <1>2 DEF ReadLedger, CallType
  <2>2. /\ Len(Plan(its)) = Len(its) /\ Len(its) \in Nat
        /\ \A i \in 1..Len(its) :
             Plan(its)[i] = [key |-> its[i].key, kind |-> Disposition(its, i)]
    BY <1>0, PlansAreSequences, LenProperties DEF CallType, ItemsOf
  <2>a. ASSUME NEW i \in 1..Len(its)
        PROVE  /\ Plan(its)[i].key = its[i].key
               /\ Plan(its)[i].kind = Disposition(its, i)
    <3>1. Plan(its)[i] = [key |-> its[i].key, kind |-> Disposition(its, i)]  BY <2>2
    <3> QED  BY <3>1
  <2>b. \A i \in 1..Len(its) : running'[c].todo[i].key = its[i].key  BY <2>1, <2>a
  <2>c. \A i \in 1..Len(its) : Execute(c, i)' => Disposition(its, i) = "EXECUTE"
    BY <2>1, <2>a DEF Execute
  <2>3. \A i \in 1..Len(its) : Execute(c, i)' =>
          /\ its[i].gate = "ok" /\ ~InBatch(its, i)
          /\ its[i].key \notin ledger.executed
          /\ its[i].key \notin ledger.dispatched \/ its[i].key \in ledger.failed
    <3>1. running[c].pc = "read" /\ ~Anomaly(running[c].verb) /\ ~NoId(its)
      BY <1>2 DEF ReadLedger
    <3>2. SUFFICES ASSUME NEW i \in 1..Len(its), Execute(c, i)'
                   PROVE  /\ its[i].gate = "ok" /\ ~InBatch(its, i)
                          /\ its[i].key \notin ledger.executed
                          /\ \/ its[i].key \notin ledger.dispatched
                             \/ its[i].key \in ledger.failed
      OBVIOUS
    <3>3. Disposition(its, i) = "EXECUTE"  BY <3>2, <2>c
    <3> QED  BY <3>1, <3>3, PlanIsFresh
  <2>4. \A i, j \in 1..Len(its) :
          Execute(c, i)' /\ Execute(c, j)' /\ i < j => its[i].key # its[j].key
    BY <2>3, <2>2 DEF InBatch
  <2>5. \A i, j \in 1..Len(its) :
          Execute(c, i)' /\ Execute(c, j)' /\ i # j => its[i].key # its[j].key
    BY <2>4, <2>2
  <2>6. PlanHolds(c)'
    <3>1. Len(running'[c].todo) = Len(its)  BY <2>1, <2>2
    <3> QED  BY <2>1, <2>b, <2>3, <2>5, <3>1 DEF PlanHolds
  <2> QED  BY <2>1, <2>6 DEF Holds, OwnItems, AttemptHolds, Attempting
<1> QED  BY <1>1, <1>2
\* An item of the rest of a plan is the next item of the plan.
LEMMA ExecuteInTail ==
    ASSUME ExecutorTypeOK, NEW c \in Calls, running[c].todo # <<>>, running'[c].todo = Tail(running[c].todo),
           NEW i \in 1..Len(running'[c].todo), Execute(c, i)'
    PROVE  /\ i + 1 \in 1..Len(running[c].todo) /\ i + 1 # 1
           /\ Execute(c, i + 1) /\ running'[c].todo[i] = running[c].todo[i + 1]
<1>1. i \in 1..Len(Tail(running[c].todo)) /\ i \in Nat  OBVIOUS
<1>2. i + 1 \in 1..Len(running[c].todo) /\ Tail(running[c].todo)[i] = running[c].todo[i + 1]
  BY <1>1, CurIsKey
<1> QED  BY <1>1, <1>2 DEF Execute

\* Dropping the first item, once its attempt is over.
LEMMA TailHolds ==
    ASSUME Inv, NEW c \in Calls, Planned(c), running[c].todo # <<>>,
           running'[c].todo = Tail(running[c].todo), running'[c].pc = "item",
           ledger'.dispatched = ledger.dispatched, ledger.failed \subseteq ledger'.failed,
           \/ ledger'.executed = ledger.executed
           \/ Execute(c, 1) /\ ledger'.executed = ledger.executed \union {Cur(c)}
    PROVE  Holds(c)'
<1>1. ExecutorTypeOK /\ PlanHolds(c)  BY DEF Inv, Holds
<1>2. Cur(c) = running[c].todo[1].key /\ 1 \in 1..Len(running[c].todo)  BY <1>1, CurIsKey DEF Cur
<1>3. ASSUME NEW i \in 1..Len(running'[c].todo), Execute(c, i)'
      PROVE  /\ running'[c].todo[i].key \notin ledger'.executed
             /\ \/ running'[c].todo[i].key \notin ledger'.dispatched
                \/ running'[c].todo[i].key \in ledger'.failed
  <2>1. /\ i + 1 \in 1..Len(running[c].todo) /\ i + 1 # 1
        /\ Execute(c, i + 1) /\ running'[c].todo[i] = running[c].todo[i + 1]
    BY <1>1, <1>3, ExecuteInTail
  <2>2. /\ running[c].todo[i + 1].key \notin ledger.executed
        /\ \/ running[c].todo[i + 1].key \notin ledger.dispatched
           \/ running[c].todo[i + 1].key \in ledger.failed
    BY <1>1, <2>1 DEF PlanHolds
  <2>3. Execute(c, 1) => running[c].todo[i + 1].key # Cur(c)
    BY <1>1, <1>2, <2>1 DEF PlanHolds
  <2> QED  BY <2>1, <2>2, <2>3
<1>4. ASSUME NEW i \in 1..Len(running'[c].todo), NEW j \in 1..Len(running'[c].todo),
             Execute(c, i)', Execute(c, j)', i # j
      PROVE  running'[c].todo[i].key # running'[c].todo[j].key
  <2>1. /\ i + 1 \in 1..Len(running[c].todo)
        /\ Execute(c, i + 1) /\ running'[c].todo[i] = running[c].todo[i + 1]
    BY <1>1, <1>4, ExecuteInTail
  <2>2. /\ j + 1 \in 1..Len(running[c].todo)
        /\ Execute(c, j + 1) /\ running'[c].todo[j] = running[c].todo[j + 1]
    BY <1>1, <1>4, ExecuteInTail
  <2>3. i + 1 # j + 1  BY <1>4
  <2> QED  BY <1>1, <2>1, <2>2, <2>3 DEF PlanHolds
<1>5. PlanHolds(c)'  BY <1>3, <1>4 DEF PlanHolds
<1> QED  BY <1>5 DEF Holds, OwnItems, AttemptHolds, Attempting

\* A step of an attempt that leaves the plan alone.
LEMMA PlanKeeps ==
    ASSUME Inv, NEW c \in Calls, Planned(c), running'[c].todo = running[c].todo, Planned(c)',
           Attempting(c) => Attempting(c)',
           \/ ledger' = ledger
           \/ /\ Execute(c, 1) /\ Attempting(c)'
              /\ ledger'.executed = ledger.executed /\ ledger'.failed = ledger.failed
              /\ ledger'.dispatched = ledger.dispatched \union {Cur(c)}
    PROVE  PlanHolds(c)' /\ OwnItems(c)'
<1>1. PlanHolds(c)  BY DEF Inv, Holds
<1>2. CASE ledger' = ledger
  BY <1>1, <1>2 DEF PlanHolds, Execute, Planned, OwnItems
<1>3. CASE /\ Execute(c, 1) /\ Attempting(c)'
           /\ ledger'.executed = ledger.executed /\ ledger'.failed = ledger.failed
           /\ ledger'.dispatched = ledger.dispatched \union {Cur(c)}
  <2>1. ExecutorTypeOK /\ running[c].todo # <<>>
    <3>1. ExecutorTypeOK  BY DEF Inv
    <3>2. running[c].todo \in Seq(Decided)  BY <3>1, TypeParts DEF Parts, CallType
    <3> QED  BY <1>3, <3>1, <3>2 DEF Execute
  <2>2. Cur(c) = running[c].todo[1].key /\ 1 \in 1..Len(running[c].todo)  BY <2>1, CurIsKey DEF Cur
  <2>3. \A i \in 1..Len(running[c].todo) :
          Execute(c, i) /\ i # 1 => running[c].todo[i].key # Cur(c)
    BY <1>1, <1>3, <2>2 DEF PlanHolds
  <2> QED  BY <1>1, <1>3, <2>3 DEF PlanHolds, Execute, Planned, OwnItems
<1> QED  BY <1>2, <1>3
Safe == OnRecord /\ Repeats

\* A step of the call past the lock keeps the ledger ahead of what happens.
LEMMA StepHolds ==
    ASSUME Inv, NEW c \in Calls, Step(c) \/ CallDies(c)
    PROVE  /\ Holds(c)' /\ Safe' /\ running[c].pc # "idle"
           /\ \A d \in Calls \ {c} : running'[d] = running[d]
           /\ lock' = lock \/ running'[c].pc = "idle"
<1>0. /\ ExecutorTypeOK /\ Parts /\ OnRecord /\ Repeats
      /\ OwnItems(c) /\ PlanHolds(c) /\ AttemptHolds(c)
  BY TypeParts DEF Inv, Holds
<1>t. running \in [Calls -> CallType]  BY <1>0 DEF Parts
<1>1. CASE ReadLedger(c)
  <2>1. Holds(c)'  BY <1>1, ReadLedgerHolds
  <2> QED  BY <1>0, <1>t, <1>1, <2>1 DEF ReadLedger, Safe, OnRecord, Repeats, Idle
<1>2. CASE AppendRun(c)
  <2>1. running'[c] = [running[c] EXCEPT !.pc = "item"]  BY <1>t, <1>2 DEF AppendRun
  <2>2. PlanHolds(c)' /\ OwnItems(c)'
    BY <1>t, <1>2, <2>1, PlanKeeps DEF AppendRun, Planned, Attempting, CallType
  <2>3. AttemptHolds(c)'  BY <1>t, <2>1 DEF AttemptHolds, Attempting, CallType
  <2> QED  BY <1>0, <1>2, <2>2, <2>3 DEF AppendRun, Safe, OnRecord, Repeats, Holds
<1>3. CASE Skip(c)
  <2>1. running'[c] = [running[c] EXCEPT !.todo = Tail(running[c].todo)]  BY <1>t, <1>3 DEF Skip
  <2>2. Holds(c)'  BY <1>t, <1>3, <2>1, TailHolds DEF Skip, Planned, CallType
  <2> QED  BY <1>0, <1>3, <2>2 DEF Skip, Safe, OnRecord, Repeats
<1>4. CASE AppendDispatch(c)
  <2>1. running'[c] = [running[c] EXCEPT !.pc = "start"]  BY <1>t, <1>4 DEF AppendDispatch
  <2>2. Cur(c) = running[c].todo[1].key /\ Cur(c)' = Cur(c) /\ Execute(c, 1) /\ Cur(c) \in Keys
    BY <1>0, <1>t, <1>4, <2>1, CurIsKey DEF AppendDispatch, Execute, Cur, CallType
  <2>3. Execute(c, 1)'  BY <1>t, <2>1, <2>2 DEF Execute, CallType
  <2>4. /\ ledger'.executed = ledger.executed /\ ledger'.failed = ledger.failed
        /\ ledger'.dispatched = ledger.dispatched \union {Cur(c)}
    BY <1>0, <1>4 DEF AppendDispatch, Parts
  <2>5. PlanHolds(c)' /\ OwnItems(c)'
    BY <1>t, <1>4, <2>1, <2>2, <2>4, PlanKeeps DEF AppendDispatch, Planned, Attempting, CallType
  <2>6. Cur(c) \notin ledger.dispatched \/ Cur(c) \in ledger.failed
    BY <1>0, <1>4, <2>2 DEF PlanHolds, Planned, Attempting, AppendDispatch, Execute
  <2>7. AttemptHolds(c)'
    BY <1>0, <1>t, <1>4, <2>1, <2>2, <2>3, <2>4, <2>6
    DEF AttemptHolds, Attempting, AppendDispatch, OnRecord, CallType
  <2> QED  BY <1>0, <1>4, <2>4, <2>5, <2>7 DEF AppendDispatch, Safe, OnRecord, Repeats, Holds
<1>5. CASE Start(c)
  <2>1. running'[c] = [running[c] EXCEPT !.pc = "wait", !.acted = FALSE]  BY <1>t, <1>5 DEF Start
  <2>2. PlanHolds(c)' /\ OwnItems(c)'
    BY <1>t, <1>5, <2>1, PlanKeeps DEF Start, Planned, Attempting, CallType
  <2>3. AttemptHolds(c)'
    BY <1>0, <1>t, <1>5, <2>1 DEF AttemptHolds, Attempting, Start, Cur, Execute, CallType
  <2>4. \A d \in Calls \ {c} : running'[d] = running[d]  BY <1>t, <1>5 DEF Start
  <2> QED  BY <1>0, <1>5, <2>2, <2>3, <2>4 DEF Start, Safe, OnRecord, Repeats, Holds
<1>6. CASE SpawnError(c)
  <2>1. running'[c] = [running[c] EXCEPT !.pc = "outcome", !.ok = FALSE]  BY <1>t, <1>6 DEF SpawnError
  <2>2. PlanHolds(c)' /\ OwnItems(c)'
    BY <1>t, <1>6, <2>1, PlanKeeps DEF SpawnError, Planned, Attempting, CallType
  <2>3. AttemptHolds(c)'
    BY <1>0, <1>t, <1>6, <2>1 DEF AttemptHolds, Attempting, SpawnError, Cur, Execute, CallType
  <2>4. \A d \in Calls \ {c} : running'[d] = running[d]  BY <1>t, <1>6 DEF SpawnError
  <2> QED  BY <1>0, <1>6, <2>2, <2>3, <2>4 DEF SpawnError, Safe, OnRecord, Repeats, Holds
<1>7. CASE Act(c)
  <2>1. running'[c] = [running[c] EXCEPT !.acted = TRUE]  BY <1>t, <1>7 DEF Act
  <2>2. PlanHolds(c)' /\ OwnItems(c)'
    BY <1>t, <1>7, <2>1, PlanKeeps DEF Act, Planned, Attempting, CallType
  <2>3. AttemptHolds(c)'
    BY <1>0, <1>t, <1>7, <2>1
    DEF AttemptHolds, Attempting, Act, TakesEffect, Cur, Execute, CallType
  <2>4. /\ Cur(c) \in ledger.dispatched
        /\ Cur(c) \in effect \union orphan => Cur(c) \in ledger.failed
    BY <1>0, <1>7 DEF AttemptHolds, Attempting, Act
  <2>5. Safe'
    BY <1>0, <1>7, <2>4 DEF Act, TakesEffect, Safe, OnRecord, Repeats
  <2> QED  BY <1>7, <2>2, <2>3, <2>5 DEF Act, Holds
<1>8. CASE \E ok \in BOOLEAN : Exit(c, ok)
  <2>0. PICK ok \in BOOLEAN : Exit(c, ok)  BY <1>8
  <2>1. running'[c] = [running[c] EXCEPT !.pc = "outcome", !.ok = ok]  BY <1>t, <2>0 DEF Exit
  <2>2. PlanHolds(c)' /\ OwnItems(c)'
    BY <1>t, <2>0, <2>1, PlanKeeps DEF Exit, Planned, Attempting, CallType
  <2>3. AttemptHolds(c)'
    BY <1>0, <1>t, <2>0, <2>1 DEF AttemptHolds, Attempting, Exit, Cur, Execute, CallType
  <2>4. \A d \in Calls \ {c} : running'[d] = running[d]  BY <1>t, <2>0 DEF Exit
  <2> QED  BY <1>0, <2>0, <2>2, <2>3, <2>4 DEF Exit, Safe, OnRecord, Repeats, Holds
<1>9. CASE AppendOutcome(c)
  <2>1. running'[c] = [running[c] EXCEPT !.pc = "item", !.todo = Tail(running[c].todo)]
    BY <1>t, <1>9 DEF AppendOutcome
  <2>2. Attempting(c) /\ Planned(c) /\ Execute(c, 1) /\ running[c].todo # <<>>
    BY <1>0, <1>9, AttemptHasItem DEF AppendOutcome, Attempting, Planned, AttemptHolds
  <2>3. /\ ledger'.dispatched = ledger.dispatched /\ ledger.failed \subseteq ledger'.failed
        /\ \/ ledger'.executed = ledger.executed
           \/ running[c].ok /\ ledger'.executed = ledger.executed \union {Cur(c)}
    BY <1>0, <1>9 DEF AppendOutcome, Parts
  <2>4. Holds(c)'  BY <1>t, <2>1, <2>2, <2>3, TailHolds DEF CallType
  <2>5. running[c].ok => Cur(c) \in effect
    BY <1>0, <1>9, <2>2 DEF AttemptHolds, AppendOutcome
  <2>6. Safe'
    BY <1>0, <1>9, <2>3, <2>5 DEF AppendOutcome, Safe, OnRecord, Repeats
  <2>7. \A d \in Calls \ {c} : running'[d] = running[d]  BY <1>t, <1>9 DEF AppendOutcome
  <2> QED  BY <1>9, <2>4, <2>6, <2>7 DEF AppendOutcome
<1>10. CASE Return(c)
  <2>1. running'[c].pc = "idle"  BY <1>t, <1>10 DEF Return, Idle
  <2>2. Holds(c)'  BY <2>1, IdleHolds
  <2> QED  BY <1>0, <1>10, <2>1, <2>2 DEF Return, Safe, OnRecord, Repeats
<1>11. CASE CallDies(c)
  <2>1. running'[c].pc = "idle"  BY <1>t, <1>11 DEF CallDies, Idle
  <2>2. Holds(c)'  BY <2>1, IdleHolds
  <2>3. /\ ledger'.dispatched = ledger.dispatched /\ ledger'.failed = ledger.failed
        /\ ledger'.executed = ledger.executed
    BY <1>0, <1>11 DEF CallDies, Parts
  <2>4. orphan' # orphan =>
          /\ orphan' = orphan \union {Cur(c)} /\ Cur(c) \in ledger.dispatched
          /\ Cur(c) \in effect => Cur(c) \in ledger.failed
    BY <1>0, <1>11 DEF CallDies, AttemptHolds, Attempting
  <2>5. Safe'  BY <1>0, <1>11, <2>3, <2>4 DEF CallDies, Safe, OnRecord, Repeats
  <2> QED  BY <1>11, <2>1, <2>2, <2>5 DEF CallDies
<1> QED
  BY <1>1, <1>2, <1>3, <1>4, <1>5, <1>6, <1>7, <1>8, <1>9, <1>10, <1>11 DEF Step
\* Taking the lock.
LEMMA AcquireHolds ==
    ASSUME Inv, NEW c \in Calls, NEW v \in Verbs, NEW items \in Proposals(v),
           AcquireLock(c, v, items)
    PROVE  Holds(c)' /\ Safe' /\ \A d \in Calls \ {c} : running'[d] = running[d]
<1>0. running \in [Calls -> CallType] /\ OnRecord /\ Repeats  BY TypeParts DEF Inv, Parts
<1>1. /\ running'[c].pc = "read" /\ running'[c].verb = v /\ running'[c].items = items
      /\ \A d \in Calls \ {c} : running'[d] = running[d]
  BY <1>0 DEF AcquireLock, Idle
<1>2. Holds(c)'
  BY <1>1, ProposalsAreSequences
  DEF Holds, OwnItems, PlanHolds, AttemptHolds, Planned, Attempting, OfVerb
<1> QED  BY <1>0, <1>1, <1>2 DEF AcquireLock, Safe, OnRecord, Repeats

\* The steps around the calls.  Only the operator's change what a call reads,
\* and the operator works while no call runs.
LEMMA OrphanHolds ==
    ASSUME Inv, NEW k \in Keys, OrphanActs(k) \/ OrphanEnds(k)
    PROVE  Safe' /\ \A c \in Calls : Holds(c)'
<1>1. OnRecord /\ Repeats  BY DEF Inv
<1>2. Safe'  BY <1>1 DEF OrphanActs, OrphanEnds, TakesEffect, Safe, OnRecord, Repeats
<1>3. ASSUME NEW c \in Calls PROVE Holds(c)'
  <2>1. OwnItems(c) /\ PlanHolds(c) /\ AttemptHolds(c)  BY DEF Inv, Holds
  <2>2. ledger' = ledger /\ running' = running /\ k \in orphan /\ effect \subseteq effect'
        /\ effect' \union orphan' \subseteq effect \union orphan
    BY DEF OrphanActs, OrphanEnds, TakesEffect
  <2>3. OwnItems(c)' /\ PlanHolds(c)'
    BY <2>1, <2>2 DEF OwnItems, PlanHolds, Planned, Attempting, Execute
  <2>4. AttemptHolds(c)'
    BY <2>1, <2>2 DEF AttemptHolds, Attempting, Execute, Cur
  <2> QED  BY <2>3, <2>4 DEF Holds
<1> QED  BY <1>2, <1>3

LEMMA OperatorHolds ==
    ASSUME Inv, Mend \/ \E k \in Keys : Settle(k)
    PROVE  Safe' /\ \A c \in Calls : Holds(c)'
<1>1. OnRecord /\ Repeats /\ Parts  BY TypeParts DEF Inv
<1>2. \A c \in Calls : running'[c].pc = "idle"
  BY CallsAssumption DEF Inv, Locked, Mend, Settle
<1>3. Safe'
  BY <1>1 DEF Parts, Mend, Settle, Unresolved, Safe, OnRecord, Repeats
<1> QED  BY <1>2, <1>3, IdleHolds

\* Init gives the invariant, and every step keeps it.
LEMMA ExecutorStarts == ExecutorInit => Inv
<1> SUFFICES ASSUME ExecutorInit PROVE Inv  OBVIOUS
<1>1. Parts  BY IdleIsTyped DEF ExecutorInit, Parts
<1>2. \A c \in Calls : running[c].pc = "idle"  BY DEF ExecutorInit, Idle
<1>3. \A c \in Calls : Holds(c)
  BY <1>2 DEF Holds, OwnItems, PlanHolds, AttemptHolds, Planned, Attempting
<1> QED  BY <1>1, <1>2, <1>3, TypeParts DEF Inv, Locked, OnRecord, Repeats, ExecutorInit

LEMMA NextInv == Inv /\ [ExecutorNext]_executorVars => Inv'
<1> SUFFICES ASSUME Inv, [ExecutorNext]_executorVars PROVE Inv'  OBVIOUS
<1>1. ExecutorTypeOK'  BY TypeStep
<1>2. ASSUME NEW c \in Calls, NEW v \in Verbs, NEW items \in Proposals(v),
             AcquireLock(c, v, items)
      PROVE  Safe' /\ Locked' /\ \A d \in Calls : Holds(d)'
  <2>1. lock = None /\ lock' = c  BY <1>2 DEF AcquireLock
  <2> QED  BY <1>2, <2>1, AcquireHolds, OthersAreIdle
<1>3. ASSUME NEW c \in Calls, Step(c) \/ CallDies(c)
      PROVE  Safe' /\ Locked' /\ \A d \in Calls : Holds(d)'
  <2>1. running[c].pc # "idle" /\ (lock' = lock \/ running'[c].pc = "idle")  BY <1>3, StepHolds
  <2>2. lock = c  BY <2>1 DEF Inv, Locked
  <2> QED  BY <1>3, <2>1, <2>2, StepHolds, OthersAreIdle
<1>4. ASSUME NEW k \in Keys, OrphanActs(k) \/ OrphanEnds(k)
      PROVE  Safe' /\ Locked' /\ \A d \in Calls : Holds(d)'
  <2>1. running' = running /\ lock' = lock  BY <1>4 DEF OrphanActs, OrphanEnds
  <2> QED  BY <1>4, <2>1, OrphanHolds DEF Inv, Locked
<1>5. ASSUME Mend \/ \E k \in Keys : Settle(k)
      PROVE  Safe' /\ Locked' /\ \A d \in Calls : Holds(d)'
  <2>1. running' = running /\ lock' = lock  BY <1>5 DEF Mend, Settle
  <2> QED  BY <1>5, <2>1, OperatorHolds DEF Inv, Locked
<1>6. ASSUME UNCHANGED executorVars
      PROVE  Safe' /\ Locked' /\ \A d \in Calls : Holds(d)'
  <2>1. Safe' /\ Locked'  BY <1>6 DEF executorVars, Inv, Locked, Safe, OnRecord, Repeats
  <2>2. ASSUME NEW d \in Calls PROVE Holds(d)'
    <3>1. Holds(d) /\ running' = running /\ ledger' = ledger /\ effect' = effect /\ orphan' = orphan
      BY <1>6 DEF executorVars, Inv
    <3>2. OwnItems(d)' /\ PlanHolds(d)'
      BY <3>1 DEF Holds, OwnItems, PlanHolds, Planned, Attempting, Execute, OfVerb
    <3>3. AttemptHolds(d)'  BY <3>1 DEF Holds, AttemptHolds, Attempting, Execute, Cur
    <3> QED  BY <3>2, <3>3 DEF Holds
  <2> QED  BY <2>1, <2>2
<1> QED  BY <1>1, <1>2, <1>3, <1>4, <1>5, <1>6 DEF ExecutorNext, Inv, Safe

LEMMA InvAlways == ExecutorSpec => []Inv
BY ExecutorStarts, NextInv, PTL DEF ExecutorSpec

-----------------------------------------------------------------------------
(* The theorems *)

\* The states of the executor are well typed (the records of main and the
\* ledger's sets of keys).
THEOREM LedgerIsTyped == ExecutorSpec => []ExecutorTypeOK
<1>1. Inv => ExecutorTypeOK  BY DEF Inv
<1> QED  BY <1>1, InvAlways, PTL

\* However many calls, verbs, items, deaths and abandoned actuators there are,
\* an action takes effect a second time only after a failed attempt at it is
\* on record.
THEOREM RepeatsFollowFailures == ExecutorSpec => []TwiceOnlyAfterFailure
<1>1. Inv => TwiceOnlyAfterFailure  BY DEF Inv, Repeats, TwiceOnlyAfterFailure
<1> QED  BY <1>1, InvAlways, PTL

\* No actuator is started for a key with an executed record, although the
\* call that starts it read the ledger long before.
THEOREM ExecutedStaysDone == ExecutorSpec => ExecutedIsFinal
<1>1. Inv /\ [ExecutorNext]_executorVars => [\A c \in Calls : Starts(c) => Cur(c) \notin ledger.executed]_executorVars
  <2> SUFFICES ASSUME Inv, NEW c \in Calls, running[c].pc = "start"
               PROVE  Cur(c) \notin ledger.executed
    BY DEF Starts
  <2>1. ExecutorTypeOK /\ Execute(c, 1) /\ PlanHolds(c)
    BY DEF Inv, Holds, AttemptHolds, Attempting
  <2>2. running[c].todo # <<>>  BY AttemptHasItem DEF Inv, Holds, Attempting
  <2> QED  BY <2>1, <2>2, CurIsKey DEF PlanHolds, Planned, Cur
<1> QED  BY <1>1, InvAlways, PTL DEF ExecutorSpec, ExecutedIsFinal

\* The intent is on record before anything takes effect, and an executed
\* record is written only for what did.
THEOREM LedgerAccounts == ExecutorSpec => []EffectsAreOnRecord
<1>1. Inv => EffectsAreOnRecord  BY DEF Inv, OnRecord, EffectsAreOnRecord
<1> QED  BY <1>1, InvAlways, PTL
===============================================================================
