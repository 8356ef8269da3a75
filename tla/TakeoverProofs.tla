---------------------------- MODULE TakeoverProofs ----------------------------
(***************************************************************************)
(* Proofs about Takeover, for any sets of contenders and workers and any   *)
(* number of deaths.                                                       *)
(*                                                                         *)
(* The inductive invariant says of every call in progress what it can rely *)
(* on although nothing is locked: its session lives, its record has the    *)
(* name it has registered, the workers it is about to stamp are not the    *)
(* routed ones, and whoever held the name when it began has died if it got *)
(* past its scan.                                                          *)
(***************************************************************************)
EXTENDS Takeover, FiniteSetTheorems, FunctionTheorems, TLAPS

\* The workers a call is about to touch: it stamps none that is routed to the
\* inherited name, and it sets none free unless it got another name.
RouteInv ==
    /\ InFlightStayRouted
    /\ \A c \in Contenders : call[c].pc = "stamp" => call[c].todo \intersect routed = {}
    /\ \A c \in Contenders : call[c].pc \in {"unregister", "revert"} => call[c].name # Inherited

\* The record of a session as its call knows it.
RecordOk(c) ==
    /\ call[c].pc \in {"off", "start"} => name[c] = NoName
    /\ call[c].pc \in {"backfill", "stamp", "unregister"} => name[c] = call[c].name
    /\ call[c].pc = "consume" => name[c] = Inherited
    /\ call[c].pc \notin {"idle", "done"} => phase[c] = "up"

RecordInv == \A c \in Contenders : RecordOk(c)

\* A holder that was there when a takeover began, and has not written its
\* record since, has the name still unless it died.
HeldInv ==
    \A c \in Contenders : \A s \in held[c] :
        s # c /\ (phase[s] # "up" \/ name[s] = Inherited)

IInv == TypeOK /\ RouteInv /\ RecordInv /\ HeldInv /\ DuplicateStandsDown

(***************************************************************************)
(* Names                                                                   *)
(***************************************************************************)
LEMMA NamesFacts ==
  /\ IsFiniteSet(Sessions)
  /\ Cardinality(Sessions) \in Nat \ {0}
  /\ Inherited \in Names
  /\ Names \subseteq Nat
  /\ NoName \notin Names
  /\ IsFiniteSet(Names) /\ Cardinality(Names) = Cardinality(Sessions)
  <1>1. IsFiniteSet(Sessions)
    <2>1. IsFiniteSet(Contenders)
      BY TakeoverAssumption, FS_Union DEF Contenders
    <2> QED
      BY <2>1, FS_AddElement DEF Sessions
  <1>2. Cardinality(Sessions) \in Nat \ {0}
    <2>1. Cardinality(Sessions) \in Nat
      BY <1>1, FS_CardinalityType
    <2>2. Cardinality(Sessions) # 0
      BY <1>1, FS_EmptySet DEF Sessions
    <2> QED
      BY <2>1, <2>2
  <1>3. IsFiniteSet(Names) /\ Cardinality(Names) = Cardinality(Sessions)
    BY <1>2, FS_Interval DEF Names
  <1> QED
    BY <1>1, <1>2, <1>3 DEF Names, Inherited, NoName

\* A set of names that is not empty has a least element: the one whose
\* interval from 0 is minimal under inclusion.
LEMMA MinIsMember ==
  ASSUME NEW S \in SUBSET Nat, S # {}
  PROVE  Min(S) \in S
  <1> DEFINE Below == {0..x : x \in S}
  <1>1. Below \subseteq FiniteSubsetsOf(Nat) /\ Below # {}
    <2>1. ASSUME NEW x \in S
          PROVE  IsFiniteSet(0..x) /\ 0..x \in SUBSET Nat
      <3>1. x \in Int /\ 0 \in Int
        OBVIOUS
      <3> QED
        BY <3>1, FS_Interval
    <2> QED
      BY <2>1 DEF FiniteSubsetsOf
  <1>2. \E X \in Below : \A Y \in Below : ~(<<Y, X>> \in StrictSubsetOrdering(Nat))
    <2> HIDE DEF Below
    <2> QED
      BY <1>1, FS_StrictSubsetOrderingWellFounded, WFMin
  <1>3. PICK x \in S : \A y \in S : ~(<<0..y, 0..x>> \in StrictSubsetOrdering(Nat))
    BY <1>2
  <1>4. ASSUME NEW y \in S
        PROVE  x <= y
    <2> SUFFICES ASSUME y < x PROVE FALSE
      BY <1>4
    <2>1. 0..y \subseteq 0..x /\ x \in 0..x /\ x \notin 0..y
      BY <1>4
    <2>2. 0..y \in SUBSET Nat /\ 0..x \in SUBSET Nat
      BY <1>4
    <2>3. <<0..y, 0..x>> \in StrictSubsetOrdering(Nat)
      BY <2>1, <2>2 DEF StrictSubsetOrdering
    <2> QED
      BY <1>3, <1>4, <2>3
  <1> QED
    BY <1>4 DEF Min

\* The sessions besides c are fewer than the names: one is free.
LEMMA UniqueNameIsName ==
  ASSUME NEW c \in Sessions
  PROVE  UniqueName(c) \in Names
  <1> DEFINE Others == Sessions \ {c}
             Used == {Pruned[s] : s \in Others}
             f == [s \in Others |-> Pruned[s]]
  <1>1. IsFiniteSet(Others) /\ Cardinality(Others) = Cardinality(Sessions) - 1
    BY NamesFacts, FS_RemoveElement
  <1>2. IsFiniteSet(Used) /\ Cardinality(Used) <= Cardinality(Others)
    <2>1. f \in [Others -> Used]
      OBVIOUS
    <2>2. \A n \in Used : \E s \in Others : f[s] = n
      OBVIOUS
    <2> HIDE DEF f, Used, Others
    <2>3. f \in Surjection(Others, Used)
      BY <2>1, <2>2, Fun_IsSurj
    <2> QED
      BY <1>1, <2>3, FS_Surjection
  <1>3. Cardinality(Used) \in Nat /\ Cardinality(Others) \in Nat
    BY <1>1, <1>2, FS_CardinalityType
  <1>4. ~(Names \subseteq Used)
    <2> HIDE DEF Used, Others
    <2> SUFFICES ASSUME Names \subseteq Used PROVE FALSE
      OBVIOUS
    <2>1. Cardinality(Names) <= Cardinality(Used)
      BY <1>2, FS_Subset
    <2> QED
      BY <1>1, <1>2, <1>3, <2>1, NamesFacts
  <1> DEFINE Free == {n \in Names : \A s \in Others : Pruned[s] # n}
  <1>5. Free # {}
    BY <1>4
  <1>6. Free \in SUBSET Nat
    BY NamesFacts
  <1> HIDE DEF Free
  <1>7. Min(Free) \in Free
    BY <1>5, <1>6, MinIsMember
  <1> QED
    BY <1>7 DEF UniqueName, Free
(***************************************************************************)
(* Types                                                                   *)
(***************************************************************************)
LEMMA InitInv == Init => IInv
  <1> SUFFICES ASSUME Init PROVE IInv
    OBVIOUS
  <1>1. /\ call \in [Contenders -> Call]
        /\ \A c \in Contenders : call[c].pc \in {"off", "idle"} /\ ~call[c].takeover
    BY DEF Init, FreeCall, Call, Pcs, MaybeNames
  <1>2. TypeOK
    <2>1. /\ name \in [Sessions -> MaybeNames]
          /\ parent \in [Workers -> MaybeNames]
          /\ hook \in [pc : {"none", "stop", "end"}, copy : MaybeNames]
      BY NamesFacts DEF Init, MaybeNames
    <2>2. /\ phase \in [Sessions -> {"up", "closing", "ended", "killed"}]
          /\ handoff \in [Handoffs -> {"none", "open", "consumed"}]
          /\ held \in [Contenders -> SUBSET Contenders]
      BY DEF Init
    <2>3. memory \in BOOLEAN /\ routed \subseteq Workers
      BY DEF Init
    <2>4. deaths \in 0..MaxDeaths
      BY TakeoverAssumption DEF Init
    <2> QED
      BY <1>1, <2>1, <2>2, <2>3, <2>4 DEF TypeOK
  <1>3. RouteInv
    BY <1>1 DEF Init, RouteInv, InFlightStayRouted
  <1>4. RecordInv
    BY <1>1, TakeoverAssumption DEF Init, RecordInv, RecordOk, Contenders, Sessions
  <1>5. HeldInv /\ DuplicateStandsDown
    BY <1>1 DEF Init, HeldInv, DuplicateStandsDown
  <1> QED
    BY <1>2, <1>3, <1>4, <1>5 DEF IInv

LEMMA FreeCallIsCall == FreeCall \in Call
  BY DEF FreeCall, Call, Pcs, MaybeNames

LEMMA PrunedType == TypeOK => Pruned \in [Sessions -> MaybeNames]
  BY DEF TypeOK, Pruned, MaybeNames

\* A manager's name, if there is exactly one.
LEMMA StampIsName ==
  ASSUME TypeOK, Cardinality(Managers) = 1
  PROVE  name[CHOOSE s \in Managers : TRUE] \in MaybeNames
  <1>1. Managers # {}
    BY FS_EmptySet
  <1> QED
    BY <1>1 DEF Managers, TypeOK

\* Moving a call on, or its failure, changes that call only.
LEMMA CallType ==
  ASSUME call \in [Contenders -> Call], NEW c \in Contenders, NEW pc \in Pcs,
         Goto(c, pc) \/ Fails(c)
  PROVE  call' \in [Contenders -> Call]
  BY FreeCallIsCall DEF Goto, Fails, Call

LEMMA TypeInductive == TypeOK /\ [Next]_vars => TypeOK'
  <1> SUFFICES ASSUME TypeOK, [Next]_vars
               PROVE  TypeOK'
    OBVIOUS
  <1> USE DEF TypeOK
  <1>1. CASE UNCHANGED vars
    BY <1>1 DEF vars
  <1>2. CASE OldStep \/ OldEnds
    <2>1. CASE PrepareHandoff
      BY <2>1, PrunedType DEF PrepareHandoff
    <2>2. CASE HookRead \/ HookWrite
      <3>1. Old \in Sessions /\ NoName \in MaybeNames
        BY DEF Sessions, MaybeNames
      <3> QED
        BY <2>2, <3>1 DEF HookRead, HookWrite
    <2>3. CASE OldEnds
      <3>1. Old \in Sessions /\ NoName \in MaybeNames
        BY DEF Sessions, MaybeNames
      <3>2. CASE EndRead
        BY <3>1, <3>2 DEF EndRead
      <3>3. CASE EndUnlink
        <4>1. memory' \in BOOLEAN
          BY <3>3 DEF EndUnlink
        <4> QED
          BY <3>1, <3>3, <4>1 DEF EndUnlink
      <3>4. CASE KillOld
        BY <3>1, <3>4 DEF KillOld
      <3> QED
        BY <2>3, <3>2, <3>3, <3>4 DEF OldEnds
    <2> QED
      BY <1>2, <2>1, <2>2, <2>3 DEF OldStep
  <1>3. ASSUME NEW c \in Contenders, Start(c) \/ Step(c) \/ Die(c)
        PROVE  TypeOK'
    <2> c \in Sessions
      BY DEF Sessions
    <2> USE FreeCallIsCall, PrunedType DEF SameSessions, CallOnly, Goto, Fails, Kept, FreeCall,
       Call, Pcs
    <2>1. CASE StartSession(c)
      <3>1. [call[c] EXCEPT !.pc = "start", !.name = UniqueName(c)] \in Call
        BY <1>3, UniqueNameIsName DEF MaybeNames
      <3>2. call' = [call EXCEPT ![c] = [call[c] EXCEPT !.pc = "start", !.name = UniqueName(c)]]
        BY <2>1 DEF StartSession
      <3>3. call' \in [Contenders -> Call]
        BY <1>3, <3>1, <3>2
      <3> QED
        BY <1>3, <2>1, <3>3 DEF StartSession
    <2>2. CASE Begin(c)
      BY <1>3, <2>2 DEF Begin, MaybeNames
    <2>3. CASE PrepareRecovery(c)
      BY <1>3, <2>3 DEF PrepareRecovery, MaybeNames
    <2>4. CASE Boot(c)
      BY <1>3, <2>4 DEF Boot, MaybeNames
    <2>5. CASE StartWrite(c)
      BY <1>3, <2>5 DEF StartWrite, MaybeNames
    <2>6. CASE Judge(c)
      <3>1. call' \in [Contenders -> Call]
        <4>1. CASE Fails(c)
          BY <1>3, <4>1, CallType
        <4>2. CASE call' = [call EXCEPT ![c].pc = "scan", ![c].saw = name[Old] # NoName]
          BY ZenonT(40), <1>3, <4>2
        <4> QED
          BY <2>6, <4>1, <4>2 DEF Judge
      <3> QED
        BY <1>3, <2>6, <3>1 DEF Judge
    <2>7. CASE Scan(c)
      <3>1. call' \in [Contenders -> Call]
        BY <1>3, <2>7, CallType DEF Scan
      <3> QED
        BY <1>3, <2>7, <3>1 DEF Scan
    <2>8. CASE CloseOld(c)
      BY ZenonT(40), <1>3, <2>8 DEF CloseOld, MaybeNames
    <2>9. CASE UnlinkOld(c)
      BY <1>3, <2>9 DEF UnlinkOld, MaybeNames
    <2>10. CASE ChooseName(c)
      BY ZenonT(40), <1>3, <2>10, UniqueNameIsName DEF ChooseName, MaybeNames
    <2>11. CASE RegisterScan(c)
      <3>1. call' \in [Contenders -> Call]
        BY <1>3, <2>11, CallType DEF RegisterScan
      <3> QED
        BY <1>3, <2>11, <3>1 DEF RegisterScan
    <2>12. CASE RegisterWrite(c)
      BY <1>3, <2>12 DEF RegisterWrite, MaybeNames
    <2>13. CASE Backfill(c)
      <3> DEFINE alone == Cardinality(Managers) = 1
                 stamp == IF alone THEN name[CHOOSE s \in Managers : TRUE] ELSE NoName
                 todo == IF alone THEN Null ELSE {}
                 rec == [call[c] EXCEPT !.pc = "stamp", !.stamp = stamp, !.todo = todo]
      <3>1. stamp \in MaybeNames /\ todo \in SUBSET Workers
        BY StampIsName DEF Null, MaybeNames
      <3>2. call' = [call EXCEPT ![c].pc = "stamp", ![c].stamp = stamp, ![c].todo = todo]
        BY <2>13 DEF Backfill
      <3> HIDE DEF stamp, todo
      <3>3. rec \in Call
        BY <1>3, <3>1
      <3>4. call' = [call EXCEPT ![c] = rec]
        BY <1>3, <3>2
      <3>5. call' \in [Contenders -> Call]
        BY <1>3, <3>3, <3>4
      <3> QED
        BY <1>3, <2>13, <3>5 DEF Backfill
    <2>14. CASE Stamp(c)
      <3>1. PICK w \in call[c].todo : /\ parent' = [parent EXCEPT ![w] = call[c].stamp]
                                      /\ call' = [call EXCEPT ![c].todo = @ \ {w}]
        BY <2>14 DEF Stamp
      <3>2. call' \in [Contenders -> Call]
        BY SMTT(20), <1>3, <3>1
      <3>3. parent' \in [Workers -> MaybeNames]
        BY <1>3, <3>1
      <3> QED
        BY <1>3, <2>14, <3>2, <3>3 DEF Stamp
    <2>15. CASE Registered(c)
      <3>1. Fails(c) \/ Goto(c, "consume") \/ Goto(c, "unregister")
        BY <2>15 DEF Registered
      <3>2. call' \in [Contenders -> Call]
        BY <1>3, <3>1, CallType
      <3> QED
        BY <1>3, <2>15, <3>2 DEF Registered
    <2>16. CASE Unregister(c)
      BY ZenonT(40), <1>3, <2>16 DEF Unregister, MaybeNames
    <2>17. CASE Revert(c)
      BY <1>3, <2>17 DEF Revert, MaybeNames
    <2>18. CASE Reverted(c)
      BY <1>3, <2>18 DEF Reverted, MaybeNames
    <2>19. CASE Consume(c)
      BY <1>3, <2>19 DEF Consume, MaybeNames
    <2>20. CASE Die(c)
      <3>1. name' \in [Sessions -> MaybeNames]
        BY <1>3, <2>20 DEF Die, MaybeNames
      <3>2. phase' \in [Sessions -> {"up", "closing", "ended", "killed"}]
        BY <1>3, <2>20 DEF Die
      <3>3. deaths' \in 0..MaxDeaths
        BY <2>20, TakeoverAssumption DEF Die
      <3> QED
        BY <1>3, <2>20, <3>1, <3>2, <3>3 DEF Die
    <2> QED
      BY <1>3, <2>1, <2>2, <2>3, <2>4, <2>5, <2>6, <2>7, <2>8, <2>9, <2>10, <2>11, <2>12, <2>13,
         <2>14, <2>15, <2>16, <2>17, <2>18, <2>19, <2>20 DEF Start, Step
  <1> QED
    BY <1>1, <1>2, <1>3 DEF Next

(***************************************************************************)
(* Who changes whose record                                                *)
(***************************************************************************)
ContenderStep(c) == Start(c) \/ Step(c) \/ Die(c)

\* A record is left as it is, or goes with its dead session.
Quiet(s) == phase'[s] = phase[s] /\ name'[s] \in {name[s], Pruned[s]}

LEMMA OldQuiet ==
  ASSUME TypeOK, OldStep \/ OldEnds, NEW s \in Contenders
  PROVE  Quiet(s) /\ call' = call
  <1>1. s # Old /\ s \in Sessions
    BY TakeoverAssumption DEF Contenders, Sessions
  <1> QED
    BY <1>1 DEF TypeOK, Quiet, OldStep, OldEnds, PrepareHandoff, HookRead, HookWrite, EndRead,
                EndUnlink, KillOld

\* A step of one contender leaves the call and the record of another alone.
LEMMA OthersQuiet ==
  ASSUME TypeOK, NEW c \in Contenders, ContenderStep(c), NEW s \in Contenders \ {c}
  PROVE  Quiet(s) /\ call'[s] = call[s]
  <1>1. s # Old /\ s \in Sessions
    BY TakeoverAssumption DEF Contenders, Sessions
  <1>2. call'[s] = call[s]
    BY DEF TypeOK, ContenderStep, Start, Step, Goto, Fails, CallOnly, StartSession, Begin,
       PrepareRecovery, Boot, StartWrite, Judge, Scan, CloseOld, UnlinkOld, ChooseName,
       RegisterScan, RegisterWrite, Backfill, Stamp, Registered, Unregister, Revert, Reverted,
       Consume, Die
  <1>3. phase'[s] = phase[s]
    BY <1>1 DEF TypeOK, ContenderStep, Start, Step, SameSessions, CallOnly, StartSession, Begin,
       PrepareRecovery, Boot, StartWrite, Judge, Scan, CloseOld, UnlinkOld, ChooseName,
       RegisterScan, RegisterWrite, Backfill, Stamp, Registered, Unregister, Revert, Reverted,
       Consume, Die
  <1>4. name'[s] \in {name[s], Pruned[s]}
    BY <1>1 DEF TypeOK, ContenderStep, Start, Step, CallOnly, StartSession, Begin,
       PrepareRecovery, Boot, StartWrite, Judge, Scan, CloseOld, UnlinkOld, ChooseName,
       RegisterScan, RegisterWrite, Backfill, Stamp, Registered, Unregister, Revert, Reverted,
       Consume, Die
  <1> QED
    BY <1>2, <1>3, <1>4 DEF Quiet

\* Of its own steps four change more than that.
LEMMA OwnRecord ==
  ASSUME TypeOK, NEW c \in Contenders, ContenderStep(c)
  PROVE  \/ StartWrite(c) \/ RegisterWrite(c) \/ Unregister(c) \/ Die(c)
         \/ Quiet(c)
  <1>1. c # Old /\ c \in Sessions
    BY TakeoverAssumption DEF Contenders, Sessions
  <1> QED
    BY <1>1 DEF TypeOK, Quiet, ContenderStep, Start, Step, SameSessions, CallOnly, StartSession,
       Begin, PrepareRecovery, Boot, StartWrite, Judge, Scan, CloseOld, UnlinkOld, ChooseName,
       RegisterScan, RegisterWrite, Backfill, Stamp, Registered, Unregister, Revert, Reverted,
       Consume, Die

\* A contender that is gone does not come back.
LEMMA StaysDown ==
  ASSUME TypeOK, [Next]_vars, NEW s \in Contenders, phase[s] # "up"
  PROVE  phase'[s] # "up"
  <1>1. CASE UNCHANGED vars
    BY <1>1 DEF vars
  <1>2. CASE OldStep \/ OldEnds
    BY <1>2, OldQuiet DEF Quiet
  <1>3. ASSUME NEW c \in Contenders, ContenderStep(c)
        PROVE  phase'[s] # "up"
    <2>1. CASE s # c
      BY <1>3, <2>1, OthersQuiet DEF Quiet
    <2>2. CASE s = c
      BY <1>3, <2>2, OwnRecord DEF Quiet, StartWrite, RegisterWrite, Unregister, Die,
         SameSessions, TypeOK, Sessions
    <2> QED
      BY <2>1, <2>2
  <1> QED
    BY <1>1, <1>2, <1>3 DEF Next, ContenderStep

(***************************************************************************)
(* A call and its session's record                                         *)
(***************************************************************************)
\* What a call relies on survives the steps of the others.
LEMMA RecordStable ==
  ASSUME NEW c \in Sessions, RecordOk(c), Quiet(c), call'[c] = call[c]
  PROVE  RecordOk(c)'
  BY DEF RecordOk, Quiet, Pruned, Dead

LEMMA RecordStep == TypeOK /\ RecordInv /\ [Next]_vars => RecordInv'
  <1> SUFFICES ASSUME TypeOK, RecordInv, [Next]_vars, NEW d \in Contenders
               PROVE  RecordOk(d)'
    BY DEF RecordInv
  <1> d \in Sessions /\ RecordOk(d)
    BY DEF Sessions, RecordInv
  <1>1. CASE UNCHANGED vars
    BY <1>1 DEF vars, RecordOk
  <1>2. CASE OldStep \/ OldEnds
    BY <1>2, OldQuiet, RecordStable
  <1>3. ASSUME NEW c \in Contenders, ContenderStep(c), c # d
        PROVE  RecordOk(d)'
    BY <1>3, OthersQuiet, RecordStable
  <1>4. ASSUME ContenderStep(d)
        PROVE  RecordOk(d)'
    <2> d # Old
      BY TakeoverAssumption DEF Contenders
    <2> USE <1>4 DEF TypeOK, RecordOk, Goto, Fails, FreeCall, SameSessions, CallOnly, Pruned, Dead
    <2>1. CASE StartSession(d)
      BY <2>1 DEF StartSession, Call
    <2>2. CASE Begin(d)
      BY <2>2 DEF Begin, Call
    <2>3. CASE PrepareRecovery(d)
      BY <2>3 DEF PrepareRecovery, Call
    <2>4. CASE Boot(d)
      BY <2>4 DEF Boot, Call
    <2>5. CASE StartWrite(d)
      BY <2>5 DEF StartWrite, Call
    <2>6. CASE Judge(d)
      <3>1. /\ call'[d].pc \in {"idle", "scan"}
            /\ phase' = phase /\ name' = name
        <4>1. CASE Fails(d)
          BY <2>6, <4>1 DEF Judge
        <4>2. ASSUME NEW b, call' = [call EXCEPT ![d].pc = "scan", ![d].saw = b]
              PROVE  call'[d].pc = "scan"
          BY <4>2 DEF Call
        <4> QED
          BY <2>6, <4>1, <4>2 DEF Judge
      <3>2. phase[d] = "up"
        BY <2>6 DEF Judge
      <3> QED
        BY <3>1, <3>2
    <2>7. CASE Scan(d)
      <3>1. call'[d].pc \in {"idle", "close"} /\ phase' = phase
        <4>1. Fails(d) \/ Goto(d, "close")
          BY <2>7 DEF Scan
        <4> QED
          BY <2>7, <4>1 DEF Scan, Call
      <3>2. phase[d] = "up"
        BY <2>7 DEF Scan
      <3> QED
        BY <3>1, <3>2
    <2>8. CASE CloseOld(d)
      BY <2>8 DEF CloseOld, Call
    <2>9. CASE UnlinkOld(d)
      BY <2>9 DEF UnlinkOld, Call
    <2>10. CASE ChooseName(d)
      BY <2>10 DEF ChooseName, Call
    <2>11. CASE RegisterScan(d)
      BY <2>11 DEF RegisterScan, Call
    <2>12. CASE RegisterWrite(d)
      BY <2>12 DEF RegisterWrite, Call
    <2>13. CASE Backfill(d)
      BY ZenonT(40), <2>13 DEF Backfill, Call
    <2>14. CASE Stamp(d)
      BY <2>14 DEF Stamp, Call
    <2>15. CASE Registered(d)
      BY <2>15 DEF Registered, Call
    <2>16. CASE Unregister(d)
      BY <2>16 DEF Unregister, Call
    <2>17. CASE Revert(d)
      BY <2>17 DEF Revert, Call
    <2>18. CASE Reverted(d)
      BY <2>18 DEF Reverted, Call
    <2>19. CASE Consume(d)
      BY <2>19 DEF Consume, Call
    <2>20. CASE Die(d)
      BY <2>20 DEF Die, Call
    <2> QED
      BY <2>1, <2>2, <2>3, <2>4, <2>5, <2>6, <2>7, <2>8, <2>9, <2>10, <2>11, <2>12, <2>13,
         <2>14, <2>15, <2>16, <2>17, <2>18, <2>19, <2>20 DEF ContenderStep, Start, Step
  <1> QED
    BY <1>1, <1>2, <1>3, <1>4 DEF Next, ContenderStep

(***************************************************************************)
(* Who held the name                                                       *)
(***************************************************************************)
\* The holders a takeover found when it began only ever get fewer.
LEMMA HeldShrinks ==
  ASSUME TypeOK, NEW c \in Contenders, ContenderStep(c), NEW d \in Contenders
  PROVE  \/ held'[d] \subseteq held[d]
         \/ /\ Begin(c) /\ d = c
            /\ held'[d] = {s \in Contenders \ {c} : Holds(s)}
  BY ZenonT(40) DEF TypeOK, ContenderStep, Start, Step, Kept, CallOnly, StartSession, Begin,
     PrepareRecovery, Boot, StartWrite, Judge, Scan, CloseOld, UnlinkOld, ChooseName,
     RegisterScan, RegisterWrite, Backfill, Stamp, Registered, Unregister, Revert, Reverted,
     Consume, Die

\* One of them that is still up has the name: a session that writes another
\* is struck off, and one that is about to write its first is none of them.
LEMMA HeldStep == TypeOK /\ RecordInv /\ HeldInv /\ [Next]_vars => HeldInv'
  <1> SUFFICES ASSUME TypeOK, RecordInv, HeldInv, [Next]_vars,
                      NEW d \in Contenders, NEW s \in held'[d]
               PROVE  s # d /\ (phase'[s] # "up" \/ name'[s] = Inherited)
    BY DEF HeldInv
  <1>1. ASSUME s \in held[d], Quiet(s)
        PROVE  s # d /\ (phase'[s] # "up" \/ name'[s] = Inherited)
    <2>1. s \in Sessions
      BY <1>1 DEF TypeOK, Sessions
    <2> QED
      BY <1>1, <2>1 DEF HeldInv, Quiet, Pruned, Dead
  <1>2. CASE UNCHANGED vars
    BY <1>2 DEF vars, HeldInv
  <1>3. CASE OldStep \/ OldEnds
    <2>1. held' = held
      BY <1>3 DEF OldStep, OldEnds, PrepareHandoff, HookRead, HookWrite, EndRead, EndUnlink, KillOld
    <2> QED
      BY <1>1, <1>3, <2>1, OldQuiet DEF TypeOK
  <1>4. ASSUME NEW c \in Contenders, ContenderStep(c)
        PROVE  s # d /\ (phase'[s] # "up" \/ name'[s] = Inherited)
    <2>1. CASE s \notin held[d]
      BY <1>4, <2>1, HeldShrinks DEF Holds, Begin, SameSessions
    <2>2. CASE s \in held[d] /\ s # c
      BY <1>1, <1>4, <2>2, OthersQuiet DEF TypeOK
    <2>3. CASE s \in held[d] /\ s = c
      <3> c \in Sessions
        BY DEF Sessions
      <3>1. s # d /\ (phase[c] # "up" \/ name[c] = Inherited)
        BY <2>3 DEF HeldInv
      <3>2. CASE StartWrite(c)
        <4>1. name[c] = NoName /\ phase[c] = "up"
          BY <3>2 DEF StartWrite, RecordInv, RecordOk
        <4> QED
          BY <3>1, <4>1 DEF NoName, Inherited
      <3>3. CASE RegisterWrite(c) \/ Unregister(c)
        BY <2>3, <3>1, <3>3 DEF RegisterWrite, Unregister, Kept
      <3>4. CASE Die(c)
        BY <2>3, <3>1, <3>4 DEF Die, TypeOK
      <3> QED
        BY <1>1, <1>4, <2>3, <3>2, <3>3, <3>4, OwnRecord
    <2> QED
      BY <2>1, <2>2, <2>3
  <1> QED
    BY <1>2, <1>3, <1>4 DEF Next, ContenderStep

(***************************************************************************)
(* A duplicate stands down                                                 *)
(***************************************************************************)
\* The only way past the scan of a takeover is the scan.
LEMMA PastScanOnlyByScan ==
  ASSUME TypeOK, NEW c \in Contenders, ContenderStep(c),
         call'[c].takeover, call'[c].pc \in PastScan
  PROVE  \/ call[c].takeover /\ call[c].pc \in PastScan
         \/ Scan(c) /\ \A s \in Contenders \ {c} : Pruned[s] # Inherited
  <1> USE DEF TypeOK, PastScan, FreeCall, Goto, Fails
  <1>1. CASE StartSession(c)
    BY <1>1 DEF StartSession, Call
  <1>2. CASE Begin(c)
    BY <1>2 DEF Begin, Call
  <1>3. CASE PrepareRecovery(c)
    BY <1>3 DEF PrepareRecovery, Call
  <1>4. CASE Boot(c)
    BY <1>4 DEF Boot, Call
  <1>5. CASE StartWrite(c)
    BY <1>5 DEF StartWrite, Call
  <1>6. CASE Judge(c)
    <2>1. CASE Fails(c)
      BY <2>1
    <2>2. ASSUME NEW b, call' = [call EXCEPT ![c].pc = "scan", ![c].saw = b]
          PROVE  FALSE
      BY <2>2 DEF Call
    <2> QED
      BY <1>6, <2>1, <2>2 DEF Judge
  <1>7. CASE Scan(c)
    BY <1>7 DEF Scan, Call
  <1>8. CASE CloseOld(c)
    BY <1>8 DEF CloseOld, Call
  <1>9. CASE UnlinkOld(c)
    BY <1>9 DEF UnlinkOld, Call
  <1>10. CASE ChooseName(c)
    BY <1>10 DEF ChooseName, Call
  <1>11. CASE RegisterScan(c)
    BY <1>11 DEF RegisterScan, Call
  <1>12. CASE RegisterWrite(c)
    BY <1>12 DEF RegisterWrite, Call
  <1>13. CASE Backfill(c)
    <2>1. PICK s, w : call' = [call EXCEPT ![c].pc = "stamp", ![c].stamp = s, ![c].todo = w]
      BY <1>13 DEF Backfill
    <2>2. call'[c].takeover = call[c].takeover
      BY ZenonT(40), <2>1 DEF Call
    <2> QED
      BY <1>13, <2>2 DEF Backfill
  <1>14. CASE Stamp(c)
    BY <1>14 DEF Stamp, Call
  <1>15. CASE Registered(c)
    BY <1>15 DEF Registered, Call
  <1>16. CASE Unregister(c)
    BY <1>16 DEF Unregister, Call
  <1>17. CASE Revert(c)
    BY <1>17 DEF Revert, Call
  <1>18. CASE Reverted(c)
    BY <1>18 DEF Reverted, Call
  <1>19. CASE Consume(c)
    BY <1>19 DEF Consume, Call
  <1>20. CASE Die(c)
    BY <1>20 DEF Die, Call
  <1> QED
    BY <1>1, <1>2, <1>3, <1>4, <1>5, <1>6, <1>7, <1>8, <1>9, <1>10, <1>11, <1>12, <1>13, <1>14,
       <1>15, <1>16, <1>17, <1>18, <1>19, <1>20 DEF ContenderStep, Start, Step

LEMMA DuplicateStep ==
  TypeOK /\ HeldInv /\ DuplicateStandsDown /\ [Next]_vars => DuplicateStandsDown'
  <1> SUFFICES ASSUME TypeOK, HeldInv, DuplicateStandsDown, [Next]_vars,
                      NEW d \in Contenders, call'[d].takeover, call'[d].pc \in PastScan,
                      NEW s \in held'[d]
               PROVE  ~Holds(s)'
    BY DEF DuplicateStandsDown
  <1>1. ASSUME call[d].takeover, call[d].pc \in PastScan, s \in held[d]
        PROVE  ~Holds(s)'
    <2>1. phase[s] # "up"
      BY <1>1 DEF DuplicateStandsDown, HeldInv, Holds
    <2> QED
      BY <1>1, <2>1, StaysDown DEF TypeOK, Holds
  <1>2. CASE UNCHANGED vars
    BY <1>1, <1>2 DEF vars
  <1>3. CASE OldStep \/ OldEnds
    <2>1. held' = held
      BY <1>3 DEF OldStep, OldEnds, PrepareHandoff, HookRead, HookWrite, EndRead, EndUnlink, KillOld
    <2> QED
      BY <1>1, <1>3, <2>1, OldQuiet
  <1>4. ASSUME NEW c \in Contenders, ContenderStep(c)
        PROVE  ~Holds(s)'
    <2>1. CASE c # d
      <3>1. call'[d] = call[d] /\ held'[d] \subseteq held[d]
        BY <1>4, <2>1, OthersQuiet, HeldShrinks
      <3> QED
        BY <1>1, <3>1
    <2>2. CASE c = d /\ Scan(d) /\ \A x \in Contenders \ {d} : Pruned[x] # Inherited
      <3>1. s \in held[d] /\ s \in Contenders \ {d} /\ s \in Sessions
        BY <2>2 DEF Scan, HeldInv, TypeOK, Sessions
      <3>2. phase[s] # "up"
        BY <2>2, <3>1 DEF HeldInv, Pruned, Dead
      <3> QED
        BY <3>1, <3>2, StaysDown DEF Holds
    <2>3. CASE c = d /\ call[d].takeover /\ call[d].pc \in PastScan
      <3>1. held'[d] \subseteq held[d]
        BY <1>4, <2>3, HeldShrinks DEF Begin, PastScan
      <3> QED
        BY <1>1, <2>3, <3>1
    <2> QED
      BY <1>4, <2>1, <2>2, <2>3, PastScanOnlyByScan
  <1> QED
    BY <1>2, <1>3, <1>4 DEF Next, ContenderStep

(***************************************************************************)
(* The route of the workers                                                *)
(***************************************************************************)
\* RouteInv of one call.
RouteOk(c) ==
    /\ call[c].pc = "stamp" => call[c].todo \intersect routed = {}
    /\ call[c].pc \in {"unregister", "revert"} => call[c].name # Inherited

\* These steps leave the workers alone, and take no call to where it touches
\* them.
ElsewhereStep(c) ==
    \/ Start(c) \/ Die(c)
    \/ StartWrite(c)
    \/ Judge(c) \/ Scan(c) \/ CloseOld(c) \/ UnlinkOld(c)
    \/ ChooseName(c) \/ RegisterScan(c) \/ RegisterWrite(c)
    \/ Reverted(c) \/ Consume(c)

LEMMA UnroutedStep ==
  ASSUME TypeOK, NEW c \in Contenders,
         ElsewhereStep(c)
  PROVE  parent' = parent /\ routed' = routed /\ RouteOk(c)'
  <1> USE DEF TypeOK, RouteOk, FreeCall, Goto, Fails, SameSessions, CallOnly
  <1>1. CASE StartSession(c)
    BY <1>1 DEF StartSession, Call
  <1>2. CASE Begin(c)
    BY <1>2 DEF Begin, Call
  <1>3. CASE PrepareRecovery(c)
    BY <1>3 DEF PrepareRecovery, Call
  <1>4. CASE Boot(c)
    BY <1>4 DEF Boot, Call
  <1>5. CASE StartWrite(c)
    BY <1>5 DEF StartWrite, Call
  <1>6. CASE Judge(c)
    <2>1. CASE Fails(c)
      BY <1>6, <2>1 DEF Judge
    <2>2. ASSUME NEW b, call' = [call EXCEPT ![c].pc = "scan", ![c].saw = b]
          PROVE  RouteOk(c)'
      BY <2>2 DEF Call
    <2> QED
      BY <1>6, <2>1, <2>2 DEF Judge
  <1>7. CASE Scan(c)
    BY <1>7 DEF Scan, Call
  <1>8. CASE CloseOld(c)
    BY <1>8 DEF CloseOld, Call
  <1>9. CASE UnlinkOld(c)
    BY <1>9 DEF UnlinkOld, Call
  <1>10. CASE ChooseName(c)
    BY <1>10 DEF ChooseName, Call
  <1>11. CASE RegisterScan(c)
    BY <1>11 DEF RegisterScan, Call
  <1>12. CASE RegisterWrite(c)
    BY <1>12 DEF RegisterWrite, Call
  <1>13. CASE Reverted(c)
    BY <1>13 DEF Reverted, Call
  <1>14. CASE Consume(c)
    BY <1>14 DEF Consume, Call
  <1>15. CASE Die(c)
    BY <1>15 DEF Die, Call
  <1> QED
    BY <1>1, <1>2, <1>3, <1>4, <1>5, <1>6, <1>7, <1>8, <1>9, <1>10, <1>11, <1>12, <1>13,
       <1>14, <1>15 DEF ElsewhereStep, Start

LEMMA RouteStep == TypeOK /\ RouteInv /\ [Next]_vars => RouteInv'
  <1> SUFFICES ASSUME TypeOK, RouteInv, [Next]_vars
               PROVE  RouteInv'
    OBVIOUS
  <1> USE DEF InFlightStayRouted
  <1>1. CASE UNCHANGED vars
    BY <1>1 DEF vars, RouteInv
  <1>2. CASE OldStep \/ OldEnds
    BY <1>2 DEF RouteInv, OldStep, OldEnds, PrepareHandoff, HookRead, HookWrite, EndRead,
       EndUnlink, KillOld
  <1>3. ASSUME NEW c \in Contenders, ContenderStep(c)
        PROVE  RouteInv'
    <2>1. \A w \in routed : w \in Workers /\ parent[w] = Inherited
      BY DEF RouteInv, TypeOK
    <2>2. RouteOk(c)
      BY DEF RouteInv, RouteOk
    <2>3. routed' = routed /\ InFlightStayRouted' /\ RouteOk(c)'
      <3> USE DEF TypeOK, RouteOk, FreeCall, Goto, Fails, SameSessions, CallOnly
      <3>1. CASE Backfill(c)
        <4>1. PICK s, ws : /\ ws \in {Null, {}}
                           /\ call' = [call EXCEPT ![c].pc = "stamp", ![c].stamp = s,
                                                   ![c].todo = ws]
          BY <3>1 DEF Backfill
        <4>2. call'[c].pc = "stamp" /\ call'[c].todo \subseteq Null
          BY <4>1 DEF Call
        <4> QED
          <5>1. parent' = parent /\ routed' = routed
            BY <3>1 DEF Backfill
          <5>2. Null \intersect routed = {}
            BY <2>1 DEF Null, NoName, Inherited
          <5> QED
            BY <2>1, <4>2, <5>1, <5>2
      <3>2. CASE Stamp(c)
        <4>1. PICK w \in call[c].todo : /\ parent' = [parent EXCEPT ![w] = call[c].stamp]
                                        /\ call' = [call EXCEPT ![c].todo = @ \ {w}]
          BY <3>2 DEF Stamp
        <4>2. w \notin routed
          BY <2>2, <3>2, <4>1 DEF Stamp
        <4> QED
          BY <2>1, <2>2, <3>2, <4>1, <4>2 DEF Stamp, Call
      <3>3. CASE Registered(c)
        BY <2>1, <3>3 DEF Registered, Call
      <3>4. CASE Unregister(c)
        BY <2>1, <2>2, <3>4 DEF Unregister, Call
      <3>5. CASE Revert(c)
        <4>1. PICK w \in call[c].todo :
                 /\ parent' = [parent EXCEPT ![w] = IF @ = call[c].name THEN NoName ELSE @]
                 /\ call' = [call EXCEPT ![c].todo = @ \ {w}]
          BY <3>5 DEF Revert
        <4>2. call[c].name # Inherited
          BY <2>2, <3>5 DEF Revert
        <4> QED
          BY <2>1, <2>2, <3>5, <4>1, <4>2 DEF Revert, Call
      <3>6. CASE ElsewhereStep(c)
        BY <2>1, <3>6, UnroutedStep
      <3> QED
        BY <1>3, <3>1, <3>2, <3>3, <3>4, <3>5, <3>6 DEF ContenderStep, ElsewhereStep, Step
    <2>4. \A d \in Contenders \ {c} : RouteOk(d)'
      BY <1>3, <2>3, OthersQuiet DEF RouteInv, RouteOk
    <2> QED
      BY <2>3, <2>4 DEF RouteInv, RouteOk
  <1> QED
    BY <1>1, <1>2, <1>3 DEF Next, ContenderStep

(***************************************************************************)
(* Theorems                                                                *)
(***************************************************************************)
LEMMA InvCorrect == Spec => []IInv
  <1>1. IInv /\ [Next]_vars => IInv'
    BY TypeInductive, RouteStep, RecordStep, HeldStep, DuplicateStep DEF IInv
  <1> QED
    BY <1>1, InitInv, PTL DEF Spec

\* The state keeps its types: there is always a free name for a session that
\* registers, however many contend for it.
THEOREM TypeCorrect == Spec => []TypeOK
  <1>1. IInv => TypeOK
    BY DEF IInv
  <1> QED
    BY <1>1, InvCorrect, PTL

\* A worker in flight that is routed to the manager's name stays routed to it,
\* whoever takes over, fails half way, reverts or dies.
THEOREM RoutesSurvive == Spec => []InFlightStayRouted
  <1>1. IInv => InFlightStayRouted
    BY DEF IInv, RouteInv
  <1> QED
    BY <1>1, InvCorrect, PTL

\* A takeover that goes past its scan is no duplicate: who held the name when
\* it began is gone or has lost it.
THEOREM DuplicatesStandDown == Spec => []DuplicateStandsDown
  <1>1. IInv => DuplicateStandsDown
    BY DEF IInv
  <1> QED
    BY <1>1, InvCorrect, PTL

\* A handoff is consumed only by a live session on record under the name.
THEOREM ConsumersHoldTheName == Spec => ConsumedUnderTheName
  <1>1. IInv => [\A c \in Contenders : Consume(c) => Holds(c)]_vars
    BY DEF IInv, RecordInv, RecordOk, Consume, Holds
  <1> QED
    BY <1>1, InvCorrect, PTL DEF ConsumedUnderTheName
===============================================================================
