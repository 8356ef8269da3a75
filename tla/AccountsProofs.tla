---------------------------- MODULE AccountsProofs ----------------------------
(***************************************************************************)
(* Theorems about the pool of accounts.                                    *)
(***************************************************************************)
EXTENDS Accounts, FiniteSetTheorems, WellFoundedInduction, TLAPS

-----------------------------------------------------------------------------
(* The first of a sequence *)

\* A set of numbers has a least one.
LEMMA LeastIs ==
  ASSUME NEW S \in SUBSET Nat, S # {}
  PROVE  Min(S) \in S /\ \A y \in S : Min(S) <= y
<1>1. PICK x \in S : \A y \in S : ~(<<y, x>> \in OpToRel(<, Nat))
  BY NatLessThanWellFounded, WFMin
<1>2. ASSUME NEW y \in S
      PROVE  x <= y
  <2>1. y < x => <<y, x>> \in OpToRel(<, Nat)
    BY Zenon DEF OpToRel
  <2>2. ~(y < x)
    BY <1>1, <2>1, Zenon
  <2>3. x \in Nat /\ y \in Nat
    OBVIOUS
  <2> QED  BY <2>2, <2>3
<1>3. \E x1 \in S : \A y \in S : x1 <= y
  BY <1>2
<1> QED  BY <1>3, Zenon DEF Min

\* FirstOf finds one of the set if the sequence has one.
LEMMA FirstIs ==
  ASSUME NEW seq \in Seq(Names), NEW S \in SUBSET Names
  PROVE  /\ FirstOf(seq, S) \in S \union {None}
         /\ FirstOf(seq, S) = None => \A i \in DOMAIN seq : seq[i] \notin S
<1> DEFINE found == {i \in DOMAIN seq : seq[i] \in S}
<1>1. CASE found = {}
  BY <1>1 DEF FirstOf
<1>2. CASE found # {}
  <2>1. found \in SUBSET Nat
    OBVIOUS
  <2>2. Min(found) \in found
    <3> HIDE DEF found
    <3> QED  BY <1>2, <2>1, LeastIs
  <2>3. FirstOf(seq, S) = seq[Min(found)]
    BY <1>2 DEF FirstOf
  <2> QED  BY <2>2, <2>3, AccountsAssumption
<1> QED  BY <1>1, <1>2

\* Every account is in the registry.
LEMMA NamesAreListed ==
  ASSUME NEW a \in Names
  PROVE  \E i \in DOMAIN Accounts : Accounts[i] = a
BY DEF Names, ToSet

\* The account that a flip goes to.
LEMMA TargetIs ==
  /\ FlipTarget \in Names \union {None}
  /\ FlipTarget # None => FlipTarget # pointer /\ ~Bricked(FlipTarget) /\ ~AuthActive(FlipTarget)
<1> DEFINE S == {a \in Names \ {pointer} : ~Bricked(a) /\ ~AuthActive(a)}
<1>1. FlipTarget \in S \union {None}
  <2>1. FlipTarget = FirstOf(Accounts, S)
    BY DEF FlipTarget
  <2>2. S \in SUBSET Names
    OBVIOUS
  <2> HIDE DEF S
  <2> QED  BY <2>1, <2>2, FirstIs, AccountsAssumption
<1> QED  BY <1>1

\* A spawn finds no account only when all are bricked.
LEMMA PickIs ==
  ASSUME NEW first \in Names, NEW near
  PROVE  /\ PickAccount(Order(first), near) \in Names \union {None}
         /\ PickAccount(Order(first), near) = None => \A a \in Names : Bricked(a)
<1> DEFINE free == {a \in Names : ~Bricked(a)}
           S == IF free \ near # {} THEN free \ near ELSE free
           order == Order(first)
<1>1. PickAccount(order, near) = FirstOf(order, S)
  BY DEF PickAccount
<1>2. order \in Seq(Names)
  BY AccountsAssumption DEF Order
<1>3. S \in SUBSET Names
  OBVIOUS
<1>4. FirstOf(order, S) \in S \union {None} /\ (FirstOf(order, S) = None => \A i \in DOMAIN order : order[i] \notin S)
  <2> HIDE DEF S, order
  <2> QED  BY <1>2, <1>3, FirstIs
<1>5. ASSUME NEW a \in Names, \A i \in DOMAIN order : order[i] \notin S
      PROVE  Bricked(a)
  <2>1. \A b \in Names : \E i \in DOMAIN order : order[i] = b
    <3> SUFFICES ASSUME NEW b \in Names PROVE \E i \in DOMAIN order : order[i] = b
      OBVIOUS
    <3>1. PICK i \in DOMAIN Accounts : Accounts[i] = b
      BY NamesAreListed
    <3>2. i + 1 \in DOMAIN order /\ order[i + 1] = b
      BY <3>1, AccountsAssumption DEF Order
    <3> QED  BY <3>2
  <2>2. S = {}
    BY <1>3, <1>5, <2>1
  <2> QED  BY <2>2
<1> QED  BY <1>1, <1>3, <1>4, <1>5

-----------------------------------------------------------------------------
(* The sessions that a loop looks at *)

LEMMA FleetIs ==
  ASSUME NEW m \in Managers
  PROVE  /\ Fleet(m) \in Seq(Sessions) /\ Len(Fleet(m)) \in Nat /\ DOMAIN Fleet(m) = 1..Len(Fleet(m))
         /\ Fleet(m)[1] = m /\ 1 \in DOMAIN Fleet(m)
         /\ \A i \in DOMAIN Fleet(m) : /\ Fleet(m)[i] \in Sessions
                                       /\ i # 1 => Fleet(m)[i] \in Sessions \ Managers
<1>1. WorkersOf[m] \in Seq(Workers(m)) /\ Workers(m) \intersect Managers = {}
  BY AccountsAssumption
<1>2. Workers(m) \subseteq Sessions /\ m \in Sessions
  BY DEF Sessions
<1>3. WorkersOf[m] \in Seq(Sessions)
  BY <1>1, <1>2
<1>4. Fleet(m) \in Seq(Sessions) /\ Len(Fleet(m)) = Len(WorkersOf[m]) + 1 /\ Fleet(m)[1] = m
  BY <1>2, <1>3 DEF Fleet
<1>5. \A i \in DOMAIN Fleet(m) : i # 1 => Fleet(m)[i] = WorkersOf[m][i - 1] /\ i - 1 \in DOMAIN WorkersOf[m]
  BY <1>1, <1>4 DEF Fleet
<1>6. \A j \in DOMAIN WorkersOf[m] : WorkersOf[m][j] \in Workers(m)
  BY <1>1
<1> QED  BY <1>1, <1>2, <1>3, <1>4, <1>5, <1>6

\* The subject of a scan is the manager only at the first place.
LEMMA SubjectIs ==
  ASSUME NEW m \in Managers, scan[m].at \in DOMAIN Fleet(m)
  PROVE  Subject(m) \in Sessions /\ (Subject(m) = m <=> scan[m].at = 1)
BY FleetIs DEF Subject

ScanFits(s, m) ==
    /\ s \in Scan
    /\ s.pc # "off" => s.pool \in Names
    /\ s.pc \notin {"off", "append", "emit"} => s.at \in DOMAIN Fleet(m) /\ s.acct \in Names

\* What is at hand in a scan that looked at its next session.
Looks(m, l, pool, from) ==
    /\ l.pc \in {"off", "emit", "brick", "auth"}
    /\ l.pc \in {"brick", "auth"} =>
        /\ l.at \in from..Len(Fleet(m)) /\ l.at \in DOMAIN Fleet(m)
        /\ l.acct = AccountOf(Fleet(m)[l.at], pool)
    /\ l.pc = "brick" => session[Fleet(m)[l.at]].tail.kind = "limit"

LEMMA LookIs ==
  ASSUME TypeOK, NEW m \in Managers, NEW next \in Scan, next.pool \in Names, NEW from \in Nat \ {0}
  PROVE  /\ ScanFits(LookAt(m, next, from), m)
         /\ Looks(m, LookAt(m, next, from), next.pool, from)
<1> DEFINE stopped == Stopped(m, from)
           i == Min(stopped)
           s == Fleet(m)[i]
           there == [next EXCEPT !.at = i, !.acct = AccountOf(s, next.pool)]
           brick == [there EXCEPT !.pc = "brick"]
           auth == [there EXCEPT !.pc = "auth", !.authKey = IF s = m THEN authKey[m] ELSE @]
           emit == [next EXCEPT !.pc = "emit"]
           L == LookAt(m, next, from)
<1>1. CASE L = NoScan
  <2>1. NoScan \in Scan /\ NoScan.pc = "off"
    BY AccountsAssumption DEF NoScan, Scan, Pcs, NoKey, Keys, Ages
  <2> QED  BY <1>1, <2>1 DEF ScanFits, Looks
<1>2. CASE L = emit
  <2>1. emit \in Scan /\ emit.pc = "emit" /\ emit.pool = next.pool
    BY DEF Scan, Pcs
  <2> QED  BY <1>2, <2>1 DEF ScanFits, Looks
<1>3. CASE stopped # {}
  <2>1. stopped \in SUBSET Nat
    BY FleetIs DEF Stopped
  <2>2. i \in stopped
    <3> HIDE DEF stopped
    <3> QED  BY <1>3, <2>1, LeastIs
  <2>3. i \in from..Len(Fleet(m)) /\ i \in DOMAIN Fleet(m) /\ s \in Sessions /\ i \in Nat
    <3>1. Len(Fleet(m)) \in Nat /\ DOMAIN Fleet(m) = 1..Len(Fleet(m))
      BY FleetIs
    <3>2. stopped \subseteq from..Len(Fleet(m))
      BY DEF Stopped
    <3> HIDE DEF stopped, i
    <3>3. i \in from..Len(Fleet(m)) /\ i \in Nat /\ i \in DOMAIN Fleet(m)
      BY <2>1, <2>2, <3>1, <3>2
    <3>4. Fleet(m)[i] \in Sessions
      BY <3>3, FleetIs
    <3> QED  BY <3>3, <3>4
  <2> HIDE DEF i
  <2>4. AccountOf(s, next.pool) \in Names
    BY <2>3 DEF AccountOf, TypeOK, Session
  <2>5. there \in Scan /\ there.at = i /\ there.acct = AccountOf(s, next.pool) /\ there.pool = next.pool
    BY <2>3, <2>4 DEF Scan
  <2> HIDE DEF there, s
  <2>6. brick \in Scan /\ brick.pc = "brick" /\ brick.at = i /\ brick.acct = AccountOf(s, next.pool) /\ brick.pool = next.pool
    BY <2>5 DEF Scan, Pcs
  <2>7. auth \in Scan /\ auth.pc = "auth" /\ auth.at = i /\ auth.acct = AccountOf(s, next.pool) /\ auth.pool = next.pool
    <3>1. authKey[m] \in BOOLEAN
      BY DEF TypeOK
    <3> QED  BY <2>5, <3>1 DEF Scan, Pcs
  <2> HIDE DEF brick, auth
  <2>8. L = IF session[s].tail.kind = "limit" THEN brick ELSE auth
    BY <1>3 DEF LookAt, i, s, there, brick, auth
  <2>9. CASE L = brick /\ session[s].tail.kind = "limit"
    BY <2>9, <2>3, <2>4, <2>6 DEF ScanFits, Looks, s
  <2>10. CASE L = auth
    BY <2>10, <2>3, <2>4, <2>7 DEF ScanFits, Looks, s
  <2> QED  BY <2>8, <2>9, <2>10
<1>4. CASE stopped = {}
  <2>1. L = NoScan \/ L = emit
    BY <1>4 DEF LookAt
  <2> QED  BY <1>1, <1>2, <2>1
<1> QED  BY <1>3, <1>4

-----------------------------------------------------------------------------
(* Types *)

LEMMA BoundsAre ==
  /\ MaxReset \in Nat /\ MaxReset > 0 /\ EpisodeGap \in Nat /\ AuthWindow \in Nat
  /\ TakeoverGuard \in Nat /\ Default \in Names /\ None \notin Names
BY AccountsAssumption

LEMMA AgesGrow ==
  ASSUME NEW cap \in Nat, NEW n \in Ages(cap)
  PROVE  Older(n, cap) \in Ages(cap) /\ Sooner(n) \in Ages(cap) /\ 0 \in Ages(cap) /\ cap \in Ages(cap)
BY DEF Older, Sooner, Ages

\* What a banner or a 401 makes of account-state.json.
LEMMA RecordedIs ==
  ASSUME TypeOK, NEW a \in Names
  PROVE  /\ \A left \in Ages(MaxReset) : WithBrick(a, left) \in State
         /\ \A s \in Sessions : WithAuth(a, s) \in State /\ Attempts(a, s) \in Nat
<1>1. ASSUME NEW left \in Ages(MaxReset) PROVE WithBrick(a, left) \in State
  <2> DEFINE n == IF left > 0 THEN left
                  ELSE IF ~Bricked(a) \/ state.seen[a] > EpisodeGap THEN MaxReset ELSE state.blocked[a]
  <2>1. state \in State /\ n \in Ages(MaxReset) /\ 0 \in Ages(EpisodeGap + 1)
    BY BoundsAre DEF TypeOK, State, Ages
  <2>2. WithBrick(a, left) = [state EXCEPT !.seen = [state.seen EXCEPT ![a] = 0],
                                           !.blocked = [state.blocked EXCEPT ![a] = n]]
    BY <2>1 DEF WithBrick, State
  <2> HIDE DEF n
  <2>3. /\ [state.seen EXCEPT ![a] = 0] \in [Names -> Ages(EpisodeGap + 1)]
        /\ [state.blocked EXCEPT ![a] = n] \in [Names -> Ages(MaxReset)]
    BY <2>1 DEF State
  <2> QED  BY <2>1, <2>2, <2>3 DEF State
<1>2. ASSUME NEW s \in Sessions PROVE WithAuth(a, s) \in State /\ Attempts(a, s) \in Nat
  <2>1. state \in State /\ state.auth[a] \in Episode
    BY DEF TypeOK, State
  <2>2. Attempts(a, s) \in Nat
    BY <2>1 DEF Attempts, Episode, Older, MaxAttempts
  <2> DEFINE e == IF SameEvent(a, s) THEN [state.auth[a] EXCEPT !.seen = 0]
                  ELSE [attempts |-> Attempts(a, s), seen |-> 0, distinct |-> 0,
                        uuids |-> (IF state.auth[a].seen > AuthWindow THEN {} ELSE state.auth[a].uuids) \union {s}]
  <2>3. e \in Episode
    BY <2>1, <2>2, BoundsAre DEF Episode, Ages
  <2>4. WithAuth(a, s) = [state EXCEPT !.auth[a] = e]
    BY DEF WithAuth
  <2> HIDE DEF e
  <2> QED  BY <2>1, <2>2, <2>3, <2>4 DEF State
<1> QED  BY <1>1, <1>2

\* A new session is on the account it says.
LEMMA StartedIs ==
  ASSUME NEW a \in Names, NEW healthy
  PROVE  /\ Started(a, healthy) \in Session /\ Started(a, healthy).stamp = Started(a, healthy).acct
         /\ Started(a, healthy).tail = Ok /\ Ok \in Tails /\ Ok.kind = "ok"
BY BoundsAre DEF Started, Login, Stamp, Session, Ok, Tails, Ages

LEMMA TypeInit == Init => TypeOK
<1> SUFFICES ASSUME Init PROVE TypeOK
  OBVIOUS
<1>1. NoEpisode \in Episode /\ NoKey \in Keys /\ NoScan \in Scan /\ NoScan.pc = "off"
  BY BoundsAre DEF NoEpisode, Episode, NoKey, Keys, NoScan, Scan, Pcs, Ages
<1>2. state \in State
  BY <1>1, BoundsAre DEF Init, State, Ages
<1>3. session \in [Sessions -> Session]
  BY BoundsAre DEF Init, Session, Ok, Tails, Ages
<1>4. /\ flip \in [age : Ages(MaxReset), noted : BOOLEAN] /\ limit \in [Names -> Ages(MaxReset)]
      /\ mishaps \in Nat
  BY BoundsAre, AccountsAssumption DEF Init, Ages
<1> QED  BY <1>1, <1>2, <1>3, <1>4, BoundsAre DEF Init, TypeOK

LEMMA MishapIs ==
  ASSUME mishaps \in Nat, Mishap
  PROVE  mishaps' \in Nat
BY DEF Mishap

\* A scan that goes on keeps the types of the scans.
ScansFit == scan \in [Managers -> Scan] /\ \A m \in Managers : ScanFits(scan[m], m)

LEMMA ScanChanges ==
  ASSUME TypeOK, NEW m \in Managers, NEW s, ScanFits(s, m), scan' = [scan EXCEPT ![m] = s]
  PROVE  ScansFit'
BY DEF TypeOK, ScansFit, ScanFits

LEMMA PassFits ==
  ASSUME TypeOK, NEW m \in Managers, NEW next \in Scan, next.pool \in Names, Pass(m, next)
  PROVE  /\ ScansFit' /\ scan' = [scan EXCEPT ![m] = LookAt(m, next, next.at + 1)]
         /\ Looks(m, scan'[m], next.pool, next.at + 1)
         /\ scan'[m].pc \in {"off", "emit", "brick", "auth"}
         /\ ScanFits(scan'[m], m)
<1>1. next.at + 1 \in Nat \ {0}
  BY DEF Scan
<1>2. scan'[m] = LookAt(m, next, next.at + 1) /\ scan' = [scan EXCEPT ![m] = LookAt(m, next, next.at + 1)]
  BY DEF Pass, TypeOK
<1>3. ScanFits(LookAt(m, next, next.at + 1), m) /\ Looks(m, LookAt(m, next, next.at + 1), next.pool, next.at + 1)
  BY <1>1, LookIs
<1> QED  BY <1>2, <1>3, ScanChanges DEF Looks

\* The scan at hand.
LEMMA ScanIs ==
  ASSUME TypeOK, NEW m \in Managers
  PROVE  /\ scan[m] \in Scan /\ ScanFits(scan[m], m)
         /\ scan[m].pc # "off" => scan[m].pool \in Names
         /\ scan[m].pc \notin {"off", "append", "emit"} =>
                scan[m].at \in DOMAIN Fleet(m) /\ scan[m].acct \in Names /\ Subject(m) \in Sessions
BY SubjectIs DEF TypeOK, ScanFits

\* The types but those of the scans.
RestFits ==
    /\ pointer \in Names /\ state \in State
    /\ ledger \in [Managers -> SUBSET Ages(MaxReset - 1)]
    /\ launched \in [Managers -> SUBSET Ages(MaxReset - 1)]
    /\ recovery \in [Managers -> Keys] /\ authKey \in [Managers -> BOOLEAN]
    /\ due \subseteq Managers /\ farm \subseteq Names /\ broken \subseteq Names
    /\ keychain \in BOOLEAN
    /\ session \in [Sessions -> Session]
    /\ heir \in [Managers -> Session \union {None}]
    /\ limit \in [Names -> Ages(MaxReset)]
    /\ flip \in [age : Ages(MaxReset), noted : BOOLEAN]
    /\ wasLimited \subseteq Names /\ unwritten \subseteq Names
    /\ lost \in [Managers -> Nat] /\ blind \in [Managers -> Nat] /\ mishaps \in Nat

LEMMA TypeParts ==
  /\ TypeOK => RestFits /\ ScansFit
  /\ RestFits' /\ ScansFit' => TypeOK'
BY DEF TypeOK, RestFits, ScansFit, ScanFits

LEMMA StartFits ==
  ASSUME TypeOK, NEW m \in Managers, Start(m)
  PROVE  /\ TypeOK' /\ ScanFits(scan'[m], m) /\ Looks(m, scan'[m], pointer, 1)
         /\ scan' = [scan EXCEPT ![m] = scan'[m]]
<1> DEFINE next == [NoScan EXCEPT !.pool = pointer]
<1>1. next \in Scan /\ next.pool = pointer /\ pointer \in Names
  <2>1. NoScan \in Scan
    BY BoundsAre DEF NoScan, Scan, Pcs, NoKey, Keys, Ages
  <2>2. pointer \in Names
    BY DEF TypeOK
  <2> QED  BY <2>1, <2>2 DEF Scan
<1>2. ScanFits(LookAt(m, next, 1), m) /\ Looks(m, LookAt(m, next, 1), pointer, 1)
  <2> HIDE DEF next
  <2> QED  BY <1>1, LookIs
<1>3. scan' = [scan EXCEPT ![m] = LookAt(m, next, 1)]
  BY DEF Start
<1>4. ScansFit'
  BY <1>2, <1>3, ScanChanges
<1>5. RestFits'
  BY TypeParts DEF Start, evars, ovars, RestFits
<1>6. scan'[m] = LookAt(m, next, 1)
  BY <1>3 DEF TypeOK
<1> QED  BY <1>2, <1>3, <1>4, <1>5, <1>6, TypeParts

\* The scan goes on to another point, or to its next session.
LEMMA ToFits ==
  ASSUME TypeOK, NEW m \in Managers, NEW pc \in Pcs \ {"off"},
         scan[m].pc \notin {"off", "append", "emit"}, To(m, pc)
  PROVE  ScansFit' /\ scan' = [scan EXCEPT ![m] = [scan[m] EXCEPT !.pc = pc]]
<1>1. ScanFits([scan[m] EXCEPT !.pc = pc], m)
  BY ScanIs DEF ScanFits, Scan
<1>2. scan' = [scan EXCEPT ![m] = [scan[m] EXCEPT !.pc = pc]]
  BY DEF To, TypeOK
<1> QED  BY <1>1, <1>2, ScanChanges

LEMMA FlipFits ==
  ASSUME TypeOK, NEW a \in Names, MaybeFlip(a)
  PROVE  /\ pointer' \in Names /\ state' \in State /\ mishaps' \in Nat
         /\ flip' \in [age : Ages(MaxReset), noted : BOOLEAN]
         /\ Landed(a) \in Names \union {None}
<1>1. CASE ~MayFlip(a)
  BY <1>1 DEF MaybeFlip, TypeOK, Landed
<1>2. CASE MayFlip(a)
  <2>1. FlipTarget \in Names /\ Landed(a) = FlipTarget /\ pointer' = FlipTarget
    BY <1>2, TargetIs DEF MayFlip, Landed, MaybeFlip
  <2>2. [state EXCEPT !.flip = [age |-> 0, to |-> FlipTarget]] \in State
    BY <2>1, BoundsAre DEF TypeOK, State, Ages
  <2>3. \A b \in BOOLEAN : [age |-> 0, noted |-> b] \in [age : Ages(MaxReset), noted : BOOLEAN]
    BY BoundsAre DEF Ages
  <2> QED  BY <1>2, <2>1, <2>2, <2>3, MishapIs DEF MaybeFlip, TypeOK
<1> QED  BY <1>1, <1>2

LEMMA LaunchFits ==
  ASSUME TypeOK, NEW m \in Managers, NEW a \in Names, NEW n, LaunchOn(m, a, n)
  PROVE  /\ launched' \in [Managers -> SUBSET Ages(MaxReset - 1)] /\ mishaps' \in Nat
         /\ heir' \in [Managers -> Session \union {None}] /\ blind' \in [Managers -> Nat]
<1>1. launched' = [launched EXCEPT ![m] = @ \union {0}] /\ 0 \in Ages(MaxReset - 1)
  BY BoundsAre DEF LaunchOn, Ages
<1>2. launched' \in [Managers -> SUBSET Ages(MaxReset - 1)]
  BY <1>1 DEF TypeOK
<1>3. Started(a, a \in farm) \in Session
  BY StartedIs
<1>4. mishaps' \in Nat
  BY MishapIs DEF LaunchOn, TypeOK
<1>5. heir' \in [Managers -> Session \union {None}]
  BY <1>3 DEF LaunchOn, TypeOK
<1>6. blind' \in [Managers -> Nat]
  BY DEF LaunchOn, TypeOK
<1> QED  BY <1>2, <1>4, <1>5, <1>6

LEMMA RecordFits ==
  ASSUME TypeOK, NEW a \in Names, NEW new \in State, Record(a, new)
  PROVE  /\ state' \in State /\ unwritten' \subseteq Names /\ mishaps' \in Nat
         /\ state' = new \/ (state' = state /\ a \in unwritten')
<1>1. mishaps' \in Nat
  BY MishapIs DEF Record, TypeOK
<1> QED  BY <1>1 DEF Record, TypeOK

LEMMA BrickFits ==
  ASSUME TypeOK, NEW m \in Managers, Brick(m)
  PROVE  TypeOK'
<1>1. /\ scan[m].pc = "brick" /\ scan[m] \in Scan /\ scan[m].pool \in Names /\ scan[m].acct \in Names
      /\ Subject(m) \in Sessions
  BY ScanIs DEF Brick
<1>2. state' \in State /\ unwritten' \subseteq Names /\ mishaps' \in Nat
  <2> DEFINE new == WithBrick(scan[m].acct, session[Subject(m)].tail.left)
  <2>1. session[Subject(m)].tail.left \in Ages(MaxReset)
    BY <1>1 DEF TypeOK, Session, Tails
  <2>2. new \in State
    BY <1>1, <2>1, RecordedIs
  <2>3. Record(scan[m].acct, new)
    BY DEF Brick
  <2> HIDE DEF new
  <2> QED  BY <1>1, <2>2, <2>3, RecordFits
<1>3. ScansFit'
  <2>1. CASE \E pc \in Pcs \ {"off"} : To(m, pc)
    BY <1>1, <2>1, ToFits
  <2>2. CASE Pass(m, [scan[m] EXCEPT !.recovery = recovery[m]])
    <3>1. /\ [scan[m] EXCEPT !.recovery = recovery[m]] \in Scan
          /\ [scan[m] EXCEPT !.recovery = recovery[m]].pool = scan[m].pool
      BY <1>1 DEF TypeOK, Scan
    <3> QED  BY <1>1, <2>2, <3>1, PassFits
  <2>3. {"flip", "launch", "relaunch"} \subseteq Pcs \ {"off"}
    BY DEF Pcs
  <2> QED  BY <2>1, <2>2, <2>3 DEF Brick, AfterBrick
<1>4. wasLimited' \subseteq Names
  BY <1>1 DEF Brick, TypeOK
<1>5. RestFits'
  BY <1>2, <1>4, TypeParts DEF Brick, evars, RestFits
<1> QED  BY <1>3, <1>5, TypeParts

LEMMA FlipStepFits ==
  ASSUME TypeOK, NEW m \in Managers, Flip(m) \/ AuthFlip(m)
  PROVE  TypeOK'
<1>1. /\ scan[m].pc \in {"flip", "authflip"} /\ scan[m] \in Scan /\ scan[m].pool \in Names
      /\ scan[m].acct \in Names /\ ScanFits(scan[m], m)
  BY ScanIs DEF Flip, AuthFlip
<1>2. MaybeFlip(scan[m].acct)
  BY DEF Flip, AuthFlip
<1>3. RestFits'
  BY <1>1, <1>2, FlipFits, TypeParts DEF Flip, AuthFlip, evars, RestFits
<1>4. ScansFit'
  <2>1. CASE Pass(m, scan[m])
    BY <1>1, <2>1, PassFits
  <2>2. ASSUME NEW pc \in {"launch", "authlaunch"}, NEW t \in Names \union {None},
               scan' = [scan EXCEPT ![m].pc = pc, ![m].target = t]
        PROVE  ScansFit'
    <3>1. ScanFits([scan[m] EXCEPT !.pc = pc, !.target = t], m)
      BY <1>1 DEF ScanFits, Scan, Pcs
    <3>2. scan' = [scan EXCEPT ![m] = [scan[m] EXCEPT !.pc = pc, !.target = t]]
      BY <2>2 DEF TypeOK
    <3> QED  BY <3>1, <3>2, ScanChanges
  <2>3. Landed(scan[m].acct) \in Names \union {None}
    BY <1>1, <1>2, FlipFits
  <2> QED  BY <1>1, <2>1, <2>2, <2>3 DEF Flip, AuthFlip
<1> QED  BY <1>3, <1>4, TypeParts

\* A launch: the scan goes on to its ledger line.
LEMMA AppendNext ==
  ASSUME TypeOK, NEW m \in Managers, scan[m].pc # "off",
         \/ \E k \in Keys : scan' = [scan EXCEPT ![m].pc = "append", ![m].recovery = k]
         \/ scan' = [scan EXCEPT ![m].pc = "append", ![m].authKey = TRUE]
  PROVE  ScansFit' /\ scan'[m].pc = "append" /\ \E s : scan' = [scan EXCEPT ![m] = s]
<1>1. scan[m] \in Scan /\ scan[m].pool \in Names
  BY ScanIs
<1>2. CASE scan' = [scan EXCEPT ![m].pc = "append", ![m].authKey = TRUE]
  <2> DEFINE s == [scan[m] EXCEPT !.pc = "append", !.authKey = TRUE]
  <2>1. ScanFits(s, m) /\ s.pc = "append"
    BY <1>1 DEF ScanFits, Scan, Pcs
  <2>2. scan' = [scan EXCEPT ![m] = s] /\ scan'[m] = s
    BY <1>2 DEF TypeOK
  <2> HIDE DEF s
  <2> QED  BY <2>1, <2>2, ScanChanges
<1>3. ASSUME NEW k \in Keys, scan' = [scan EXCEPT ![m].pc = "append", ![m].recovery = k]
      PROVE  ScansFit' /\ scan'[m].pc = "append" /\ \E s : scan' = [scan EXCEPT ![m] = s]
  <2> DEFINE s == [scan[m] EXCEPT !.pc = "append", !.recovery = k]
  <2>1. ScanFits(s, m) /\ s.pc = "append"
    BY <1>1 DEF ScanFits, Scan, Pcs
  <2>2. scan' = [scan EXCEPT ![m] = s] /\ scan'[m] = s
    BY <1>3 DEF TypeOK
  <2> HIDE DEF s
  <2> QED  BY <2>1, <2>2, ScanChanges
<1> QED  BY <1>2, <1>3

LEMMA LaunchStepFits ==
  ASSUME TypeOK, NEW m \in Managers, Launch(m) \/ Relaunch(m) \/ AuthLaunch(m)
  PROVE  TypeOK'
<1>1. /\ scan[m].pc \in {"launch", "relaunch", "authlaunch"} /\ scan[m] \in Scan
      /\ scan[m].pool \in Names /\ scan[m].target \in Names \union {None}
  BY ScanIs DEF Launch, Relaunch, AuthLaunch, Scan
<1>2. recovery[m] \in Keys /\ Key \in Keys /\ [recovery[m] EXCEPT !.relaunched = TRUE] \in Keys
      /\ pointer \in Names
  <2>1. recovery[m] \in Keys /\ pointer \in Names
    BY DEF TypeOK
  <2>2. Key \in Keys
    BY BoundsAre DEF Keys, Key, Ages
  <2> QED  BY <2>1, <2>2 DEF Keys
<1>3. CASE Pass(m, scan[m]) /\ UNCHANGED <<launched, heir, blind, mishaps>>
  <2>1. ScansFit'
    BY <1>1, <1>3, PassFits
  <2>2. RestFits'
    BY <1>3, TypeParts DEF Launch, Relaunch, AuthLaunch, evars, RestFits
  <2> QED  BY <2>1, <2>2, TypeParts
<1>4. CASE Pass(m, [scan[m] EXCEPT !.recovery = recovery[m]]) /\ UNCHANGED <<launched, heir, blind, mishaps>>
  <2>1. /\ [scan[m] EXCEPT !.recovery = recovery[m]] \in Scan
        /\ [scan[m] EXCEPT !.recovery = recovery[m]].pool = scan[m].pool
    BY <1>1, <1>2 DEF Scan
  <2>2. ScansFit'
    BY <1>1, <1>4, <2>1, PassFits
  <2>3. RestFits'
    BY <1>4, TypeParts DEF Launch, Relaunch, AuthLaunch, evars, RestFits
  <2> QED  BY <2>2, <2>3, TypeParts
<1>5. ASSUME NEW a \in Names, NEW n, LaunchOn(m, a, n),
             \/ \E k \in Keys : scan' = [scan EXCEPT ![m].pc = "append", ![m].recovery = k]
             \/ scan' = [scan EXCEPT ![m].pc = "append", ![m].authKey = TRUE]
      PROVE  TypeOK'
  <2>1. ScansFit'
    BY <1>1, <1>5, AppendNext
  <2>2. RestFits'
    BY <1>5, LaunchFits, TypeParts DEF Launch, Relaunch, AuthLaunch, evars, RestFits
  <2> QED  BY <2>1, <2>2, TypeParts
<1>6. CASE Launch(m)
  BY <1>1, <1>2, <1>3, <1>5, <1>6 DEF Launch
<1>7. CASE Relaunch(m)
  BY <1>1, <1>2, <1>4, <1>5, <1>7 DEF Relaunch
<1>8. CASE AuthLaunch(m)
  BY <1>1, <1>2, <1>3, <1>5, <1>8 DEF AuthLaunch, MayAuthLaunch
<1> QED  BY <1>6, <1>7, <1>8

\* Where the scan goes after a 401.
LEMMA AuthGoes ==
  ASSUME TypeOK, NEW m \in Managers, scan[m].pc = "auth",
         NEW attempts \in Nat, NEW decision, NEW suspect \in BOOLEAN,
         AuthTo(m, attempts, decision, suspect)
  PROVE  /\ ScansFit'
         /\ \/ Pass(m, scan[m])
            \/ /\ scan'[m].pc = "authflip"
               /\ decision = "escalate" \/ (decision = "recover" /\ Subject(m) = m)
               /\ scan'[m].at = scan[m].at /\ scan'[m].acct = scan[m].acct
               /\ \E s : scan' = [scan EXCEPT ![m] = s]
            \/ /\ scan'[m].pc = "authlaunch" /\ Subject(m) = m
               /\ scan'[m].at = scan[m].at
               /\ \E s : scan' = [scan EXCEPT ![m] = s]
<1> DEFINE a == scan[m].acct
           target == RecoverTarget(m, attempts, suspect)
           next == [scan[m] EXCEPT !.target = target, !.suspect = suspect]
           flips == [next EXCEPT !.pc = "authflip"]
           launches == [next EXCEPT !.pc = "authlaunch"]
           escalates == decision = "escalate" \/ (decision = "recover" /\ Subject(m) = m)
<1>1. /\ scan[m] \in Scan /\ scan[m].pool \in Names /\ a \in Names
      /\ scan[m].at \in DOMAIN Fleet(m)
  BY ScanIs
<1>2. target \in Names \union {None}
  BY <1>1 DEF RecoverTarget
<1>3. \/ Pass(m, scan[m])
      \/ scan' = [scan EXCEPT ![m] = flips] /\ escalates
      \/ scan' = [scan EXCEPT ![m] = launches] /\ Subject(m) = m
  BY DEF AuthTo, Verdict
<1>4. CASE Pass(m, scan[m])
  BY <1>1, <1>4, PassFits
<1> HIDE DEF target, escalates
<1>5. /\ ScanFits(flips, m) /\ flips.pc = "authflip" /\ flips.at = scan[m].at /\ flips.acct = a
      /\ ScanFits(launches, m) /\ launches.pc = "authlaunch" /\ launches.at = scan[m].at
  BY <1>1, <1>2 DEF ScanFits, Scan, Pcs
<1> HIDE DEF flips, launches
<1>6. CASE scan' = [scan EXCEPT ![m] = flips] /\ escalates
  <2>1. ScansFit' /\ scan'[m] = flips
    BY <1>5, <1>6, ScanChanges DEF TypeOK
  <2> QED  BY <1>5, <1>6, <2>1 DEF escalates
<1>7. CASE scan' = [scan EXCEPT ![m] = launches] /\ Subject(m) = m
  <2>1. ScansFit' /\ scan'[m] = launches
    BY <1>5, <1>7, ScanChanges DEF TypeOK
  <2> QED  BY <1>5, <1>7, <2>1
<1> QED  BY <1>3, <1>4, <1>6, <1>7

LEMMA AuthFits ==
  ASSUME TypeOK, NEW m \in Managers, Auth(m)
  PROVE  /\ TypeOK'
         /\ \/ state' = WithAuth(scan[m].acct, Subject(m))
            \/ state' = state /\ scan[m].acct \in unwritten'
         /\ \/ Pass(m, scan[m])
            \/ /\ scan'[m].pc = "authflip"
               /\ \/ /\ state' = WithAuth(scan[m].acct, Subject(m))
                     /\ Decision(scan[m].acct, Subject(m)) # "duplicate"
                  \/ scan[m].acct \in unwritten'
               /\ scan'[m].at = scan[m].at /\ scan'[m].acct = scan[m].acct
               /\ \E s : scan' = [scan EXCEPT ![m] = s]
            \/ /\ scan'[m].pc = "authlaunch" /\ Subject(m) = m
               /\ scan'[m].at = scan[m].at
               /\ \E s : scan' = [scan EXCEPT ![m] = s]
<1> DEFINE s == Subject(m)
           a == scan[m].acct
<1>1. /\ scan[m].pc = "auth" /\ scan[m] \in Scan /\ scan[m].pool \in Names /\ a \in Names
      /\ s \in Sessions
  BY ScanIs DEF Auth
<1>2. CASE /\ state' = WithAuth(a, s)
           /\ AuthTo(m, Attempts(a, s), Decision(a, s), scan[m].pool = a \/ AuthActive(scan[m].pool))
           /\ UNCHANGED <<unwritten, mishaps>>
  <2> DEFINE suspect == scan[m].pool = a \/ AuthActive(scan[m].pool)
  <2>1. state' \in State /\ Attempts(a, s) \in Nat
    BY <1>1, <1>2, RecordedIs
  <2>2. suspect \in BOOLEAN
    OBVIOUS
  <2>3. RestFits'
    BY <1>2, <2>1, TypeParts DEF Auth, evars, RestFits
  <2>4. AuthTo(m, Attempts(a, s), Decision(a, s), suspect)
    BY <1>2
  <2>5. Decision(a, s) = "escalate" \/ Decision(a, s) = "recover" => Decision(a, s) # "duplicate"
    BY DEF Decision
  <2> HIDE DEF suspect, s, a
  <2>6. ScansFit'
    BY <1>1, <2>1, <2>2, <2>4, AuthGoes
  <2>7. TypeOK'
    BY <2>3, <2>6, TypeParts
  <2> QED  BY <1>1, <1>2, <2>1, <2>2, <2>4, <2>5, <2>7, AuthGoes DEF s, a
<1>3. CASE /\ Mishap
           /\ unwritten' = unwritten \union {a}
           /\ AuthTo(m, 1, "recover", AuthActive(scan[m].pool))
           /\ UNCHANGED state
  <2> DEFINE suspect == AuthActive(scan[m].pool)
  <2>1. mishaps' \in Nat
    BY <1>3, MishapIs DEF TypeOK
  <2>2. suspect \in BOOLEAN
    BY DEF AuthActive
  <2>3. RestFits'
    BY <1>1, <1>3, <2>1, TypeParts DEF Auth, evars, RestFits
  <2>4. AuthTo(m, 1, "recover", suspect)
    BY <1>3
  <2> HIDE DEF suspect, s, a
  <2>6. ScansFit'
    BY <1>1, <2>2, <2>4, AuthGoes
  <2>7. TypeOK' /\ a \in unwritten' /\ state' = state
    BY <1>3, <2>3, <2>6, TypeParts
  <2> QED  BY <1>1, <2>2, <2>4, <2>7, AuthGoes DEF s, a
<1> QED  BY <1>2, <1>3 DEF Auth

LEMMA ScanEnds ==
  ASSUME TypeOK, NEW m \in Managers, scan' = [scan EXCEPT ![m] = NoScan]
  PROVE  ScansFit' /\ scan'[m] = NoScan
<1>1. ScanFits(NoScan, m)
  BY BoundsAre DEF ScanFits, NoScan, Scan, Pcs, NoKey, Keys, Ages
<1>2. scan'[m] = NoScan
  BY DEF TypeOK
<1> QED  BY <1>1, <1>2, ScanChanges

LEMMA EndFits ==
  ASSUME TypeOK, NEW m \in Managers, Append1(m) \/ Emit(m) \/ Die(m)
  PROVE  TypeOK'
<1>1. scan[m] \in Scan /\ scan[m].pool \in Names /\ 0 \in Ages(MaxReset - 1)
  BY ScanIs, BoundsAre DEF Append1, Emit, Die, Ages
<1>2. CASE Append1(m)
  <2>1. ScansFit'
    BY <1>1, <1>2, PassFits DEF Append1
  <2>2. ledger' \in [Managers -> SUBSET Ages(MaxReset - 1)] /\ lost' \in [Managers -> Nat]
    BY <1>1, <1>2 DEF Append1, TypeOK
  <2>3. mishaps' \in Nat
    BY <1>2, MishapIs DEF Append1, TypeOK
  <2>4. RestFits'
    BY <1>2, <2>2, <2>3, TypeParts DEF Append1, evars, RestFits
  <2> QED  BY <2>1, <2>4, TypeParts
<1>3. CASE Emit(m)
  <2>1. ScansFit'
    BY <1>3, ScanEnds DEF Emit
  <2>2. scan[m].recovery \in Keys /\ scan[m].authKey \in BOOLEAN /\ authKey[m] \in BOOLEAN
    BY <1>1 DEF Scan, TypeOK
  <2>3. mishaps' \in Nat
    BY <1>3, MishapIs DEF Emit, TypeOK
  <2>4. recovery' \in [Managers -> Keys]
    BY <1>3, <2>2 DEF Emit, TypeOK
  <2>5. authKey' \in [Managers -> BOOLEAN]
    <3>1. authKey' = [authKey EXCEPT ![m] = scan[m].authKey]
          \/ authKey' = [authKey EXCEPT ![m] = authKey[m] \/ scan[m].authKey]
      BY <1>3 DEF Emit
    <3>2. (authKey[m] \/ scan[m].authKey) \in BOOLEAN
      BY Zenon
    <3> QED  BY <2>2, <3>1, <3>2 DEF TypeOK
  <2>6. RestFits'
    BY <1>3, <2>3, <2>4, <2>5, TypeParts DEF Emit, evars, ovars, RestFits
  <2> QED  BY <2>1, <2>6, TypeParts
<1>4. CASE Die(m)
  <2>1. ScansFit'
    BY <1>4, ScanEnds DEF Die
  <2>2. mishaps' \in Nat /\ lost' \in [Managers -> Nat]
    BY <1>4, MishapIs DEF Die, TypeOK
  <2>3. RestFits'
    BY <1>4, <2>2, TypeParts DEF Die, evars, RestFits
  <2> QED  BY <2>1, <2>3, TypeParts
<1> QED  BY <1>2, <1>3, <1>4

LEMMA RespawnFits ==
  ASSUME TypeOK, NEW m \in Managers, Respawn(m)
  PROVE  /\ TypeOK' /\ UNCHANGED <<scan, wasLimited, limit, heir>>
         /\ \E w \in Sessions \ Managers, s \in Session :
               /\ session' = [session EXCEPT ![w] = s] /\ s.tail = Ok
               /\ s.stamp = s.acct \/ (s.stamp = None /\ \A a \in Names : Bricked(a))
<1>1. PICK w \in Workers(m), a \in Picks, repaired \in BOOLEAN :
          /\ session' = [session EXCEPT ![w] =
                IF a = None THEN [acct |-> Default, stamp |-> None, tail |-> Ok]
                ELSE Started(a, a \in farm \/ repaired)]
          /\ farm' = FarmAfter(a, repaired)
  BY DEF Respawn
<1>2. w \in Sessions \ Managers
  BY AccountsAssumption DEF Sessions
<1>3. a \in Names \union {None} /\ (a = None => \A b \in Names : Bricked(b))
  <2>1. PICK first \in Names, near5 \in SUBSET Names, near7 \in SUBSET Names :
            a = PickAccount(Order(first), near5 \union near7)
    BY DEF Picks
  <2> QED  BY <2>1, PickIs
<1> DEFINE s == IF a = None THEN [acct |-> Default, stamp |-> None, tail |-> Ok]
                ELSE Started(a, a \in farm \/ repaired)
<1>4. s \in Session /\ s.tail = Ok /\ (s.stamp = s.acct \/ (s.stamp = None /\ \A b \in Names : Bricked(b)))
  <2>1. CASE a = None
    <3>1. [acct |-> Default, stamp |-> None, tail |-> Ok] \in Session
      BY BoundsAre DEF Session, Ok, Tails, Ages
    <3> QED  BY <2>1, <3>1, <1>3
  <2>2. CASE a # None
    <3>1. a \in Names
      BY <1>3, <2>2
    <3> QED  BY <2>2, <3>1, StartedIs
  <2> QED  BY <2>1, <2>2
<1>5. farm' \subseteq Names
  BY <1>1, <1>3 DEF FarmAfter, TypeOK
<1>6. session' = [session EXCEPT ![w] = s]
  BY <1>1
<1> HIDE DEF s
<1>7. session' \in [Sessions -> Session]
  BY <1>2, <1>4, <1>6 DEF TypeOK
<1>8. mishaps' \in Nat
  BY MishapIs DEF Respawn, TypeOK
<1>9. TypeOK'
  BY <1>5, <1>7, <1>8 DEF Respawn, svars, ovars, TypeOK
<1>10. UNCHANGED <<scan, wasLimited, limit, heir>>
  BY DEF Respawn, svars, ovars
<1> QED  BY <1>2, <1>4, <1>6, <1>9, <1>10

LEMMA RequestFits ==
  ASSUME TypeOK, NEW s \in Sessions, Request(s)
  PROVE  TypeOK'
<1>1. session[s] \in Session /\ session[s].acct \in Names
  BY DEF TypeOK, Session
<1>2. \A kind \in {"ok", "limit", "auth"}, left \in Ages(MaxReset) :
         [session EXCEPT ![s].tail = [kind |-> kind, left |-> left]] \in [Sessions -> Session]
  BY <1>1 DEF TypeOK, Session, Tails
<1>3. 0 \in Ages(MaxReset) /\ limit[session[s].acct] \in Ages(MaxReset)
  BY <1>1, BoundsAre DEF TypeOK, Ages
<1>4. session' \in [Sessions -> Session]
  <2>1. \E kind \in {"ok", "limit", "auth"}, left \in Ages(MaxReset) :
           session' = [session EXCEPT ![s].tail = [kind |-> kind, left |-> left]]
    BY <1>3 DEF Request, Ok
  <2> QED  BY <1>2, <2>1
<1>5. state' \in State
  <2> DEFINE forgotten == [b \in Names |-> [state.auth[b] EXCEPT !.uuids = state.auth[b].uuids \ {s}]]
  <2>1. state \in State /\ state.auth \in [Names -> Episode]
    BY DEF TypeOK, State
  <2>2. forgotten \in [Names -> Episode]
    BY <2>1 DEF Episode
  <2>3. state' = state \/ state' = [state EXCEPT !.auth = forgotten]
    BY DEF Request
  <2> HIDE DEF forgotten
  <2> QED  BY <2>1, <2>2, <2>3 DEF State
<1> QED  BY <1>4, <1>5 DEF Request, svars, ovars, TypeOK

LEMMA TakeOverFits ==
  ASSUME TypeOK, NEW m \in Managers, TakeOver(m)
  PROVE  TypeOK'
<1>1. heir[m] \in Session /\ m \in Sessions /\ NoKey \in Keys
  BY BoundsAre DEF TypeOK, TakeOver, Sessions, NoKey, Keys, Ages
<1>2. /\ session' \in [Sessions -> Session] /\ heir' \in [Managers -> Session \union {None}]
      /\ ledger' \in [Managers -> SUBSET Ages(MaxReset - 1)]
      /\ launched' \in [Managers -> SUBSET Ages(MaxReset - 1)]
      /\ lost' \in [Managers -> Nat] /\ recovery' \in [Managers -> Keys]
      /\ authKey' \in [Managers -> BOOLEAN]
  BY <1>1 DEF TakeOver, TypeOK
<1> QED  BY <1>2 DEF TakeOver, TypeOK

LEMMA WorldFits ==
  ASSUME TypeOK,
         \/ \E a \in Names : HitLimit(a) \/ LoginBreaks(a) \/ LoginFixed(a) \/ Damage(a)
         \/ LockOrUnlock
  PROVE  TypeOK'
<1>1. mishaps' \in Nat
  BY MishapIs DEF TypeOK, HitLimit, LoginBreaks, LoginFixed, Damage, LockOrUnlock
<1>2. ASSUME NEW a \in Names, HitLimit(a) PROVE TypeOK'
  BY <1>1, <1>2, BoundsAre DEF HitLimit, svars, TypeOK, Ages
<1>3. ASSUME NEW a \in Names, LoginBreaks(a) \/ LoginFixed(a) \/ Damage(a) PROVE TypeOK'
  BY <1>1, <1>3 DEF LoginBreaks, LoginFixed, Damage, svars, ovars, TypeOK
<1>4. ASSUME LockOrUnlock PROVE TypeOK'
  BY <1>1, <1>4 DEF LockOrUnlock, svars, ovars, TypeOK
<1> QED  BY <1>2, <1>3, <1>4

\* A tick makes every launch older, and forgets those that a limit outlasts no more.
LEMMA AgedIs ==
  ASSUME NEW ages \in SUBSET Ages(MaxReset - 1)
  PROVE  Aged(ages) \in SUBSET Ages(MaxReset - 1) /\ 0 \notin Aged(ages)
<1>1. ASSUME NEW n \in Aged(ages) PROVE n \in Ages(MaxReset - 1) /\ n # 0
  <2>1. PICK age \in ages : n = age + 1 /\ n # MaxReset
    BY <1>1 DEF Aged
  <2> QED  BY <2>1, BoundsAre DEF Ages
<1> QED  BY <1>1

LEMMA TickFits ==
  ASSUME TypeOK, Tick
  PROVE  TypeOK'
<1>1. ledger' \in [Managers -> SUBSET Ages(MaxReset - 1)] /\ launched' \in [Managers -> SUBSET Ages(MaxReset - 1)]
  BY AgedIs DEF Tick, TypeOK
<1>2. limit' \in [Names -> Ages(MaxReset)]
  BY AgesGrow, BoundsAre DEF Tick, TypeOK
<1>3. session' \in [Sessions -> Session]
  <2> SUFFICES ASSUME NEW s \in Sessions
               PROVE  [session[s] EXCEPT !.tail.left = Sooner(@)] \in Session
    BY DEF Tick
  <2>1. session[s] \in Session /\ session[s].tail \in Tails
    BY DEF TypeOK, Session
  <2>2. Sooner(session[s].tail.left) \in Ages(MaxReset)
    BY <2>1, AgesGrow, BoundsAre DEF Tails
  <2>3. [session[s].tail EXCEPT !.left = Sooner(session[s].tail.left)] \in Tails
    BY <2>1, <2>2 DEF Tails
  <2>4. [session[s] EXCEPT !.tail.left = Sooner(@)]
        = [session[s] EXCEPT !.tail = [session[s].tail EXCEPT !.left = Sooner(session[s].tail.left)]]
    OBVIOUS
  <2> QED  BY <2>1, <2>3, <2>4 DEF Session
<1>4. state' \in State
  <2>1. state \in State
    BY DEF TypeOK
  <2>2. \A a \in Names : /\ Sooner(state.blocked[a]) \in Ages(MaxReset)
                         /\ Older(state.seen[a], EpisodeGap + 1) \in Ages(EpisodeGap + 1)
    BY <2>1, AgesGrow, BoundsAre DEF State
  <2>3. ASSUME NEW a \in Names
        PROVE  (IF state.auth[a].seen >= AuthWindow
                THEN [NoEpisode EXCEPT !.distinct = Older(state.auth[a].distinct, AuthWindow + 1)]
                ELSE [state.auth[a] EXCEPT !.seen = @ + 1, !.distinct = Older(@, AuthWindow + 1)])
               \in Episode
    <3>1. state.auth[a] \in Episode /\ state.auth[a].seen \in Nat
      BY <2>1 DEF State, Episode, Ages
    <3>2. Older(state.auth[a].distinct, AuthWindow + 1) \in Ages(AuthWindow + 1)
      BY <3>1, AgesGrow, BoundsAre DEF Episode
    <3>3. NoEpisode \in Episode
      BY BoundsAre DEF NoEpisode, Episode, Ages
    <3>4. state.auth[a].seen < AuthWindow => state.auth[a].seen + 1 \in Ages(AuthWindow + 1)
      BY <3>1, BoundsAre DEF Ages
    <3>5. [NoEpisode EXCEPT !.distinct = Older(state.auth[a].distinct, AuthWindow + 1)] \in Episode
      BY <3>2, <3>3 DEF Episode
    <3>6. CASE state.auth[a].seen < AuthWindow
      <4>1. [state.auth[a] EXCEPT !.seen = @ + 1, !.distinct = Older(@, AuthWindow + 1)] \in Episode
        BY <3>1, <3>2, <3>4, <3>6 DEF Episode
      <4> QED  BY <3>5, <4>1
    <3>7. CASE ~(state.auth[a].seen < AuthWindow)
      BY <3>1, <3>5, <3>7, BoundsAre
    <3> QED  BY <3>6, <3>7
  <2>4. [age |-> Older(state.flip.age, MaxReset),
         to |-> IF state.flip.age >= MaxReset - 1 THEN None ELSE state.flip.to]
        \in [age : Ages(MaxReset), to : Names \union {None}]
    BY <2>1, AgesGrow, BoundsAre DEF State
  <2> QED  BY <2>2, <2>3, <2>4 DEF Tick, State
<1>5. recovery' \in [Managers -> Keys]
  <2> SUFFICES ASSUME NEW m \in Managers
               PROVE  (IF recovery[m].there
                        THEN [recovery[m] EXCEPT !.at = Older(@, TakeoverGuard + 1)] ELSE NoKey) \in Keys
    BY DEF Tick
  <2>1. recovery[m] \in Keys /\ NoKey \in Keys
    BY BoundsAre DEF TypeOK, NoKey, Keys, Ages
  <2>2. Older(recovery[m].at, TakeoverGuard + 1) \in Ages(TakeoverGuard + 1)
    BY <2>1, AgesGrow, BoundsAre DEF Keys
  <2> QED  BY <2>1, <2>2 DEF Keys
<1>6. flip' \in [age : Ages(MaxReset), noted : BOOLEAN]
  BY AgesGrow, BoundsAre DEF Tick, TypeOK
<1> QED  BY <1>1, <1>2, <1>3, <1>4, <1>5, <1>6 DEF Tick, TypeOK

LEMMA TypeStep ==
  ASSUME TypeOK, Next
  PROVE  TypeOK'
<1>1. ASSUME NEW m \in Managers, ScanStep(m) PROVE TypeOK'
  BY <1>1, StartFits, BrickFits, FlipStepFits, LaunchStepFits, AuthFits, EndFits DEF ScanStep
<1>2. ASSUME NEW m \in Managers, Die(m) \/ Respawn(m) \/ TakeOver(m) PROVE TypeOK'
  BY <1>2, EndFits, RespawnFits, TakeOverFits
<1>3. ASSUME NEW s \in Busy, Request(s) PROVE TypeOK'
  BY <1>3, RequestFits, AccountsAssumption
<1>4. CASE Tick
  BY <1>4, TickFits
<1> QED  BY <1>1, <1>2, <1>3, <1>4, WorldFits DEF Next

LEMMA TypeHolds == Spec => []TypeOK
<1>1. TypeOK /\ UNCHANGED vars => TypeOK'
  BY DEF TypeOK, vars, svars, evars, ovars
<1> QED  BY <1>1, TypeInit, TypeStep, PTL DEF Spec

-----------------------------------------------------------------------------
(* How scans and sessions move *)

\* What a step makes of the scan of loop m: nothing, its end, the look at its
\* next session, or the next thing to do about the one at hand.
ScanMove(m) ==
    \/ scan'[m] \in {scan[m], NoScan}
    \/ Start(m) /\ Looks(m, scan'[m], pointer, 1)
    \/ scan[m].pc \notin {"off", "emit"} /\ Looks(m, scan'[m], scan[m].pool, scan[m].at + 1)
    \/ Brick(m) /\ scan'[m].pc = "flip" /\ scan'[m].acct = scan[m].acct /\ scan'[m].at = scan[m].at
    \/ /\ Auth(m) /\ scan'[m].pc = "authflip" /\ scan'[m].acct = scan[m].acct /\ scan'[m].at = scan[m].at
       /\ \/ /\ state' = WithAuth(scan[m].acct, Subject(m))
             /\ Decision(scan[m].acct, Subject(m)) # "duplicate"
          \/ scan[m].acct \in unwritten'
    \/ /\ scan[m].pc \in {"brick", "flip", "auth", "authflip"} /\ Subject(m) = m
       /\ scan'[m].pc \in {"launch", "relaunch", "authlaunch"} /\ scan'[m].at = scan[m].at
    \/ Launching(m) /\ scan'[m].pc = "append"

\* Only the loop's own steps move its scan.
LEMMA OthersScan ==
  ASSUME TypeOK, NEW m \in Managers, NEW n \in Managers, m # n,
         ScanStep(n) \/ Die(n)
  PROVE  scan'[m] = scan[m]
<1>1. \A s : scan' = [scan EXCEPT ![n] = s] => scan'[m] = scan[m]
  BY DEF TypeOK
<1>2. CASE \E s : scan' = [scan EXCEPT ![n] = s]
  BY <1>1, <1>2
<1>3. ASSUME NEW next, Pass(n, next) PROVE scan'[m] = scan[m]
  BY <1>3 DEF Pass, TypeOK
<1>4. ASSUME NEW pc, To(n, pc) PROVE scan'[m] = scan[m]
  BY <1>4 DEF To, TypeOK
<1>5. CASE Start(n) \/ Emit(n) \/ Die(n)
  BY <1>5 DEF Start, Emit, Die, TypeOK
<1>6. CASE Brick(n)
  BY <1>3, <1>4, <1>6 DEF Brick, AfterBrick
<1>7. CASE Flip(n) \/ AuthFlip(n)
  BY <1>3, <1>7 DEF Flip, AuthFlip, TypeOK
<1>8. CASE Launch(n) \/ Relaunch(n) \/ AuthLaunch(n)
  BY <1>3, <1>8 DEF Launch, Relaunch, AuthLaunch, TypeOK
<1>9. CASE Append1(n)
  BY <1>3, <1>9 DEF Append1
<1>10. CASE Auth(n)
  BY <1>2, <1>3, <1>10, AuthFits
<1> QED  BY <1>5, <1>6, <1>7, <1>8, <1>9, <1>10 DEF ScanStep

\* Its own ones.
LEMMA OwnScan ==
  ASSUME TypeOK, NEW m \in Managers, ScanStep(m) \/ Die(m)
  PROVE  ScanMove(m)
<1>1. scan[m] \in Scan /\ (scan[m].pc # "off" => scan[m].pool \in Names)
  BY ScanIs
<1>2. ASSUME Pass(m, scan[m]), scan[m].pc \notin {"off", "emit"} PROVE ScanMove(m)
  BY <1>1, <1>2, PassFits DEF ScanMove
<1>3. ASSUME Pass(m, [scan[m] EXCEPT !.recovery = recovery[m]]), scan[m].pc \notin {"off", "emit"} PROVE ScanMove(m)
  <2> DEFINE next == [scan[m] EXCEPT !.recovery = recovery[m]]
  <2>1. next \in Scan /\ next.pool = scan[m].pool /\ next.at = scan[m].at
    BY <1>1 DEF Scan, TypeOK
  <2> HIDE DEF next
  <2>2. Pass(m, next)
    BY <1>3 DEF next
  <2> QED  BY <1>1, <1>3, <2>1, <2>2, PassFits DEF ScanMove
<1>4. CASE Start(m)
  BY <1>4, StartFits DEF ScanMove
<1>5. CASE Emit(m) \/ Die(m)
  <2>1. scan'[m] = NoScan
    BY <1>5 DEF Emit, Die, TypeOK
  <2> QED  BY <2>1 DEF ScanMove
<1>6. CASE Brick(m)
  <2>1. scan[m].pc = "brick"
    BY <1>6 DEF Brick
  <2>2. ASSUME NEW pc, To(m, pc) PROVE scan'[m].pc = pc /\ scan'[m].acct = scan[m].acct /\ scan'[m].at = scan[m].at
    BY <1>1, <2>2 DEF To, TypeOK, Scan
  <2>3. CASE Subject(m) # m
    BY <1>6, <2>2, <2>3 DEF Brick, AfterBrick, ScanMove
  <2>4. CASE Subject(m) = m
    BY <1>3, <1>6, <2>1, <2>2, <2>4 DEF Brick, AfterBrick, ScanMove
  <2> QED  BY <2>3, <2>4
<1>7. CASE Flip(m)
  <2>1. scan[m].pc = "flip"
    BY <1>7 DEF Flip
  <2>2. ASSUME NEW t, scan' = [scan EXCEPT ![m].pc = "launch", ![m].target = t]
        PROVE  scan'[m].pc = "launch" /\ scan'[m].at = scan[m].at
    BY <1>1, <2>2 DEF TypeOK, Scan
  <2> QED  BY <1>2, <1>7, <2>1, <2>2 DEF Flip, ScanMove
<1>8. CASE AuthFlip(m)
  <2>1. scan[m].pc = "authflip"
    BY <1>8 DEF AuthFlip
  <2>2. ASSUME NEW t, scan' = [scan EXCEPT ![m].pc = "authlaunch", ![m].target = t]
        PROVE  scan'[m].pc = "authlaunch" /\ scan'[m].at = scan[m].at
    BY <1>1, <2>2 DEF TypeOK, Scan
  <2> QED  BY <1>2, <1>8, <2>1, <2>2 DEF AuthFlip, ScanMove
<1>9. CASE Launch(m) \/ Relaunch(m) \/ AuthLaunch(m)
  <2>1. Launching(m) /\ scan[m].pc \notin {"off", "emit"} /\ Key \in Keys /\ [recovery[m] EXCEPT !.relaunched = TRUE] \in Keys
    <3>1. Key \in Keys
      BY BoundsAre DEF Key, Keys, Ages
    <3>2. [recovery[m] EXCEPT !.relaunched = TRUE] \in Keys
      <4>1. recovery[m] \in Keys
        BY DEF TypeOK
      <4> QED  BY <4>1 DEF Keys
    <3> QED  BY <1>9, <3>1, <3>2 DEF Launch, Relaunch, AuthLaunch, Launching
  <2>2. \/ Pass(m, scan[m]) \/ Pass(m, [scan[m] EXCEPT !.recovery = recovery[m]])
        \/ \E k \in Keys : scan' = [scan EXCEPT ![m].pc = "append", ![m].recovery = k]
        \/ scan' = [scan EXCEPT ![m].pc = "append", ![m].authKey = TRUE]
    BY <1>9, <2>1 DEF Launch, Relaunch, AuthLaunch
  <2> QED  BY <1>2, <1>3, <2>1, <2>2, AppendNext DEF ScanMove
<1>10. CASE Append1(m)
  BY <1>2, <1>10 DEF Append1
<1>11. CASE Auth(m)
  BY <1>2, <1>11, AuthFits DEF ScanMove, Auth
<1> QED  BY <1>4, <1>5, <1>6, <1>7, <1>8, <1>9, <1>10, <1>11 DEF ScanStep

\* Between the scans nothing else moves them.
LEMMA ScanMoves ==
  ASSUME TypeOK, Next, NEW m \in Managers
  PROVE  ScanMove(m)
<1>1. ASSUME NEW n \in Managers, ScanStep(n) \/ Die(n) PROVE ScanMove(m)
  BY <1>1, OthersScan, OwnScan DEF ScanMove
<1>2. ASSUME NEW n \in Managers, Respawn(n) \/ TakeOver(n) PROVE ScanMove(m)
  BY <1>2 DEF Respawn, TakeOver, svars, ScanMove
<1>3. ASSUME NEW s \in Busy, Request(s) PROVE ScanMove(m)
  BY <1>3 DEF Request, svars, ScanMove
<1>4. ASSUME NEW a \in Names, HitLimit(a) \/ LoginBreaks(a) \/ LoginFixed(a) \/ Damage(a) PROVE ScanMove(m)
  BY <1>4 DEF HitLimit, LoginBreaks, LoginFixed, Damage, svars, ScanMove
<1>5. CASE LockOrUnlock \/ Tick
  BY <1>5 DEF LockOrUnlock, Tick, svars, ScanMove
<1> QED  BY <1>1, <1>2, <1>3, <1>4, <1>5 DEF Next

-----------------------------------------------------------------------------
(* Flips *)

\* What a scan knows of an account it is about to leave, and what the note of
\* the last flip says.
FlipInv ==
    /\ flip.noted => flip.age = state.flip.age
    /\ \A m \in Managers :
          /\ scan[m].pc = "flip" => Bricked(scan[m].acct) \/ scan[m].acct \in unwritten
          /\ scan[m].pc = "authflip" => AuthActive(scan[m].acct) \/ scan[m].acct \in unwritten

\* Records of limits and failures go only with time.
LEMMA RecordsStay ==
  ASSUME TypeOK, Next, ~Tick, NEW a \in Names
  PROVE  (Bricked(a) => Bricked(a)') /\ (AuthActive(a) => AuthActive(a)')
<1>1. state \in State /\ (state' = state => Bricked(a)' = Bricked(a) /\ AuthActive(a)' = AuthActive(a))
  BY DEF TypeOK, Bricked, AuthActive
<1>2. ASSUME NEW m \in Managers, Brick(m) PROVE (Bricked(a) => Bricked(a)') /\ (AuthActive(a) => AuthActive(a)')
  <2>1. scan[m].acct \in Names
    BY <1>2, ScanIs DEF Brick
  <2> DEFINE left == session[Subject(m)].tail.left
             b == scan[m].acct
  <2>2. state' = WithBrick(b, left) \/ state' = state
    BY <1>2 DEF Brick, Record
  <2> HIDE DEF left, b
  <2>3. state' = WithBrick(b, left) =>
        /\ state'.auth = state.auth
        /\ state'.blocked = [state.blocked EXCEPT ![b] =
              IF left > 0 THEN left ELSE IF ~Bricked(b) \/ state.seen[b] > EpisodeGap THEN MaxReset ELSE @]
    BY <1>1 DEF WithBrick, State
  <2>4. CASE state' = WithBrick(b, left)
    BY <1>1, <2>3, <2>4, BoundsAre DEF State, Bricked, AuthActive
  <2> QED  BY <1>1, <2>2, <2>4
<1>3. ASSUME NEW m \in Managers, Flip(m) \/ AuthFlip(m)
      PROVE  (Bricked(a) => Bricked(a)') /\ (AuthActive(a) => AuthActive(a)')
  <2>1. state' = state \/ state' = [state EXCEPT !.flip = [age |-> 0, to |-> FlipTarget]]
    BY <1>3 DEF Flip, AuthFlip, MaybeFlip
  <2>2. state'.blocked = state.blocked /\ state'.auth = state.auth
    BY <1>1, <2>1 DEF State
  <2> QED  BY <2>2 DEF Bricked, AuthActive
<1>4. ASSUME NEW m \in Managers, Auth(m) PROVE (Bricked(a) => Bricked(a)') /\ (AuthActive(a) => AuthActive(a)')
  <2> DEFINE b == scan[m].acct
             s == Subject(m)
  <2>1. (state' = WithAuth(b, s) \/ state' = state) /\ b \in Names
    BY <1>4, AuthFits, ScanIs DEF Auth
  <2> HIDE DEF b, s
  <2>2. state'.blocked = state.blocked /\ state'.auth[a].distinct \in {state.auth[a].distinct, 0}
    BY <1>1, <2>1 DEF WithAuth, State, Episode
  <2> QED  BY <2>2, BoundsAre DEF Bricked, AuthActive
<1>5. ASSUME NEW s \in Busy, Request(s) PROVE (Bricked(a) => Bricked(a)') /\ (AuthActive(a) => AuthActive(a)')
  <2>1. state'.blocked = state.blocked /\ state'.auth[a].distinct = state.auth[a].distinct
    BY <1>1, <1>5 DEF Request, State, Episode
  <2> QED  BY <2>1 DEF Bricked, AuthActive
<1>6. ASSUME NEW m \in Managers,
             \/ Start(m) \/ Launch(m) \/ Relaunch(m) \/ Append1(m) \/ AuthLaunch(m) \/ Emit(m)
             \/ Die(m) \/ Respawn(m) \/ TakeOver(m)
      PROVE  state' = state
  BY <1>6 DEF Start, Launch, Relaunch, Append1, AuthLaunch, Emit, Die, Respawn, TakeOver
<1>7. ASSUME LockOrUnlock \/ \E b \in Names : HitLimit(b) \/ LoginBreaks(b) \/ LoginFixed(b) \/ Damage(b)
      PROVE  state' = state
  BY <1>7 DEF HitLimit, LoginBreaks, LoginFixed, Damage, LockOrUnlock
<1> QED  BY <1>1, <1>2, <1>3, <1>4, <1>5, <1>6, <1>7 DEF Next, ScanStep

\* The last flip and its note.
LEMMA NotesAgree ==
  ASSUME TypeOK, Next, flip.noted => flip.age = state.flip.age
  PROVE  flip'.noted => flip'.age = state'.flip.age
<1>1. state \in State /\ flip \in [age : Ages(MaxReset), noted : BOOLEAN]
  BY DEF TypeOK
<1>2. CASE flip' = flip /\ state'.flip = state.flip
  BY <1>2
<1>3. ASSUME NEW a, MaybeFlip(a) PROVE flip'.noted => flip'.age = state'.flip.age
  BY <1>1, <1>3 DEF MaybeFlip, State
<1>4. ASSUME NEW m \in Managers, ScanStep(m) PROVE flip'.noted => flip'.age = state'.flip.age
  <2>1. CASE Flip(m) \/ AuthFlip(m)
    BY <1>3, <2>1 DEF Flip, AuthFlip
  <2>2. CASE Brick(m)
    <3>1. flip' = flip /\ (state' = state \/ \E a, left : state' = WithBrick(a, left))
      BY <2>2 DEF Brick, Record
    <3> QED  BY <1>1, <1>2, <3>1 DEF WithBrick, State
  <2>3. CASE Auth(m)
    <3>1. flip' = flip /\ (state' = state \/ \E a, s : state' = WithAuth(a, s))
      BY <2>3 DEF Auth
    <3> QED  BY <1>1, <1>2, <3>1 DEF WithAuth, State
  <2>4. CASE Start(m) \/ Launch(m) \/ Relaunch(m) \/ Append1(m) \/ AuthLaunch(m) \/ Emit(m)
    BY <1>2, <2>4 DEF Start, Launch, Relaunch, Append1, AuthLaunch, Emit, ovars
  <2> QED  BY <1>4, <2>1, <2>2, <2>3, <2>4 DEF ScanStep
<1>5. ASSUME NEW m \in Managers, Die(m) \/ Respawn(m) \/ TakeOver(m) PROVE flip' = flip /\ state'.flip = state.flip
  BY <1>5 DEF Die, Respawn, TakeOver, ovars
<1>6. ASSUME NEW s \in Busy, Request(s) PROVE flip' = flip /\ state'.flip = state.flip
  BY <1>1, <1>6 DEF Request, State, ovars
<1>7. ASSUME LockOrUnlock \/ \E b \in Names : HitLimit(b) \/ LoginBreaks(b) \/ LoginFixed(b) \/ Damage(b)
      PROVE  flip' = flip /\ state'.flip = state.flip
  BY <1>7 DEF HitLimit, LoginBreaks, LoginFixed, Damage, LockOrUnlock, ovars
<1>8. CASE Tick
  <2>1. flip'.noted = flip.noted /\ flip'.age = Older(flip.age, MaxReset)
        /\ state'.flip.age = Older(state.flip.age, MaxReset)
    BY <1>1, <1>8 DEF Tick
  <2> QED  BY <2>1
<1> QED  BY <1>2, <1>4, <1>5, <1>6, <1>7, <1>8 DEF Next

\* What could not be recorded is forgotten with the tick.
LEMMA UnwrittenStays ==
  ASSUME Next, ~Tick
  PROVE  unwritten \subseteq unwritten'
<1>1. ASSUME NEW m \in Managers, ScanStep(m) PROVE unwritten \subseteq unwritten'
  BY <1>1 DEF ScanStep, Start, Brick, Record, Flip, Launch, Relaunch, Append1, Auth, AuthFlip,
              AuthLaunch, Emit, ovars
<1>2. ASSUME NEW m \in Managers, Die(m) \/ Respawn(m) \/ TakeOver(m) PROVE unwritten \subseteq unwritten'
  BY <1>2 DEF Die, Respawn, TakeOver, ovars
<1>3. ASSUME NEW s \in Busy, Request(s) PROVE unwritten \subseteq unwritten'
  BY <1>3 DEF Request, ovars
<1>4. ASSUME LockOrUnlock \/ \E b \in Names : HitLimit(b) \/ LoginBreaks(b) \/ LoginFixed(b) \/ Damage(b)
      PROVE  unwritten \subseteq unwritten'
  BY <1>4 DEF HitLimit, LoginBreaks, LoginFixed, Damage, LockOrUnlock, ovars
<1> QED  BY <1>1, <1>2, <1>3, <1>4 DEF Next

LEMMA FlipStep ==
  ASSUME TypeOK, FlipInv, Next
  PROVE  FlipInv'
<1>1. flip'.noted => flip'.age = state'.flip.age
  BY NotesAgree DEF FlipInv
<1>2. ASSUME NEW m \in Managers
      PROVE  /\ scan'[m].pc = "flip" =>
                    state'.blocked[scan'[m].acct] > 0 \/ scan'[m].acct \in unwritten'
             /\ scan'[m].pc = "authflip" =>
                    \/ state'.auth[scan'[m].acct].distinct <= AuthWindow
                    \/ scan'[m].acct \in unwritten'
  <2>1. CASE scan'[m] = scan[m] /\ scan[m].pc \in {"flip", "authflip"}
    <3>1. ~Tick /\ scan[m].acct \in Names
      BY <2>1, ScanIs DEF Tick, Quiet
    <3> DEFINE b == scan[m].acct
    <3>2. (Bricked(b) => state'.blocked[b] > 0) /\ (AuthActive(b) => state'.auth[b].distinct <= AuthWindow)
      <4> HIDE DEF b
      <4>1. b \in Names
        BY <3>1 DEF b
      <4> QED  BY <3>1, <4>1, RecordsStay DEF Bricked, AuthActive
    <3> QED  BY <2>1, <3>1, <3>2, UnwrittenStays DEF FlipInv
  <2>2. CASE Brick(m) /\ scan'[m].pc = "flip" /\ scan'[m].acct = scan[m].acct
    <3> DEFINE left == session[Subject(m)].tail.left
               b == scan[m].acct
    <3>1. /\ state' = WithBrick(b, left) \/ b \in unwritten'
          /\ b \in Names /\ left \in Ages(MaxReset)
      <4>1. scan[m].pc = "brick"
        BY <2>2 DEF Brick
      <4>2. Subject(m) \in Sessions /\ b \in Names
        BY <4>1, ScanIs
      <4> QED  BY <2>2, <4>2 DEF Brick, Record, TypeOK, Session, Tails
    <3> HIDE DEF left, b
    <3>2. state' = WithBrick(b, left) =>
          state'.blocked[b] = IF left > 0 THEN left
                              ELSE IF ~Bricked(b) \/ state.seen[b] > EpisodeGap THEN MaxReset ELSE state.blocked[b]
      BY <3>1 DEF WithBrick, TypeOK, State
    <3>3. state'.blocked[b] > 0 \/ b \in unwritten'
      BY <3>1, <3>2, BoundsAre DEF Bricked, Ages
    <3> QED  BY <2>2, <3>3 DEF b
  <2>3. CASE /\ Auth(m) /\ scan'[m].pc = "authflip" /\ scan'[m].acct = scan[m].acct
             /\ \/ /\ state' = WithAuth(scan[m].acct, Subject(m))
                   /\ Decision(scan[m].acct, Subject(m)) # "duplicate"
                \/ scan[m].acct \in unwritten'
    <3> DEFINE b == scan[m].acct
               s == Subject(m)
    <3>1. b \in Names /\ (b \in unwritten' \/ (state' = WithAuth(b, s) /\ ~SameEvent(b, s)))
      BY <2>3, ScanIs DEF Auth, Decision
    <3> HIDE DEF b, s
    <3>2. state'.auth[b].distinct = 0 \/ b \in unwritten'
      <4>1. state \in State
        BY DEF TypeOK
      <4> QED  BY <3>1, <4>1 DEF WithAuth, State
    <3> QED  BY <2>3, <3>2, BoundsAre DEF b
  <2> QED  BY <2>1, <2>2, <2>3, ScanMoves DEF ScanMove, Looks, NoScan
<1> QED  BY <1>1, <1>2 DEF FlipInv, Bricked, AuthActive

LEMMA FlipHolds == Spec => []FlipInv
<1>1. Init => FlipInv
  BY DEF Init, FlipInv, NoScan
<1>2. FlipInv /\ UNCHANGED vars => FlipInv'
  BY DEF FlipInv, Bricked, AuthActive, vars, svars, ovars
<1> QED  BY <1>1, <1>2, FlipStep, TypeHolds, PTL DEF Spec

\* The account of the pool changes only from one that is recorded as stopped,
\* or that could not be recorded when a scan met it, to one that is not on
\* record, and not twice within the cooldown unless the note of the flip failed
\* (_maybe_flip_account and _record_brick, stale_monitor.py:364 and 299).
THEOREM FlipsStaySane == Spec => FlipsAreSane
<1> DEFINE Sane == pointer' # pointer =>
              /\ Bricked(pointer) \/ AuthActive(pointer) \/ pointer \in unwritten
              /\ ~Bricked(pointer') /\ ~AuthActive(pointer')
              /\ flip.age >= Cooldown \/ ~flip.noted
<1>1. ASSUME TypeOK, FlipInv, Next, pointer' # pointer PROVE Sane
  <2>1. PICK m \in Managers : Flip(m) \/ AuthFlip(m)
    <3>1. ASSUME NEW m \in Managers, ScanStep(m), ~Flip(m), ~AuthFlip(m) PROVE pointer' = pointer
      BY <3>1 DEF ScanStep, Start, Brick, Launch, Relaunch, Append1, Auth, AuthLaunch, Emit
    <3>2. ASSUME NEW m \in Managers, Die(m) \/ Respawn(m) \/ TakeOver(m) PROVE pointer' = pointer
      BY <3>2 DEF Die, Respawn, TakeOver
    <3>3. ASSUME NEW s \in Busy, Request(s) PROVE pointer' = pointer
      BY <3>3 DEF Request
    <3>4. ASSUME Tick \/ LockOrUnlock
                 \/ \E b \in Names : HitLimit(b) \/ LoginBreaks(b) \/ LoginFixed(b) \/ Damage(b)
          PROVE  pointer' = pointer
      BY <3>4 DEF HitLimit, LoginBreaks, LoginFixed, Damage, LockOrUnlock, Tick
    <3> QED  BY <1>1, <3>1, <3>2, <3>3, <3>4 DEF Next
  <2>2. scan[m].pc \in {"flip", "authflip"} /\ MaybeFlip(scan[m].acct) /\ MayFlip(scan[m].acct)
    BY <1>1, <2>1 DEF Flip, AuthFlip, MaybeFlip
  <2>3. pointer = scan[m].acct /\ state.flip.age >= Cooldown /\ pointer' = FlipTarget /\ FlipTarget # None
    BY <2>2 DEF MayFlip, MaybeFlip
  <2>4. Bricked(pointer) \/ AuthActive(pointer) \/ pointer \in unwritten
    BY <1>1, <2>2, <2>3 DEF FlipInv
  <2>5. ~Bricked(pointer') /\ ~AuthActive(pointer')
    BY <2>3, TargetIs
  <2>6. flip.age >= Cooldown \/ ~flip.noted
    BY <1>1, <2>3 DEF FlipInv
  <2> QED  BY <2>4, <2>5, <2>6
<1>2. UNCHANGED vars => Sane
  BY DEF vars
<1>3. TypeOK /\ FlipInv /\ [Next]_vars => [Sane]_vars
  BY <1>1, <1>2 DEF vars
<1> QED  BY <1>3, TypeHolds, FlipHolds, PTL DEF Spec, FlipsAreSane

-----------------------------------------------------------------------------
(* Limits *)

\* Where the records of limits come from: limits that were there, and
\* sessions whose account is not known.
EarnedInv ==
    /\ \A a \in Names : limit[a] > 0 \/ Bricked(a) => a \in wasLimited
    /\ \A s \in Sessions :
          /\ session[s].tail.kind = "limit" => session[s].acct \in wasLimited
          /\ session[s].stamp \in {None, session[s].acct}
          /\ s \notin Managers /\ session[s].stamp = None => Names \subseteq wasLimited
    /\ \A m \in Managers :
          /\ heir[m] # None => heir[m].stamp = heir[m].acct /\ heir[m].tail = Ok
          /\ scan[m].pc = "brick" => \/ scan[m].acct \in wasLimited
                                     \/ scan[m].at = 1 /\ session[m].stamp = None

\* An account that was limited remains one that was.
LEMMA WasStays ==
  ASSUME Next
  PROVE  wasLimited \subseteq wasLimited'
<1>1. ASSUME NEW m \in Managers, ScanStep(m) \/ Die(m) \/ Respawn(m) \/ TakeOver(m) PROVE wasLimited \subseteq wasLimited'
  BY <1>1 DEF ScanStep, Start, Brick, Flip, Launch, Relaunch, Append1, Auth, AuthFlip, AuthLaunch, Emit,
              Die, Respawn, TakeOver, ovars
<1>2. ASSUME NEW s \in Busy, Request(s) PROVE wasLimited \subseteq wasLimited'
  BY <1>2 DEF Request, ovars
<1>3. ASSUME Tick \/ LockOrUnlock
             \/ \E b \in Names : HitLimit(b) \/ LoginBreaks(b) \/ LoginFixed(b) \/ Damage(b)
      PROVE  wasLimited \subseteq wasLimited'
  BY <1>3 DEF HitLimit, LoginBreaks, LoginFixed, Damage, LockOrUnlock, Tick, ovars
<1> QED  BY <1>1, <1>2, <1>3 DEF Next

\* What a step makes of a session: it lives on as it was, its manager is
\* replaced, or it is a worker that is started again.
SessionMove(s) ==
    \/ /\ session'[s].acct = session[s].acct /\ session'[s].stamp = session[s].stamp
       /\ session'[s].tail.kind = "limit" => session[s].tail.kind = "limit" \/ limit[session[s].acct] > 0
    \/ s \in Managers /\ scan[s].pc = "off" /\ heir[s] # None /\ session'[s] = heir[s]
    \/ /\ s \notin Managers /\ session'[s].tail = Ok
       /\ session'[s].stamp = session'[s].acct \/ (session'[s].stamp = None /\ \A a \in Names : Bricked(a))

LEMMA SessionMoves ==
  ASSUME TypeOK, Next, NEW s \in Sessions
  PROVE  SessionMove(s)
<1>1. session \in [Sessions -> Session] /\ (session' = session => SessionMove(s))
  BY DEF TypeOK, SessionMove
<1>2. ASSUME NEW m \in Managers, ScanStep(m) \/ Die(m) PROVE session' = session
  BY <1>2 DEF ScanStep, Start, Brick, Flip, Launch, Relaunch, Append1, Auth, AuthFlip, AuthLaunch, Emit,
              Die, evars
<1>3. ASSUME NEW m \in Managers, Respawn(m) PROVE SessionMove(s)
  BY <1>1, <1>3, RespawnFits DEF SessionMove
<1>4. ASSUME NEW m \in Managers, TakeOver(m) PROVE SessionMove(s)
  <2>1. m \in Sessions
    BY DEF Sessions
  <2> QED  BY <1>1, <1>4, <2>1 DEF TakeOver, SessionMove
<1>5. ASSUME NEW t \in Busy, Request(t) PROVE SessionMove(s)
  <2>1. \E e \in Tails : /\ session' = [session EXCEPT ![t].tail = e]
                         /\ e.kind = "limit" => limit[session[t].acct] > 0
    <3>1. t \in Sessions /\ session[t].acct \in Names
      BY AccountsAssumption, <1>1 DEF Session
    <3>2. 0 \in Ages(MaxReset) /\ limit[session[t].acct] \in Ages(MaxReset)
      BY <3>1, BoundsAre DEF TypeOK, Ages
    <3>3. \A k \in {"ok", "limit", "auth"}, l \in Ages(MaxReset) : [kind |-> k, left |-> l] \in Tails
      BY DEF Tails
    <3>4. CASE limit[session[t].acct] > 0
      <4>1. \E l \in Ages(MaxReset) : session' = [session EXCEPT ![t].tail = [kind |-> "limit", left |-> l]]
        BY <1>5, <3>2, <3>4 DEF Request
      <4> QED  BY <3>3, <3>4, <4>1
    <3>5. CASE ~(limit[session[t].acct] > 0)
      <4>1. \E k \in {"ok", "auth"} : session' = [session EXCEPT ![t].tail = [kind |-> k, left |-> 0]]
        BY <1>5, <3>5 DEF Request, Ok
      <4> QED  BY <3>2, <3>3, <4>1
    <3> QED  BY <3>4, <3>5
  <2> QED  BY <1>1, <2>1 DEF SessionMove, Session
<1>6. CASE Tick
  <2>1. session'[s] = [session[s] EXCEPT !.tail.left = Sooner(@)]
    BY <1>6 DEF Tick
  <2> QED  BY <1>1, <2>1 DEF SessionMove, Session, Tails
<1>7. ASSUME LockOrUnlock \/ \E b \in Names : HitLimit(b) \/ LoginBreaks(b) \/ LoginFixed(b) \/ Damage(b)
      PROVE  session' = session
  BY <1>7 DEF HitLimit, LoginBreaks, LoginFixed, Damage, LockOrUnlock
<1> QED  BY <1>1, <1>2, <1>3, <1>4, <1>5, <1>6, <1>7 DEF Next

\* New limits and records of them.
LEMMA NewRecords ==
  ASSUME TypeOK, Next, NEW a \in Names
  PROVE  /\ limit'[a] > 0 => limit[a] > 0 \/ a \in wasLimited'
         /\ state'.blocked[a] > 0 => \/ Bricked(a)
                                     \/ \E m \in Managers : Brick(m) /\ scan[m].acct = a
<1>1. state \in State /\ limit \in [Names -> Ages(MaxReset)]
  BY DEF TypeOK
<1>2. CASE Tick
  <2>1. limit'[a] = Sooner(limit[a]) /\ state'.blocked[a] = Sooner(state.blocked[a])
    BY <1>2 DEF Tick
  <2>2. limit[a] \in Nat /\ state.blocked[a] \in Nat
    BY <1>1 DEF State, Ages
  <2> QED  BY <2>1, <2>2 DEF Sooner, Bricked
<1>3. ASSUME NEW m \in Managers, Brick(m)
      PROVE  limit' = limit /\ (state'.blocked[a] > 0 => Bricked(a) \/ scan[m].acct = a)
  <2> DEFINE left == session[Subject(m)].tail.left
             b == scan[m].acct
  <2>1. state' = WithBrick(b, left) \/ state' = state
    BY <1>3 DEF Brick, Record
  <2> HIDE DEF left, b
  <2>2. a # b => state'.blocked[a] = state.blocked[a]
    BY <1>1, <2>1 DEF WithBrick, State
  <2> QED  BY <1>3, <2>2 DEF Brick, evars, Bricked, b
<1>4. ASSUME NEW m \in Managers, Flip(m) \/ AuthFlip(m) PROVE limit' = limit /\ state'.blocked = state.blocked
  BY <1>1, <1>4 DEF Flip, AuthFlip, MaybeFlip, evars, State
<1>5. ASSUME NEW m \in Managers, Auth(m) PROVE limit' = limit /\ state'.blocked = state.blocked
  <2>1. state' = state \/ \E c, s : state' = WithAuth(c, s)
    BY <1>5 DEF Auth
  <2> QED  BY <1>1, <1>5, <2>1 DEF Auth, WithAuth, evars, State
<1>6. ASSUME NEW m \in Managers,
             \/ Start(m) \/ Launch(m) \/ Relaunch(m) \/ Append1(m) \/ AuthLaunch(m) \/ Emit(m)
             \/ Die(m) \/ Respawn(m) \/ TakeOver(m)
      PROVE  limit' = limit /\ state' = state
  BY <1>6 DEF Start, Launch, Relaunch, Append1, AuthLaunch, Emit, Die, Respawn, TakeOver, evars
<1>7. ASSUME NEW s \in Busy, Request(s) PROVE limit' = limit /\ state'.blocked = state.blocked
  BY <1>1, <1>7 DEF Request, State
<1>8. ASSUME LockOrUnlock \/ \E b \in Names : LoginBreaks(b) \/ LoginFixed(b) \/ Damage(b)
      PROVE  limit' = limit /\ state' = state
  BY <1>8 DEF LoginBreaks, LoginFixed, Damage, LockOrUnlock
<1>9. ASSUME NEW b \in Names, HitLimit(b)
      PROVE  (limit'[a] > 0 => limit[a] > 0 \/ a \in wasLimited') /\ state' = state
  BY <1>1, <1>9 DEF HitLimit
<1> QED  BY <1>2, <1>3, <1>4, <1>5, <1>6, <1>7, <1>8, <1>9 DEF Next, ScanStep, Bricked

\* Recovery managers are stamped with the account they are on.
LEMMA HeirIs ==
  ASSUME TypeOK, Next, NEW m \in Managers, heir'[m] # heir[m], heir'[m] # None
  PROVE  heir'[m].stamp = heir'[m].acct /\ heir'[m].tail = Ok
<1>1. ASSUME NEW n \in Managers, NEW a \in Names, NEW k, LaunchOn(n, a, k)
      PROVE  heir'[m].stamp = heir'[m].acct /\ heir'[m].tail = Ok
  BY <1>1, StartedIs DEF LaunchOn, TypeOK
<1>2. ASSUME NEW n \in Managers, Launch(n) \/ Relaunch(n) \/ AuthLaunch(n)
      PROVE  heir' = heir \/ \E a \in Names, k \in Counts(n) : LaunchOn(n, a, k)
  <2>1. /\ scan[n].pool \in Names /\ scan[n].target \in Names \union {None} /\ pointer \in Names
    BY <1>2, ScanIs DEF Launch, Relaunch, AuthLaunch, Scan, TypeOK
  <2> QED  BY <1>2, <2>1 DEF Launch, Relaunch, AuthLaunch, MayAuthLaunch
<1>3. ASSUME NEW n \in Managers,
             \/ Start(n) \/ Brick(n) \/ Flip(n) \/ Append1(n) \/ Auth(n) \/ AuthFlip(n) \/ Emit(n)
             \/ Die(n) \/ Respawn(n)
      PROVE  heir' = heir
  BY <1>3 DEF Start, Brick, Flip, Append1, Auth, AuthFlip, Emit, Die, Respawn
<1>4. ASSUME NEW n \in Managers, TakeOver(n) PROVE heir'[m] \in {heir[m], None}
  BY <1>4 DEF TakeOver, TypeOK
<1>5. ASSUME NEW s \in Busy, Request(s) PROVE heir' = heir
  BY <1>5 DEF Request
<1>6. ASSUME Tick \/ LockOrUnlock
             \/ \E b \in Names : HitLimit(b) \/ LoginBreaks(b) \/ LoginFixed(b) \/ Damage(b)
      PROVE  heir' = heir
  BY <1>6 DEF HitLimit, LoginBreaks, LoginFixed, Damage, LockOrUnlock, Tick
<1> QED  BY <1>1, <1>2, <1>3, <1>4, <1>5, <1>6 DEF Next, ScanStep

LEMMA EarnedStep ==
  ASSUME TypeOK, EarnedInv, Next
  PROVE  EarnedInv'
<1>1. wasLimited \subseteq wasLimited'
  BY WasStays
<1>2. ASSUME NEW m \in Managers, Brick(m) PROVE scan[m].acct \in wasLimited'
  <2>1. scan[m].at \in DOMAIN Fleet(m) /\ scan[m].pc = "brick"
    BY <1>2, ScanIs DEF Brick
  <2>2. CASE scan[m].acct \in wasLimited
    BY <1>1, <2>2
  <2>3. CASE scan[m].at = 1 /\ session[m].stamp = None
    BY <1>2, <2>1, <2>3, SubjectIs DEF Brick
  <2> QED  BY <2>1, <2>2, <2>3 DEF EarnedInv
<1>3. ASSUME NEW a \in Names PROVE limit'[a] > 0 \/ state'.blocked[a] > 0 => a \in wasLimited'
  BY <1>1, <1>2, NewRecords DEF EarnedInv
<1>4. ASSUME NEW s \in Sessions
      PROVE  /\ session'[s].tail.kind = "limit" => session'[s].acct \in wasLimited'
             /\ session'[s].stamp \in {None, session'[s].acct}
             /\ s \notin Managers /\ session'[s].stamp = None => Names \subseteq wasLimited'
  <2>1. session[s].acct \in Names
    BY DEF TypeOK, Session
  <2>2. Ok.kind # "limit"
    BY DEF Ok
  <2>3. CASE /\ session'[s].acct = session[s].acct /\ session'[s].stamp = session[s].stamp
             /\ session'[s].tail.kind = "limit" => session[s].tail.kind = "limit" \/ limit[session[s].acct] > 0
    BY <1>1, <2>1, <2>3 DEF EarnedInv
  <2>4. CASE s \in Managers /\ heir[s] # None /\ session'[s] = heir[s]
    BY <2>2, <2>4 DEF EarnedInv
  <2>5. CASE /\ s \notin Managers /\ session'[s].tail = Ok
             /\ session'[s].stamp = session'[s].acct \/ (session'[s].stamp = None /\ \A a \in Names : Bricked(a))
    <3>1. (\A a \in Names : Bricked(a)) => Names \subseteq wasLimited'
      BY <1>1 DEF EarnedInv
    <3>2. session'[s].acct # None
      BY TypeStep, BoundsAre DEF TypeOK, Session
    <3> QED  BY <2>2, <2>5, <3>1, <3>2
  <2> QED  BY <2>3, <2>4, <2>5, SessionMoves DEF SessionMove
<1>5. ASSUME NEW m \in Managers, heir'[m] # None
      PROVE  heir'[m].stamp = heir'[m].acct /\ heir'[m].tail = Ok
  BY <1>5, HeirIs DEF EarnedInv
<1>6. ASSUME NEW m \in Managers, scan'[m].pc = "brick"
      PROVE  scan'[m].acct \in wasLimited' \/ (scan'[m].at = 1 /\ session'[m].stamp = None)
  <2>1. m \in Sessions
    BY DEF Sessions
  <2>2. CASE scan'[m] = scan[m]
    BY <1>1, <1>6, <2>1, <2>2, SessionMoves DEF SessionMove, EarnedInv
  <2>3. ASSUME NEW pool, NEW from, Looks(m, scan'[m], pool, from), session' = session
        PROVE  scan'[m].acct \in wasLimited' \/ (scan'[m].at = 1 /\ session'[m].stamp = None)
    <3> DEFINE s == Fleet(m)[scan'[m].at]
    <3>1. /\ scan'[m].at \in DOMAIN Fleet(m) /\ scan'[m].acct = AccountOf(s, pool)
          /\ session[s].tail.kind = "limit"
      BY <1>6, <2>3 DEF Looks
    <3>2. s \in Sessions /\ (s = m \/ s \notin Managers) /\ (s = m => scan'[m].at = 1)
      BY <3>1, FleetIs
    <3> HIDE DEF s
    <3>3. CASE session[s].stamp # None
      BY <1>1, <3>1, <3>2, <3>3 DEF AccountOf, EarnedInv
    <3>4. CASE session[s].stamp = None /\ s \notin Managers
      <4>1. scan'[m].acct \in Names
        BY <1>6, TypeStep, ScanIs DEF TypeOK
      <4> QED  BY <1>1, <3>2, <3>4, <4>1 DEF EarnedInv
    <3> QED  BY <2>3, <3>2, <3>3, <3>4
  <2>4. scan'[m] # scan[m] => session' = session
    <3>1. ASSUME NEW n \in Managers, ScanStep(n) \/ Die(n) PROVE session' = session
      BY <3>1 DEF ScanStep, Start, Brick, Flip, Launch, Relaunch, Append1, Auth, AuthFlip, AuthLaunch, Emit,
                  Die, evars
    <3>2. ASSUME NEW n \in Managers, Respawn(n) \/ TakeOver(n) PROVE scan' = scan
      BY <3>2 DEF Respawn, TakeOver, svars
    <3>3. ASSUME NEW s \in Busy, Request(s) PROVE scan' = scan
      BY <3>3 DEF Request, svars
    <3>4. ASSUME Tick \/ LockOrUnlock
                 \/ \E b \in Names : HitLimit(b) \/ LoginBreaks(b) \/ LoginFixed(b) \/ Damage(b)
          PROVE  scan' = scan
      BY <3>4 DEF HitLimit, LoginBreaks, LoginFixed, Damage, LockOrUnlock, Tick, svars
    <3> QED  BY <3>1, <3>2, <3>3, <3>4 DEF Next
  <2> QED  BY <1>6, <2>2, <2>3, <2>4, ScanMoves DEF ScanMove, NoScan
<1> QED  BY <1>3, <1>4, <1>5, <1>6 DEF EarnedInv, Bricked

LEMMA EarnedHolds == Spec => []EarnedInv
<1>1. Init => EarnedInv
  <2> SUFFICES ASSUME Init PROVE EarnedInv
    OBVIOUS
  <2>1. \A a \in Names : limit[a] = 0 /\ state.blocked[a] = 0
    BY DEF Init
  <2>2. \A s \in Sessions : /\ session[s].tail.kind = "ok" /\ session[s].acct = Default
                            /\ session[s].stamp \in {None, Default}
                            /\ s \notin Managers => session[s].stamp = Default
    BY DEF Init, Ok
  <2>3. \A m \in Managers : heir[m] = None /\ scan[m].pc = "off"
    BY DEF Init, NoScan
  <2> QED  BY <2>1, <2>2, <2>3, BoundsAre DEF EarnedInv, Bricked
<1>2. EarnedInv /\ UNCHANGED vars => EarnedInv'
  BY DEF EarnedInv, Bricked, vars, svars, evars, ovars
<1> QED  BY <1>1, <1>2, EarnedStep, TypeHolds, PTL DEF Spec

\* An account counts as bricked only if it ran into a limit, or if a session
\* that carries no stamp was taken to be on it (_record_brick,
\* stale_monitor.py:300, and _account_of); and the files keep their types.
THEOREM BricksStayEarned == Spec => []BricksAreEarned
<1>1. TypeOK /\ EarnedInv => BricksAreEarned
  BY DEF EarnedInv, BricksAreEarned
<1> QED  BY <1>1, TypeHolds, EarnedHolds, PTL

-----------------------------------------------------------------------------
(* Launches *)

\* The launches of a loop that neither its ledger nor its scan knows of.
Unknown(l, k, pc) == l \ (k \union (IF pc = "append" THEN {0} ELSE {}))

\* What the ledger stands in for: a launch it does not know of was lost with
\* its scan, the second one is made only while it knows of one at most, and a
\* scan at its manager is the first of its loop in this tick.
LaunchInv ==
    \A m \in Managers :
       /\ Cardinality(Unknown(launched[m], ledger[m], scan[m].pc)) <= lost[m]
       /\ Cardinality(ledger[m]) <= 2 + blind[m]
       /\ scan[m].pc = "append" => Cardinality(ledger[m]) <= 1 + blind[m] /\ scan[m].at = 1
       /\ Launching(m) => scan[m].at = 1
       /\ scan[m].pc # "off" => m \notin due
       /\ m \in due => 0 \notin launched[m]
       /\ scan[m].pc \notin {"off", "append", "emit"} /\ scan[m].at = 1 => 0 \notin launched[m]

\* What a step makes of the launches of loop m and of what is known of them.
LaunchMove(m) ==
    \/ /\ launched'[m] = launched[m] /\ ledger'[m] = ledger[m]
       /\ lost'[m] = lost[m] /\ blind'[m] = blind[m]
       /\ scan'[m].pc = "append" <=> scan[m].pc = "append"
       /\ scan'[m].pc = "append" => scan'[m].at = scan[m].at
    \/ /\ Launching(m)
       /\ scan'[m].pc = "append" /\ scan'[m].at = scan[m].at
       /\ launched'[m] = launched[m] \union {0} /\ ledger'[m] = ledger[m] /\ lost'[m] = lost[m]
       /\ \/ blind'[m] = blind[m] /\ Launches(m) <= 1
          \/ blind'[m] = blind[m] + 1
    \/ /\ scan[m].pc = "append" /\ scan'[m].pc # "append"
       /\ launched'[m] = launched[m] /\ ledger'[m] = ledger[m] \union {0}
       /\ lost'[m] = lost[m] /\ blind'[m] = blind[m]
    \/ /\ scan[m].pc = "append" /\ scan'[m].pc # "append"
       /\ launched'[m] = launched[m] /\ ledger'[m] = ledger[m]
       /\ lost'[m] = lost[m] + 1 /\ blind'[m] = blind[m]
    \/ /\ scan'[m] = scan[m] /\ scan[m].pc = "off"
       /\ launched'[m] = {} /\ ledger'[m] = {} /\ lost'[m] = 0 /\ blind'[m] = 0
    \/ /\ Tick /\ scan'[m] = scan[m] /\ scan[m].pc = "off"
       /\ launched'[m] = Aged(launched[m]) /\ ledger'[m] = Aged(ledger[m])
       /\ lost'[m] = lost[m] /\ blind'[m] = blind[m]

\* The loop's own steps.
LEMMA OwnLaunch ==
  ASSUME TypeOK, NEW m \in Managers, ScanStep(m) \/ Die(m)
  PROVE  LaunchMove(m)
<1>1. scan[m] \in Scan /\ (scan[m].pc # "off" => scan[m].pool \in Names) /\ recovery[m] \in Keys
  BY ScanIs DEF TypeOK
<1>2. ASSUME NEW next \in Scan, next.pool \in Names, Pass(m, next) PROVE scan'[m].pc # "append"
  BY <1>2, PassFits
<1>3. [scan[m] EXCEPT !.recovery = recovery[m]] \in Scan
      /\ [scan[m] EXCEPT !.recovery = recovery[m]].pool = scan[m].pool
  BY <1>1 DEF Scan
<1>4. ASSUME NEW pc, To(m, pc) PROVE scan'[m].pc = pc
  BY <1>1, <1>4 DEF To, TypeOK, Scan
<1>5. CASE Start(m)
  <2>1. scan'[m].pc # "append"
    BY <1>5, StartFits DEF Looks
  <2> QED  BY <1>5, <2>1 DEF Start, ovars, LaunchMove
<1>6. CASE Brick(m)
  <2>1. scan'[m].pc # "append"
    BY <1>1, <1>2, <1>3, <1>4, <1>6 DEF Brick, AfterBrick
  <2> QED  BY <1>6, <2>1 DEF Brick, LaunchMove
<1>7. CASE Flip(m) \/ AuthFlip(m)
  <2>1. ASSUME NEW t, NEW pc,
               scan' = [scan EXCEPT ![m].pc = pc, ![m].target = t]
        PROVE  scan'[m].pc = pc
    BY <1>1, <2>1 DEF TypeOK, Scan
  <2>2. scan'[m].pc # "append"
    BY <1>1, <1>2, <1>7, <2>1 DEF Flip, AuthFlip
  <2> QED  BY <1>7, <2>2 DEF Flip, AuthFlip, LaunchMove
<1>8. CASE Auth(m)
  <2>1. scan'[m].pc # "append"
    BY <1>1, <1>2, <1>8, AuthFits DEF Auth
  <2> QED  BY <1>8, <2>1 DEF Auth, ovars, LaunchMove
<1>9. CASE Emit(m)
  <2>1. scan'[m].pc # "append"
    BY <1>9, ScanEnds DEF Emit, NoScan
  <2> QED  BY <1>9, <2>1 DEF Emit, ovars, LaunchMove
<1>10. CASE Append1(m)
  <2>1. /\ scan[m].pc = "append" /\ scan'[m].pc # "append"
        /\ launched'[m] = launched[m] /\ blind'[m] = blind[m]
    BY <1>1, <1>2, <1>10 DEF Append1
  <2>2. \/ ledger'[m] = ledger[m] \union {0} /\ lost'[m] = lost[m]
        \/ ledger'[m] = ledger[m] /\ lost'[m] = lost[m] + 1
    BY <1>10 DEF Append1, TypeOK
  <2> QED  BY <2>1, <2>2 DEF LaunchMove
<1>11. CASE Die(m)
  <2>1. scan'[m].pc # "append"
    <3>1. scan'[m] = NoScan
      BY <1>11, ScanEnds DEF Die
    <3> QED  BY <3>1 DEF NoScan
  <2>2. lost'[m] = IF scan[m].pc = "append" THEN lost[m] + 1 ELSE lost[m]
    BY <1>11 DEF Die, TypeOK
  <2> QED  BY <1>11, <2>1, <2>2 DEF Die, LaunchMove
<1>12. CASE Launch(m) \/ Relaunch(m) \/ AuthLaunch(m)
  <2>1. Launching(m) /\ ledger' = ledger /\ lost' = lost
    BY <1>12 DEF Launch, Relaunch, AuthLaunch, Launching
  <2>2. CASE Pass(m, scan[m]) /\ launched' = launched /\ blind' = blind
    BY <1>1, <1>2, <2>1, <2>2 DEF Launching, LaunchMove
  <2>3. CASE Pass(m, [scan[m] EXCEPT !.recovery = recovery[m]]) /\ launched' = launched /\ blind' = blind
    BY <1>1, <1>2, <1>3, <2>1, <2>3 DEF Launching, LaunchMove
  <2>4. ASSUME NEW a, NEW n \in Counts(m), LaunchOn(m, a, n), n <= 1,
               \/ \E k : scan' = [scan EXCEPT ![m].pc = "append", ![m].recovery = k]
               \/ scan' = [scan EXCEPT ![m].pc = "append", ![m].authKey = TRUE]
        PROVE  LaunchMove(m)
    <3>1. scan'[m].pc = "append" /\ scan'[m].at = scan[m].at
      BY <1>1, <2>4 DEF TypeOK, Scan
    <3>2. launched'[m] = launched[m] \union {0}
      BY <2>4 DEF LaunchOn, TypeOK
    <3>3. \/ blind'[m] = blind[m] /\ Launches(m) <= 1
          \/ blind'[m] = blind[m] + 1
      BY <2>4 DEF LaunchOn, TypeOK
    <3> QED  BY <2>1, <3>1, <3>2, <3>3 DEF LaunchMove
  <2>5. \A n : n = 0 => n <= 1
    OBVIOUS
  <2> QED  BY <1>12, <2>5, <2>2, <2>3, <2>4 DEF Launch, Relaunch, AuthLaunch, MayLaunch, MayRelaunch, MayAuthLaunch
<1> QED  BY <1>5, <1>6, <1>7, <1>8, <1>9, <1>10, <1>11, <1>12 DEF ScanStep

LEMMA LaunchMoves ==
  ASSUME TypeOK, Next, NEW m \in Managers
  PROVE  LaunchMove(m)
<1>1. CASE ScanStep(m) \/ Die(m)
  BY <1>1, OwnLaunch
<1>2. ASSUME NEW n \in Managers, n # m, ScanStep(n) \/ Die(n) PROVE LaunchMove(m)
  <2>1. scan'[m] = scan[m]
    BY <1>2, OthersScan
  <2>2. launched'[m] = launched[m] /\ blind'[m] = blind[m]
    <3>1. ASSUME NEW a, NEW k, LaunchOn(n, a, k) PROVE launched'[m] = launched[m] /\ blind'[m] = blind[m]
      BY <1>2, <3>1 DEF LaunchOn, TypeOK
    <3> QED  BY <1>2, <3>1 DEF ScanStep, Start, Brick, Flip, Launch, Relaunch, Append1, Auth, AuthFlip,
                               AuthLaunch, Emit, Die, ovars
  <2>3. ledger'[m] = ledger[m] /\ lost'[m] = lost[m]
    BY <1>2 DEF ScanStep, Start, Brick, Flip, Launch, Relaunch, Append1, Auth, AuthFlip,
                AuthLaunch, Emit, Die, ovars, TypeOK
  <2> QED  BY <2>1, <2>2, <2>3 DEF LaunchMove
<1>3. ASSUME NEW n \in Managers, Respawn(n) PROVE LaunchMove(m)
  BY <1>3 DEF Respawn, svars, ovars, LaunchMove
<1>4. ASSUME NEW n \in Managers, TakeOver(n) PROVE LaunchMove(m)
  <2>1. /\ scan' = scan /\ scan[n].pc = "off"
        /\ m # n => /\ launched'[m] = launched[m] /\ ledger'[m] = ledger[m]
                    /\ lost'[m] = lost[m] /\ blind'[m] = blind[m]
        /\ m = n => launched'[m] = {} /\ ledger'[m] = {} /\ lost'[m] = 0 /\ blind'[m] = 0
    BY <1>4 DEF TakeOver, TypeOK
  <2> QED  BY <2>1 DEF LaunchMove
<1>5. ASSUME NEW s \in Busy, Request(s) PROVE LaunchMove(m)
  BY <1>5 DEF Request, svars, ovars, LaunchMove
<1>6. ASSUME LockOrUnlock \/ \E b \in Names : HitLimit(b) \/ LoginBreaks(b) \/ LoginFixed(b) \/ Damage(b)
      PROVE  LaunchMove(m)
  BY <1>6 DEF HitLimit, LoginBreaks, LoginFixed, Damage, LockOrUnlock, svars, ovars, LaunchMove
<1>7. CASE Tick
  BY <1>7 DEF Tick, Quiet, LaunchMove
<1> QED  BY <1>1, <1>2, <1>3, <1>4, <1>5, <1>6, <1>7 DEF Next

\* A loop is due again only with the next tick.
LEMMA DueMoves ==
  ASSUME TypeOK, Next, NEW m \in Managers
  PROVE  /\ m \in due' => Tick \/ (m \in due /\ ~Start(m))
         /\ scan[m].pc = "off" /\ scan'[m].pc # "off" => Start(m)
<1>1. ASSUME NEW n \in Managers, ScanStep(n), ~Start(n) PROVE due' = due /\ scan[n].pc # "off"
  BY <1>1 DEF ScanStep, Brick, Flip, Launch, Relaunch, Append1, Auth, AuthFlip, AuthLaunch, Emit
<1>2. ASSUME NEW n \in Managers, Start(n) PROVE due' = due \ {n}
  BY <1>2 DEF Start
<1>3. ASSUME NEW n \in Managers, Die(n) PROVE due' = due /\ scan[n].pc # "off"
  BY <1>3 DEF Die
<1>4. ASSUME NEW n \in Managers, Respawn(n) \/ TakeOver(n) PROVE due' = due /\ scan' = scan
  BY <1>4 DEF Respawn, TakeOver, svars
<1>5. ASSUME NEW s \in Busy, Request(s) PROVE due' = due /\ scan' = scan
  BY <1>5 DEF Request, svars
<1>6. ASSUME LockOrUnlock \/ \E b \in Names : HitLimit(b) \/ LoginBreaks(b) \/ LoginFixed(b) \/ Damage(b)
      PROVE  due' = due /\ scan' = scan
  BY <1>6 DEF HitLimit, LoginBreaks, LoginFixed, Damage, LockOrUnlock, svars
<1>7. Tick => scan' = scan
  BY DEF Tick
<1>8. ASSUME NEW n \in Managers, ScanStep(n) \/ Die(n), n # m PROVE scan'[m] = scan[m]
  BY <1>8, OthersScan
<1>9. m \in due' => Tick \/ (m \in due /\ ~Start(m))
  <2>1. Start(m) => m \notin due'
    BY <1>2
  <2> QED  BY <1>1, <1>2, <1>3, <1>4, <1>5, <1>6, <2>1 DEF Next
<1>10. scan[m].pc = "off" /\ scan'[m].pc # "off" => Start(m)
  BY <1>1, <1>3, <1>4, <1>5, <1>6, <1>7, <1>8 DEF Next
<1> QED  BY <1>9, <1>10

LEMMA AgesAreFinite ==
  ASSUME NEW S \in SUBSET Ages(MaxReset - 1)
  PROVE  IsFiniteSet(S) /\ Cardinality(S) \in Nat
<1>1. IsFiniteSet(Ages(MaxReset - 1))
  BY FS_Interval, BoundsAre DEF Ages
<1> QED  BY <1>1, FS_Subset, FS_CardinalityType

\* Growing older joins no two launches.
LEMMA AgedCounts ==
  ASSUME NEW S \in SUBSET Ages(MaxReset - 1), NEW T, T \subseteq {n + 1 : n \in S}
  PROVE  Cardinality(T) <= Cardinality(S)
<1> DEFINE f == [n \in S |-> n + 1]
           I == {f[n] : n \in S}
<1>1. f \in [S -> Nat]
  BY DEF Ages
<1>2. IsFiniteSet(I) /\ Cardinality(I) <= Cardinality(S)
  <2>1. f \in Surjection(S, I)
    BY DEF Surjection
  <2> HIDE DEF f, I
  <2> QED  BY <2>1, AgesAreFinite, FS_Surjection
<1>3. T \subseteq I
  OBVIOUS
<1>4. IsFiniteSet(T) /\ Cardinality(T) <= Cardinality(I)
  <2> HIDE DEF I
  <2> QED  BY <1>2, <1>3, FS_Subset
<1>5. Cardinality(T) \in Nat /\ Cardinality(I) \in Nat /\ Cardinality(S) \in Nat
  BY <1>2, <1>4, AgesAreFinite, FS_CardinalityType
<1> QED  BY <1>2, <1>4, <1>5

LEMMA OneMore ==
  ASSUME NEW S, IsFiniteSet(S), Cardinality(S) \in Nat, NEW x
  PROVE  /\ IsFiniteSet(S \union {x}) /\ Cardinality(S \union {x}) \in Nat
         /\ Cardinality(S \union {x}) <= Cardinality(S) + 1
<1>1. Cardinality(S \union {x}) = Cardinality(S) \/ Cardinality(S \union {x}) = Cardinality(S) + 1
  BY FS_AddElement
<1>2. IsFiniteSet(S \union {x})
  BY FS_AddElement
<1> QED  BY <1>1, <1>2

LEMMA LaunchStep ==
  ASSUME TypeOK, LaunchInv, Next
  PROVE  LaunchInv'
<1> SUFFICES ASSUME NEW m \in Managers
    PROVE  /\ Cardinality(Unknown(launched'[m], ledger'[m], scan'[m].pc)) <= lost'[m]
           /\ Cardinality(ledger'[m]) <= 2 + blind'[m]
           /\ scan'[m].pc = "append" => Cardinality(ledger'[m]) <= 1 + blind'[m] /\ scan'[m].at = 1
           /\ scan'[m].pc \in {"launch", "relaunch", "authlaunch"} => scan'[m].at = 1
           /\ scan'[m].pc # "off" => m \notin due'
           /\ m \in due' => 0 \notin launched'[m]
           /\ scan'[m].pc \notin {"off", "append", "emit"} /\ scan'[m].at = 1 => 0 \notin launched'[m]
  BY DEF LaunchInv, Launching, Unknown
<1> DEFINE l == launched[m]
           k == ledger[m]
           pc == scan[m].pc
           u == Unknown(l, k, pc)
<1>1. /\ l \in SUBSET Ages(MaxReset - 1) /\ k \in SUBSET Ages(MaxReset - 1)
      /\ lost[m] \in Nat /\ blind[m] \in Nat /\ scan[m] \in Scan
      /\ pc \notin {"off", "append", "emit"} => scan[m].at \in DOMAIN Fleet(m)
  BY ScanIs DEF TypeOK
<1>2. u \in SUBSET l /\ u \in SUBSET Ages(MaxReset - 1)
  BY <1>1 DEF Unknown
<1>3. /\ IsFiniteSet(l) /\ IsFiniteSet(k) /\ IsFiniteSet(u)
      /\ Cardinality(l) \in Nat /\ Cardinality(k) \in Nat /\ Cardinality(u) \in Nat
  <2> HIDE DEF l, k, u
  <2> QED  BY <1>1, <1>2, AgesAreFinite
<1>4. /\ Cardinality(u) <= lost[m] /\ Cardinality(k) <= 2 + blind[m]
      /\ pc = "append" => Cardinality(k) <= 1 + blind[m] /\ scan[m].at = 1
      /\ pc \in {"launch", "relaunch", "authlaunch"} => scan[m].at = 1
      /\ pc # "off" => m \notin due
      /\ m \in due => 0 \notin l
      /\ pc \notin {"off", "append", "emit"} /\ scan[m].at = 1 => 0 \notin l
  BY DEF LaunchInv, Launching
\* Scans.
<1>5. scan'[m].pc # "off" => m \notin due'
  <2>1. scan'[m].pc # "off" /\ Tick => scan'[m] = scan[m] /\ scan[m].pc = "off"
    BY DEF Tick, Quiet
  <2> QED  BY <1>4, <2>1, DueMoves
<1>6. scan'[m].pc \in {"launch", "relaunch", "authlaunch"} => scan'[m].at = 1
  <2>1. pc \in {"brick", "flip", "auth", "authflip"} /\ Subject(m) = m => scan[m].at = 1
    BY <1>1, SubjectIs
  <2> QED  BY <1>4, <2>1, ScanMoves DEF ScanMove, Looks, NoScan
<1>7. scan'[m].pc \notin {"off", "append", "emit"} /\ scan'[m].at = 1 =>
        \/ pc \notin {"off", "append", "emit"} /\ scan[m].at = 1
        \/ Start(m)
  <2> SUFFICES ASSUME scan'[m].pc \notin {"off", "append", "emit"}, scan'[m].at = 1, ~Start(m)
               PROVE  pc \notin {"off", "append", "emit"} /\ scan[m].at = 1
    OBVIOUS
  <2>1. scan'[m] # NoScan
    BY DEF NoScan
  <2>2. CASE pc \notin {"off", "emit"} /\ Looks(m, scan'[m], scan[m].pool, scan[m].at + 1)
    <3>1. scan'[m].at \in scan[m].at + 1 .. Len(Fleet(m))
      BY <2>2 DEF Looks
    <3>2. scan[m].at \in Nat /\ scan[m].at >= 1
      BY <1>1, <1>4, <2>2, FleetIs DEF Scan
    <3> QED  BY <3>1, <3>2, FleetIs
  <2>3. pc # "off"
    BY DueMoves
  <2> QED  BY <2>1, <2>2, <2>3, ScanMoves DEF ScanMove, Brick, Auth
\* Launches.
<1>8. /\ Cardinality(Unknown(launched'[m], ledger'[m], scan'[m].pc)) <= lost'[m]
      /\ Cardinality(ledger'[m]) <= 2 + blind'[m]
      /\ scan'[m].pc = "append" => Cardinality(ledger'[m]) <= 1 + blind'[m] /\ scan'[m].at = 1
  <2> HIDE DEF l, k, pc, u
  <2>1. CASE /\ launched'[m] = l /\ ledger'[m] = k /\ lost'[m] = lost[m] /\ blind'[m] = blind[m]
             /\ scan'[m].pc = "append" <=> pc = "append"
             /\ scan'[m].pc = "append" => scan'[m].at = scan[m].at
    <3>1. Unknown(launched'[m], ledger'[m], scan'[m].pc) = u
      BY <2>1 DEF Unknown, u
    <3> QED  BY <1>4, <2>1, <3>1
  <2>2. CASE /\ pc \in {"launch", "relaunch", "authlaunch"}
             /\ \/ blind'[m] = blind[m] /\ Cardinality(k) <= 1
                \/ blind'[m] = blind[m] + 1
             /\ scan'[m].pc = "append" /\ scan'[m].at = scan[m].at
             /\ launched'[m] = l \union {0} /\ ledger'[m] = k /\ lost'[m] = lost[m]
    <3>1. Unknown(launched'[m], ledger'[m], scan'[m].pc) \in SUBSET u
      BY <2>2 DEF Unknown, u
    <3> HIDE DEF Unknown
    <3>2. Cardinality(Unknown(launched'[m], ledger'[m], scan'[m].pc)) <= Cardinality(u)
      BY <1>3, <3>1, FS_Subset
    <3>3. Cardinality(Unknown(launched'[m], ledger'[m], scan'[m].pc)) \in Nat
      BY <1>3, <3>1, FS_Subset, FS_CardinalityType
    <3> QED  BY <1>1, <1>3, <1>4, <2>2, <3>2, <3>3
  <2>3. CASE /\ pc = "append" /\ scan'[m].pc # "append"
             /\ launched'[m] = l /\ ledger'[m] = k \union {0} /\ lost'[m] = lost[m] /\ blind'[m] = blind[m]
    <3>1. Unknown(launched'[m], ledger'[m], scan'[m].pc) = u
      BY <2>3 DEF Unknown, u
    <3>2. Cardinality(ledger'[m]) <= Cardinality(k) + 1 /\ Cardinality(ledger'[m]) \in Nat
      BY <1>3, <2>3, OneMore
    <3> QED  BY <1>1, <1>3, <1>4, <2>3, <3>1, <3>2
  <2>4. CASE /\ pc = "append" /\ scan'[m].pc # "append"
             /\ launched'[m] = l /\ ledger'[m] = k /\ lost'[m] = lost[m] + 1 /\ blind'[m] = blind[m]
    <3> DEFINE n == Unknown(launched'[m], ledger'[m], scan'[m].pc)
    <3>1. n \in SUBSET (u \union {0})
      BY <2>4 DEF Unknown, u
    <3> HIDE DEF n
    <3>2. IsFiniteSet(u \union {0}) /\ Cardinality(u \union {0}) <= Cardinality(u) + 1
      BY <1>3, OneMore
    <3>3. Cardinality(n) <= Cardinality(u \union {0}) /\ Cardinality(n) \in Nat
          /\ Cardinality(u \union {0}) \in Nat
      BY <3>1, <3>2, FS_Subset, FS_CardinalityType
    <3>4. Cardinality(n) <= lost[m] + 1
      BY <1>1, <1>3, <1>4, <3>2, <3>3
    <3> QED  BY <1>4, <2>4, <3>4 DEF n
  <2>5. CASE /\ scan'[m] = scan[m] /\ pc = "off"
             /\ launched'[m] = {} /\ ledger'[m] = {} /\ lost'[m] = 0 /\ blind'[m] = 0
    <3>1. Unknown(launched'[m], ledger'[m], scan'[m].pc) = {}
      BY <2>5 DEF Unknown
    <3> QED  BY <2>5, <3>1, FS_EmptySet DEF pc
  <2>6. CASE /\ scan'[m] = scan[m] /\ pc = "off"
             /\ launched'[m] = Aged(l) /\ ledger'[m] = Aged(k) /\ lost'[m] = lost[m] /\ blind'[m] = blind[m]
    <3> DEFINE n == Unknown(launched'[m], ledger'[m], scan'[m].pc)
    <3>1. n \subseteq {age + 1 : age \in u}
      BY <2>6 DEF Unknown, u, Aged, pc
    <3>2. ledger'[m] \subseteq {age + 1 : age \in k}
      BY <2>6 DEF Aged
    <3> HIDE DEF n
    <3>3. Cardinality(n) <= Cardinality(u)
      BY <1>2, <3>1, AgedCounts
    <3>4. Cardinality(ledger'[m]) <= Cardinality(k)
      BY <1>1, <3>2, AgedCounts
    <3>5. n \in SUBSET Ages(MaxReset - 1) /\ ledger'[m] \in SUBSET Ages(MaxReset - 1)
      BY <1>1, <2>6, AgedIs DEF n, Unknown
    <3>6. Cardinality(n) \in Nat /\ Cardinality(ledger'[m]) \in Nat
      BY <3>5, AgesAreFinite
    <3>7. Cardinality(n) <= lost'[m] /\ Cardinality(ledger'[m]) <= 2 + blind'[m]
      BY <1>1, <1>3, <1>4, <2>6, <3>3, <3>4, <3>6
    <3> QED  BY <2>6, <3>7 DEF n, pc
  <2> QED  BY <2>1, <2>2, <2>3, <2>4, <2>5, <2>6, LaunchMoves DEF LaunchMove, Launching, Launches, l, k, pc
<1>9. /\ m \in due' => 0 \notin launched'[m]
      /\ scan'[m].pc \notin {"off", "append", "emit"} /\ scan'[m].at = 1 => 0 \notin launched'[m]
  <2>1. CASE Tick
    <3>1. launched'[m] = Aged(launched[m]) /\ scan'[m].pc = "off"
      BY <2>1 DEF Tick, Quiet
    <3> QED  BY <1>1, <3>1, AgedIs
  <2>2. CASE ~Tick /\ launched'[m] \subseteq l
    <3>1. Start(m) => m \in due
      BY DEF Start
    <3> QED  BY <1>4, <1>7, <2>2, <3>1, DueMoves
  <2>3. CASE Launching(m) /\ scan'[m].pc = "append"
    BY <1>5, <2>3
  <2> QED  BY <2>1, <2>2, <2>3, LaunchMoves DEF LaunchMove
<1> QED  BY <1>5, <1>6, <1>8, <1>9

LEMMA LaunchHolds == Spec => []LaunchInv
<1>1. Init => LaunchInv
  <2> SUFFICES ASSUME Init PROVE LaunchInv
    OBVIOUS
  <2>1. \A m \in Managers : /\ launched[m] = {} /\ ledger[m] = {} /\ lost[m] = 0 /\ blind[m] = 0
                            /\ scan[m].pc = "off" /\ ~Launching(m)
    BY DEF Init, NoScan, Launching
  <2>2. \A m \in Managers : Unknown(launched[m], ledger[m], scan[m].pc) = {}
    BY <2>1 DEF Unknown
  <2>3. Cardinality({}) = 0
    BY FS_EmptySet
  <2>4. ASSUME NEW m \in Managers
        PROVE  /\ Cardinality(Unknown(launched[m], ledger[m], scan[m].pc)) <= lost[m]
               /\ Cardinality(ledger[m]) <= 2 + blind[m]
    <3>1. Unknown(launched[m], ledger[m], scan[m].pc) = {} /\ ledger[m] = {} /\ lost[m] = 0 /\ blind[m] = 0
      BY <2>1, <2>2, Zenon
    <3>2. Cardinality(Unknown(launched[m], ledger[m], scan[m].pc)) = 0 /\ Cardinality(ledger[m]) = 0
      BY <2>3, <3>1, Zenon
    <3> QED  BY <3>1, <3>2
  <2>5. ASSUME NEW m \in Managers PROVE 0 \notin launched[m] /\ scan[m].pc = "off" /\ ~Launching(m)
    BY <2>1
  <2> QED  BY <2>4, <2>5 DEF LaunchInv
<1>2. LaunchInv /\ UNCHANGED vars => LaunchInv'
  BY DEF LaunchInv, Launching, Unknown, vars, svars, ovars
<1> QED  BY <1>1, <1>2, LaunchStep, TypeHolds, PTL DEF Spec

\* A stopped manager is replaced twice at most in the time a limit can last,
\* and once more for each launch its ledger never learned of and for each made
\* on a ledger that could not be read; no loop launches twice in a tick
\* (_ledger_recovery_launches, _append_account_ledger and their callers,
\* stale_monitor.py).
THEOREM LaunchesStayBounded == Spec => []LaunchesBounded
<1>1. ASSUME TypeOK, LaunchInv, NEW m \in Managers
      PROVE  /\ Cardinality(launched[m]) <= 2 + lost[m] + blind[m]
             /\ Launching(m) => 0 \notin launched[m]
  <2> DEFINE l == launched[m]
             k == ledger[m]
             u == Unknown(l, k, scan[m].pc)
             known == k \union (IF scan[m].pc = "append" THEN {0} ELSE {})
  <2>1. /\ l \in SUBSET Ages(MaxReset - 1) /\ k \in SUBSET Ages(MaxReset - 1)
        /\ u \in SUBSET Ages(MaxReset - 1) /\ known \in SUBSET Ages(MaxReset - 1)
        /\ l \subseteq u \union known /\ lost[m] \in Nat /\ blind[m] \in Nat
    BY <1>1, BoundsAre DEF TypeOK, Unknown, Ages
  <2>2. /\ Cardinality(u) <= lost[m] /\ Cardinality(k) <= 2 + blind[m]
        /\ scan[m].pc = "append" => Cardinality(k) <= 1 + blind[m]
        /\ Launching(m) => 0 \notin l
    BY <1>1 DEF LaunchInv, Launching
  <2>3. Cardinality(known) <= 2 + blind[m]
    <3> HIDE DEF k
    <3>1. IsFiniteSet(k) /\ Cardinality(k) \in Nat
      BY <2>1, AgesAreFinite
    <3>2. CASE scan[m].pc = "append"
      <4>1. known = k \union {0}
        BY <3>2
      <4>2. Cardinality(k \union {0}) <= Cardinality(k) + 1 /\ Cardinality(k \union {0}) \in Nat
        BY <3>1, OneMore
      <4> QED  BY <2>1, <2>2, <3>1, <3>2, <4>1, <4>2
    <3>3. CASE scan[m].pc # "append"
      BY <2>2, <3>3
    <3> QED  BY <3>2, <3>3
  <2> HIDE DEF l, k, u, known
  <2>4. /\ IsFiniteSet(u) /\ IsFiniteSet(known) /\ IsFiniteSet(u \union known)
        /\ Cardinality(l) \in Nat /\ Cardinality(u) \in Nat /\ Cardinality(known) \in Nat
    BY <2>1, AgesAreFinite, FS_Union
  <2>5. Cardinality(l) <= Cardinality(u \union known)
    BY <2>1, <2>4, FS_Subset
  <2>6. Cardinality(u \union known) <= Cardinality(u) + Cardinality(known)
        /\ Cardinality(u \union known) \in Nat
    <3>1. Cardinality(u \union known) = Cardinality(u) + Cardinality(known) - Cardinality(u \intersect known)
      BY <2>4, FS_Union
    <3>2. Cardinality(u \intersect known) \in Nat /\ Cardinality(u \union known) \in Nat
      BY <2>4, FS_Subset, FS_CardinalityType
    <3> QED  BY <2>4, <3>1, <3>2
  <2>7. Cardinality(l) <= 2 + lost[m] + blind[m]
    BY <2>1, <2>2, <2>3, <2>4, <2>5, <2>6
  <2> QED  BY <2>2, <2>7 DEF l
<1>2. TypeOK /\ LaunchInv => LaunchesBounded
  BY <1>1 DEF LaunchesBounded
<1> QED  BY <1>2, TypeHolds, LaunchHolds, PTL
=============================================================================
