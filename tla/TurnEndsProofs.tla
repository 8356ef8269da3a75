---------------------------- MODULE TurnEndsProofs ----------------------------
(***************************************************************************)
(* The turn-ends lane pages no turn-end twice, unless a scan died or could *)
(* not write the ladder; for any clock, bounds, graces and ladder.         *)
(***************************************************************************)
EXTENDS TurnEnds, FiniteSetTheorems, WellFoundedInduction, TLAPS

USE TurnEndsAssumption

(***************************************************************************)
(* The inductive invariant.                                                *)
(***************************************************************************)
\* The turn-ends a scan has consumed or will have.
Consumed == seen \union scan.new

\* A scan looks at each turn-end once, and at none that was consumed.
LookedAtOnce ==
    /\ scan.todo \intersect Consumed = {}
    /\ scan.pc = "append" => scan.todo = {}
    /\ scan.pc = "idle" => scan = IdleScan

\* Rungs are paid for: with a turn-end that was consumed, or with a failure.
\* A scan climbs one rung at most, for the newest turn-end, which is its last.
RungsArePaid ==
    /\ scan.pc # "append" => ladder.level <= Cardinality(seen) + failures
    /\ scan.pc = "entries" /\ scan.todo # {} => scan.ladder.level <= Cardinality(seen) + failures
    /\ \A entry \in {ladder, scan.ladder} :
          /\ entry.level <= Cardinality(seen) + failures + 1
          /\ entry.level <= Cardinality(Consumed) + failures

\* No more turns than MaxTurns, the running one included.
TurnsCounted ==
    /\ Cardinality(ends) <= MaxTurns
    /\ session = "busy" => Cardinality(ends) < MaxTurns

\* Without failures what was paged is consumed, and was paged once.
PagedIsConsumed ==
    failures = 0 => /\ \A p \in pages : p.end \in Consumed
                    /\ \A p, q \in pages : p.end = q.end => p = q

\* The values of the ACTIVE record while it is there.
Records == [state : {"idle", "processing"}, tasked : MaybeTimes, since : MaybeTimes]

Inv == TypeOK /\ LookedAtOnce /\ RungsArePaid /\ TurnsCounted /\ PagedIsConsumed

\* A set of numbers that is not empty has a least element.
LEMMA MinIsLeast ==
    ASSUME NEW S \in SUBSET Nat, S # {}
    PROVE  Min(S) \in S /\ \A x \in S : Min(S) <= x
<1>1. PICK x \in S : \A y \in S : ~(<<y, x>> \in OpToRel(<, Nat))
    BY NatLessThanWellFounded, WFMin
<1>2. ASSUME NEW y \in S
      PROVE  x <= y
    <2>1. y < x => <<y, x>> \in OpToRel(<, Nat)
        BY Zenon DEF OpToRel
    <2>2. ~(y < x)
        BY <1>1, <2>1, Zenon
    <2>3. x \in Nat /\ y \in Nat
        OBVIOUS
    <2> QED BY <2>2, <2>3
<1> QED BY <1>2 DEF Min

\* The turn-ends and what is consumed of them are finite and ever more.
LEMMA EndsAreCounted ==
    ASSUME TypeOK
    PROVE  /\ IsFiniteSet(ends) /\ IsFiniteSet(seen) /\ IsFiniteSet(Consumed)
           /\ Cardinality(ends) \in Nat /\ Cardinality(seen) \in Nat
           /\ Cardinality(Consumed) \in Nat
           /\ Cardinality(seen) <= Cardinality(Consumed)
           /\ Cardinality(Consumed) <= Cardinality(ends)
<1>1. IsFiniteSet(Times) /\ ends \in SUBSET Times
    <2>1. 1 \in Int /\ MaxTime \in Int
        BY DEF TurnEndsAssumption
    <2> QED BY <2>1, FS_Interval DEF Times, TypeOK
<1>2. IsFiniteSet(ends)
    BY <1>1, FS_Subset
<1>3. Consumed \in SUBSET ends /\ seen \in SUBSET Consumed
    BY DEF TypeOK, Consumed
<1>4. IsFiniteSet(Consumed) /\ Cardinality(Consumed) <= Cardinality(ends)
    BY <1>2, <1>3, FS_Subset
<1>5. IsFiniteSet(seen) /\ Cardinality(seen) <= Cardinality(Consumed)
    BY <1>3, <1>4, FS_Subset
<1> QED BY <1>2, <1>4, <1>5, FS_CardinalityType

(***************************************************************************)
(* The entry a scan looks at.                                              *)
(***************************************************************************)
\* A scan takes the oldest turn-end that is left.
LEMMA EntryIsLeast ==
    ASSUME TypeOK, scan.todo # {}
    PROVE  /\ Entry \in scan.todo /\ Entry \in ends
           /\ \A t \in scan.todo : Entry <= t
<1>1. scan.todo \in SUBSET ends /\ ends \in SUBSET Nat
    BY DEF TypeOK, Times, TurnEndsAssumption
<1>2. Entry = Min(scan.todo)
    BY DEF Entry
<1> QED BY <1>1, <1>2, MinIsLeast

\* Only the newest turn-end is paged, so a scan that pages has come to its
\* last one.
LEMMA PagedIsLast ==
    ASSUME TypeOK, scan.todo # {},
           Verdict \in {"emit", "exited"}
    PROVE  scan.todo \ {Entry} = {}
<1>1. ~\E s \in ends : s > Entry
    BY DEF Verdict, ClassifyTurnEnd
<1>2. scan.todo \in SUBSET ends /\ ends \in SUBSET Nat
    BY DEF TypeOK, Times, TurnEndsAssumption
<1>3. ASSUME NEW t \in scan.todo
      PROVE  t = Entry
    <2>1. Entry \in ends /\ Entry <= t /\ t \in ends
        BY <1>2, EntryIsLeast
    <2>2. ~(t > Entry) /\ t \in Nat /\ Entry \in Nat
        BY <1>1, <1>2, <2>1
    <2> QED BY <2>1, <2>2
<1> QED BY <1>3

\* What _fs_ladder_record returns: one rung up, or the first.
LEMMA NextEntryIsEntry ==
    ASSUME TypeOK,
           NEW entry \in Entries, NEW verdict, NEW gate
    PROVE  /\ NextEntry(entry, verdict, gate).last \in MaybeTimes
           /\ NextEntry(entry, verdict, gate).exited \in BOOLEAN
           /\ NextEntry(entry, verdict, gate).level \in {1, entry.level + 1}
           /\ NextEntry(entry, verdict, gate)
                = [last |-> NextEntry(entry, verdict, gate).last,
                   level |-> NextEntry(entry, verdict, gate).level,
                   exited |-> NextEntry(entry, verdict, gate).exited]
BY DEF NextEntry, Entries, TypeOK, MaybeTimes

(***************************************************************************)
(* The invariant.                                                          *)
(***************************************************************************)
\* The invariant holds of empty directories.
LEMMA InvInit == Init => Inv
<1> SUFFICES ASSUME Init PROVE Inv
    OBVIOUS
<1>1. NoEntry \in Entries /\ NoEntry.level = 0
    BY DEF NoEntry, Entries, TurnEndsAssumption, MaybeTimes
<1>2. TypeOK
    <2>1. now \in Times /\ record \in Records
        BY DEF Init, Times, MaybeTimes, TurnEndsAssumption, Unset,
           Records
    <2>2. scan \in [pc : {"idle", "entries", "append"}, todo : SUBSET ends,
                    new : SUBSET ends, ladder : Entries]
        BY <1>1 DEF Init, IdleScan
    <2>3. failures \in 0..MaxFailures /\ events \in 0..MaxEvents
        BY DEF Init, TurnEndsAssumption
    <2> QED BY <1>1, <2>1, <2>2, <2>3
            DEF Init, TypeOK, MaybeTimes, Unset, Records
<1>3. LookedAtOnce /\ PagedIsConsumed
    BY DEF Init, LookedAtOnce, PagedIsConsumed, IdleScan
<1>4. RungsArePaid
    <2>1. Consumed = {} /\ Cardinality({}) = 0
        BY FS_EmptySet DEF Init, Consumed, IdleScan
    <2>2. /\ scan.ladder = NoEntry /\ ladder = NoEntry /\ scan.pc = "idle"
          /\ seen = {} /\ failures = 0
        BY DEF Init, IdleScan
    <2> QED BY <1>1, <2>1, <2>2 DEF RungsArePaid
<1>5. TurnsCounted
    BY FS_EmptySet DEF Init, TurnsCounted, TurnEndsAssumption
<1> QED BY <1>2, <1>3, <1>4, <1>5 DEF Inv

\* A step of the worker, its manager or time: the scan and its files stay as
\* they are, and turn-ends are added.
LEMMA ScanUntouched ==
    ASSUME Inv, UNCHANGED lane
    PROVE  LookedAtOnce' /\ RungsArePaid' /\ PagedIsConsumed'
BY DEF Inv, lane, LookedAtOnce, RungsArePaid, PagedIsConsumed, Consumed, IdleScan

\* Whatever the worker and its manager do: turn-ends come one by one, and the
\* scan and its files are left alone.
LEMMA WorkerStep ==
    ASSUME Inv,
           Tick \/ Worker \/ Limit \/ Unlimit
    PROVE  Inv'
<1> USE DEF Inv
<1>1. /\ now \in MaybeTimes /\ now \in Times
      /\ Unset \in MaybeTimes /\ Times \subseteq Nat
    BY DEF TypeOK, MaybeTimes, Times
<1>2. CASE Tick
    <2> USE <1>2 DEF Tick
    <2>1. now' \in Times
        BY <1>1 DEF Times, TurnEndsAssumption
    <2>2. TypeOK' /\ TurnsCounted'
        BY <2>1 DEF TypeOK, lane, history, TurnsCounted
    <2> QED BY <2>2, ScanUntouched
<1>3. CASE Task
    <2> USE <1>3 DEF Task
    <2>1. record' \in Records
        BY <1>1 DEF TypeOK, Records
    <2>2. events' \in 0..MaxEvents /\ questioned' \in BOOLEAN
        BY DEF TypeOK, TurnEndsAssumption
    <2>3. TypeOK'
        BY <1>1, <2>1, <2>2 DEF TypeOK, lane, Records
    <2>4. TurnsCounted'
        BY DEF TurnsCounted
    <2> QED BY <2>3, <2>4, ScanUntouched
<1>4. CASE Prompt
    <2> USE <1>4 DEF Prompt
    <2>1. record' \in Records \union {NoRecord}
        BY <1>1 DEF TypeOK, Records
    <2>2. questioned' \in BOOLEAN
        OBVIOUS
    <2>3. TypeOK'
        BY <1>1, <2>1, <2>2 DEF TypeOK, lane, Records
    <2>4. TurnsCounted'
        BY DEF Prompt, Wake, TurnsCounted
    <2> QED BY <2>3, <2>4, ScanUntouched
<1>5. CASE Wake
    <2> USE <1>5 DEF Wake
    <2>1. TypeOK' /\ TurnsCounted'
        BY DEF Prompt, Wake, TypeOK, lane, history, TurnsCounted
    <2> QED BY <2>1, ScanUntouched
<1>6. CASE Stop
    <2> USE <1>6 DEF Stop
    <2>1. record' \in Records \union {NoRecord}
        BY DEF TypeOK, Records
    <2>2. ends \subseteq ends' /\ ends' \subseteq Times
        BY <1>1 DEF TypeOK
    <2>3. /\ seen' \subseteq ends'
          /\ pages' \subseteq [end : ends', at : Times, exited : BOOLEAN]
          /\ scan' \in [pc : {"idle", "entries", "append"}, todo : SUBSET ends',
                        new : SUBSET ends', ladder : Entries]
        BY <2>2 DEF TypeOK, lane
    <2>4. TypeOK'
        BY <2>1, <2>2, <2>3 DEF TypeOK, lane, history, Records
    <2>5. Cardinality(ends') <= MaxTurns
        <3>1. CASE ends' = ends
            BY <3>1 DEF TurnsCounted
        <3>2. CASE ends' = ends \union {now}
            <4>1. /\ Cardinality(ends \union {now}) = Cardinality(ends) + 1
                  /\ Cardinality(ends) \in Nat
                BY EndsAreCounted, FS_AddElement
            <4> QED BY <3>2, <4>1 DEF TurnsCounted, TurnEndsAssumption
        <3> QED BY <3>1, <3>2
    <2> QED BY <2>4, <2>5, ScanUntouched DEF TurnsCounted
<1>7. CASE WorkerDone \/ Ask \/ Subagent \/ Limit
    <2> USE <1>7 DEF WorkerDone, Ask, Subagent, Limit
    <2>1. events' \in 0..MaxEvents
        BY DEF TypeOK, TurnEndsAssumption
    <2>2. TypeOK'
        BY <1>1, <2>1 DEF TypeOK, lane, history
    <2>3. TurnsCounted'
        BY DEF TurnsCounted
    <2> QED BY <2>2, <2>3, ScanUntouched
<1>8. CASE Answered \/ Exit \/ Unlimit
    <2> USE <1>8 DEF Answered, Exit, Unlimit
    <2>1. TypeOK'
        BY <1>1 DEF TypeOK, lane, history
    <2>2. TurnsCounted'
        BY DEF TurnsCounted
    <2> QED BY <2>1, <2>2, ScanUntouched
<1> QED BY <1>2, <1>3, <1>4, <1>5, <1>6, <1>7, <1>8 DEF Worker

\* The scan's own steps: what they leave alone, and what is left to show.
ScanType == /\ seen \subseteq ends /\ ladder \in Entries
            /\ scan \in [pc : {"idle", "entries", "append"}, todo : SUBSET ends,
                         new : SUBSET ends, ladder : Entries]
            /\ pages \subseteq [end : ends, at : Times, exited : BOOLEAN]
            /\ lost \subseteq Times /\ misjudged \subseteq ends
            /\ failures \in 0..MaxFailures

\* A step of a scan leaves the worker alone.
LEMMA ScanFrame ==
    ASSUME Inv, ScanOnly, ScanType'
    PROVE  TypeOK' /\ TurnsCounted'
BY DEF Inv, ScanOnly, ScanType, TypeOK, history, TurnsCounted

\* In a scan the level of an entry stays within what is paid for it.
LEMMA LevelInRange ==
    ASSUME Inv, NEW n \in Nat, NEW new \in SUBSET ends,
           n <= Cardinality(seen \union new) + failures
    PROVE  n \in 0..(MaxTurns + MaxFailures)
<1>1. seen \union new \in SUBSET ends
    BY DEF Inv, TypeOK
<1>2. /\ IsFiniteSet(seen \union new)
      /\ Cardinality(seen \union new) <= Cardinality(ends)
      /\ Cardinality(seen \union new) \in Nat /\ Cardinality(ends) \in Nat
    BY <1>1, EndsAreCounted, FS_Subset, FS_CardinalityType DEF Inv
<1>3. failures \in 0..MaxFailures /\ Cardinality(ends) <= MaxTurns
      /\ MaxTurns \in Nat /\ MaxFailures \in Nat
    BY DEF Inv, TypeOK, TurnsCounted, TurnEndsAssumption
<1> QED BY <1>2, <1>3

\* Levels and failures can be compared.
LEMMA LevelsAreNumbers ==
    ASSUME TypeOK
    PROVE  failures \in Nat /\ ladder.level \in Nat /\ scan.ladder.level \in Nat
BY DEF TypeOK, Entries, TurnEndsAssumption

\* A scan begins with what was not seen and the pruned ladder.
LEMMA BeginStep ==
    ASSUME Inv, ScanBegin
    PROVE  Inv'
<1> USE DEF ScanBegin
<1>1. /\ scan'.pc = "entries" /\ scan'.todo = ends \ seen /\ scan'.new = {}
      /\ scan'.ladder = Pruned(ladder) /\ seen' = seen /\ scan = IdleScan
    BY DEF Inv, LookedAtOnce
<1>2. Pruned(ladder) \in Entries /\ Pruned(ladder).level <= ladder.level
      /\ Pruned(ladder).level \in Nat /\ ladder.level \in Nat
    BY DEF Inv, TypeOK, Pruned, NoEntry, Entries, MaybeTimes,
       TurnEndsAssumption
<1>3. TypeOK' /\ TurnsCounted'
    <2>1. scan' \in [pc : {"idle", "entries", "append"}, todo : SUBSET ends,
                     new : SUBSET ends, ladder : Entries]
        BY <1>2
    <2> QED BY <2>1 DEF Inv, TypeOK, MaybeTimes, history, TurnsCounted
<1>4. LookedAtOnce'
    BY <1>1 DEF LookedAtOnce, Consumed
<1>5. RungsArePaid'
    <2>1. Consumed' = seen /\ Consumed = seen /\ seen' = seen /\ scan.pc = "idle"
        BY <1>1 DEF Consumed, IdleScan
    <2>2. Cardinality(seen) \in Nat /\ failures \in Nat
        BY EndsAreCounted DEF Inv, TypeOK
    <2>3. ladder.level <= Cardinality(seen) + failures
        BY <2>1 DEF Inv, RungsArePaid
    <2> QED BY <1>1, <1>2, <2>1, <2>2, <2>3 DEF RungsArePaid
<1>6. PagedIsConsumed'
    BY <1>1 DEF Inv, PagedIsConsumed, Consumed, IdleScan
<1> QED BY <1>3, <1>4, <1>5, <1>6 DEF Inv

\* A turn-end that is held, or one that is consumed and not paged.
LEMMA PassStep ==
    ASSUME Inv, ScanHold \/ ScanSuppress \/ ScanMisjudges
    PROVE  Inv'
<1> USE DEF ScanHold, ScanSuppress, ScanMisjudges
<1>1. scan.pc = "entries" /\ scan.todo # {} /\ ScanOnly
      /\ UNCHANGED <<seen, ladder, pages, lost>>
      /\ failures' \in {failures, failures + 1} /\ failures' \in 0..MaxFailures
      /\ misjudged' \in {misjudged, misjudged \union {Entry}}
    BY DEF Inv, TypeOK, TurnEndsAssumption
<1>2. Entry \in scan.todo /\ Entry \in ends
    BY <1>1, EntryIsLeast DEF Inv
<1>3. PICK new \in {scan.new, scan.new \union {Entry}} :
          scan' = [scan EXCEPT !.todo = @ \ {Entry}, !.new = new]
    <2>1. CASE ScanHold
        <3>1. scan' = [scan EXCEPT !.todo = @ \ {Entry}, !.new = scan.new]
            BY <2>1 DEF Inv, TypeOK
        <3> QED BY <3>1
    <2>2. CASE ScanSuppress \/ ScanMisjudges
        BY <2>2
    <2> QED BY <2>1, <2>2
<1>4. /\ scan'.pc = "entries" /\ scan'.todo = scan.todo \ {Entry}
      /\ scan'.new = new /\ scan'.ladder = scan.ladder
      /\ scan' \in [pc : {"idle", "entries", "append"}, todo : SUBSET ends,
                    new : SUBSET ends, ladder : Entries]
    <2>1. new \in SUBSET ends
        BY <1>2 DEF Inv, TypeOK
    <2> QED BY <1>1, <1>3, <2>1 DEF Inv, TypeOK
<1>5. TypeOK' /\ TurnsCounted'
    BY <1>1, <1>2, <1>4, ScanFrame
            DEF ScanType, ScanOnly, Inv, TypeOK
<1>6. LookedAtOnce'
    BY <1>1, <1>2, <1>3, <1>4 DEF Inv, LookedAtOnce, Consumed
<1>7. /\ Consumed' \in {Consumed, Consumed \union {Entry}}
      /\ seen' = seen
    BY <1>1, <1>3, <1>4 DEF Consumed
<1>8. RungsArePaid'
    <2>1. Cardinality(Consumed) <= Cardinality(Consumed')
          /\ Cardinality(Consumed) \in Nat /\ Cardinality(Consumed') \in Nat
        <3>1. IsFiniteSet(Consumed) /\ Cardinality(Consumed) \in Nat
            BY EndsAreCounted DEF Inv
        <3>2. Cardinality(Consumed \union {Entry})
                \in {Cardinality(Consumed), Cardinality(Consumed) + 1}
            BY <3>1, FS_AddElement
        <3>3. CASE Consumed' = Consumed
            BY <3>1, <3>3
        <3>4. CASE Consumed' = Consumed \union {Entry}
            BY <3>1, <3>2, <3>4
        <3> QED BY <1>7, <3>3, <3>4
    <2>2. failures \in Nat /\ ladder.level \in Nat /\ scan.ladder.level \in Nat
        BY LevelsAreNumbers DEF Inv
    <2>3. Cardinality(seen) \in Nat
        BY EndsAreCounted DEF Inv
    <2> QED BY <1>1, <1>4, <1>7, <2>1, <2>2, <2>3 DEF Inv, RungsArePaid
<1>9. PagedIsConsumed'
    <2>1. failures \in Nat
        BY LevelsAreNumbers DEF Inv
    <2>2. failures' = 0 => failures = 0
        BY <1>1, <2>1
    <2> QED BY <1>1, <1>7, <2>2 DEF Inv, PagedIsConsumed
<1> QED BY <1>5, <1>6, <1>8, <1>9 DEF Inv

\* A line is printed; the turn-end and its rung are paid by the same step.
LEMMA PageStep ==
    ASSUME Inv, ScanPage
    PROVE  Inv'
<1> DEFINE gate == Gate(scan.ladder, Verdict)
           next == NextEntry(scan.ladder, Verdict, gate)
           page == [end |-> Entry, at |-> now, exited |-> Verdict = "exited"]
<1>1. /\ scan.pc = "entries" /\ scan.todo # {} /\ ScanOnly
      /\ UNCHANGED <<seen, ladder, lost, misjudged, failures>>
      /\ Verdict \in {"emit", "exited"} /\ pages' = pages \union {page}
      /\ scan' = [scan EXCEPT !.todo = @ \ {Entry}, !.new = @ \union {Entry},
                              !.ladder = next]
    BY DEF ScanPage
<1>2. /\ Entry \in scan.todo /\ Entry \in ends /\ scan.todo \ {Entry} = {}
      /\ Entry \notin Consumed
    BY <1>1, EntryIsLeast, PagedIsLast DEF Inv, LookedAtOnce
<1>3. /\ next.last \in MaybeTimes /\ next.exited \in BOOLEAN
      /\ next.level \in {1, scan.ladder.level + 1}
      /\ next = [last |-> next.last, level |-> next.level, exited |-> next.exited]
    BY NextEntryIsEntry DEF Inv, TypeOK
<1> HIDE DEF gate, next
<1>4. /\ Cardinality(seen) \in Nat /\ Cardinality(Consumed) \in Nat /\ failures \in Nat
      /\ Cardinality(seen) <= Cardinality(Consumed)
      /\ Cardinality(Consumed \union {Entry}) = Cardinality(Consumed) + 1
      /\ scan.ladder.level \in Nat /\ ladder.level \in Nat
    BY <1>2, EndsAreCounted, LevelsAreNumbers, FS_AddElement DEF Inv
<1>5. /\ next.level \in Nat /\ next.level <= Cardinality(seen) + failures + 1
      /\ next.level <= Cardinality(Consumed \union {Entry}) + failures
    BY <1>1, <1>3, <1>4 DEF Inv, RungsArePaid
<1>6. next \in Entries
    <2>1. scan.new \union {Entry} \in SUBSET ends
        BY <1>2 DEF Inv, TypeOK
    <2>2. Consumed \union {Entry} = seen \union (scan.new \union {Entry})
        BY DEF Consumed
    <2>3. next.level \in 0..(MaxTurns + MaxFailures)
        BY <1>5, <2>1, <2>2, LevelInRange
    <2>4. \A a \in MaybeTimes, b \in 0..(MaxTurns + MaxFailures), c \in BOOLEAN :
             [last |-> a, level |-> b, exited |-> c] \in Entries
        BY DEF Entries
    <2> QED BY <1>3, <2>3, <2>4, Zenon
<1>7. /\ scan'.pc = "entries" /\ scan'.todo = {} /\ scan'.ladder = next
      /\ scan'.new = scan.new \union {Entry}
      /\ scan' \in [pc : {"idle", "entries", "append"}, todo : SUBSET ends,
                    new : SUBSET ends, ladder : Entries]
    BY <1>1, <1>2, <1>6 DEF Inv, TypeOK
<1>8. TypeOK' /\ TurnsCounted'
    <2>1. page \in [end : ends, at : Times, exited : BOOLEAN]
        BY <1>2 DEF Inv, TypeOK
    <2> HIDE DEF page
    <2> QED BY <1>1, <1>7, <2>1, ScanFrame
            DEF ScanType, ScanOnly, Inv, TypeOK
<1>9. Consumed' = Consumed \union {Entry}
    BY <1>1, <1>7 DEF Consumed
<1>10. LookedAtOnce'
    BY <1>7 DEF LookedAtOnce
<1>11. RungsArePaid'
    BY <1>1, <1>4, <1>5, <1>7, <1>9 DEF Inv, RungsArePaid
<1>12. PagedIsConsumed'
    <2>1. page.end = Entry
        OBVIOUS
    <2> HIDE DEF page
    <2> QED BY <1>1, <1>2, <1>9, <2>1 DEF Inv, PagedIsConsumed
<1> QED BY <1>8, <1>10, <1>11, <1>12 DEF Inv

\* The ladder file is replaced, or that fails.
LEMMA LadderStep ==
    ASSUME Inv, ScanLadder
    PROVE  Inv'
<1> USE DEF ScanLadder
<1>1. /\ scan.pc = "entries" /\ scan.todo = {} /\ ScanOnly /\ UNCHANGED <<seen, pages>>
      /\ scan' = [scan EXCEPT !.pc = "append"]
      /\ ladder' \in {scan.ladder, ladder} /\ failures' \in {failures, failures + 1}
      /\ failures' \in 0..MaxFailures /\ lost' \in {lost, lost \union Unrecorded}
      /\ failures \in Nat
    BY DEF Inv, TypeOK, TurnEndsAssumption
<1>2. /\ scan'.pc = "append" /\ scan'.todo = {} /\ scan'.new = scan.new
      /\ scan'.ladder = scan.ladder
      /\ scan' \in [pc : {"idle", "entries", "append"}, todo : SUBSET ends,
                    new : SUBSET ends, ladder : Entries]
    BY <1>1 DEF Inv, TypeOK
<1>3. TypeOK' /\ TurnsCounted'
    <2>1. Unrecorded \subseteq Times
        BY DEF Inv, TypeOK, Unrecorded
    <2>2. ladder' \in Entries /\ lost' \subseteq Times
        BY <1>1, <2>1 DEF Inv, TypeOK
    <2> QED BY <1>1, <1>2, <2>2, ScanFrame
            DEF ScanType, ScanOnly, Inv, TypeOK
<1>4. LookedAtOnce'
    BY <1>2 DEF LookedAtOnce
<1>5. Consumed' = Consumed
    BY <1>1, <1>2 DEF Consumed
<1>6. RungsArePaid'
    <2>1. /\ Cardinality(seen) \in Nat /\ Cardinality(Consumed) \in Nat
          /\ scan.ladder.level \in Nat /\ ladder.level \in Nat
        BY EndsAreCounted, LevelsAreNumbers DEF Inv
    <2>2. \A entry \in {ladder, scan.ladder} :
              /\ entry.level <= Cardinality(seen) + failures' + 1
              /\ entry.level <= Cardinality(Consumed) + failures'
        BY <1>1, <2>1 DEF Inv, RungsArePaid
    <2> QED BY <1>1, <1>2, <1>5, <2>2 DEF RungsArePaid
<1>7. PagedIsConsumed'
    BY <1>1, <1>5 DEF Inv, PagedIsConsumed
<1> QED BY <1>3, <1>4, <1>6, <1>7 DEF Inv

\* What was printed and suppressed is remembered.
LEMMA AppendStep ==
    ASSUME Inv, ScanAppend
    PROVE  Inv'
<1> USE DEF ScanAppend
<1>1. NoEntry \in Entries /\ NoEntry.level = 0
    BY DEF NoEntry, Entries, MaybeTimes, TurnEndsAssumption
<1>2. /\ scan' = IdleScan /\ seen' = Consumed /\ Consumed' = Consumed /\ scan'.pc = "idle"
      /\ scan'.ladder = NoEntry
    BY DEF Consumed, IdleScan
<1>3. TypeOK' /\ TurnsCounted'
    <2>1. Consumed \subseteq ends
        BY DEF Inv, TypeOK, Consumed
    <2>2. IdleScan \in [pc : {"idle", "entries", "append"}, todo : SUBSET ends,
                        new : SUBSET ends, ladder : Entries]
        BY <1>1 DEF IdleScan
    <2> QED BY <1>2, <2>1, <2>2, ScanFrame
            DEF ScanType, ScanOnly, Inv, TypeOK
<1>4. LookedAtOnce'
    BY <1>2 DEF LookedAtOnce, IdleScan
<1>5. RungsArePaid'
    <2>1. Cardinality(Consumed) \in Nat /\ failures \in Nat /\ ladder.level \in Nat
        BY EndsAreCounted, LevelsAreNumbers DEF Inv
    <2>2. ladder.level <= Cardinality(Consumed) + failures
        BY DEF Inv, RungsArePaid
    <2>3. ladder' = ladder /\ failures' = failures
        OBVIOUS
    <2>4. Cardinality(seen') = Cardinality(Consumed) /\ Cardinality(Consumed') = Cardinality(Consumed)
        BY <1>2
    <2> HIDE DEF ScanAppend
    <2> QED BY <1>1, <1>2, <2>1, <2>2, <2>3, <2>4 DEF RungsArePaid
<1>6. PagedIsConsumed'
    BY <1>2 DEF Inv, PagedIsConsumed
<1> QED BY <1>3, <1>4, <1>5, <1>6 DEF Inv

\* What a dead scan had consumed is there again, at the price of a failure.
LEMMA DiesStep ==
    ASSUME Inv, ScanDies
    PROVE  Inv'
<1> USE DEF ScanDies
<1>1. NoEntry \in Entries /\ NoEntry.level = 0
    BY DEF NoEntry, Entries, MaybeTimes, TurnEndsAssumption
<1>2. /\ scan' = IdleScan /\ seen' = seen /\ Consumed' = seen /\ scan'.pc = "idle"
      /\ scan'.ladder = NoEntry /\ ladder' = ladder /\ pages' = pages
    BY DEF Consumed, IdleScan
<1>3. failures' = failures + 1 /\ failures \in Nat /\ failures' \in 0..MaxFailures
    BY DEF Inv, TypeOK, TurnEndsAssumption
<1>4. TypeOK' /\ TurnsCounted'
    <2>1. lost' \subseteq Times
        BY DEF Inv, TypeOK, Unrecorded
    <2>2. IdleScan \in [pc : {"idle", "entries", "append"}, todo : SUBSET ends,
                        new : SUBSET ends, ladder : Entries]
        BY <1>1 DEF IdleScan
    <2> QED BY <1>2, <1>3, <2>1, <2>2, ScanFrame
            DEF ScanType, ScanOnly, Inv, TypeOK
<1>5. LookedAtOnce'
    BY <1>2 DEF LookedAtOnce, IdleScan
<1>6. RungsArePaid'
    <2>1. Cardinality(seen) \in Nat /\ ladder.level \in Nat
        BY EndsAreCounted, LevelsAreNumbers DEF Inv
    <2>2. ladder.level <= Cardinality(seen) + failures + 1
        BY DEF Inv, RungsArePaid
    <2> QED BY <1>1, <1>2, <1>3, <2>1, <2>2 DEF RungsArePaid
<1>7. PagedIsConsumed'
    BY <1>3 DEF PagedIsConsumed
<1> QED BY <1>4, <1>5, <1>6, <1>7 DEF Inv

\* Every step preserves the invariant.
LEMMA InvStep == Inv /\ [Next]_vars => Inv'
<1> SUFFICES ASSUME Inv, [Next]_vars PROVE Inv'
    OBVIOUS
<1>1. CASE Next
    BY <1>1, WorkerStep, BeginStep, PassStep, PageStep, LadderStep, AppendStep, DiesStep
       DEF Next, Scan
<1>2. CASE UNCHANGED vars
    <2>1. TypeOK' /\ TurnsCounted'
        BY <1>2 DEF vars, Inv, TypeOK, TurnsCounted
    <2>2. UNCHANGED lane
        BY <1>2 DEF vars, lane
    <2> QED BY <2>1, <2>2, ScanUntouched DEF Inv
<1> QED BY <1>1, <1>2

\* Whatever the worker does while scans run, no turn-end is printed twice
\* unless a scan died or could not write its ladder; and the types.
THEOREM PagesOnce == Spec => []PagedOnce
<1>1. Inv => PagedOnce
    BY DEF Inv, PagedOnce, PagedIsConsumed
<1> QED BY <1>1, InvInit, InvStep, PTL DEF Spec

(***************************************************************************)
(* The ladder.                                                             *)
(***************************************************************************)
\* The worker's entry that the next page will be judged by, and the pages of
\* the lull that page would belong to.
Working == IF scan.pc = "entries" THEN scan.ladder ELSE ladder
Lull == LullBefore([at |-> now, exited |-> record = NoRecord])

\* An entry counts the pages of a lull: it is as young as the youngest of
\* them, knows of an exit that one of them told, and has a rung for each.
CountsPages(entry, lull) ==
    /\ \A p \in lull : p.at <= entry.last /\ (p.exited => entry.exited)
    /\ Cardinality(lull) <= entry.level

\* What is left of the lull when the scan dies, which loses what it printed.
Kept == IF scan.ladder.last = now THEN {p \in Lull : p.at # now} ELSE Lull

\* The working entry counts the whole lull; while a scan has it in memory, the
\* file counts what would be left without that scan.
LullIsCounted ==
    /\ record.since <= now
    /\ IsFiniteSet(pages)
    /\ \A p \in pages : p.at <= now /\ (p.exited => record = NoRecord)
    /\ CountsPages(Working, Lull)
    /\ scan.pc = "entries" => CountsPages(ladder, Kept)

\* Sizes of sets of pages.
LEMMA LullIsFinite ==
    ASSUME LullIsCounted
    PROVE  /\ IsFiniteSet(Lull) /\ Cardinality(Lull) \in Nat
           /\ \A S \in SUBSET Lull : /\ IsFiniteSet(S) /\ Cardinality(S) \in Nat
                                     /\ Cardinality(S) <= Cardinality(Lull)
<1>1. Lull \subseteq pages
    BY DEF Lull, LullBefore
<1>2. IsFiniteSet(Lull)
    BY <1>1, FS_Subset DEF LullIsCounted
<1> QED BY <1>2, FS_Subset, FS_CardinalityType

\* What counts a lull counts what remains of it.
LEMMA CountsFewer ==
    ASSUME NEW entry \in Entries, NEW more, NEW fewer \in SUBSET more,
           IsFiniteSet(more), CountsPages(entry, more)
    PROVE  CountsPages(entry, fewer)
<1>1. /\ Cardinality(fewer) <= Cardinality(more)
      /\ Cardinality(fewer) \in Nat /\ Cardinality(more) \in Nat
    BY FS_Subset, FS_CardinalityType
<1>2. entry.level \in Nat
    BY DEF Entries, TurnEndsAssumption
<1> QED BY <1>1, <1>2 DEF CountsPages

\* Pages that drop out of the lull do no harm.
LEMMA LullShrinks ==
    ASSUME Inv, LullIsCounted, UNCHANGED <<scan, ladder, pages>>, Lull' \subseteq Lull,
           now' = now \/ scan.pc # "entries", record'.since <= now', now' \in Nat, now' >= now,
           \A p \in pages : p.exited => record' = NoRecord
    PROVE  LullIsCounted'
<1>1. /\ ladder \in Entries /\ Working \in Entries /\ Working' = Working
      /\ \A p \in pages : p.at <= now'
    <2>1. now \in Nat /\ now' \in Nat /\ \A p \in pages : p.at \in Nat
        BY DEF Inv, TypeOK, Times, TurnEndsAssumption
    <2> QED BY <2>1 DEF Inv, TypeOK, Working, LullIsCounted
<1>2. CountsPages(Working, Lull')
    BY <1>1, LullIsFinite, CountsFewer DEF LullIsCounted
<1>3. ASSUME scan.pc = "entries"
      PROVE  CountsPages(ladder, Kept')
    <2>1. now' = now /\ Kept' \subseteq Kept /\ Kept \subseteq Lull
        BY <1>3 DEF Kept
    <2>2. IsFiniteSet(Kept) /\ CountsPages(ladder, Kept)
        BY <1>3, <2>1, LullIsFinite DEF LullIsCounted
    <2> QED BY <1>1, <2>1, <2>2, CountsFewer
<1> QED
    <2>1. CountsPages(Working, Lull)' <=> CountsPages(Working, Lull')
        BY <1>1 DEF CountsPages
    <2>2. CountsPages(ladder, Kept)' <=> CountsPages(ladder, Kept')
        BY DEF CountsPages
    <2> QED BY <1>1, <1>2, <1>3, <2>1, <2>2 DEF LullIsCounted

\* The lull only shrinks while no scan acts: a prompt, a done event or an exit
\* ends it, and time takes the oldest pages out of it.
LEMMA LullOfWorker ==
    ASSUME Inv, LullIsCounted, Tick \/ Worker \/ Limit \/ Unlimit
    PROVE  LullIsCounted'
<1>1. /\ now \in Nat /\ record.since \in Nat /\ record.since <= now /\ LadderTTL \in Nat
      /\ \A p \in pages : p.at \in Nat /\ (p.exited => record = NoRecord)
    BY DEF Inv, TypeOK, Times, MaybeTimes, Unset, NoRecord, LullIsCounted, TurnEndsAssumption
<1>2. CASE Tick
    <2> USE <1>2 DEF Tick
    <2>1. Lull' \subseteq Lull
        BY <1>1 DEF Lull, LullBefore, lane
    <2> QED BY <1>1, <2>1, LullShrinks DEF lane
<1>3. CASE Exit
    <2> USE <1>3 DEF Exit
    <2>1. Lull' \subseteq Lull
        BY <1>1 DEF Lull, LullBefore, lane
    <2>2. record'.since <= now'
        BY <1>1 DEF NoRecord, Unset
    <2> QED BY <1>1, <2>1, <2>2, LullShrinks DEF lane
<1>4. CASE Task \/ Prompt \/ Wake \/ Stop \/ WorkerDone \/ Ask \/ Answered \/ Subagent
              \/ Limit \/ Unlimit
    <2>1. /\ now' = now /\ UNCHANGED lane /\ dones \subseteq dones'
          /\ record'.since \in {record.since, now} /\ (record' = NoRecord <=> record = NoRecord)
        <3>1. record = NoRecord \/ record \in Records
            BY DEF Inv, TypeOK, Records
        <3>2. \A r \in Records : r # NoRecord
            BY DEF Records, NoRecord
        <3>3. CASE Task
            <4>1. record \in Records /\ record' = [record EXCEPT !.tasked = now]
                BY <3>1, <3>3 DEF Task
            <4>2. record' \in Records /\ record'.since = record.since
                BY <4>1 DEF Records, Inv, TypeOK, MaybeTimes
            <4> QED BY <3>2, <3>3, <4>1, <4>2 DEF Task
        <3>4. CASE Prompt
            <4>1. CASE record = NoRecord
                BY <3>4, <4>1 DEF Prompt
            <4>2. CASE record \in Records
                <5>1. record' = [record EXCEPT !.state = "processing", !.since = now]
                    BY <3>2, <3>4, <4>2 DEF Prompt
                <5>2. record' \in Records /\ record'.since = now
                    BY <4>2, <5>1 DEF Records, Inv, TypeOK, MaybeTimes
                <5> QED BY <3>2, <3>4, <4>2, <5>2 DEF Prompt
            <4> QED BY <3>1, <4>1, <4>2
        <3>5. CASE Stop
            <4>1. CASE record = NoRecord
                BY <3>5, <4>1 DEF Stop
            <4>2. CASE record \in Records
                <5>1. record' = [record EXCEPT !.state = "idle"]
                    BY <3>2, <3>5, <4>2 DEF Stop
                <5>2. record' \in Records /\ record'.since = record.since
                    BY <4>2, <5>1 DEF Records
                <5> QED BY <3>2, <3>5, <4>2, <5>2 DEF Stop
            <4> QED BY <3>1, <4>1, <4>2
        <3>6. CASE Wake \/ WorkerDone \/ Ask \/ Answered \/ Subagent \/ Limit \/ Unlimit
            BY <3>6 DEF Wake, WorkerDone, Ask, Answered, Subagent, Limit, Unlimit
        <3> QED BY <1>4, <3>3, <3>4, <3>5, <3>6
    <2>2. Lull' \subseteq Lull
        BY <1>1, <2>1 DEF Lull, LullBefore, lane
    <2> QED BY <1>1, <2>1, <2>2, LullShrinks DEF lane
<1> QED BY <1>2, <1>3, <1>4 DEF Worker

\* A scan begins: an entry that is forgotten had no page left to count.
LEMMA LullOfBegin ==
    ASSUME Inv, LullIsCounted, ScanBegin
    PROVE  LullIsCounted'
<1> USE DEF ScanBegin
<1>1. /\ now \in Nat /\ ladder.last \in Nat /\ LadderTTL \in Nat /\ ladder \in Entries
      /\ \A p \in pages : p.at \in Nat
    BY DEF Inv, TypeOK, Times, MaybeTimes, Unset, Entries, TurnEndsAssumption
<1>2. Lull' = Lull /\ UNCHANGED <<now, record, pages, ladder>>
    BY DEF Lull, LullBefore
<1>3. CountsPages(ladder, Lull)
    BY DEF LullIsCounted, Working
<1>4. CountsPages(Pruned(ladder), Lull)
    <2>1. CASE Pruned(ladder) = ladder
        BY <1>3, <2>1
    <2>2. CASE Pruned(ladder) # ladder
        <3>1. now - ladder.last > LadderTTL /\ Pruned(ladder) = NoEntry
            BY <2>2 DEF Pruned
        <3>2. ASSUME NEW p \in Lull
              PROVE  FALSE
            <4>1. p \in pages /\ now - p.at <= LadderTTL /\ p.at <= ladder.last
                BY <1>3 DEF Lull, LullBefore, CountsPages
            <4> QED BY <1>1, <3>1, <4>1
        <3>3. Lull = {}
            BY <3>2
        <3> QED BY <3>1, <3>3, FS_EmptySet DEF CountsPages, NoEntry
    <2> QED BY <2>1, <2>2
<1>5. CountsPages(ladder, Kept')
    <2>1. Kept' \in SUBSET Lull
        BY <1>2 DEF Kept
    <2> QED BY <1>1, <1>3, <2>1, LullIsFinite, CountsFewer
<1>6. Working' = Pruned(ladder)
    BY DEF Working
<1>7. CountsPages(Working, Lull)' /\ CountsPages(ladder, Kept)'
    BY <1>2, <1>4, <1>5, <1>6 DEF CountsPages
<1> QED BY <1>2, <1>7 DEF LullIsCounted

\* A turn-end that is held or suppressed changes neither entry nor pages.
LEMMA LullOfPass ==
    ASSUME Inv, LullIsCounted, ScanHold \/ ScanSuppress \/ ScanMisjudges
    PROVE  LullIsCounted'
<1>1. /\ UNCHANGED <<ladder, pages, lost, now, record, dones>>
      /\ scan'.pc = scan.pc /\ scan'.ladder = scan.ladder
    BY DEF ScanHold, ScanSuppress, ScanMisjudges, ScanOnly, Inv, TypeOK
<1>2. Lull' = Lull /\ Working' = Working /\ Kept' = Kept
    BY <1>1 DEF Lull, LullBefore, Working, Kept
<1> QED BY <1>1, <1>2 DEF LullIsCounted, CountsPages

\* What a gate says of the lull: after a reset there is none, and a rung is due.
LEMMA GateOfLull ==
    ASSUME Inv, LullIsCounted, scan.pc = "entries", Verdict \in {"emit", "exited"},
           Gate(scan.ladder, Verdict) # "hold"
    PROVE  /\ Verdict = "exited" <=> record = NoRecord
           /\ Gate(scan.ladder, Verdict) \in {"reset", "rung"}
           /\ Gate(scan.ladder, Verdict) = "reset" => Lull = {}
           /\ Gate(scan.ladder, Verdict) = "rung"
                => now - scan.ladder.last >= Rung(scan.ladder.level)
<1>1. Verdict = "exited" <=> record = NoRecord
    BY DEF Verdict, ClassifyTurnEnd
<1>2. /\ scan.ladder \in Entries /\ scan.ladder.last \in Nat /\ record.since \in Nat
      /\ \A d \in dones : d \in Nat
      /\ \A p \in pages : p.at \in Nat /\ p.at > 0
    BY DEF Inv, TypeOK, Entries, MaybeTimes, Times, Unset, NoRecord, TurnEndsAssumption
<1>3. \A p \in Lull : /\ p \in pages /\ p.at <= scan.ladder.last
                      /\ p.exited => scan.ladder.exited
                      /\ record.since <= p.at /\ \A d \in dones : d <= p.at
                      /\ record = NoRecord => p.exited
    BY DEF LullIsCounted, Working, CountsPages, Lull, LullBefore
<1>4. ASSUME Reset(scan.ladder, Verdict), NEW p \in Lull
      PROVE  FALSE
    <2>1. CASE scan.ladder = NoEntry
        BY <1>2, <1>3, <2>1 DEF NoEntry, Unset
    <2>2. CASE record.since > scan.ladder.last
        BY <1>2, <1>3, <2>2
    <2>3. CASE DoneSince(scan.ladder.last)
        BY <1>2, <1>3, <2>3 DEF DoneSince
    <2>4. CASE Verdict = "exited" /\ ~scan.ladder.exited
        BY <1>1, <1>3, <2>4
    <2> QED BY <1>4, <2>1, <2>2, <2>3, <2>4 DEF Reset
<1> QED BY <1>1, <1>4 DEF Gate

\* A page joins the lull, and its entry climbs a rung or begins anew.
LEMMA LullOfPage ==
    ASSUME Inv, LullIsCounted, ScanPage
    PROVE  LullIsCounted'
<1> DEFINE gate == Gate(scan.ladder, Verdict)
           next == NextEntry(scan.ladder, Verdict, gate)
           page == [end |-> Entry, at |-> now, exited |-> Verdict = "exited"]
<1>1. /\ scan.pc = "entries" /\ gate # "hold" /\ Verdict \in {"emit", "exited"}
      /\ UNCHANGED <<ladder, lost, now, record, dones>> /\ pages' = pages \union {page}
      /\ scan'.pc = "entries" /\ scan'.ladder = next
    BY DEF ScanPage, ScanOnly, Inv, TypeOK
<1>2. /\ Verdict = "exited" <=> record = NoRecord
      /\ gate \in {"reset", "rung"} /\ (gate = "reset" => Lull = {})
    BY <1>1, GateOfLull
<1>3. next.last = now /\ (next.exited <=> Verdict = "exited" \/ (gate = "rung" /\ scan.ladder.exited))
      /\ next.level = IF gate = "rung" THEN scan.ladder.level + 1 ELSE 1
    BY DEF NextEntry
<1>4. Lull' \subseteq Lull \union {page}
    BY <1>1 DEF Lull, LullBefore
<1>5. /\ now \in Nat /\ scan.ladder.level \in Nat /\ scan.ladder.last \in Nat
      /\ ladder \in Entries /\ \A p \in pages : p.at \in Nat /\ p.at <= now
    BY DEF Inv, TypeOK, Times, MaybeTimes, Unset, Entries, TurnEndsAssumption, LullIsCounted
<1>6. page.at = now /\ (page.exited <=> Verdict = "exited")
    OBVIOUS
<1> HIDE DEF gate, next, page
<1>7. IsFiniteSet(pages')
    BY <1>1, FS_AddElement DEF LullIsCounted
<1>8. \A p \in pages' : p.at <= now' /\ (p.exited => record' = NoRecord)
    <2>1. \A p \in pages : p.at <= now /\ (p.exited => record = NoRecord)
        BY <1>5 DEF LullIsCounted
    <2>2. page.at <= now /\ (page.exited => record = NoRecord)
        BY <1>2, <1>5, <1>6
    <2> QED BY <1>1, <2>1, <2>2
<1>9. CountsPages(scan.ladder, Lull)
    BY <1>1 DEF LullIsCounted, Working
<1>10. CountsPages(next, Lull')
    <2>1. ASSUME NEW p \in Lull'
          PROVE  p.at <= next.last /\ (p.exited => next.exited)
        <3>1. CASE p = page
            <4>1. page.exited => next.exited
                BY <1>3, <1>6
            <4> QED BY <1>3, <1>5, <1>6, <3>1, <4>1
        <3>2. CASE p \in Lull
            BY <1>2, <1>3, <1>5, <1>9, <3>2 DEF CountsPages, Lull, LullBefore
        <3> QED BY <1>4, <3>1, <3>2
    <2>2. Cardinality(Lull') <= next.level
        <3>1. /\ IsFiniteSet(Lull) /\ Cardinality(Lull) \in Nat
              /\ Cardinality(Lull) <= scan.ladder.level
            BY <1>9, LullIsFinite DEF CountsPages
        <3>2. /\ IsFiniteSet(Lull \union {page})
              /\ Cardinality(Lull \union {page}) \in {Cardinality(Lull), Cardinality(Lull) + 1}
            BY <3>1, FS_AddElement
        <3>3. /\ Cardinality(Lull') <= Cardinality(Lull) + 1
              /\ Cardinality(Lull') \in Nat
            BY SMTT(20), <1>4, <3>1, <3>2, FS_Subset, FS_CardinalityType
        <3>4. CASE gate = "rung"
            BY <1>3, <1>5, <3>1, <3>3, <3>4
        <3>5. CASE gate = "reset"
            BY <1>2, <1>3, <3>3, <3>5, FS_EmptySet
        <3> QED BY <1>2, <3>4, <3>5
    <2> QED BY <2>1, <2>2 DEF CountsPages
<1>11. CountsPages(ladder, Kept')
    <2>1. Kept' \in SUBSET Kept
        BY <1>1, <1>3, <1>4, <1>6 DEF Kept
    <2>2. IsFiniteSet(Kept) /\ CountsPages(ladder, Kept)
        BY <1>1, LullIsFinite DEF LullIsCounted, Kept
    <2> QED BY <1>5, <2>1, <2>2, CountsFewer
<1>12. CountsPages(Working, Lull)' /\ CountsPages(ladder, Kept)'
    BY <1>1, <1>10, <1>11 DEF CountsPages, Working
<1> QED BY <1>1, <1>7, <1>8, <1>12 DEF LullIsCounted

\* The ladder is written; when that fails, what the scan printed is lost.
LEMMA LullOfLadder ==
    ASSUME Inv, LullIsCounted, ScanLadder
    PROVE  LullIsCounted'
<1>1. /\ scan.pc = "entries" /\ scan'.pc = "append" /\ Working' = ladder'
      /\ UNCHANGED <<pages, now, record, dones>>
    BY DEF ScanLadder, ScanOnly, Inv, TypeOK, Working
<1>2. CASE ladder' = scan.ladder /\ lost' = lost
    <2>1. Lull' = Lull /\ Working' = Working
        BY <1>1, <1>2 DEF Lull, LullBefore, Working
    <2> QED BY <1>1, <2>1 DEF LullIsCounted, CountsPages
<1>3. CASE ladder' = ladder /\ lost' = lost \union Unrecorded
    <2>1. Lull' \in SUBSET Kept
        BY <1>1, <1>3 DEF Lull, LullBefore, Kept, Unrecorded
    <2>2. IsFiniteSet(Kept) /\ CountsPages(ladder, Kept) /\ ladder \in Entries
        BY <1>1, LullIsFinite DEF LullIsCounted, Kept, Inv, TypeOK
    <2>3. CountsPages(ladder, Lull')
        BY <2>1, <2>2, CountsFewer
    <2> QED BY <1>1, <1>3, <2>3 DEF LullIsCounted, CountsPages
<1> QED BY <1>2, <1>3 DEF ScanLadder

\* A scan that is over had written its ladder; one that dies before loses what
\* it printed.
LEMMA LullOfEnd ==
    ASSUME Inv, LullIsCounted, ScanAppend \/ ScanDies
    PROVE  LullIsCounted'
<1>1. /\ UNCHANGED <<pages, ladder, now, record, dones>> /\ scan'.pc = "idle"
      /\ Working' = ladder
    BY DEF ScanAppend, ScanDies, ScanOnly, IdleScan, Working
<1>2. CASE scan.pc = "append"
    <2>1. Lull' = Lull /\ Working = ladder
        BY <1>1, <1>2 DEF ScanAppend, ScanDies, Lull, LullBefore, Working
    <2> QED BY <1>1, <2>1 DEF LullIsCounted, CountsPages
<1>3. CASE scan.pc = "entries"
    <2>1. lost' = lost \union Unrecorded
        BY <1>3 DEF ScanAppend, ScanDies
    <2>2. Lull' \in SUBSET Kept
        BY <1>1, <2>1 DEF Lull, LullBefore, Kept, Unrecorded
    <2>3. IsFiniteSet(Kept) /\ CountsPages(ladder, Kept) /\ ladder \in Entries
        BY <1>3, LullIsFinite DEF LullIsCounted, Kept, Inv, TypeOK
    <2>4. CountsPages(ladder, Lull')
        BY <2>2, <2>3, CountsFewer
    <2> QED BY <1>1, <2>4 DEF LullIsCounted, CountsPages
<1>4. scan.pc \in {"entries", "append"}
    BY DEF ScanAppend, ScanDies, Inv, TypeOK
<1> QED BY <1>2, <1>3, <1>4

\* No page, no lull.
LEMMA LullInit == Init => LullIsCounted
<1> SUFFICES ASSUME Init PROVE LullIsCounted
    OBVIOUS
<1>1. Lull = {} /\ Working = NoEntry /\ pages = {} /\ scan.pc = "idle"
    BY DEF Init, Lull, LullBefore, Working, IdleScan
<1>2. CountsPages(NoEntry, {})
    BY FS_EmptySet DEF CountsPages, NoEntry
<1>3. record.since <= now
    BY DEF Init, Unset
<1> QED BY <1>1, <1>2, <1>3, FS_EmptySet DEF LullIsCounted

\* Every step keeps the pages of a lull counted.
LEMMA LullStep == Inv /\ LullIsCounted /\ [Next]_vars => LullIsCounted'
<1> SUFFICES ASSUME Inv, LullIsCounted, [Next]_vars PROVE LullIsCounted'
    OBVIOUS
<1>1. CASE Next
    BY <1>1, LullOfWorker, LullOfBegin, LullOfPass, LullOfPage, LullOfLadder, LullOfEnd
       DEF Next, Scan
<1>2. CASE UNCHANGED vars
    <2>1. Lull' = Lull /\ Working' = Working /\ Kept' = Kept
        BY <1>2 DEF vars, Lull, LullBefore, Working, Kept
    <2> QED BY <1>2, <2>1 DEF vars, LullIsCounted, CountsPages
<1> QED BY <1>1, <1>2

\* The rungs never get shorter.  A power of two is the number of subsets of so
\* many numbers, and there are no fewer of more.
LEMMA RungsGrow ==
    ASSUME NEW m \in Nat \ {0}, NEW n \in Nat, m <= n
    PROVE  Rung(m) \in Nat /\ Rung(n) \in Nat /\ Rung(m) <= Rung(n)
<1> DEFINE few == 1 .. m - 1
           many == 1 .. n - 1
<1>1. IsFiniteSet(few) /\ IsFiniteSet(many) /\ few \subseteq many
      /\ Cardinality(few) = m - 1 /\ Cardinality(many) = n - 1
    <2>1. m - 1 \in Nat /\ n - 1 \in Nat /\ 1 \in Int /\ m - 1 \in Int /\ n - 1 \in Int
        OBVIOUS
    <2>2. /\ IsFiniteSet(few) /\ Cardinality(few) = IF 1 > m - 1 THEN 0 ELSE m - 1 - 1 + 1
          /\ IsFiniteSet(many) /\ Cardinality(many) = IF 1 > n - 1 THEN 0 ELSE n - 1 - 1 + 1
        BY <2>1, FS_Interval
    <2> QED BY SMTT(20), <2>1, <2>2
<1>2. /\ IsFiniteSet(SUBSET few) /\ Cardinality(SUBSET few) = 2^(m - 1)
      /\ IsFiniteSet(SUBSET many) /\ Cardinality(SUBSET many) = 2^(n - 1)
    BY <1>1, FS_SUBSET
<1>3. SUBSET few \subseteq SUBSET many
    BY <1>1
<1>4. 2^(m - 1) \in Nat /\ 2^(n - 1) \in Nat /\ 2^(m - 1) <= 2^(n - 1)
    BY SMTT(20), <1>2, <1>3, FS_Subset, FS_CardinalityType
<1> HIDE DEF few, many
<1>5. /\ LadderBase * 2^(m - 1) \in Nat /\ LadderBase * 2^(n - 1) \in Nat
      /\ LadderBase * 2^(m - 1) <= LadderBase * 2^(n - 1)
    <2>1. \A a, b, c \in Nat : b <= c => a * b \in Nat /\ a * c \in Nat /\ a * b <= a * c
        OBVIOUS
    <2> QED BY <1>4, <2>1 DEF TurnEndsAssumption
<1>6. /\ Rung(m) \in {LadderBase * 2^(m - 1), LadderCap}
      /\ Rung(m) <= LadderBase * 2^(m - 1) /\ Rung(m) <= LadderCap
      /\ Rung(n) \in {LadderBase * 2^(n - 1), LadderCap}
    BY <1>5, MinIsLeast DEF Rung, TurnEndsAssumption
<1> QED BY <1>5, <1>6 DEF TurnEndsAssumption

\* The greatest of some numbers that are not greater than k.
LEMMA MaxIsGreatest ==
    ASSUME NEW S \in SUBSET Nat, S # {}, NEW k \in Nat, \A x \in S : x <= k
    PROVE  Max(S) \in S /\ Max(S) <= k
<1> DEFINE rest == {k - x : x \in S}
<1>1. rest \in SUBSET Nat /\ rest # {}
    <2>1. \A x \in S : x \in Nat /\ k - x \in Nat
        OBVIOUS
    <2> QED BY <2>1
<1>2. Min(rest) \in rest /\ \A y \in rest : Min(rest) <= y
    BY <1>1, MinIsLeast
<1>3. PICK x \in S : Min(rest) = k - x
    BY <1>2
<1>4. ASSUME NEW y \in S
      PROVE  x >= y
    <2>1. k - x <= k - y /\ x \in Nat /\ y \in Nat
        BY <1>2, <1>3
    <2> QED BY <2>1
<1> QED BY <1>4 DEF Max

\* Repeated pages of one lull keep their doubling distance, whatever scans die
\* after they printed, and for any number of turns.
THEOREM PagesKeepBackingOff == Spec => PagesBackOff
<1>1. ASSUME Inv, LullIsCounted, [Next]_vars, NEW q \in pages' \ pages, LullBefore(q) # {}
      PROVE  q.at - Max({p.at : p \in LullBefore(q)}) >= Rung(Cardinality(LullBefore(q)))
    <2>1. ScanPage
        BY <1>1 DEF Next, Worker, Scan, Tick, Task, Prompt, Wake, Stop, WorkerDone, Ask, Answered,
           Subagent, Exit, Limit, Unlimit, ScanBegin, ScanHold, ScanSuppress, ScanLadder,
           ScanMisjudges, ScanAppend, ScanDies, lane, vars
    <2>2. /\ scan.pc = "entries" /\ Verdict \in {"emit", "exited"}
          /\ Gate(scan.ladder, Verdict) # "hold"
          /\ q = [end |-> Entry, at |-> now, exited |-> Verdict = "exited"]
        BY <1>1, <2>1 DEF ScanPage
    <2>3. q.at = now /\ q.exited = (record = NoRecord)
        BY <1>1, <2>2, GateOfLull
    <2>4. LullBefore(q) = Lull
        BY <2>3 DEF Lull, LullBefore
    <2>5. now - scan.ladder.last >= Rung(scan.ladder.level)
        BY <1>1, <2>2, <2>4, GateOfLull
    <2> DEFINE times == {p.at : p \in Lull}
    <2>6. /\ now \in Nat /\ scan.ladder.last \in Nat /\ scan.ladder.level \in Nat
          /\ \A p \in pages : p.at \in Nat
        BY <1>1 DEF Inv, TypeOK, Times, MaybeTimes, Unset, Entries, TurnEndsAssumption
    <2>7. CountsPages(scan.ladder, Lull)
        BY <1>1, <2>2 DEF LullIsCounted, Working
    <2>8. Max(times) \in Nat /\ Max(times) <= scan.ladder.last
        <3>1. times \in SUBSET Nat /\ times # {} /\ \A t \in times : t <= scan.ladder.last
            BY <1>1, <2>4, <2>6, <2>7 DEF CountsPages, Lull, LullBefore
        <3> QED BY <2>6, <3>1, MaxIsGreatest
    <2>9. /\ Rung(Cardinality(Lull)) <= Rung(scan.ladder.level)
          /\ Rung(Cardinality(Lull)) \in Nat /\ Rung(scan.ladder.level) \in Nat
        <3>1. Cardinality(Lull) \in Nat \ {0}
            BY <1>1, <2>4, LullIsFinite, FS_EmptySet
        <3> QED BY <2>6, <2>7, <3>1, RungsGrow DEF CountsPages
    <2> HIDE DEF times
    <2>10. now - Max(times) >= Rung(Cardinality(Lull))
        BY <2>5, <2>6, <2>8, <2>9
    <2> QED BY <2>3, <2>4, <2>10 DEF times
<1>2. Inv /\ LullIsCounted /\ [Next]_vars
        => [\A q \in pages' \ pages :
               LET lull == LullBefore(q)
               IN  lull # {} => q.at - Max({p.at : p \in lull}) >= Rung(Cardinality(lull))]_vars
    BY <1>1
<1> QED BY <1>2, InvInit, InvStep, LullInit, LullStep, PTL DEF Spec, PagesBackOff

===============================================================================
