---------------------------- MODULE GardenerProofs ----------------------------
(***************************************************************************)
(* The gardener forgets no finding, has each proposal decided on once, and *)
(* applies a proposal to all of its targets or to none, for any numbers of *)
(* sessions, processes, runs, proposals, managers and repositories and any *)
(* bounds on what people, the clock and failures do.                       *)
(*                                                                         *)
(* The two sides of Gardener share no variable, so that the invariant is a *)
(* conjunction whose parts are proved each on its own: ApplyInv of the     *)
(* variables of Apply, and the others of those of Findings and Digest.     *)
(***************************************************************************)
EXTENDS Gardener, TLAPS

(***************************************************************************)
(* The invariant                                                           *)
(***************************************************************************)
\* The types of Apply's variables, whole records.
ApplyTypes ==
    /\ wellFormed \in BOOLEAN /\ torn \in BOOLEAN
    /\ disk \in [Roots -> Text] /\ head \in [Roots -> Text]
    /\ app \in [pc: {"none", "clean", "snap", "exec", "gate", "record"},
                kind: {"apply", "revert"}, mode: [Roots -> {"none", "patch", "splice"}],
                snap: [Roots -> Text], todo: SUBSET Roots]
    /\ entry \in {"none", "applied", "reverted"}
    /\ effort \in [touches: 0..MaxTouches, tries: Nat, mishaps: Nat]

\* An edit is counted, so that a version is a touch at the latest.
VersionsCounted ==
    \A r \in Roots : disk[r].ver <= effort.touches /\ app.snap[r].ver <= effort.touches

\* Where a call is, and what the targets and its snapshot look like.
OldText == \A r \in Roots : disk[r].has = (entry = "applied")
OldSnapshot == \A r \in Roots : app.snap[r].has = (entry = "applied")
WrittenSoFar == \A r \in Roots \ app.todo : disk[r].has = (app.kind = "apply")
CallOnCourse ==
    /\ app.pc \in {"none", "clean", "snap"} => OldText
    /\ app.pc \in {"exec", "gate"} => OldSnapshot
    /\ app.pc \in {"exec", "gate", "record"} => WrittenSoFar
    /\ app.pc \in {"gate", "record"} => app.todo = {}

ApplyInv == ApplyTypes /\ VersionsCounted /\ (~torn => CallOnCourse)

FindingFile == [there: BOOLEAN, content: BOOLEAN, reviewed: BOOLEAN, fresh: BOOLEAN]
RunRecord == [pc: {"none", "spawned", "wait", "post", "vet", "end"}, todo: SUBSET Proposals,
              cur: Proposals \cup {Free}, bad: BOOLEAN, ok: BOOLEAN]
AnalystRecord == [on: BOOLEAN, sees: SUBSET Sessions, drafting: BOOLEAN,
                  status: {"none", "ok", "error"}]
ProposalRecord == [at: {"nowhere", "pending", "decided", "rejected"}, flaw: BOOLEAN,
                   members: SUBSET Sessions, proposed: BOOLEAN, rejected: BOOLEAN, decided: Nat]

\* The types of the findings, and of the retrospectives.
FindingTypes ==
    /\ finding \in [Sessions -> FindingFile]
    /\ ends \in [Sessions -> 0..MaxEnds]
    /\ dedup \cup orphan \cup dropped \subseteq Sessions
    /\ known \in [read: SUBSET Sessions, stray: SUBSET Sessions, same: [Runs -> SUBSET Sessions]]
JobTypes ==
    /\ job \in [Jobs -> [sid: Sessions \cup {Free}, attempt: 0..1, pc: {"none", "wait", "run"}]]
    /\ \A j \in Jobs : job[j].pc # "none" => job[j].sid \in Sessions
    /\ queue \subseteq Sessions

\* The types of the runs and of the sessions they start.
RunTypes ==
    /\ marker \in [there: BOOLEAN, old: BOOLEAN]
    /\ pace \in [recent: BOOLEAN, week: Nat]
    /\ run \in [Runs -> RunRecord]
    /\ \A r \in Runs : run[r].pc = "vet" => run[r].cur \in Proposals
AnalystTypes == analyst \in [Runs -> AnalystRecord]

\* The types of the proposals and of the calls that decide on them.
ProposalTypes == prop \in [Proposals -> ProposalRecord]
DeciderTypes ==
    /\ decider \in [Deciders -> [pc: {"none", "checked", "moved"}, p: Proposals \cup {Free}]]
    /\ \A d \in Deciders : decider[d].pc # "none" => decider[d].p \in Proposals

\* Who works without the lock has lost it while it worked.
Running(r) == run[r].pc \in {"wait", "post", "vet", "end"}
LockHeld ==
    /\ lock \in Jobs \cup Runs \cup {Free, Dead, Bare}
    /\ loose \subseteq Jobs \cup Runs
    /\ \A j \in Jobs : job[j].pc = "run" => lock = j \/ j \in loose
    /\ \A r \in Runs : Running(r) => lock = r \/ r \in loose

\* Of the managers that decide on a proposal one moves its file, and it alone
\* writes the event.
Moved(d, p) == decider[d].pc = "moved" /\ decider[d].p = p
OneMove ==
    \A p \in Proposals :
        /\ prop[p].rejected => prop[p].at = "rejected"
        /\ prop[p].at # "decided" => prop[p].decided = 0 /\ \A d \in Deciders : ~Moved(d, p)
        /\ prop[p].decided <= 1
        /\ prop[p].decided = 1 => \A d \in Deciders : ~Moved(d, p)
        /\ \A d, e \in Deciders : Moved(d, p) /\ Moved(e, p) => d = e

\* An unreviewed finding waits for a digest to read it.  To an analyst whose run
\* is under way it is as it was, and among those the analyst saw, or it is
\* stray, or a digest before has read it: nothing else is written while a run
\* has the lock.
Waits(s) == finding[s].content /\ ~finding[s].reviewed
Settled(s) == s \in known.read \/ s \in known.stray
SeenByRun ==
    /\ \A s \in Sessions : finding[s].content => finding[s].there
    /\ \A s \in Sessions : Waits(s) => finding[s].fresh \/ Settled(s)
    /\ \A r \in Runs : Running(r) /\ analyst[r].drafting =>
            \A s \in Sessions : Waits(s) =>
                IF s \in known.same[r] THEN s \in analyst[r].sees ELSE Settled(s)
ReportsAreDrafts ==
    \A r \in Runs : /\ analyst[r].status = "ok" => analyst[r].drafting
                    /\ run[r].ok => Running(r) /\ analyst[r].drafting

Types == FindingTypes /\ JobTypes /\ RunTypes /\ AnalystTypes /\ ProposalTypes /\ DeciderTypes
DigestInv == Types /\ LockHeld /\ OneMove /\ SeenByRun /\ ReportsAreDrafts

(***************************************************************************)
(* Apply                                                                   *)
(***************************************************************************)
\* At first the change is in no target.
LEMMA ApplyStart == Init => ApplyInv
  <1> SUFFICES ASSUME Init PROVE ApplyInv
    OBVIOUS
  <1>1. 0 \in 0..MaxTouches
    BY TouchesAssumption
  <1>2. ASSUME NEW r \in Roots
        PROVE  disk[r] \in Text /\ disk[r].has = FALSE /\ disk[r].ver = 0
    <2>1. PICK f \in {"strict", "anchor"} : disk[r] = [has |-> FALSE, fit |-> f, ver |-> 0]
      BY DEF Init, ApplyInit
    <2> QED
      BY <1>1, <2>1 DEF Text
  <1>3. disk \in [Roots -> Text] /\ head \in [Roots -> Text]
    BY <1>2 DEF Init, ApplyInit
  <1>4. NoPlan \in [Roots -> {"none", "patch", "splice"}]
    BY DEF NoPlan
  <1>5. [r \in Roots |-> [has |-> FALSE, fit |-> "strict", ver |-> 0]] \in [Roots -> Text]
    BY <1>1 DEF Text
  <1>6. ApplyTypes
    BY <1>1, <1>3, <1>4, <1>5 DEF Init, ApplyInit, ApplyTypes, NoApp
  <1>7. VersionsCounted
    BY <1>2 DEF Init, ApplyInit, VersionsCounted, NoApp
  <1>8. CallOnCourse
    <2>1. app.pc = "none" /\ (entry = "applied") = FALSE
      BY DEF Init, ApplyInit, NoApp
    <2>2. OldText
      BY <1>2, <2>1 DEF OldText
    <2> QED
      BY <2>1, <2>2 DEF CallOnCourse
  <1> QED
    BY <1>6, <1>7, <1>8 DEF ApplyInv

\* No call is a call.
LEMMA NoAppTypes ==
    NoApp \in [pc: {"none", "clean", "snap", "exec", "gate", "record"},
               kind: {"apply", "revert"}, mode: [Roots -> {"none", "patch", "splice"}],
               snap: [Roots -> Text], todo: SUBSET Roots]
  <1>1. [r \in Roots |-> [has |-> FALSE, fit |-> "strict", ver |-> 0]] \in [Roots -> Text]
    BY TouchesAssumption DEF Text
  <1>2. NoPlan \in [Roots -> {"none", "patch", "splice"}]
    BY DEF NoPlan
  <1> QED
    BY <1>1, <1>2 DEF NoApp

\* A call that ends, with the text as the ledger has it, keeps the invariant.
LEMMA CallEnds ==
    ASSUME ApplyInv, Done, UNCHANGED <<wellFormed, head, entry>>,
           disk' \in [Roots -> Text],
           effort' \in [touches: 0..MaxTouches, tries: Nat, mishaps: Nat],
           effort'.touches = effort.touches, torn' \in BOOLEAN,
           \A r \in Roots : disk'[r].ver <= effort.touches,
           ~torn' => \A r \in Roots : disk'[r].has = (entry = "applied")
    PROVE  ApplyInv'
  <1>1. ApplyTypes'
    BY NoAppTypes DEF ApplyInv, ApplyTypes, Done
  <1>2. VersionsCounted'
    BY DEF ApplyInv, ApplyTypes, VersionsCounted, Done, NoApp
  <1>3. ~torn' => CallOnCourse'
    BY DEF Done, NoApp, CallOnCourse, OldText
  <1> QED
    BY <1>1, <1>2, <1>3 DEF ApplyInv

\* A rollback that works puts the old text back.
LEMMA RestorePutsBack ==
    ASSUME ApplyInv, app.pc \in {"exec", "gate"}, NEW ok \in BOOLEAN, Restore(ok)
    PROVE  /\ disk' \in [Roots -> Text] /\ torn' \in BOOLEAN
           /\ \A r \in Roots : disk'[r].ver <= effort.touches
           /\ ~torn' => \A r \in Roots : disk'[r].has = (entry = "applied")
  <1>1. PICK back \in SUBSET Roots :
            /\ ok => back = Roots
            /\ disk' = [r \in Roots |-> IF r \in back THEN app.snap[r] ELSE disk[r]]
    BY DEF Restore
  <1>2. /\ disk' \in [Roots -> Text]
        /\ \A r \in Roots : disk'[r].ver <= effort.touches
    BY <1>1 DEF ApplyInv, ApplyTypes, VersionsCounted
  <1>3. torn' \in BOOLEAN /\ (~torn' => ~torn /\ ok)
    BY DEF Restore, ApplyInv, ApplyTypes
  <1>4. ASSUME ~torn' PROVE \A r \in Roots : disk'[r].has = (entry = "applied")
    BY <1>1, <1>3, <1>4 DEF ApplyInv, CallOnCourse, OldSnapshot
  <1> QED
    BY <1>2, <1>3, <1>4

\* A mishap is not a touch.
LEMMA MishapEffort ==
    ASSUME ApplyInv, UNCHANGED effort \/ Mishap
    PROVE  /\ effort' \in [touches: 0..MaxTouches, tries: Nat, mishaps: Nat]
           /\ effort'.touches = effort.touches
  BY DEF ApplyInv, ApplyTypes, Mishap

\* The diff fits, and the call goes on, or it ends.
LEMMA ResolveKeeps ==
    ASSUME ApplyInv, NEW kind \in {"apply", "revert"}, Resolve(kind)
    PROVE  ApplyInv'
  <1>1. /\ effort' \in [touches: 0..MaxTouches, tries: Nat, mishaps: Nat]
        /\ effort'.touches = effort.touches
    BY DEF Resolve, ApplyInv, ApplyTypes
  <1>2. Plan(kind) \in [Roots -> {"none", "patch", "splice"}]
    BY DEF Plan
  <1>3. CASE Done
    BY <1>1, <1>3, CallEnds DEF Resolve, ApplyInv, ApplyTypes, VersionsCounted, CallOnCourse, OldText
  <1>4. CASE app' = [NoApp EXCEPT !.pc = "clean", !.kind = kind, !.mode = Plan(kind)]
    <2>1. ApplyTypes'
      BY <1>1, <1>2, <1>4, NoAppTypes DEF Resolve, ApplyInv, ApplyTypes
    <2>2. VersionsCounted'
      BY <1>1, <1>4 DEF Resolve, ApplyInv, ApplyTypes, VersionsCounted, NoApp
    <2>3. ~torn' => CallOnCourse'
      BY <1>4 DEF Resolve, ApplyInv, CallOnCourse, OldText, NoApp
    <2> QED
      BY <2>1, <2>2, <2>3 DEF ApplyInv
  <1> QED
    BY <1>3, <1>4 DEF Resolve

\* The targets are clean, and the call goes on, or it ends.
LEMMA EnsureCleanKeeps ==
    ASSUME ApplyInv, NEW force \in BOOLEAN, EnsureClean(force)
    PROVE  ApplyInv'
  <1>1. CASE app' = NoApp
    BY <1>1, CallEnds DEF EnsureClean, Done, ApplyInv, ApplyTypes, VersionsCounted, CallOnCourse, OldText
  <1>2. CASE app' = [app EXCEPT !.pc = "snap"]
    <2>1. ApplyTypes'
      BY <1>2 DEF EnsureClean, ApplyInv, ApplyTypes
    <2>2. VersionsCounted'
      BY <1>2 DEF EnsureClean, ApplyInv, ApplyTypes, VersionsCounted
    <2>3. ~torn' => CallOnCourse'
      BY <1>2 DEF EnsureClean, ApplyInv, ApplyTypes, CallOnCourse, OldText
    <2> QED
      BY <2>1, <2>2, <2>3 DEF ApplyInv
  <1> QED
    BY <1>1, <1>2 DEF EnsureClean

\* The snapshot is the old text, of which nothing is written yet.
LEMMA SnapshotKeeps ==
    ASSUME ApplyInv, NEW validated \in BOOLEAN, Snapshot(validated)
    PROVE  ApplyInv'
  <1>1. /\ effort' \in [touches: 0..MaxTouches, tries: Nat, mishaps: Nat]
        /\ effort'.touches = effort.touches
    BY MishapEffort DEF Snapshot
  <1>2. CASE app' = NoApp
    BY <1>1, <1>2, CallEnds DEF Snapshot, Done, ApplyInv, ApplyTypes, VersionsCounted, CallOnCourse, OldText
  <1>3. CASE app' = [app EXCEPT !.pc = "exec", !.snap = disk, !.todo = Roots]
    <2>1. ApplyTypes'
      BY <1>1, <1>3 DEF Snapshot, ApplyInv, ApplyTypes
    <2>2. VersionsCounted'
      BY <1>1, <1>3 DEF Snapshot, ApplyInv, ApplyTypes, VersionsCounted
    <2>3. ~torn' => CallOnCourse'
      BY ZenonT(40), <1>3 DEF Snapshot, ApplyInv, ApplyTypes, CallOnCourse, OldText, OldSnapshot, WrittenSoFar
    <2> QED
      BY <2>1, <2>2, <2>3 DEF ApplyInv
  <1> QED
    BY <1>2, <1>3 DEF Snapshot

\* One root more has the change, or is rid of it.
LEMMA WriteKeeps ==
    ASSUME ApplyInv, NEW r \in Roots, Write(r)
    PROVE  ApplyInv'
  <1>1. /\ Changed(r) \in Text /\ Changed(r).ver <= effort.touches
        /\ Changed(r).has = (app.kind = "apply")
    <2>1. /\ disk[r] \in Text /\ disk[r].ver <= effort.touches
          /\ app.snap[r].ver \in 0..MaxTouches /\ app.snap[r].ver <= effort.touches
          /\ app.kind \in {"apply", "revert"}
      BY DEF ApplyInv, ApplyTypes, VersionsCounted, Text
    <2>2. CASE Overwrites(r)
      BY <2>1, <2>2 DEF Changed, Overwrites, Text
    <2>3. CASE ~Overwrites(r)
      <3>1. Changed(r) = [disk[r] EXCEPT !.has = (app.kind = "apply")]
        BY <2>3 DEF Changed
      <3>2. (app.kind = "apply") \in BOOLEAN
        OBVIOUS
      <3> QED
        BY <2>1, <3>1, <3>2 DEF Text
    <2> QED
      BY <2>2, <2>3
  <1>2. ApplyTypes'
    BY <1>1 DEF Write, ApplyInv, ApplyTypes
  <1>3. VersionsCounted'
    BY <1>1 DEF Write, ApplyInv, ApplyTypes, VersionsCounted
  <1>4. ~torn' => CallOnCourse'
    BY <1>1 DEF Write, ApplyInv, ApplyTypes, CallOnCourse, OldSnapshot, WrittenSoFar
  <1> QED
    BY <1>2, <1>3, <1>4 DEF ApplyInv

\* A failing write or gate puts the snapshot back.
LEMMA FailureKeeps ==
    ASSUME ApplyInv, NEW ok \in BOOLEAN, GateFails(ok) \/ \E r \in Roots : WriteFails(r, ok)
    PROVE  ApplyInv'
  <1>1. /\ app.pc \in {"exec", "gate"} /\ Restore(ok) /\ Done
        /\ UNCHANGED <<wellFormed, head, entry>> /\ (UNCHANGED effort \/ Mishap)
    BY DEF GateFails, WriteFails
  <1> QED
    BY <1>1, RestorePutsBack, MishapEffort, CallEnds

\* The gate begins, or passes: all is written by then.
LEMMA OnwardKeeps ==
    ASSUME ApplyInv, CanonGate \/ GatePasses
    PROVE  ApplyInv'
  <1>1. ApplyTypes'
    BY DEF CanonGate, GatePasses, ApplyInv, ApplyTypes
  <1>2. VersionsCounted'
    BY DEF CanonGate, GatePasses, ApplyInv, ApplyTypes, VersionsCounted
  <1>3. ~torn' => CallOnCourse'
    BY DEF CanonGate, GatePasses, ApplyInv, ApplyTypes, CallOnCourse, OldSnapshot, WrittenSoFar
  <1> QED
    BY <1>1, <1>2, <1>3 DEF ApplyInv

\* The ledger catches up with the files.
LEMMA RecordApplyKeeps ==
    ASSUME ApplyInv, RecordApply \/ RecordRevert
    PROVE  ApplyInv'
  <1>1. ApplyTypes'
    BY NoAppTypes DEF RecordApply, RecordRevert, Done, ApplyInv, ApplyTypes
  <1>2. VersionsCounted'
    BY DEF RecordApply, RecordRevert, Done, NoApp, ApplyInv, ApplyTypes, VersionsCounted
  <1>3. ~torn' => CallOnCourse'
    BY DEF RecordApply, RecordRevert, Done, NoApp, ApplyInv, ApplyTypes, CallOnCourse, OldText, WrittenSoFar
  <1> QED
    BY <1>1, <1>2, <1>3 DEF ApplyInv

\* A killed call has not written, or is torn.
LEMMA KillKeeps ==
    ASSUME ApplyInv, Kill
    PROVE  ApplyInv'
  <1>1. /\ Done /\ UNCHANGED <<wellFormed, disk, head, entry>> /\ Mishap
        /\ torn' \in BOOLEAN /\ (~torn' => ~torn /\ app.pc \in {"none", "clean", "snap"})
    BY DEF Kill, ApplyInv, ApplyTypes
  <1> QED
    BY <1>1, MishapEffort, CallEnds DEF ApplyInv, ApplyTypes, VersionsCounted, CallOnCourse, OldText

\* An edit is counted and leaves the change where it is.
LEMMA EditKeeps ==
    ASSUME ApplyInv, NEW r \in Roots, NEW fit \in {"strict", "anchor", "drift"}, Edit(r, fit)
    PROVE  ApplyInv'
  <1>1. /\ effort' \in [touches: 0..MaxTouches, tries: Nat, mishaps: Nat]
        /\ effort'.touches = effort.touches + 1
    BY TouchesAssumption DEF Edit, Handle, ApplyInv, ApplyTypes
  <1>2. /\ disk[r].ver \in Nat /\ disk[r].ver <= effort.touches
        /\ effort.touches \in Nat
    BY DEF ApplyInv, ApplyTypes, VersionsCounted, Text
  <1>3. disk[r].ver + 1 \in 0..MaxTouches /\ disk[r].ver + 1 <= effort'.touches
    BY <1>1, <1>2, TouchesAssumption DEF Edit, Handle
  <1> DEFINE v == disk[r].ver + 1
             text == [disk[r] EXCEPT !.fit = fit, !.ver = v]
  <1>4. disk' = [disk EXCEPT ![r] = text]
    BY DEF Edit
  <1> HIDE DEF v
  <1>5. text \in Text /\ text.ver <= effort'.touches /\ text.has = disk[r].has
    <2>1. disk[r] \in Text /\ v \in 0..MaxTouches /\ v <= effort'.touches
      BY <1>3 DEF v, ApplyInv, ApplyTypes
    <2> QED
      BY <2>1 DEF Text
  <1> HIDE DEF text
  <1>6. ApplyTypes'
    <2>1. UNCHANGED <<wellFormed, head, app, entry, torn>>
      BY DEF Edit
    <2> QED
      BY <1>1, <1>4, <1>5, <2>1 DEF ApplyInv, ApplyTypes
  <1>7. \A q \in Roots : /\ disk[q].ver \in Nat /\ disk[q].ver <= effort.touches
                         /\ app.snap[q].ver \in Nat /\ app.snap[q].ver <= effort.touches
    BY DEF ApplyInv, ApplyTypes, VersionsCounted, Text
  <1>8. VersionsCounted'
    BY <1>1, <1>2, <1>4, <1>5, <1>7 DEF Edit, ApplyInv, ApplyTypes, VersionsCounted
  <1>9. ~torn' => CallOnCourse'
    BY <1>4, <1>5 DEF Edit, ApplyInv, ApplyTypes, CallOnCourse, OldText, OldSnapshot, WrittenSoFar
  <1> QED
    BY <1>6, <1>8, <1>9 DEF ApplyInv

\* A commit is counted and leaves the files alone.
LEMMA CommitKeeps ==
    ASSUME ApplyInv, NEW r \in Roots, Commit(r)
    PROVE  ApplyInv'
  <1>1. /\ effort' \in [touches: 0..MaxTouches, tries: Nat, mishaps: Nat]
        /\ effort'.touches = effort.touches + 1
    BY TouchesAssumption DEF Commit, Handle, ApplyInv, ApplyTypes
  <1>2. ApplyTypes'
    BY <1>1 DEF Commit, ApplyInv, ApplyTypes
  <1>3. \A q \in Roots : /\ disk[q].ver \in Nat /\ disk[q].ver <= effort.touches
                         /\ app.snap[q].ver \in Nat /\ app.snap[q].ver <= effort.touches
    BY DEF ApplyInv, ApplyTypes, VersionsCounted, Text
  <1>4. VersionsCounted'
    BY <1>1, <1>3 DEF Commit, ApplyInv, ApplyTypes, VersionsCounted
  <1>5. ~torn' => CallOnCourse'
    BY DEF Commit, ApplyInv, CallOnCourse, OldText, OldSnapshot, WrittenSoFar
  <1> QED
    BY <1>2, <1>4, <1>5 DEF ApplyInv

\* Every step keeps the invariant of the apply side.
LEMMA ApplyKept ==
    ASSUME ApplyInv, [Next]_vars
    PROVE  ApplyInv'
  <1>1. CASE UNCHANGED applyVars
    BY <1>1 DEF applyVars, ApplyInv, ApplyTypes, VersionsCounted, CallOnCourse, OldText,
                OldSnapshot, WrittenSoFar
  <1>2. CASE ApplyNext
    BY <1>2, ResolveKeeps, EnsureCleanKeeps, SnapshotKeeps, WriteKeeps, FailureKeeps, OnwardKeeps,
       RecordApplyKeeps, KillKeeps, EditKeeps, CommitKeeps DEF ApplyNext
  <1> QED
    BY <1>1, <1>2 DEF Next, vars

(***************************************************************************)
(* Digest                                                                  *)
(***************************************************************************)
\* The steps of the digest side.
DigestMove == (FindingsNext /\ UNCHANGED digestVars) \/ DigestNext
Moves(d) == \E marks \in BOOLEAN : DecideMoves(d, marks)

\* At first nothing runs and nothing is found.
LEMMA DigestStart == Init => DigestInv
  <1> SUFFICES ASSUME Init PROVE DigestInv
    OBVIOUS
  <1>1. FindingTypes /\ JobTypes
    BY EndsAssumption DEF Init, FindingsInit, FindingTypes, JobTypes, FindingFile, NoFinding, NoJob
  <1>2. RunTypes /\ AnalystTypes
    BY DEF Init, DigestInit, RunTypes, AnalystTypes, RunRecord, AnalystRecord, NoRun, NoAnalyst
  <1>3. ProposalTypes /\ DeciderTypes
    BY DEF Init, DigestInit, ProposalTypes, DeciderTypes, ProposalRecord, NoProposal, NoDecider
  <1>4. LockHeld
    BY DEF Init, FindingsInit, DigestInit, LockHeld, Running, NoJob, NoRun
  <1>5. OneMove
    BY DEF Init, DigestInit, OneMove, Moved, NoProposal, NoDecider
  <1>6. SeenByRun /\ ReportsAreDrafts
    BY DEF Init, FindingsInit, DigestInit, SeenByRun, ReportsAreDrafts, Waits, Settled, Running,
           NoFinding, NoRun, NoAnalyst
  <1> QED
    BY <1>1, <1>2, <1>3, <1>4, <1>5, <1>6 DEF DigestInv, Types

\* A slot that is taken was idle.
LEMMA IdleSlot ==
    ASSUME NEW idle, idle # {}
    PROVE  AnyOf(idle) \in idle
  BY DEF AnyOf

\* A retrospective starts in an idle slot.
LEMMA SpawnTakesIdle ==
    ASSUME NEW s, NEW attempt, Spawn(s, attempt)
    PROVE  \E j \in Jobs : /\ job[j].pc = "none"
                           /\ job' = [job EXCEPT ![j] = [sid |-> s, attempt |-> attempt, pc |-> "wait"]]
  <1> DEFINE idle == {j \in Jobs : job[j].pc = "none"}
  <1>1. idle # {} /\ AnyOf(idle) \in idle
    BY IdleSlot DEF Spawn
  <1> QED
    BY <1>1 DEF Spawn

\* A run starts in an idle slot, or not at all.
LEMMA StartTakesIdle ==
    ASSUME NEW trigger, StartRun(trigger)
    PROVE  \/ UNCHANGED run
           \/ \E r \in Runs : /\ run[r].pc = "none" /\ ~analyst[r].on
                              /\ run' = [run EXCEPT ![r].pc = "spawned"]
  <1> DEFINE idle == {r \in Runs : run[r].pc = "none" /\ ~analyst[r].on}
  <1>1. CASE trigger
    <2>1. idle # {} /\ AnyOf(idle) \in idle
      BY <1>1, IdleSlot DEF StartRun
    <2> QED
      BY <1>1, <2>1 DEF StartRun
  <1>2. CASE ~trigger
    BY <1>2 DEF StartRun
  <1> QED
    BY <1>1, <1>2

\* What a tick of the gate does to the queue, the retrospectives and the runs.
LEMMA GateDoes ==
    ASSUME NEW started, Gate(started)
    PROVE  /\ UNCHANGED <<finding, ends, dedup, brick, lock, loose, orphan, known>>
           /\ dropped' \subseteq dropped \cup queue
           /\ UNCHANGED <<marker, pace, stop, analyst, prop, decider>>
           /\ queue' \subseteq queue
           /\ UNCHANGED job \/ \E s \in queue : Spawn(s, 1)
           /\ \E trigger \in BOOLEAN : StartRun(trigger)
  <1>1. /\ UNCHANGED <<finding, ends, dedup, brick, lock, loose, orphan, known>>
        /\ UNCHANGED <<marker, pace, stop, analyst, prop, decider>>
    BY DEF Gate
  <1>2. CASE queue # {}
    <2>1. PICK s \in queue : Retry(s, started)
      BY <1>2 DEF Gate
    <2>2. StartRun(Due /\ (brick \/ ~started)) /\ (Due /\ (brick \/ ~started)) \in BOOLEAN
      BY <1>2 DEF Gate
    <2> QED
      BY <1>1, <2>1, <2>2 DEF Retry
  <1>3. CASE queue = {}
    BY <1>1, <1>3 DEF Gate
  <1> QED
    BY <1>2, <1>3

\* What is known of the texts stays what it is.
LEMMA KnownTypes ==
    ASSUME DigestInv,
           \/ UNCHANGED known
           \/ \E s \in Sessions, outside \in BOOLEAN : Written(s, outside)
           \/ \E r \in Runs : Touch(r)
           \/ \E r \in Runs : AnalystReads(r) \/ AnalystEnds(r)
    PROVE  known' \in [read: SUBSET Sessions, stray: SUBSET Sessions, same: [Runs -> SUBSET Sessions]]
  <1>1. /\ known.read \subseteq Sessions /\ known.stray \subseteq Sessions
        /\ known.same \in [Runs -> SUBSET Sessions]
        /\ known = [read |-> known.read, stray |-> known.stray, same |-> known.same]
    BY DEF DigestInv, Types, FindingTypes
  <1>2. CASE UNCHANGED known
    BY <1>2 DEF DigestInv, Types, FindingTypes
  <1>3. ASSUME NEW s \in Sessions, NEW outside \in BOOLEAN, Written(s, outside)
        PROVE  known' \in [read: SUBSET Sessions, stray: SUBSET Sessions, same: [Runs -> SUBSET Sessions]]
    BY <1>1, <1>3 DEF Written
  <1>4. ASSUME NEW r \in Runs, NEW same \in SUBSET Sessions, NEW reads \in SUBSET Sessions,
               NEW stray \in SUBSET Sessions,
               known' = [known EXCEPT !.read = reads, !.stray = stray, !.same[r] = same]
        PROVE  known' \in [read: SUBSET Sessions, stray: SUBSET Sessions, same: [Runs -> SUBSET Sessions]]
    BY <1>1, <1>4
  <1>5. ASSUME NEW r \in Runs, NEW same \in SUBSET Sessions, known' = [known EXCEPT !.same[r] = same]
        PROVE  known' \in [read: SUBSET Sessions, stray: SUBSET Sessions, same: [Runs -> SUBSET Sessions]]
    BY <1>1, <1>5
  <1>6. ASSUME NEW r \in Runs, Touch(r)
        PROVE  known' \in [read: SUBSET Sessions, stray: SUBSET Sessions, same: [Runs -> SUBSET Sessions]]
    <2> DEFINE reads == known.read \cup (analyst[r].sees \cap known.same[r])
               stray == known.stray \ known.same[r]
    <2>1. reads \in SUBSET Sessions /\ stray \in SUBSET Sessions /\ {} \in SUBSET Sessions
      BY <1>1 DEF DigestInv, Types, AnalystTypes, AnalystRecord
    <2>2. known' = [known EXCEPT !.read = reads, !.stray = stray, !.same[r] = {}]
      BY <1>6 DEF Touch
    <2> HIDE DEF reads, stray
    <2> QED
      BY <1>4, <2>1, <2>2
  <1>7. ASSUME NEW r \in Runs, AnalystReads(r) \/ AnalystEnds(r)
        PROVE  known' \in [read: SUBSET Sessions, stray: SUBSET Sessions, same: [Runs -> SUBSET Sessions]]
    <2> DEFINE same == {s \in Sessions : finding[s].fresh \/ Parked(s)}
    <2>1. same \in SUBSET Sessions /\ {} \in SUBSET Sessions
      OBVIOUS
    <2>2. known' = [known EXCEPT !.same[r] = same] \/ known' = [known EXCEPT !.same[r] = {}]
      BY <1>7 DEF AnalystReads, AnalystEnds
    <2> HIDE DEF same
    <2> QED
      BY <1>5, <2>1, <2>2
  <1> QED
    BY <1>2, <1>3, <1>6, <1>7

\* A process that works on a finding works on some session's.
LEMMA JobsHaveSessions ==
    ASSUME DigestInv, NEW j \in Jobs, job[j].pc # "none"
    PROVE  job[j].sid \in Sessions /\ Unguarded(j) \in BOOLEAN
  BY DEF DigestInv, Types, JobTypes, Unguarded

\* Every step keeps the types of the findings.
LEMMA FindingTypesKept ==
    ASSUME DigestInv, DigestMove
    PROVE  FindingTypes'
  <1>0. /\ queue \subseteq Sessions
        /\ dedup \subseteq Sessions /\ orphan \subseteq Sessions /\ dropped \subseteq Sessions
        /\ finding \in [Sessions -> FindingFile] /\ ends \in [Sessions -> 0..MaxEnds]
    BY DEF DigestInv, Types, FindingTypes, JobTypes
  <1>1. CASE UNCHANGED <<finding, ends, dedup, orphan, dropped, known>>
    BY <1>1 DEF DigestInv, Types, FindingTypes
  <1>2. ASSUME NEW s \in Sessions, Trigger(s)
        PROVE  FindingTypes'
    <2>1. dropped' \subseteq Sessions /\ dedup' \subseteq Sessions
          /\ UNCHANGED <<finding, orphan, known>>
      BY <1>0, <1>2 DEF Trigger
    <2>2. ends' \in [Sessions -> 0..MaxEnds]
      BY <1>0, <1>2, EndsAssumption DEF Trigger
    <2> QED
      BY <1>0, <2>1, <2>2, KnownTypes DEF FindingTypes
  <1>3. ASSUME NEW s \in Sessions, Expire(s)
        PROVE  FindingTypes'
    <2>1. NoFinding \in FindingFile
      BY DEF NoFinding, FindingFile
    <2> QED
      BY <1>0, <1>3, <2>1, KnownTypes DEF Expire, FindingTypes
  <1>4. ASSUME NEW j \in Jobs, JobLock(j) \/ JobSteals(j)
        PROVE  FindingTypes'
    <2>1. Empty(j) /\ job[j].sid \in Sessions /\ Unguarded(j) \in BOOLEAN
      BY <1>4, JobsHaveSessions DEF JobLock, JobSteals
    <2>2. finding' \in [Sessions -> FindingFile]
      BY <1>0, <2>1 DEF Empty, FindingFile
    <2> QED
      BY <1>0, <2>1, <2>2, KnownTypes DEF Empty, FindingTypes
  <1>5. ASSUME NEW j \in Jobs, NEW good \in BOOLEAN, NEW termed \in BOOLEAN, JobEnds(j, good, termed)
        PROVE  FindingTypes'
    <2>1. job[j].sid \in Sessions /\ Unguarded(j) \in BOOLEAN
      BY <1>5, JobsHaveSessions DEF JobEnds
    <2>2. finding' \in [Sessions -> FindingFile]
      BY <1>0, <1>5, <2>1 DEF JobEnds, FindingFile
    <2> QED
      BY <1>0, <1>5, <2>1, <2>2, KnownTypes DEF JobEnds, FindingTypes
  <1>6. ASSUME NEW s \in Sessions, OrphanWrites(s) \/ OrphanEnds(s)
        PROVE  FindingTypes'
    <2>1. finding' \in [Sessions -> FindingFile]
      BY <1>0, <1>6 DEF OrphanWrites, OrphanEnds, FindingFile
    <2>2. UNCHANGED known \/ Written(s, TRUE)
      BY <1>6 DEF OrphanWrites, OrphanEnds
    <2> QED
      BY <1>0, <1>6, <2>1, <2>2, KnownTypes DEF OrphanWrites, OrphanEnds, FindingTypes
  <1>7. ASSUME NEW j \in Jobs, NotWorth(j) \/ JobGivesUp(j) \/ JobDies(j)
        PROVE  FindingTypes'
    <2>1. UNCHANGED <<finding, ends, dedup, known>> /\ dropped' \subseteq dropped
      BY <1>7 DEF NotWorth, JobGivesUp, JobDies
    <2>2. orphan' \subseteq Sessions
      BY <1>0, <1>7, JobsHaveSessions DEF NotWorth, JobGivesUp, JobDies
    <2> QED
      BY <1>0, <2>1, <2>2, KnownTypes DEF FindingTypes
  <1>8. CASE FindingsNext
    BY <1>1, <1>2, <1>3, <1>4, <1>5, <1>6, <1>7, <1>8 DEF FindingsNext, JobStep, Limited
  <1>9. CASE DigestNext
    <2>1. ASSUME NEW r \in Runs, RunEnds(r)
          PROVE  FindingTypes'
      <3>1. \A s \in Sessions : [finding[s] EXCEPT !.fresh = FALSE] \in FindingFile
        BY <1>0 DEF FindingFile
      <3>2. finding' \in [Sessions -> FindingFile] /\ UNCHANGED <<ends, dedup, orphan, dropped>>
        BY <1>0, <2>1, <3>1 DEF RunEnds, Touch
      <3>3. UNCHANGED known \/ Touch(r)
        BY <2>1 DEF RunEnds
      <3> QED
        BY <1>0, <3>2, <3>3, KnownTypes DEF FindingTypes
    <2>2. ASSUME NEW r \in Runs, AnalystReads(r) \/ AnalystEnds(r)
          PROVE  FindingTypes'
      <3>1. UNCHANGED <<finding, ends, dedup, orphan, dropped>>
        BY <2>2 DEF AnalystReads, AnalystEnds
      <3> QED
        BY <1>0, <2>2, <3>1, KnownTypes DEF FindingTypes
    <2>3. ASSUME NEW d \in Deciders, NEW marks \in BOOLEAN, DecideMoves(d, marks)
          PROVE  FindingTypes'
      <3>1. \A s \in Sessions : [finding[s] EXCEPT !.reviewed = TRUE] \in FindingFile
        BY <1>0 DEF FindingFile
      <3>2. finding' \in [Sessions -> FindingFile] /\ UNCHANGED <<ends, dedup, orphan, dropped, known>>
        BY <1>0, <2>3, <3>1 DEF DecideMoves, Marked
      <3> QED
        BY <1>0, <3>2, KnownTypes DEF FindingTypes
    <2>4. ASSUME NEW started \in BOOLEAN, Gate(started)
          PROVE  FindingTypes'
      BY <1>0, <2>4, GateDoes, KnownTypes DEF FindingTypes
    <2>5. ASSUME NEW r \in Runs,
                 \/ RunStarts(r) \/ RunSteals(r) \/ RunSkips(r) \/ RunTermed(r) \/ RunDies(r)
                 \/ RunSees(r) \/ Record(r) \/ PostEnds(r) \/ \E p \in Proposals : Vet(r, p)
          PROVE  UNCHANGED <<finding, ends, dedup, orphan, dropped, known>>
      BY <2>5 DEF RunStarts, RunSteals, Begins, RunSkips, RunTermed, RunDies, RunSees, Record,
                  PostEnds, Vet, findVars
    <2>6. ASSUME NEW r \in Runs,
                 \/ \E status \in {"ok", "error"} : AnalystReports(r, status)
                 \/ \E p \in Proposals, flaw \in BOOLEAN : AnalystDrafts(r, p, flaw)
          PROVE  UNCHANGED <<finding, ends, dedup, orphan, dropped, known>>
      BY <2>6 DEF AnalystReports, AnalystDrafts, findVars
    <2>7. ASSUME \/ Forced \/ TimePasses \/ \E d \in Deciders : DecideRecords(d)
                 \/ \E p \in Proposals : DecideChecks(p)
          PROVE  UNCHANGED <<finding, ends, dedup, orphan, dropped, known>>
      BY <2>7 DEF Forced, TimePasses, DecideRecords, DecideChecks, findVars
    <2> QED
      BY <1>1, <1>9, <2>1, <2>2, <2>3, <2>4, <2>5, <2>6, <2>7 DEF DigestNext, Moves, DigestStep, AnalystStep
  <1> QED
    BY <1>8, <1>9 DEF DigestMove

\* Every step keeps the types of the retrospectives and their queue.
LEMMA JobTypesKept ==
    ASSUME DigestInv, DigestMove
    PROVE  JobTypes'
  <1>1. CASE UNCHANGED <<job, queue>>
    BY <1>1 DEF DigestInv, Types, JobTypes
  <1>2. ASSUME NEW s \in Sessions, NEW attempt \in 0..1, Spawn(s, attempt), queue' \subseteq Sessions
        PROVE  JobTypes'
    BY <1>2, SpawnTakesIdle DEF DigestInv, Types, JobTypes
  <1>3. ASSUME NEW j \in Jobs, job' = [job EXCEPT ![j] = NoJob], queue' \in {queue, Enqueue(j)},
               job[j].pc # "none"
        PROVE  JobTypes'
    BY <1>3 DEF NoJob, Enqueue, DigestInv, Types, JobTypes
  <1>4. ASSUME NEW s \in Sessions, Trigger(s)
        PROVE  JobTypes'
    <2>1. CASE UNCHANGED job /\ queue' \in {queue, queue \cup {s}}
      BY <2>1 DEF DigestInv, Types, JobTypes
    <2>2. CASE Spawn(s, 0) /\ UNCHANGED queue
      BY <1>2, <2>2 DEF DigestInv, Types, JobTypes
    <2> QED
      BY <1>4, <2>1, <2>2 DEF Trigger
  <1>5. ASSUME NEW j \in Jobs, JobLock(j) \/ JobSteals(j)
        PROVE  JobTypes'
    BY <1>5 DEF JobLock, JobSteals, Empty, DigestInv, Types, JobTypes
  <1>6. ASSUME NEW started, Gate(started)
        PROVE  JobTypes'
    <2>1. CASE UNCHANGED job
      BY <1>6, <2>1, GateDoes DEF DigestInv, Types, JobTypes
    <2>2. ASSUME NEW s \in queue, Spawn(s, 1)
          PROVE  JobTypes'
      BY <1>2, <1>6, <2>2, GateDoes DEF DigestInv, Types, JobTypes
    <2> QED
      BY <1>6, <2>1, <2>2, GateDoes
  <1>7. CASE FindingsNext
    BY <1>1, <1>3, <1>4, <1>5, <1>7
       DEF FindingsNext, JobStep, Limited, Expire, NotWorth, JobGivesUp, JobEnds, JobDies,
           OrphanWrites, OrphanEnds
  <1>8. CASE DigestNext
    <2>1. ASSUME NEW r \in Runs, DigestStep(r) \/ RunSteals(r) \/ RunTermed(r) \/ RunDies(r)
          PROVE  UNCHANGED <<job, queue>>
      BY <2>1 DEF DigestStep, RunStarts, RunSteals, Begins, RunSkips, RunTermed, RunSees, Record,
                  PostEnds, Vet, RunEnds, RunDies, findVars
    <2>2. ASSUME NEW r \in Runs,
                 \/ AnalystStep(r) \/ AnalystEnds(r)
                 \/ \E p \in Proposals, flaw \in BOOLEAN : AnalystDrafts(r, p, flaw)
          PROVE  UNCHANGED <<job, queue>>
      BY <2>2 DEF AnalystStep, AnalystReads, AnalystReports, AnalystDrafts, AnalystEnds, findVars
    <2>3. ASSUME \/ Forced \/ TimePasses \/ \E p \in Proposals : DecideChecks(p)
                 \/ \E d \in Deciders : Moves(d) \/ DecideRecords(d)
          PROVE  UNCHANGED <<job, queue>>
      BY <2>3 DEF Forced, TimePasses, Moves, DecideMoves, DecideRecords, DecideChecks, findVars
    <2> QED
      BY <1>1, <1>6, <1>8, <2>1, <2>2, <2>3 DEF DigestNext, Moves
  <1> QED
    BY <1>7, <1>8 DEF DigestMove

\* Every step keeps the types of the runs.
LEMMA RunTypesKept ==
    ASSUME DigestInv, DigestMove
    PROVE  RunTypes'
  <1>1. CASE UNCHANGED <<marker, pace, run>>
    BY <1>1 DEF DigestInv, Types, RunTypes
  <1>2. ASSUME NEW r \in Runs, NEW next \in RunRecord, run' = [run EXCEPT ![r] = next],
               next.pc = "vet" => next.cur \in Proposals,
               marker' \in [there: BOOLEAN, old: BOOLEAN], pace' \in [recent: BOOLEAN, week: Nat]
        PROVE  RunTypes'
    BY <1>2 DEF DigestInv, Types, RunTypes
  <1>3. marker \in [there: BOOLEAN, old: BOOLEAN] /\ pace \in [recent: BOOLEAN, week: Nat]
    BY DEF DigestInv, Types, RunTypes
  <1>4. ASSUME NEW r \in Runs, NEW pc \in {"spawned", "wait", "end"}
        PROVE  [run[r] EXCEPT !.pc = pc] \in RunRecord
    BY <1>4 DEF DigestInv, Types, RunTypes, RunRecord
  <1>5. ASSUME NEW trigger, StartRun(trigger), UNCHANGED <<marker, pace>>
        PROVE  RunTypes'
    <2>1. CASE UNCHANGED run
      BY <1>1, <1>5, <2>1
    <2>2. ASSUME NEW r \in Runs, run' = [run EXCEPT ![r].pc = "spawned"]
          PROVE  RunTypes'
      <3>1. [run[r] EXCEPT !.pc = "spawned"].pc = "spawned"
        BY DEF DigestInv, Types, RunTypes, RunRecord
      <3> QED
        BY <1>2, <1>3, <1>4, <1>5, <2>2, <3>1
    <2> QED
      BY <1>5, <2>1, <2>2, StartTakesIdle
  <1>6. NoRun \in RunRecord /\ NoRun.pc # "vet"
    BY DEF NoRun, RunRecord
  <1>7. CASE TimePasses
    <2>1. /\ [pace EXCEPT !.recent = FALSE] \in [recent: BOOLEAN, week: Nat]
          /\ [recent |-> FALSE, week |-> 0] \in [recent: BOOLEAN, week: Nat]
          /\ [marker EXCEPT !.old = @ \/ marker.there] \in [there: BOOLEAN, old: BOOLEAN]
      BY <1>3
    <2>2. pace' \in [recent: BOOLEAN, week: Nat] /\ marker' \in [there: BOOLEAN, old: BOOLEAN]
      BY <1>3, <1>7, <2>1 DEF TimePasses
    <2> QED
      BY <1>7, <2>1, <2>2 DEF TimePasses, DigestInv, Types, RunTypes
  <1>8. ASSUME NEW r \in Runs, RunStarts(r) \/ RunSteals(r) \/ RunSkips(r)
        PROVE  RunTypes'
    <2>1. [recent |-> TRUE, week |-> pace.week + 1] \in [recent: BOOLEAN, week: Nat]
      BY <1>3
    <2>2. UNCHANGED marker
          /\ (UNCHANGED pace \/ pace' = [recent |-> TRUE, week |-> pace.week + 1])
      BY <1>8 DEF RunStarts, RunSteals, Begins, RunSkips
    <2>3. pace' \in [recent: BOOLEAN, week: Nat]
      BY <1>3, <2>1, <2>2
    <2>4. CASE Without(r)
      BY <1>2, <1>3, <1>6, <2>2, <2>3, <2>4 DEF Without
    <2>5. CASE run' = [run EXCEPT ![r].pc = "wait"]
      <3>1. [run[r] EXCEPT !.pc = "wait"].pc = "wait"
        BY DEF DigestInv, Types, RunTypes, RunRecord
      <3> QED
        BY <1>2, <1>3, <1>4, <2>2, <2>3, <2>5, <3>1
    <2> QED
      BY <1>8, <2>4, <2>5 DEF RunStarts, RunSteals, Begins, RunSkips
  <1>9. ASSUME NEW r \in Runs, RunSees(r)
        PROVE  RunTypes'
    <2> DEFINE todo == {p \in Proposals : prop[p].at = "pending" /\ ~Known(p)}
               ok == analyst[r].status = "ok"
               next == [run[r] EXCEPT !.pc = "post", !.ok = ok, !.todo = todo]
    <2>1. run' = [run EXCEPT ![r] = next] /\ UNCHANGED <<marker, pace>>
      BY <1>9 DEF RunSees
    <2>2. todo \in SUBSET Proposals /\ ok \in BOOLEAN
      OBVIOUS
    <2> HIDE DEF todo, ok
    <2>3. next \in RunRecord /\ next.pc = "post"
      BY <2>2 DEF DigestInv, Types, RunTypes, RunRecord
    <2> QED
      BY <1>2, <1>3, <2>1, <2>3
  <1>10. ASSUME NEW r \in Runs, NEW p \in Proposals, Vet(r, p)
         PROVE  RunTypes'
    <2> DEFINE todo == run[r].todo \ {p}
               next(bad) == [run[r] EXCEPT !.pc = "vet", !.cur = p, !.bad = bad, !.todo = todo]
               end == [run[r] EXCEPT !.pc = "end"]
    <2>1. /\ UNCHANGED <<marker, pace>>
          /\ \/ \E bad \in BOOLEAN : run' = [run EXCEPT ![r] = next(bad)]
             \/ run' = [run EXCEPT ![r] = end]
      <3>1. CASE prop[p].at = "pending"
        BY <1>10, <3>1 DEF Vet
      <3>2. CASE prop[p].at # "pending"
        BY <1>10, <3>2 DEF Vet
      <3> QED
        BY <3>1, <3>2
    <2>2. todo \in SUBSET Proposals
      BY DEF DigestInv, Types, RunTypes, RunRecord
    <2> HIDE DEF todo
    <2>3. \A bad \in BOOLEAN : next(bad) \in RunRecord /\ next(bad).cur = p
      BY <2>2 DEF DigestInv, Types, RunTypes, RunRecord
    <2>4. end \in RunRecord /\ end.pc = "end"
      BY DEF DigestInv, Types, RunTypes, RunRecord
    <2> HIDE DEF next, end
    <2> QED
      BY <1>2, <1>3, <2>1, <2>3, <2>4
  <1>11. ASSUME NEW r \in Runs, Record(r) \/ PostEnds(r)
         PROVE  RunTypes'
    BY <1>11 DEF Record, PostEnds, DigestInv, Types, RunTypes, RunRecord
  <1>12. ASSUME NEW r \in Runs, RunEnds(r) \/ RunDies(r)
         PROVE  RunTypes'
    <2>1. /\ run' = [run EXCEPT ![r] = NoRun] /\ UNCHANGED pace
          /\ UNCHANGED marker \/ marker' = [there |-> TRUE, old |-> FALSE]
      BY <1>12 DEF RunEnds, RunDies, Touch, Without
    <2>2. marker' \in [there: BOOLEAN, old: BOOLEAN]
      <3>1. [there |-> TRUE, old |-> FALSE] \in [there: BOOLEAN, old: BOOLEAN]
        OBVIOUS
      <3> QED
        BY <1>3, <2>1, <3>1
    <2> QED
      BY <1>2, <1>3, <1>6, <2>1, <2>2
  <1>13. CASE FindingsNext /\ UNCHANGED digestVars
    BY <1>1, <1>13 DEF digestVars
  <1>14. CASE DigestNext
    <2>1. ASSUME NEW r \in Runs,
                 \/ AnalystStep(r) \/ AnalystEnds(r) \/ RunTermed(r)
                 \/ \E p \in Proposals, flaw \in BOOLEAN : AnalystDrafts(r, p, flaw)
          PROVE  UNCHANGED <<marker, pace, run>>
      BY <2>1 DEF AnalystStep, AnalystReads, AnalystReports, AnalystDrafts, AnalystEnds, RunTermed,
                  digestVars
    <2>2. ASSUME \/ \E d \in Deciders : Moves(d) \/ DecideRecords(d)
                 \/ \E p \in Proposals : DecideChecks(p)
          PROVE  UNCHANGED <<marker, pace, run>>
      BY <2>2 DEF Moves, DecideMoves, DecideRecords, DecideChecks
    <2>3. ASSUME Forced \/ \E started \in BOOLEAN : Gate(started)
          PROVE  RunTypes'
      BY <1>5, <2>3, GateDoes DEF Forced
    <2> QED
      BY <1>1, <1>7, <1>8, <1>9, <1>10, <1>11, <1>12, <1>14, <2>1, <2>2, <2>3
         DEF DigestNext, Moves, DigestStep
  <1> QED
    BY <1>13, <1>14 DEF DigestMove

\* Every step keeps the types of the analysts.
LEMMA AnalystTypesKept ==
    ASSUME DigestInv, DigestMove
    PROVE  AnalystTypes'
  <1>1. CASE UNCHANGED analyst
    BY <1>1 DEF DigestInv, Types, AnalystTypes
  <1>2. NoAnalyst \in AnalystRecord /\ [NoAnalyst EXCEPT !.on = TRUE] \in AnalystRecord
    BY DEF NoAnalyst, AnalystRecord
  <1>3. ASSUME NEW r \in Runs, NEW next \in AnalystRecord, analyst' = [analyst EXCEPT ![r] = next]
        PROVE  AnalystTypes'
    BY <1>3 DEF DigestInv, Types, AnalystTypes
  <1>4. ASSUME NEW r \in Runs, AnalystReads(r)
        PROVE  AnalystTypes'
    BY <1>4 DEF AnalystReads, DigestInv, Types, AnalystTypes, AnalystRecord
  <1>5. ASSUME NEW r \in Runs, NEW status \in {"ok", "error"}, AnalystReports(r, status)
        PROVE  AnalystTypes'
    BY <1>5 DEF AnalystReports, DigestInv, Types, AnalystTypes, AnalystRecord
  <1>6. CASE FindingsNext /\ UNCHANGED digestVars
    BY <1>1, <1>6 DEF digestVars
  <1>7. CASE DigestNext
    <2>1. ASSUME NEW r \in Runs, RunStarts(r) \/ RunSteals(r) \/ RunEnds(r) \/ AnalystEnds(r)
          PROVE  AnalystTypes'
      BY <1>1, <1>2, <1>3, <2>1 DEF RunStarts, RunSteals, Begins, RunEnds, AnalystEnds
    <2>2. ASSUME NEW r \in Runs,
                 \/ RunSees(r) \/ Record(r) \/ PostEnds(r) \/ RunDies(r)
                 \/ RunSkips(r) \/ RunTermed(r)
                 \/ \E p \in Proposals : Vet(r, p)
                 \/ \E p \in Proposals, flaw \in BOOLEAN : AnalystDrafts(r, p, flaw)
          PROVE  UNCHANGED analyst
      BY <2>2 DEF RunSees, Record, PostEnds, Vet, AnalystDrafts, RunDies, RunSkips, RunTermed,
                  digestVars
    <2>3. ASSUME \/ Forced \/ TimePasses \/ \E p \in Proposals : DecideChecks(p)
                 \/ \E d \in Deciders : Moves(d) \/ DecideRecords(d)
          PROVE  UNCHANGED analyst
      BY <2>3 DEF Forced, TimePasses, Moves, DecideMoves, DecideRecords, DecideChecks
    <2> QED
      BY <1>1, <1>4, <1>5, <1>7, <2>1, <2>2, <2>3, GateDoes DEF DigestNext, Moves, DigestStep, AnalystStep
  <1> QED
    BY <1>6, <1>7 DEF DigestMove

\* The steps that leave the proposals alone.
LEMMA ProposalsRest ==
    ASSUME DigestNext, UNCHANGED prop => FALSE
    PROVE  \/ \E r \in Runs : \/ Record(r)
                              \/ \E p \in Proposals, flaw \in BOOLEAN : AnalystDrafts(r, p, flaw)
           \/ \E d \in Deciders : Moves(d) \/ DecideRecords(d)
  <1>1. ASSUME NEW r \in Runs,
               \/ RunStarts(r) \/ RunSteals(r) \/ RunSkips(r) \/ RunTermed(r) \/ RunDies(r)
               \/ RunSees(r) \/ PostEnds(r) \/ RunEnds(r)
               \/ AnalystStep(r) \/ AnalystEnds(r) \/ \E p \in Proposals : Vet(r, p)
        PROVE  UNCHANGED prop
    BY <1>1 DEF RunStarts, RunSteals, Begins, RunSkips, RunTermed, digestVars, RunSees, PostEnds, Vet, RunEnds, RunDies, AnalystStep, AnalystReads,
                AnalystReports, AnalystEnds
  <1>2. ASSUME Forced \/ TimePasses \/ \E p \in Proposals : DecideChecks(p)
        PROVE  UNCHANGED prop
    BY <1>2 DEF Forced, TimePasses, DecideChecks
  <1> QED
    BY <1>1, <1>2, GateDoes DEF DigestNext, Moves, DigestStep

\* Every step keeps the types of the proposals.
LEMMA ProposalTypesKept ==
    ASSUME DigestInv, DigestMove
    PROVE  ProposalTypes'
  <1>1. CASE UNCHANGED prop
    BY <1>1 DEF DigestInv, Types, ProposalTypes
  <1>2. ASSUME NEW r \in Runs, NEW p \in Proposals, NEW flaw \in BOOLEAN, AnalystDrafts(r, p, flaw)
        PROVE  ProposalTypes'
    BY <1>2 DEF AnalystDrafts, NoProposal, DigestInv, Types, ProposalTypes, ProposalRecord,
                AnalystTypes, AnalystRecord
  <1>3. ASSUME NEW r \in Runs, Record(r)
        PROVE  ProposalTypes'
    <2>1. run[r].cur \in Proposals
      BY <1>3 DEF Record, DigestInv, Types, RunTypes
    <2>2. /\ [prop[run[r].cur] EXCEPT !.at = "rejected", !.rejected = TRUE] \in ProposalRecord
          /\ [prop[run[r].cur] EXCEPT !.proposed = TRUE] \in ProposalRecord
      BY <2>1 DEF DigestInv, Types, ProposalTypes, ProposalRecord
    <2>3. \/ UNCHANGED prop
          \/ prop' = [prop EXCEPT ![run[r].cur] = [@ EXCEPT !.at = "rejected", !.rejected = TRUE]]
          \/ prop' = [prop EXCEPT ![run[r].cur] = [@ EXCEPT !.proposed = TRUE]]
      BY <1>3 DEF Record, Quarantined
    <2> QED
      BY <1>1, <2>1, <2>2, <2>3 DEF DigestInv, Types, ProposalTypes
  <1>4. ASSUME NEW d \in Deciders, Moves(d) \/ DecideRecords(d)
        PROVE  ProposalTypes'
    <2> DEFINE p == decider[d].p
    <2>1. prop \in [Proposals -> ProposalRecord] /\ p \in Proposals
      BY <1>4 DEF Moves, DecideMoves, DecideRecords, DigestInv, Types, ProposalTypes, DeciderTypes
    <2>2. prop[p] \in ProposalRecord
      BY <2>1
    <2>3. /\ [prop[p] EXCEPT !.at = "decided"] \in ProposalRecord
          /\ [prop[p] EXCEPT !.decided = prop[p].decided + 1] \in ProposalRecord
      <3> HIDE DEF p
      <3> QED
        BY <2>2 DEF ProposalRecord
    <2>4. CASE Moves(d)
      BY <2>1, <2>3, <2>4 DEF Moves, DecideMoves, ProposalTypes
    <2>5. CASE DecideRecords(d)
      <3>1. prop' = [prop EXCEPT ![p] = [prop[p] EXCEPT !.decided = prop[p].decided + 1]]
        BY <2>1, <2>5 DEF DecideRecords
      <3> HIDE DEF p
      <3> QED
        BY <2>1, <2>3, <3>1 DEF ProposalTypes
    <2> QED
      BY <1>4, <2>4, <2>5
  <1> QED
    BY <1>1, <1>2, <1>3, <1>4, ProposalsRest DEF DigestMove, digestVars

\* A call to decide starts in an idle manager.
LEMMA CheckTakesIdle ==
    ASSUME NEW p, DecideChecks(p)
    PROVE  \E d \in Deciders : /\ decider[d].pc = "none"
                               /\ decider' = [decider EXCEPT ![d] = [pc |-> "checked", p |-> p]]
  <1> DEFINE idle == {d \in Deciders : decider[d].pc = "none"}
  <1>1. idle # {} /\ AnyOf(idle) \in idle
    BY IdleSlot DEF DecideChecks
  <1> QED
    BY <1>1 DEF DecideChecks

\* The steps that leave the managers alone.
LEMMA DecidersRest ==
    ASSUME DigestNext, UNCHANGED decider => FALSE
    PROVE  \/ \E p \in Proposals : DecideChecks(p)
           \/ \E d \in Deciders : Moves(d) \/ DecideRecords(d)
  <1>1. ASSUME NEW r \in Runs, DigestStep(r) \/ RunSteals(r) \/ RunTermed(r) \/ RunDies(r)
        PROVE  UNCHANGED decider
    BY <1>1 DEF DigestStep, RunStarts, RunSteals, Begins, RunSkips, RunTermed, digestVars, RunSees, Record, PostEnds, Vet, RunEnds, RunDies
  <1>2. ASSUME NEW r \in Runs,
               \/ AnalystStep(r) \/ AnalystEnds(r)
               \/ \E p \in Proposals, flaw \in BOOLEAN : AnalystDrafts(r, p, flaw)
        PROVE  UNCHANGED decider
    BY <1>2 DEF AnalystStep, AnalystReads, AnalystReports, AnalystDrafts, AnalystEnds
  <1>3. ASSUME Forced \/ TimePasses
        PROVE  UNCHANGED decider
    BY <1>3 DEF Forced, TimePasses
  <1> QED
    BY <1>1, <1>2, <1>3, GateDoes DEF DigestNext, Moves

\* Every step keeps the types of the calls to decide.
LEMMA DeciderTypesKept ==
    ASSUME DigestInv, DigestMove
    PROVE  DeciderTypes'
  <1>1. CASE UNCHANGED decider
    BY <1>1 DEF DigestInv, Types, DeciderTypes
  <1>2. ASSUME NEW p \in Proposals, DecideChecks(p)
        PROVE  DeciderTypes'
    BY <1>2, CheckTakesIdle DEF DigestInv, Types, DeciderTypes
  <1>3. ASSUME NEW d \in Deciders, Moves(d) \/ DecideRecords(d)
        PROVE  DeciderTypes'
    BY <1>3 DEF Moves, DecideMoves, DecideRecords, NoDecider, DigestInv, Types, DeciderTypes
  <1> QED
    BY <1>1, <1>2, <1>3, DecidersRest DEF DigestMove, digestVars

(***************************************************************************)
(* The lock                                                                *)
(***************************************************************************)
\* The lock changes hands: whoever works then has worked and has it, or is
\* loose; or is the one that got it.
LEMMA LockMoves ==
    ASSUME DigestInv, NEW p \in Jobs \cup Runs,
           lock' \in Jobs \cup Runs \cup {Free, Dead, Bare}, loose' \subseteq Jobs \cup Runs,
           lock \in Jobs \cup Runs => lock' = lock \/ lock \in loose' \/ lock = p,
           loose \ {p} \subseteq loose',
           \A j \in Jobs : job'[j].pc = "run" =>
                IF j = p THEN lock' = p \/ p \in loose' ELSE job[j].pc = "run",
           \A r \in Runs : run'[r].pc \in {"wait", "post", "vet", "end"} =>
                IF r = p THEN lock' = p \/ p \in loose' ELSE Running(r)
    PROVE  LockHeld'
  BY SlotsAssumption DEF DigestInv, LockHeld, Running

\* Who works without the lock of the others is loose.
LEMMA LockOrLoose ==
    ASSUME DigestInv, NEW j \in Jobs, job[j].pc = "run", ~Unguarded(j)
    PROVE  \A r \in Runs : ~Running(r)
  BY SlotsAssumption DEF DigestInv, LockHeld, Unguarded

\* Every step keeps the lock with the one who runs, or lets it be lost.
LEMMA LockHeldKept ==
    ASSUME DigestInv, DigestMove
    PROVE  LockHeld'
  <1>0. /\ lock \in Jobs \cup Runs \cup {Free, Dead, Bare} /\ loose \subseteq Jobs \cup Runs
        /\ \A j \in Jobs : \A r \in Runs : j # r
        /\ {Free, Dead, Bare} \cap (Jobs \cup Runs) = {}
    BY SlotsAssumption DEF DigestInv, LockHeld
  <1>1. ASSUME UNCHANGED <<lock, loose>>,
               \A j \in Jobs : job'[j].pc = "run" => job[j].pc = "run",
               \A r \in Runs : run'[r].pc \in {"wait", "post", "vet", "end"} => Running(r)
        PROVE  LockHeld'
    BY <1>1 DEF DigestInv, LockHeld, Running
  <1>2. ASSUME NEW p \in Jobs \cup Runs, NEW making \in BOOLEAN, Unlock(p) \/ Abandons(p, making),
               \A j \in Jobs : job'[j].pc = "run" => j # p /\ job[j].pc = "run",
               \A r \in Runs : run'[r].pc \in {"wait", "post", "vet", "end"} => r # p /\ Running(r)
        PROVE  LockHeld'
    BY <1>0, <1>2, LockMoves DEF Unlock, Abandons
  <1>3. ASSUME NEW p \in Jobs \cup Runs, Takes(p) \/ Steals(p),
               \A j \in Jobs : job'[j].pc = "run" => j = p \/ job[j].pc = "run",
               \A r \in Runs : run'[r].pc \in {"wait", "post", "vet", "end"} => r = p \/ Running(r)
        PROVE  LockHeld'
    BY <1>0, <1>3, LockMoves DEF Takes, Steals
  <1>4. ASSUME NEW j \in Jobs, JobLock(j) \/ JobSteals(j), UNCHANGED run
        PROVE  LockHeld'
    <2>1. (Takes(j) \/ Steals(j)) /\ job' = [job EXCEPT ![j].pc = "run"]
      BY <1>4 DEF JobLock, JobSteals, Empty
    <2>2. \A k \in Jobs : job'[k].pc = "run" => k = j \/ job[k].pc = "run"
      BY <2>1 DEF DigestInv, Types, JobTypes
    <2> QED
      BY <1>3, <1>4, <2>1, <2>2 DEF Running
  <1>5. ASSUME NEW j \in Jobs, UNCHANGED run, NEW good, NEW termed,
               JobEnds(j, good, termed) \/ JobDies(j)
        PROVE  LockHeld'
    <2>1. /\ job' = [job EXCEPT ![j] = NoJob]
          /\ \E making \in BOOLEAN : Unlock(j) \/ Abandons(j, making)
      BY <1>5 DEF JobEnds, JobDies
    <2>2. \A k \in Jobs : job'[k].pc = "run" => k # j /\ job[k].pc = "run"
      BY <2>1 DEF NoJob, DigestInv, Types, JobTypes
    <2> QED
      BY <1>0, <1>2, <1>5, <2>1, <2>2 DEF Running
  <1>6. ASSUME NEW s, NEW attempt, Spawn(s, attempt)
        PROVE  \A j \in Jobs : job'[j].pc = "run" => job[j].pc = "run"
    BY <1>6, SpawnTakesIdle DEF DigestInv, Types, JobTypes
  <1>7. ASSUME NEW trigger, StartRun(trigger)
        PROVE  \A r \in Runs : run'[r].pc \in {"wait", "post", "vet", "end"} => Running(r)
    BY <1>7, StartTakesIdle DEF Running, DigestInv, Types, RunTypes, RunRecord
  <1>8. CASE FindingsNext /\ UNCHANGED digestVars
    <2>1. UNCHANGED run
      BY <1>8 DEF digestVars
    <2>2. ASSUME NEW s \in Sessions, Trigger(s)
          PROVE  LockHeld'
      <3>1. UNCHANGED <<lock, loose>> /\ (UNCHANGED job \/ Spawn(s, 0))
        BY <2>2 DEF Trigger
      <3> QED
        BY <1>1, <1>6, <2>1, <3>1 DEF Running
    <2>3. ASSUME NEW j \in Jobs, NotWorth(j) \/ JobGivesUp(j)
          PROVE  LockHeld'
      <3>1. UNCHANGED <<lock, loose>> /\ job' = [job EXCEPT ![j] = NoJob]
        BY <2>3 DEF NotWorth, JobGivesUp
      <3>2. \A k \in Jobs : job'[k].pc = "run" => job[k].pc = "run"
        BY <3>1 DEF NoJob, DigestInv, Types, JobTypes
      <3> QED
        BY <1>1, <2>1, <3>1, <3>2 DEF Running
    <2>4. ASSUME Limited \/ \E s \in Sessions : Expire(s) \/ OrphanWrites(s) \/ OrphanEnds(s)
          PROVE  LockHeld'
      BY <1>1, <2>1, <2>4 DEF Limited, Expire, OrphanWrites, OrphanEnds, Running
    <2> QED
      BY <1>4, <1>5, <1>8, <2>1, <2>2, <2>3, <2>4 DEF FindingsNext, JobStep
  <1>9. CASE DigestNext
    <2>1. ASSUME NEW started \in BOOLEAN, Gate(started)
          PROVE  LockHeld'
      BY <1>1, <1>6, <1>7, <2>1, GateDoes
    <2>2. CASE Forced
      BY <1>1, <1>7, <2>2 DEF Forced
    <2>3. ASSUME NEW r \in Runs, RunStarts(r) \/ RunSteals(r)
          PROVE  LockHeld'
      <3>1. UNCHANGED job /\ (Takes(r) \/ Steals(r)) /\ run' = [run EXCEPT ![r].pc = "wait"]
        BY <2>3 DEF RunStarts, RunSteals, Begins
      <3>2. \A q \in Runs \ {r} : run'[q] = run[q]
        BY <3>1 DEF DigestInv, Types, RunTypes
      <3> QED
        BY <1>3, <3>1, <3>2 DEF Running
    <2>4. ASSUME NEW r \in Runs,
                 \/ RunSees(r) \/ Record(r) \/ PostEnds(r)
                 \/ \E p \in Proposals : Vet(r, p)
          PROVE  LockHeld'
      <3>1. UNCHANGED <<lock, loose, job>> /\ run[r].pc \in {"wait", "post", "vet"}
        BY <2>4 DEF RunSees, Record, PostEnds, Vet, findVars
      <3>2. \E next : run' = [run EXCEPT ![r] = next]
        BY <2>4 DEF RunSees, Record, PostEnds, Vet
      <3>3. \A q \in Runs \ {r} : run'[q] = run[q]
        BY <3>2 DEF DigestInv, Types, RunTypes
      <3> QED
        BY <1>1, <3>1, <3>3 DEF Running
    <2>5. ASSUME NEW r \in Runs, RunEnds(r) \/ RunDies(r)
          PROVE  LockHeld'
      <3>1. /\ UNCHANGED job /\ run' = [run EXCEPT ![r] = NoRun]
            /\ \E making \in BOOLEAN : Unlock(r) \/ Abandons(r, making)
        BY <2>5 DEF RunEnds, RunDies, Without
      <3>2. \A q \in Runs : run'[q].pc \in {"wait", "post", "vet", "end"} => q # r /\ Running(q)
        BY <3>1 DEF NoRun, Running, DigestInv, Types, RunTypes
      <3> QED
        BY <1>0, <1>2, <3>1, <3>2
    <2>6. ASSUME NEW r \in Runs,
                 \/ AnalystStep(r) \/ AnalystEnds(r)
                 \/ \E p \in Proposals, flaw \in BOOLEAN : AnalystDrafts(r, p, flaw)
          PROVE  UNCHANGED <<lock, loose, job, run>>
      BY <2>6 DEF AnalystStep, AnalystReads, AnalystReports, AnalystDrafts, AnalystEnds, findVars
    <2>7. ASSUME \/ TimePasses \/ \E p \in Proposals : DecideChecks(p)
                 \/ \E d \in Deciders : Moves(d) \/ DecideRecords(d)
          PROVE  UNCHANGED <<lock, loose, job, run>>
      BY <2>7 DEF TimePasses, Moves, DecideMoves, DecideRecords, DecideChecks, findVars
    <2>8. ASSUME UNCHANGED <<lock, loose, job, run>> PROVE LockHeld'
      BY <1>1, <2>8 DEF Running
    <2>9. ASSUME NEW r \in Runs, RunSkips(r)
          PROVE  LockHeld'
      <3>1. /\ UNCHANGED <<job, loose>> /\ run' = [run EXCEPT ![r] = NoRun]
            /\ UNCHANGED lock \/ (lock \in {Free, Dead} /\ lock' = Free)
        BY <1>0, <2>9 DEF RunSkips, Without, Locked
      <3>2. \A q \in Runs : run'[q].pc \in {"wait", "post", "vet", "end"} => q # r /\ Running(q)
        BY <3>1 DEF NoRun, Running, DigestInv, Types, RunTypes
      <3>3. \A j \in Jobs : j # r
        BY <1>0
      <3> QED
        BY <1>0, <3>1, <3>2, <3>3, LockMoves
    <2>10. ASSUME NEW r \in Runs, RunTermed(r)
           PROVE  LockHeld'
      <3>1. /\ UNCHANGED <<job, run>> /\ lock = r /\ lock' = Free /\ loose' = loose \cup {r}
        BY <2>10 DEF RunTermed, digestVars
      <3>2. \A j \in Jobs : j # r
        BY <1>0
      <3> QED
        BY <1>0, <3>1, <3>2, LockMoves DEF Running
    <2> QED
      BY <1>9, <2>1, <2>2, <2>3, <2>4, <2>5, <2>6, <2>7, <2>8, <2>9, <2>10
         DEF DigestNext, Moves, DigestStep
  <1> QED
    BY <1>8, <1>9 DEF DigestMove

(***************************************************************************)
(* Decisions                                                               *)
(***************************************************************************)
\* Every step keeps to one move and one event per proposal.
LEMMA OneMoveKept ==
    ASSUME DigestInv, DigestMove
    PROVE  OneMove'
  <1>1. CASE UNCHANGED <<prop, decider>>
    BY <1>1 DEF DigestInv, OneMove, Moved
  <1>2. ASSUME NEW r \in Runs, NEW p \in Proposals, NEW flaw \in BOOLEAN, AnalystDrafts(r, p, flaw)
        PROVE  OneMove'
    <2>1. UNCHANGED decider /\ prop[p].at = "nowhere"
      BY <1>2 DEF AnalystDrafts
    <2>2. prop'[p].at = "pending" /\ prop'[p].decided = 0 /\ ~prop'[p].rejected
      BY <1>2 DEF AnalystDrafts, NoProposal, DigestInv, Types, ProposalTypes
    <2>3. \A q \in Proposals \ {p} : prop'[q] = prop[q]
      BY <1>2 DEF AnalystDrafts, DigestInv, Types, ProposalTypes
    <2> QED
      BY <2>1, <2>2, <2>3 DEF DigestInv, OneMove, Moved
  <1>3. ASSUME NEW r \in Runs, Record(r)
        PROVE  OneMove'
    <2> DEFINE p == run[r].cur
    <2>1. UNCHANGED decider /\ p \in Proposals
      BY <1>3 DEF Record, DigestInv, Types, RunTypes
    <2>2. CASE UNCHANGED prop
      BY <1>1, <2>1, <2>2
    <2>3. CASE /\ prop[p].at = "pending"
               /\ prop' = [prop EXCEPT ![p] = [@ EXCEPT !.at = "rejected", !.rejected = TRUE]]
      <3>1. prop'[p].at = "rejected" /\ prop'[p].rejected /\ prop'[p].decided = prop[p].decided
        BY <2>1, <2>3 DEF DigestInv, Types, ProposalTypes, ProposalRecord
      <3>2. \A q \in Proposals \ {p} : prop'[q] = prop[q]
        BY <2>1, <2>3 DEF DigestInv, Types, ProposalTypes
      <3> QED
        BY <2>1, <2>3, <3>1, <3>2 DEF DigestInv, OneMove, Moved
    <2>4. CASE prop' = [prop EXCEPT ![p] = [@ EXCEPT !.proposed = TRUE]]
      <3>1. \A q \in Proposals : /\ prop'[q].at = prop[q].at /\ prop'[q].decided = prop[q].decided
                                 /\ prop'[q].rejected = prop[q].rejected
        BY <2>1, <2>4 DEF DigestInv, Types, ProposalTypes, ProposalRecord
      <3> QED
        BY <2>1, <3>1 DEF DigestInv, OneMove, Moved
    <2> QED
      BY <1>3, <2>2, <2>3, <2>4 DEF Record, Quarantined
  <1>4. ASSUME NEW p \in Proposals, DecideChecks(p)
        PROVE  OneMove'
    <2>1. UNCHANGED prop
      BY <1>4 DEF DecideChecks
    <2>2. \A d \in Deciders, q \in Proposals : Moved(d, q)' <=> Moved(d, q)
      BY <1>4, CheckTakesIdle DEF Moved, DigestInv, Types, DeciderTypes
    <2> QED
      BY <2>1, <2>2 DEF DigestInv, OneMove
  <1>5. ASSUME NEW d \in Deciders, NEW marks \in BOOLEAN, DecideMoves(d, marks)
        PROVE  OneMove'
    <2> DEFINE p == decider[d].p
    <2>1. p \in Proposals /\ decider[d].pc = "checked"
      BY <1>5 DEF DecideMoves, DigestInv, Types, DeciderTypes
    <2>2. CASE prop[p].at # "pending"
      <3>1. UNCHANGED prop /\ decider' = [decider EXCEPT ![d] = NoDecider]
        BY <1>5, <2>2 DEF DecideMoves
      <3>2. \A e \in Deciders, q \in Proposals : Moved(e, q)' <=> Moved(e, q)
        BY <2>1, <3>1 DEF NoDecider, Moved, DigestInv, Types, DeciderTypes
      <3> QED
        BY <3>1, <3>2 DEF DigestInv, OneMove
    <2>3. CASE prop[p].at = "pending"
      <3>1. prop' = [prop EXCEPT ![p].at = "decided"] /\ decider' = [decider EXCEPT ![d].pc = "moved"]
        BY <1>5, <2>3 DEF DecideMoves
      <3>2. \A e \in Deciders, q \in Proposals :
                Moved(e, q)' <=> Moved(e, q) \/ (e = d /\ q = p)
        BY <2>1, <3>1 DEF Moved, DigestInv, Types, DeciderTypes
      <3>3. /\ prop'[p].at = "decided" /\ prop'[p].decided = prop[p].decided
            /\ prop'[p].rejected = prop[p].rejected
            /\ \A q \in Proposals \ {p} : prop'[q] = prop[q]
        BY <2>1, <3>1 DEF DigestInv, Types, ProposalTypes, ProposalRecord
      <3>4. ~prop[p].rejected /\ prop[p].decided = 0 /\ \A e \in Deciders : ~Moved(e, p)
        BY <2>1, <2>3 DEF DigestInv, OneMove
      <3> HIDE DEF p
      <3> QED
        BY <2>1, <3>2, <3>3, <3>4 DEF DigestInv, OneMove
    <2> QED
      BY <2>2, <2>3
  <1>6. ASSUME NEW d \in Deciders, DecideRecords(d)
        PROVE  OneMove'
    <2>1. PICK p \in Proposals :
             /\ Moved(d, p)
             /\ prop' = [prop EXCEPT ![p].decided = @ + 1]
             /\ decider' = [decider EXCEPT ![d] = NoDecider]
      BY <1>6 DEF DecideRecords, Moved, DigestInv, Types, DeciderTypes
    <2>2. \A e \in Deciders, q \in Proposals : Moved(e, q)' <=> Moved(e, q) /\ e # d
      BY <2>1 DEF NoDecider, Moved, DigestInv, Types, DeciderTypes
    <2>3. prop[p].at = "decided" /\ prop[p].decided = 0
      <3>1. prop[p].decided \in Nat
        BY DEF DigestInv, Types, ProposalTypes, ProposalRecord
      <3> QED
        BY <2>1, <3>1 DEF DigestInv, OneMove
    <2>4. /\ prop'[p].at = "decided" /\ prop'[p].decided = 1
          /\ prop'[p].rejected = prop[p].rejected
          /\ \A q \in Proposals \ {p} : prop'[q] = prop[q]
      BY <2>1, <2>3 DEF DigestInv, Types, ProposalTypes, ProposalRecord
    <2>5. \A e \in Deciders : ~Moved(e, p)'
      BY <2>1, <2>2 DEF DigestInv, OneMove
    <2> QED
      BY <2>1, <2>2, <2>3, <2>4, <2>5 DEF DigestInv, OneMove
  <1> QED
    BY <1>1, <1>2, <1>3, <1>4, <1>5, <1>6, ProposalsRest, DecidersRest DEF DigestMove, Moves, digestVars

(***************************************************************************)
(* What a digest has seen                                                  *)
(***************************************************************************)
\* What one step does to a run and its analyst: it goes on, but where the run
\* starts or the analyst reads.
Starts(r) == RunStarts(r) \/ RunSteals(r)
LEMMA RunsGoOn ==
    ASSUME DigestInv, DigestMove, NEW r \in Runs,
           run'[r].pc \in {"wait", "post", "vet", "end"}, ~Starts(r)
    PROVE  Running(r)
  <1>1. CASE UNCHANGED run
    BY <1>1 DEF Running
  <1>2. ASSUME NEW trigger, StartRun(trigger)
        PROVE  Running(r)
    BY <1>2, StartTakesIdle DEF Running, DigestInv, Types, RunTypes, RunRecord
  <1>3. ASSUME NEW q \in Runs, RunStarts(q) \/ RunSteals(q)
        PROVE  Running(r)
    BY <1>3 DEF Starts, RunStarts, RunSteals, Begins, Running, DigestInv, Types, RunTypes
  <1>4. ASSUME NEW q \in Runs, NEW next, run' = [run EXCEPT ![q] = next], Running(q) \/ next = NoRun
        PROVE  Running(r)
    BY <1>4 DEF NoRun, Running, DigestInv, Types, RunTypes
  <1>5. ASSUME NEW q \in Runs,
               \/ RunSees(q) \/ Record(q) \/ PostEnds(q)
               \/ \E p \in Proposals : Vet(q, p)
        PROVE  Running(r)
    <2>1. Running(q)
      BY <1>5 DEF RunSees, Record, PostEnds, Vet, Running
    <2>2. \E next : run' = [run EXCEPT ![q] = next]
      BY <1>5 DEF RunSees, Record, PostEnds, Vet
    <2> QED
      BY <1>4, <2>1, <2>2
  <1>6. ASSUME NEW q \in Runs, RunEnds(q) \/ RunDies(q) \/ RunSkips(q)
        PROVE  Running(r)
    BY <1>4, <1>6 DEF RunEnds, RunDies, RunSkips, Without
  <1>7. ASSUME NEW q \in Runs,
               \/ AnalystStep(q) \/ AnalystEnds(q) \/ RunTermed(q)
               \/ \E p \in Proposals, flaw \in BOOLEAN : AnalystDrafts(q, p, flaw)
        PROVE  UNCHANGED run
    BY <1>7 DEF AnalystStep, AnalystReads, AnalystReports, AnalystDrafts, AnalystEnds, RunTermed,
                digestVars
  <1>8. ASSUME \/ TimePasses \/ \E p \in Proposals : DecideChecks(p)
               \/ \E d \in Deciders : Moves(d) \/ DecideRecords(d)
        PROVE  UNCHANGED run
    BY <1>8 DEF TimePasses, Moves, DecideMoves, DecideRecords, DecideChecks
  <1>9. ASSUME Forced \/ \E started \in BOOLEAN : Gate(started)
        PROVE  Running(r)
    BY <1>2, <1>9, GateDoes DEF Forced
  <1> QED
    BY <1>1, <1>3, <1>5, <1>6, <1>7, <1>8, <1>9
       DEF DigestMove, DigestNext, Moves, DigestStep, digestVars

\* An analyst that drafts has drafted before, from the same findings.
LEMMA AnalystsGoOn ==
    ASSUME DigestInv, DigestMove, NEW r \in Runs, ~Starts(r), ~AnalystReads(r)
    PROVE  analyst'[r].drafting => analyst[r].drafting /\ analyst'[r].sees = analyst[r].sees
  <1>1. CASE UNCHANGED analyst
    BY <1>1
  <1>2. ASSUME NEW q \in Runs,
               analyst' \in {[analyst EXCEPT ![q] = NoAnalyst],
                             [analyst EXCEPT ![q] = [NoAnalyst EXCEPT !.on = TRUE]]}
        PROVE  analyst'[r].drafting => analyst[r].drafting /\ analyst'[r].sees = analyst[r].sees
    BY <1>2 DEF NoAnalyst, DigestInv, Types, AnalystTypes
  <1>3. ASSUME NEW q \in Runs, RunStarts(q) \/ RunSteals(q) \/ RunEnds(q) \/ AnalystEnds(q)
        PROVE  analyst'[r].drafting => analyst[r].drafting /\ analyst'[r].sees = analyst[r].sees
    BY <1>1, <1>2, <1>3 DEF RunStarts, RunSteals, Begins, RunEnds, AnalystEnds
  <1>4. ASSUME NEW q \in Runs, AnalystStep(q)
        PROVE  analyst'[r].drafting => analyst[r].drafting /\ analyst'[r].sees = analyst[r].sees
    <2>1. CASE AnalystReads(q)
      <3>1. q # r /\ \E next : analyst' = [analyst EXCEPT ![q] = next]
        BY <2>1 DEF AnalystReads
      <3> QED
        BY <3>1 DEF DigestInv, Types, AnalystTypes
    <2>2. ASSUME NEW status \in {"ok", "error"}, AnalystReports(q, status)
          PROVE  analyst'[r].drafting => analyst[r].drafting /\ analyst'[r].sees = analyst[r].sees
      BY <2>2 DEF AnalystReports, DigestInv, Types, AnalystTypes, AnalystRecord
    <2> QED
      BY <1>4, <2>1, <2>2 DEF AnalystStep
  <1>5. ASSUME NEW q \in Runs,
               \/ RunSees(q) \/ Record(q) \/ PostEnds(q) \/ RunDies(q) \/ RunSkips(q) \/ RunTermed(q)
               \/ \E p \in Proposals : Vet(q, p)
               \/ \E p \in Proposals, flaw \in BOOLEAN : AnalystDrafts(q, p, flaw)
        PROVE  UNCHANGED analyst
    BY <1>5 DEF RunSees, Record, PostEnds, Vet, AnalystDrafts, RunDies, RunSkips, RunTermed, digestVars
  <1>6. ASSUME \/ Forced \/ TimePasses \/ \E p \in Proposals : DecideChecks(p)
               \/ \E d \in Deciders : Moves(d) \/ DecideRecords(d)
        PROVE  UNCHANGED analyst
    BY <1>6 DEF Forced, TimePasses, Moves, DecideMoves, DecideRecords, DecideChecks
  <1> QED
    BY <1>1, <1>3, <1>4, <1>5, <1>6, GateDoes DEF DigestMove, DigestNext, Moves, DigestStep, digestVars

\* A run that starts has an analyst that has not read.
LEMMA StartsAfresh ==
    ASSUME DigestInv, NEW r \in Runs, Starts(r)
    PROVE  /\ ~analyst'[r].drafting
           /\ \A q \in Runs \ {r} : run'[q] = run[q] /\ analyst'[q] = analyst[q]
           /\ UNCHANGED <<finding, known>>
  BY DEF Starts, RunStarts, RunSteals, Begins, NoAnalyst, DigestInv, Types, RunTypes, AnalystTypes

\* What one session's finding asks of a step.
LEMMA SeenStays ==
    ASSUME DigestInv, DigestMove,
           \A r \in Runs : ~Starts(r) /\ ~AnalystReads(r),
           \A s \in Sessions :
               /\ finding'[s].content => finding'[s].there
               /\ finding'[s].content /\ ~finding'[s].reviewed =>
                  \/ /\ Waits(s) /\ (Settled(s) => Settled(s)')
                     /\ finding'[s].fresh \/ ~finding[s].fresh \/ Settled(s)'
                     /\ \A r \in Runs : Running(r)' =>
                            (s \in known'.same[r] <=> s \in known.same[r])
                  \/ /\ finding'[s].fresh
                     /\ \/ s \in known'.stray
                        \/ \A r \in Runs : ~Running(r)
                     /\ \A r \in Runs : s \notin known'.same[r]
    PROVE  SeenByRun'
  <1>1. \A r \in Runs :
            Running(r)' /\ analyst'[r].drafting =>
                Running(r) /\ analyst[r].drafting /\ analyst'[r].sees = analyst[r].sees
    BY RunsGoOn, AnalystsGoOn DEF Running
  <1>2. ASSUME NEW s \in Sessions, Waits(s)'
        PROVE  finding'[s].fresh \/ Settled(s)'
    BY <1>2 DEF DigestInv, SeenByRun, Waits
  <1>3. ASSUME NEW r \in Runs, Running(r)', analyst'[r].drafting, NEW s \in Sessions, Waits(s)'
        PROVE  IF s \in known'.same[r] THEN s \in analyst'[r].sees ELSE Settled(s)'
    <2>1. Running(r) /\ analyst[r].drafting /\ analyst'[r].sees = analyst[r].sees
      BY <1>1, <1>3
    <2>2. CASE /\ Waits(s) /\ (Settled(s) => Settled(s)')
               /\ s \in known'.same[r] <=> s \in known.same[r]
      BY <2>1, <2>2 DEF DigestInv, SeenByRun
    <2>3. CASE s \notin known'.same[r] /\ s \in known'.stray
      BY <2>3 DEF Settled
    <2> QED
      BY <1>3, <2>1, <2>2, <2>3 DEF Waits
  <1>4. \A s \in Sessions : finding'[s].content => finding'[s].there
    OBVIOUS
  <1> QED
    BY <1>2, <1>3, <1>4 DEF SeenByRun

\* A text that is written is new to all, and stray if its writer was unguarded.
LEMMA WrittenIsNew ==
    ASSUME DigestInv, NEW t \in Sessions, NEW outside \in BOOLEAN, Written(t, outside)
    PROVE  /\ \A r \in Runs : t \notin known'.same[r]
           /\ outside => t \in known'.stray
           /\ \A s \in Sessions \ {t} :
                  /\ Settled(s)' <=> Settled(s)
                  /\ \A r \in Runs : s \in known'.same[r] <=> s \in known.same[r]
  BY DEF Written, Settled, DigestInv, Types, FindingTypes

\* Every step leaves what waits to a digest that sees it.
LEMMA SeenByRunKept ==
    ASSUME DigestInv, DigestMove
    PROVE  SeenByRun'
  <1>0. /\ \A s \in Sessions : finding[s].content => finding[s].there
        /\ finding \in [Sessions -> FindingFile]
    BY DEF DigestInv, Types, FindingTypes, SeenByRun
  <1>1. ASSUME NEW r \in Runs, Starts(r)
        PROVE  SeenByRun'
    BY <1>1, StartsAfresh DEF DigestInv, SeenByRun, Waits, Settled, Running
  <1>2. ASSUME NEW r \in Runs, AnalystReads(r)
        PROVE  SeenByRun'
    <2> DEFINE same == {s \in Sessions : finding[s].fresh \/ Parked(s)}
    <2>1. UNCHANGED <<finding, run>> /\ known' = [known EXCEPT !.same[r] = same]
      BY <1>2 DEF AnalystReads
    <2>2. \A q \in Runs \ {r} : analyst'[q] = analyst[q]
      BY <1>2 DEF AnalystReads, DigestInv, Types, AnalystTypes
    <2>3. /\ known'.read = known.read /\ known'.stray = known.stray
          /\ known'.same[r] = same /\ \A q \in Runs \ {r} : known'.same[q] = known.same[q]
      <3> HIDE DEF same
      <3> QED
        BY <2>1 DEF DigestInv, Types, FindingTypes
    <2>4. \A s \in Sessions : Settled(s)' <=> Settled(s)
      BY <2>3 DEF Settled
    <2>5. ASSUME NEW s \in Sessions, Waits(s)
          PROVE  IF s \in same THEN s \in analyst'[r].sees ELSE Settled(s)
      <3>1. PICK full : analyst'[r].sees = {x \in Sessions : /\ finding[x].there /\ ~finding[x].reviewed
                                                             /\ full \/ finding[x].fresh \/ Parked(x)}
        BY <1>2 DEF AnalystReads, DigestInv, Types, AnalystTypes, AnalystRecord
      <3> QED
        BY <1>0, <2>5, <3>1 DEF DigestInv, SeenByRun, Waits
    <2> HIDE DEF same
    <2> QED
      BY <2>1, <2>2, <2>3, <2>4, <2>5 DEF DigestInv, SeenByRun, Waits, Running
  <1>3. ASSUME UNCHANGED <<finding, known>>
        PROVE  SeenByRun'
    BY <1>0, <1>1, <1>2, <1>3, SeenStays DEF Waits, Settled
  <1>4. ASSUME NEW r \in Runs, RunEnds(r)
        PROVE  SeenByRun'
    <2>1. CASE ~run[r].ok
      BY <1>3, <1>4, <2>1 DEF RunEnds
    <2>2. CASE run[r].ok
      <3>1. finding' = [s \in Sessions |-> [finding[s] EXCEPT !.fresh = FALSE]] /\ Touch(r)
        BY <1>4, <2>2 DEF RunEnds, Touch
      <3>2. \A s \in Sessions : /\ finding'[s].content = finding[s].content
                                /\ finding'[s].reviewed = finding[s].reviewed
                                /\ finding'[s].there = finding[s].there
        BY <1>0, <3>1 DEF FindingFile
      <3>3. Running(r) /\ analyst[r].drafting
        BY <2>2 DEF DigestInv, ReportsAreDrafts
      <3>4. /\ known'.read = known.read \cup (analyst[r].sees \cap known.same[r])
            /\ known'.stray = known.stray \ known.same[r]
            /\ \A q \in Runs \ {r} : known'.same[q] = known.same[q]
        <4> DEFINE reads == known.read \cup (analyst[r].sees \cap known.same[r])
                   stray == known.stray \ known.same[r]
        <4>1. known' = [known EXCEPT !.read = reads, !.stray = stray, !.same[r] = {}]
          BY <3>1 DEF Touch
        <4> HIDE DEF reads, stray
        <4>2. known'.read = reads /\ known'.stray = stray
              /\ \A q \in Runs \ {r} : known'.same[q] = known.same[q]
          BY <4>1 DEF DigestInv, Types, FindingTypes
        <4> QED
          BY <4>2 DEF reads, stray
      <3>5. ASSUME NEW s \in Sessions, Waits(s)
            PROVE  Settled(s)'
        BY <3>3, <3>4, <3>5 DEF DigestInv, SeenByRun, Settled
      <3>6. ~Running(r)'
        BY <1>4 DEF RunEnds, Without, NoRun, Running, DigestInv, Types, RunTypes
      <3> QED
        BY <1>0, <1>1, <1>2, <3>2, <3>4, <3>5, <3>6, SeenStays DEF Waits
    <2> QED
      BY <2>1, <2>2
  <1>5. ASSUME NEW d \in Deciders, NEW marks \in BOOLEAN, DecideMoves(d, marks)
        PROVE  SeenByRun'
    <2>1. UNCHANGED known
      BY <1>5 DEF DecideMoves
    <2>2. \A s \in Sessions : /\ finding'[s].content = finding[s].content
                              /\ finding'[s].there = finding[s].there
                              /\ finding'[s].fresh = finding[s].fresh
                              /\ ~finding'[s].reviewed => ~finding[s].reviewed
      BY <1>0, <1>5 DEF DecideMoves, Marked, FindingFile
    <2> QED
      BY <1>0, <1>1, <1>2, <2>1, <2>2, SeenStays DEF Waits, Settled
  <1>6. ASSUME NEW t \in Sessions, NEW outside \in BOOLEAN, Written(t, outside),
               outside \/ ~finding'[t].content \/ \A r \in Runs : ~Running(r),
               finding'[t].there, finding'[t].fresh,
               \A s \in Sessions \ {t} : finding'[s] = finding[s]
        PROVE  SeenByRun'
    BY <1>0, <1>1, <1>2, <1>6, WrittenIsNew, SeenStays DEF Waits
  <1>7. ASSUME NEW r \in Runs, AnalystEnds(r)
        PROVE  SeenByRun'
    <2>1. /\ UNCHANGED <<finding, run>> /\ ~Running(r)
          /\ known' = [known EXCEPT !.same[r] = {}]
      BY <1>7 DEF AnalystEnds, Running
    <2>2. /\ known'.read = known.read /\ known'.stray = known.stray
          /\ \A q \in Runs \ {r} : known'.same[q] = known.same[q]
      BY <2>1 DEF DigestInv, Types, FindingTypes
    <2> QED
      BY <1>0, <1>1, <1>2, <2>1, <2>2, SeenStays DEF Waits, Settled, Running
  <1>8. CASE FindingsNext /\ UNCHANGED digestVars
    <2>2. ASSUME NEW s \in Sessions, Expire(s)
          PROVE  SeenByRun'
      <3>1. UNCHANGED known /\ finding' \in {finding, [finding EXCEPT ![s] = NoFinding]}
        BY <2>2 DEF Expire
      <3>2. \A t \in Sessions : finding'[t] \in {finding[t], NoFinding}
        BY <1>0, <3>1
      <3> QED
        BY <1>0, <1>1, <1>2, <3>1, <3>2, SeenStays DEF NoFinding, Waits, Settled
    <2>3. ASSUME NEW j \in Jobs, JobLock(j) \/ JobSteals(j)
          PROVE  SeenByRun'
      <3>1. Empty(j) /\ job[j].sid \in Sessions /\ Unguarded(j) \in BOOLEAN
        BY <2>3, JobsHaveSessions DEF JobLock, JobSteals
      <3>2. /\ finding'[job[j].sid].there /\ finding'[job[j].sid].fresh
            /\ ~finding'[job[j].sid].content
            /\ \A s \in Sessions \ {job[j].sid} : finding'[s] = finding[s]
        BY <1>0, <3>1 DEF Empty, FindingFile
      <3> QED
        BY <1>6, <3>1, <3>2 DEF Empty
    <2>4. ASSUME NEW j \in Jobs, NEW good \in BOOLEAN, NEW termed \in BOOLEAN, JobEnds(j, good, termed)
          PROVE  SeenByRun'
      <3>1. /\ job[j].sid \in Sessions /\ Unguarded(j) \in BOOLEAN
            /\ Unguarded(j) \/ \A r \in Runs : ~Running(r)
        BY <2>4, JobsHaveSessions, LockOrLoose DEF JobEnds
      <3>2. /\ finding'[job[j].sid].there /\ finding'[job[j].sid].fresh
            /\ \A s \in Sessions \ {job[j].sid} : finding'[s] = finding[s]
        BY <1>0, <2>4, <3>1 DEF JobEnds, FindingFile
      <3> QED
        BY <1>6, <2>4, <3>1, <3>2 DEF JobEnds
    <2>5. ASSUME NEW s \in Sessions, OrphanWrites(s)
          PROVE  SeenByRun'
      <3>1. /\ finding'[s].there /\ finding'[s].fresh
            /\ \A t \in Sessions \ {s} : finding'[t] = finding[t]
        BY <1>0, <2>5 DEF OrphanWrites, FindingFile
      <3> QED
        BY <1>6, <2>5, <3>1 DEF OrphanWrites
    <2>6. ASSUME \/ Limited \/ \E s \in Sessions : Trigger(s) \/ OrphanEnds(s)
                 \/ \E j \in Jobs : NotWorth(j) \/ JobGivesUp(j) \/ JobDies(j)
          PROVE  SeenByRun'
      BY <1>3, <2>6 DEF Limited, Trigger, NotWorth, JobGivesUp, JobDies, OrphanEnds
    <2> QED
      BY <1>8, <2>2, <2>3, <2>4, <2>5, <2>6 DEF FindingsNext, JobStep
  <1>9. CASE DigestNext
    <2>1. ASSUME NEW r \in Runs,
                 \/ RunSees(r) \/ Record(r) \/ PostEnds(r) \/ RunDies(r) \/ RunSkips(r) \/ RunTermed(r)
                 \/ \E p \in Proposals : Vet(r, p)
          PROVE  UNCHANGED <<finding, known>>
      BY <2>1 DEF RunSees, Record, PostEnds, Vet, RunDies, RunSkips, RunTermed, findVars
    <2>2. ASSUME NEW r \in Runs,
                 \/ \E status \in {"ok", "error"} : AnalystReports(r, status)
                 \/ \E p \in Proposals, flaw \in BOOLEAN : AnalystDrafts(r, p, flaw)
          PROVE  UNCHANGED <<finding, known>>
      BY <2>2 DEF AnalystReports, AnalystDrafts, findVars
    <2>3. ASSUME \/ Forced \/ TimePasses \/ \E p \in Proposals : DecideChecks(p)
                 \/ \E d \in Deciders : DecideRecords(d)
          PROVE  UNCHANGED <<finding, known>>
      BY <2>3 DEF Forced, TimePasses, DecideRecords, DecideChecks, findVars
    <2> QED
      BY <1>1, <1>2, <1>3, <1>4, <1>5, <1>7, <1>9, <2>1, <2>2, <2>3, GateDoes
         DEF DigestNext, DigestStep, AnalystStep, Starts
  <1> QED
    BY <1>8, <1>9 DEF DigestMove

\* Every step keeps good ends to runs whose analyst has read.
LEMMA ReportsAreDraftsKept ==
    ASSUME DigestInv, DigestMove
    PROVE  ReportsAreDrafts'
  <1>0. \A r \in Runs : /\ analyst[r].status = "ok" => analyst[r].drafting
                        /\ run[r].ok => Running(r) /\ analyst[r].drafting
    BY DEF DigestInv, ReportsAreDrafts
  <1>1. CASE UNCHANGED <<run, analyst>>
    BY <1>1 DEF DigestInv, ReportsAreDrafts, Running
  <1>2. ASSUME NEW trigger, StartRun(trigger), UNCHANGED analyst
        PROVE  ReportsAreDrafts'
    <2>1. CASE UNCHANGED run
      BY <1>1, <1>2, <2>1
    <2>2. ASSUME NEW r \in Runs, run[r].pc = "none", run' = [run EXCEPT ![r].pc = "spawned"]
          PROVE  ReportsAreDrafts'
      <3>1. ~run[r].ok
        BY <1>0, <2>2 DEF Running
      <3>2. run'[r].ok = run[r].ok /\ \A q \in Runs \ {r} : run'[q] = run[q]
        BY <2>2 DEF DigestInv, Types, RunTypes, RunRecord
      <3> QED
        BY <1>0, <1>2, <3>1, <3>2 DEF ReportsAreDrafts, Running
    <2> QED
      BY <1>2, <2>1, <2>2, StartTakesIdle
  <1>3. ASSUME NEW r \in Runs, \A q \in Runs \ {r} : run'[q] = run[q] /\ analyst'[q] = analyst[q],
               analyst'[r].status = "ok" => analyst'[r].drafting,
               run'[r].ok => /\ run'[r].pc \in {"wait", "post", "vet", "end"}
                             /\ analyst'[r].drafting
        PROVE  ReportsAreDrafts'
    BY <1>0, <1>3 DEF ReportsAreDrafts, Running
  <1>4. ASSUME NEW r \in Runs, Starts(r)
        PROVE  ReportsAreDrafts'
    <2>1. ~run'[r].ok
      <3>1. ~run[r].ok
        BY <1>0, <1>4 DEF Starts, RunStarts, RunSteals, Running
      <3> QED
        BY <1>4, <3>1 DEF Starts, RunStarts, RunSteals, Begins, DigestInv, Types, RunTypes, RunRecord
    <2>2. ~analyst'[r].drafting /\ analyst'[r].status = "none"
      BY <1>4 DEF Starts, RunStarts, RunSteals, Begins, NoAnalyst, DigestInv, Types, AnalystTypes
    <2> QED
      BY <1>3, <1>4, <2>1, <2>2, StartsAfresh
  <1>5. ASSUME NEW r \in Runs, RunSees(r)
        PROVE  ReportsAreDrafts'
    <2>1. UNCHANGED analyst /\ \A q \in Runs \ {r} : run'[q] = run[q]
      BY <1>5 DEF RunSees, DigestInv, Types, RunTypes
    <2>2. run'[r].pc = "post" /\ (run'[r].ok => analyst[r].status = "ok")
      BY <1>5 DEF RunSees, DigestInv, Types, RunTypes, RunRecord
    <2> QED
      BY <1>0, <1>3, <2>1, <2>2
  <1>6. ASSUME NEW r \in Runs,
               \/ Record(r) \/ PostEnds(r)
               \/ \E p \in Proposals : Vet(r, p)
        PROVE  ReportsAreDrafts'
    <2>1. UNCHANGED analyst /\ \A q \in Runs \ {r} : run'[q] = run[q]
      BY <1>6 DEF Record, PostEnds, Vet, DigestInv, Types, RunTypes
    <2>2. run'[r].pc \in {"wait", "post", "vet", "end"} /\ run'[r].ok = run[r].ok
      <3>1. CASE PostEnds(r)
        BY <3>1 DEF PostEnds, DigestInv, Types, RunTypes, RunRecord
      <3>2. CASE Record(r)
        BY <3>2 DEF Record, DigestInv, Types, RunTypes, RunRecord
      <3>3. ASSUME NEW p \in Proposals, Vet(r, p)
            PROVE  run'[r].pc \in {"wait", "post", "vet", "end"} /\ run'[r].ok = run[r].ok
        <4>1. CASE prop[p].at = "pending"
          <5>1. PICK bad \in BOOLEAN :
                  run' = [run EXCEPT ![r] = [run[r] EXCEPT !.pc = "vet", !.cur = p, !.bad = bad,
                                                           !.todo = run[r].todo \ {p}]]
            BY <3>3, <4>1 DEF Vet
          <5> QED
            BY <5>1 DEF DigestInv, Types, RunTypes, RunRecord
        <4>2. CASE prop[p].at # "pending"
          BY <3>3, <4>2 DEF Vet, DigestInv, Types, RunTypes, RunRecord
        <4> QED
          BY <4>1, <4>2
      <3> QED
        BY <1>6, <3>1, <3>2, <3>3
    <2> QED
      BY <1>0, <1>3, <2>1, <2>2
  <1>7. ASSUME NEW r \in Runs, RunEnds(r) \/ RunDies(r) \/ RunSkips(r)
        PROVE  ReportsAreDrafts'
    <2>1. ~run'[r].ok /\ \A q \in Runs \ {r} : run'[q] = run[q]
      BY <1>7 DEF RunEnds, RunDies, RunSkips, Without, NoRun, DigestInv, Types, RunTypes
    <2>2. UNCHANGED analyst \/ analyst' = [analyst EXCEPT ![r] = NoAnalyst]
      BY <1>7 DEF RunEnds, RunDies, RunSkips
    <2>3. /\ \A q \in Runs \ {r} : analyst'[q] = analyst[q]
          /\ analyst'[r] = analyst[r] \/ analyst'[r] = NoAnalyst
      BY <2>2 DEF DigestInv, Types, AnalystTypes
    <2> QED
      BY <1>0, <1>3, <2>1, <2>3 DEF NoAnalyst
  <1>8. ASSUME NEW r \in Runs, AnalystReads(r)
        PROVE  ReportsAreDrafts'
    <2>1. UNCHANGED run /\ \A q \in Runs \ {r} : analyst'[q] = analyst[q]
      BY <1>8 DEF AnalystReads, DigestInv, Types, AnalystTypes
    <2>2. analyst'[r].drafting
      BY <1>8 DEF AnalystReads, DigestInv, Types, AnalystTypes, AnalystRecord
    <2> QED
      BY <1>0, <1>3, <2>1, <2>2 DEF Running
  <1>9. ASSUME NEW r \in Runs, NEW status \in {"ok", "error"}, AnalystReports(r, status)
        PROVE  ReportsAreDrafts'
    <2>1. UNCHANGED run /\ \A q \in Runs \ {r} : analyst'[q] = analyst[q]
      BY <1>9 DEF AnalystReports, DigestInv, Types, AnalystTypes
    <2>2. analyst'[r].drafting
      BY <1>9 DEF AnalystReports, DigestInv, Types, AnalystTypes, AnalystRecord
    <2> QED
      BY <1>0, <1>3, <2>1, <2>2 DEF Running
  <1>10. ASSUME NEW r \in Runs, AnalystEnds(r)
         PROVE  ReportsAreDrafts'
    <2>1. UNCHANGED run /\ run[r].pc = "none" /\ \A q \in Runs \ {r} : analyst'[q] = analyst[q]
      BY <1>10 DEF AnalystEnds, DigestInv, Types, AnalystTypes
    <2>2. analyst'[r] = NoAnalyst
      BY <1>10 DEF AnalystEnds, DigestInv, Types, AnalystTypes
    <2> QED
      BY <1>0, <1>3, <2>1, <2>2 DEF NoAnalyst, Running
  <1>11. ASSUME NEW r \in Runs,
                \/ RunTermed(r)
                \/ \E p \in Proposals, flaw \in BOOLEAN : AnalystDrafts(r, p, flaw)
         PROVE  UNCHANGED <<run, analyst>>
    BY <1>11 DEF AnalystDrafts, RunTermed, digestVars
  <1>12. ASSUME \/ TimePasses \/ \E p \in Proposals : DecideChecks(p)
                \/ \E d \in Deciders : Moves(d) \/ DecideRecords(d)
         PROVE  UNCHANGED <<run, analyst>>
    BY <1>12 DEF TimePasses, Moves, DecideMoves, DecideRecords, DecideChecks
  <1>13. ASSUME Forced \/ \E started \in BOOLEAN : Gate(started)
         PROVE  ReportsAreDrafts'
    BY <1>2, <1>13, GateDoes DEF Forced
  <1> QED
    BY <1>1, <1>4, <1>5, <1>6, <1>7, <1>8, <1>9, <1>10, <1>11, <1>12, <1>13
       DEF DigestMove, DigestNext, Moves, Starts, DigestStep, AnalystStep, digestVars

\* Every step keeps the invariant of the digest side.
LEMMA DigestKept ==
    ASSUME DigestInv, [Next]_vars
    PROVE  DigestInv'
  <1>1. CASE UNCHANGED <<findVars, digestVars>>
    BY <1>1 DEF findVars, digestVars, DigestInv, Types, FindingTypes, JobTypes, RunTypes,
                AnalystTypes, ProposalTypes, DeciderTypes, LockHeld, OneMove, Moved, SeenByRun,
                Waits, Settled, ReportsAreDrafts, Running
  <1>2. CASE DigestMove
    BY <1>2, FindingTypesKept, JobTypesKept, RunTypesKept, AnalystTypesKept, ProposalTypesKept,
       DeciderTypesKept, LockHeldKept, OneMoveKept, SeenByRunKept, ReportsAreDraftsKept
       DEF DigestInv, Types
  <1> QED
    BY <1>1, <1>2 DEF Next, vars, DigestMove

(***************************************************************************)
(* Theorems                                                                *)
(***************************************************************************)
\* The inductive invariant of both sides.
THEOREM GardenerInvariant == Spec => [](ApplyInv /\ DigestInv)
  <1>1. Init => ApplyInv /\ DigestInv
    BY ApplyStart, DigestStart
  <1>2. ApplyInv /\ DigestInv /\ [Next]_vars => (ApplyInv /\ DigestInv)'
    BY ApplyKept, DigestKept
  <1> QED
    BY <1>1, <1>2, PTL DEF Spec

\* A call of gardener_apply.py that ends, and was not killed while it wrote,
\* leaves the change in all of its targets or in none, as the ledger says
\* (gardener_apply.py, _restore).
THEOREM AppliesAllOrNothing == Spec => []ApplyAllOrNothing
  <1>1. ApplyInv => ApplyAllOrNothing
    BY DEF ApplyInv, CallOnCourse, OldText, ApplyAllOrNothing
  <1> QED
    BY <1>1, GardenerInvariant, PTL

\* The ledger has one decision about a proposal, and none about one that was
\* quarantined (gardener_postrun.py, decide and process_run_artifacts).
THEOREM DecidesOnce == Spec => []DecidedOnce
  <1>1. DigestInv => DecidedOnce
    BY DEF DigestInv, OneMove, DecidedOnce
  <1> QED
    BY <1>1, GardenerInvariant, PTL

\* The types, and no unreviewed finding that is older than the marker, was not
\* read, and is not stray since the last digest began (gardener-run.sh, which
\* touches the marker; selffix-run.sh).  However many processes contend for the
\* lock and however they lose it.
THEOREM ForgetsNoFinding == Spec => []NoFindingForgotten
  <1>1. DigestInv => FindingsTypeOK
    BY DEF DigestInv, Types, FindingTypes, FindingFile, JobTypes, LockHeld, FindingsTypeOK
  <1>2. DigestInv => DigestTypeOK
    BY DEF DigestInv, Types, RunTypes, RunRecord, AnalystTypes, AnalystRecord, ProposalTypes,
           ProposalRecord, DeciderTypes, LockHeld, Running, DigestTypeOK
  <1>3. ApplyInv => ApplyTypeOK
    BY DEF ApplyInv, ApplyTypes, ApplyTypeOK
  <1>4. ApplyInv /\ DigestInv => NoFindingForgotten
    BY <1>1, <1>2, <1>3 DEF DigestInv, SeenByRun, Waits, Settled, NoFindingForgotten
  <1> QED
    BY <1>4, GardenerInvariant, PTL
=============================================================================
