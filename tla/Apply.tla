--------------------------------- MODULE Apply ---------------------------------
(***************************************************************************)
(* gardener_apply.py: one proposal's diff is brought into the repositories *)
(* it names, or taken out again.  A call resolves the diff against the     *)
(* files as they are, root by root; takes a snapshot; writes; runs the     *)
(* canon gate; and records what it did.  Whatever fails after the snapshot *)
(* puts the snapshot back.  People edit and commit the same files          *)
(* meanwhile: nothing locks them.                                          *)
(*                                                                         *)
(* A root stands for the target files the diff has in one repository.  Its *)
(* content is abstracted to what the calls ask of it: whether the          *)
(* proposal's change is in it, how well the hunks fit the rest of the text *)
(* and which edits of others it has seen.  Hunks have context on both      *)
(* sides, so that a change that is in cannot go in again.                  *)
(***************************************************************************)
EXTENDS Naturals, FiniteSets

CONSTANTS
    Roots,      \* the repositories the diff names
    New,        \* those where it creates its file
    MaxTouches, \* bound: edits and commits of people
    MaxTries,   \* bound: apply and revert calls
    MaxMishaps  \* bound: failing gates, writes and kills

ASSUME NewAssumption == New \subseteq Roots
ASSUME TouchesAssumption == MaxTouches \in Nat

VARIABLES
    wellFormed, \* the hunk headers count their lines right: git can read them
    disk,       \* per root: the files as they are
    head,       \* per root: the files as they were committed
    app,        \* the call that runs
    entry,      \* the last proposal_applied / proposal_reverted event
    torn,       \* a call was killed while it wrote, or a rollback failed
    effort      \* touches, tries and mishaps so far

applyVars == <<wellFormed, disk, head, app, entry, torn, effort>>

Text == [has: BOOLEAN, fit: {"strict", "anchor", "drift"}, ver: 0..MaxTouches]
\* which root each file of the diff belongs to, and how it will be changed
NoPlan == [r \in Roots |-> "none"]
NoApp == [pc |-> "none", kind |-> "apply", mode |-> NoPlan, snap |-> [r \in Roots |->
            [has |-> FALSE, fit |-> "strict", ver |-> 0]], todo |-> {}]

ApplyTypeOK ==
    /\ disk \in [Roots -> Text] /\ head \in [Roots -> Text] /\ wellFormed \in BOOLEAN
    /\ app.pc \in {"none", "clean", "snap", "exec", "gate", "record"}
    /\ app.mode \in [Roots -> {"none", "patch", "splice"}]
    /\ app.todo \subseteq Roots /\ app.snap \in [Roots -> Text]
    /\ entry \in {"none", "applied", "reverted"} /\ torn \in BOOLEAN

\* a diff that lenient_parse can read; git can, or cannot
ApplyInit ==
    /\ wellFormed \in BOOLEAN
    /\ disk \in [Roots -> {[has |-> FALSE, fit |-> f, ver |-> 0] : f \in {"strict", "anchor"}}]
    /\ \A r \in New : disk[r].fit = "strict"
    /\ head = disk /\ app = NoApp /\ entry = "none" /\ torn = FALSE
    /\ effort = [touches |-> 0, tries |-> 0, mishaps |-> 0]

Mishap == effort.mishaps < MaxMishaps /\ effort' = [effort EXCEPT !.mishaps = @ + 1]

-----------------------------------------------------------------------------
(* Resolving *)

\* git apply --check, reversed for a revert
Strict(r, kind) == /\ wellFormed
                   /\ disk[r].has = (kind = "revert")
                   /\ disk[r].fit = "strict"

\* anchor_hunks: the old text occurs once, near where the header says and not
\* inside a fence
Found(r) == disk[r].fit # "drift"

\* _lenient_root_plans: what is to be spliced is there.  A file to create must
\* not exist; one to delete must be as it was created.
Anchors(r, kind) == /\ disk[r].has = (kind = "revert")
                    /\ Found(r)
                    /\ r \in New => disk[r].fit = "strict"

\* classify_proposal: clean or reanchorable
Fits(kind) == \A r \in Roots : Strict(r, kind) \/ Anchors(r, kind)

\* resolve_plan and resolve_revert_plan: a root that git would patch is
\* patched; the others are spliced by content
Plan(kind) == [r \in Roots |-> IF Strict(r, kind) THEN "patch" ELSE "splice"]

Done == app' = NoApp

Resolve(kind) ==
    /\ app.pc = "none" /\ effort.tries < MaxTries
    /\ effort' = [effort EXCEPT !.tries = @ + 1]
    /\ IF Fits(kind)
       THEN app' = [NoApp EXCEPT !.pc = "clean", !.kind = kind, !.mode = Plan(kind)]
       ELSE Done
    /\ UNCHANGED <<wellFormed, disk, head, entry, torn>>

\* uncommitted changes in the targets end the call, unless --force-dirty
EnsureClean(force) ==
    /\ app.pc = "clean"
    /\ app' = IF force \/ disk = head THEN [app EXCEPT !.pc = "snap"] ELSE NoApp
    /\ UNCHANGED <<wellFormed, disk, head, entry, torn, effort>>

\* the asset validator's findings before the change, without which nothing is
\* written; then the snapshot
Snapshot(validated) ==
    /\ app.pc = "snap"
    /\ IF validated THEN UNCHANGED effort ELSE Mishap /\ app.kind = "apply"
    /\ app' = IF validated THEN [app EXCEPT !.pc = "exec", !.snap = disk, !.todo = Roots]
                           ELSE NoApp
    /\ UNCHANGED <<wellFormed, disk, head, entry, torn>>

-----------------------------------------------------------------------------
(* Writing *)

\* the mutated call leaves what it wrote
RestoreNot(ok) == UNCHANGED disk /\ torn' = (torn \/ ~ok)

\* _restore: every file of the plan is as it was at the snapshot, whatever
\* others wrote since; where that fails the message says so
Restore(ok) ==
    /\ disk' \in {[r \in Roots |-> IF r \in back THEN app.snap[r] ELSE disk[r]] :
                     back \in IF ok THEN {Roots} ELSE SUBSET Roots}
    /\ torn' = (torn \/ ~ok)

\* a file created by hand is written over whatever has its name by now
Overwrites(r) == r \in New /\ app.kind = "apply" /\ app.mode[r] = "splice"
Changed(r) == IF Overwrites(r)
              THEN [has |-> TRUE, fit |-> "strict", ver |-> app.snap[r].ver]
              ELSE [disk[r] EXCEPT !.has = (app.kind = "apply")]

\* the hunks still fit when the root's turn comes ...
FitsNow(r) == IF app.mode[r] = "patch" THEN Strict(r, app.kind)
              ELSE Anchors(r, app.kind) \/ Overwrites(r)
\* ... and what a splice changed since the snapshot is the proposal's (_act_verify)
Verified(r) == app.mode[r] = "patch" \/ Changed(r).ver = app.snap[r].ver

Write(r) ==
    /\ app.pc = "exec" /\ r \in app.todo /\ FitsNow(r) /\ Verified(r)
    /\ disk' = [disk EXCEPT ![r] = Changed(r)]
    /\ app' = [app EXCEPT !.todo = @ \ {r}]
    /\ UNCHANGED <<wellFormed, head, entry, torn, effort>>

\* the file is not what it was, or the write fails: all is put back
WriteFails(r, ok) ==
    /\ app.pc = "exec" /\ r \in app.todo
    /\ IF (FitsNow(r) /\ Verified(r)) \/ ~ok THEN Mishap ELSE UNCHANGED effort
    /\ Restore(ok) /\ Done
    /\ UNCHANGED <<wellFormed, head, entry>>

\* the canon gate, for an apply: the repository's own test suite, or no new
\* finding of the validator
CanonGate ==
    /\ app.pc = "exec" /\ app.todo = {}
    /\ app' = [app EXCEPT !.pc = IF app.kind = "apply" THEN "gate" ELSE "record"]
    /\ UNCHANGED <<wellFormed, disk, head, entry, torn, effort>>

GatePasses ==
    /\ app.pc = "gate"
    /\ app' = [app EXCEPT !.pc = "record"]
    /\ UNCHANGED <<wellFormed, disk, head, entry, torn, effort>>

\* red, without a verdict, timed out, interrupted
GateFails(ok) ==
    /\ app.pc = "gate" /\ Mishap
    /\ Restore(ok) /\ Done
    /\ UNCHANGED <<wellFormed, head, entry>>

RecordApply ==
    /\ app.pc = "record" /\ app.kind = "apply"
    /\ entry' = "applied"
    /\ Done
    /\ UNCHANGED <<wellFormed, disk, head, torn, effort>>

RecordRevert ==
    /\ app.pc = "record" /\ app.kind = "revert"
    /\ entry' = "reverted"
    /\ Done
    /\ UNCHANGED <<wellFormed, disk, head, torn, effort>>

\* killed, or interrupted while it writes: nothing is put back
Kill ==
    /\ app.pc # "none" /\ Mishap
    /\ torn' = (torn \/ app.pc \in {"exec", "gate", "record"})
    /\ Done
    /\ UNCHANGED <<wellFormed, disk, head, entry>>

-----------------------------------------------------------------------------
(* Others *)

Handle == effort.touches < MaxTouches /\ effort' = [effort EXCEPT !.touches = @ + 1]

\* somebody edits the text around the change; in a root to be created,
\* somebody else's file has its name, or the created one is altered
Edit(r, fit) ==
    /\ Handle
    /\ r \in New => fit = "drift"
    /\ disk' = [disk EXCEPT ![r].fit = fit, ![r].ver = @ + 1]
    /\ UNCHANGED <<wellFormed, head, app, entry, torn>>

Commit(r) ==
    /\ head[r] # disk[r] /\ Handle
    /\ head' = [head EXCEPT ![r] = disk[r]]
    /\ UNCHANGED <<wellFormed, disk, app, entry, torn>>

ApplyNext ==
    \/ \E kind \in {"apply", "revert"} : Resolve(kind)
    \/ \E yes \in BOOLEAN : EnsureClean(yes) \/ Snapshot(yes) \/ GateFails(yes)
    \/ CanonGate \/ GatePasses \/ RecordApply \/ RecordRevert \/ Kill
    \/ \E r \in Roots : \/ Write(r) \/ Commit(r)
                        \/ \E ok \in BOOLEAN : WriteFails(r, ok)
                        \/ \E fit \in {"strict", "anchor", "drift"} : Edit(r, fit)

\* A call ends with the proposal's change in every target and the ledger
\* saying so, or in none: also when a file no longer fits halfway, somebody
\* edits a target between the snapshot and the write, a write or the gate
\* fails, or a revert meets a file that was altered.  A killed call and a
\* failed rollback, which the message names, are the exceptions.
ApplyAllOrNothing ==
    (app.pc = "none" /\ ~torn) => \A r \in Roots : disk[r].has = (entry = "applied")
=============================================================================
