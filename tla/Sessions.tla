------------------------------- MODULE Sessions -------------------------------
(***************************************************************************)
(* The life of worker sessions: spawned, registered, rotated, nested,      *)
(* ended, pruned and resumed.                                              *)
(*                                                                         *)
(* A manager's server spawns and resumes workers by starting a process in  *)
(* a pane and then polling ACTIVE/ for the record that the session's own   *)
(* session_start hook writes.  The hooks of all sessions, the server's     *)
(* calls and the pruner share the directories active/, closed/ and         *)
(* assignments/ without a lock, and processes die at any point.            *)
(*                                                                         *)
(* A process is its pid, and its pane has the same number.  All workers    *)
(* are spawned under one name by one manager, whose server runs the calls  *)
(* of a manager one statement at a time between two awaits.                *)
(***************************************************************************)
EXTENDS Integers, Sequences, FiniteSets, FiniteSetsExt

CONSTANTS
    MaxSids,     \* bound on session ids
    MaxProcs,    \* bound on processes
    MaxCalls,    \* bound on tool calls
    MaxMishaps,  \* bound on deaths, failing tabs, give-ups, blind hooks, expired
                 \* assignments, rotations and nested sessions
    Codex,       \* whether workers run codex, which resumes under a new id
    None

ASSUME SessionsAssumption ==
    /\ {MaxSids, MaxProcs, MaxCalls} \subseteq Nat \ {0} /\ MaxMishaps \in Nat
    /\ Codex \in BOOLEAN

Sids == 1..MaxSids
Procs == 1..MaxProcs
Calls == 1..MaxCalls
\* Assignments are known by the call that wrote them, 0 for the first worker's.
Assignments == Calls \union {0}

VARIABLES
    active,    \* active/<sid>.json
    closed,    \* closed/<sid>.json, with the order in which they were written
    pending,   \* assignments/pending/<id>.json, by the call that wrote it
    sidecar,   \* assignments/pending/<id>.window
    brief,     \* assignments/<sid>.json: the call whose assignment it holds
    proc,      \* the processes, and where their hooks are
    call,      \* the tool calls, and where they are
    manager,   \* whether the manager runs
    flag,      \* orphaned/<manager>.json: the sids in it, or None
    used       \* session ids handed out

(***************************************************************************)
(* Observability variables.                                                *)
(***************************************************************************)
VARIABLES
    lost,      \* per sid: whether it was a worker's, and why its records are gone
    resumed,   \* sids that were resumed
    gaveUp,    \* sids whose resume ended before their process registered
    shadowed,  \* sids of which a prune removed another process's record
    unborn,    \* processes that were not registered when the manager ended
    mishaps    \* what is left of MaxMishaps

files == <<active, closed, pending, sidecar, brief>>
seen == <<lost, resumed, gaveUp, shadowed, unborn>>
vars == <<files, proc, call, manager, flag, used, seen, mishaps>>

\* A name is what was asked for, or that with numbers after it; a nested
\* session has one that no other has.
Names == Seq(0..(MaxCalls + MaxSids))
Requested == <<>>
Record == [name : Names, pid : Procs, window : Procs \union {None}, nested : BOOLEAN]
ClosedRecord == [name : Names, at : Nat]
NoCall == [op |-> "none", pc |-> "free", name |-> Requested, sid |-> None, proc |-> None,
           copy |-> None, before |-> {}, at |-> 0]
NoProc == [pc |-> "none", sid |-> None, name |-> Requested, asg |-> None, parent |-> None,
           blind |-> FALSE, rec |-> None, again |-> FALSE]
Hooks == {"boot", "write", "rewrite", "claim"}
Process == [pc : Hooks \union {"none", "run", "hup", "ending", "dead"},
            sid : Sids \union {None}, name : Names, asg : Assignments \union {None},
            parent : Procs \union {None}, blind : BOOLEAN,
            rec : Record \union {None}, again : BOOLEAN]
ToolCall == [op : {"none", "spawn", "resume", "prune"},
             pc : {"free", "tab", "sidecar", "confirm", "poll", "fix", "forget", "unlink", "done"},
             name : Names, sid : Sids \union {None}, proc : Procs \union {None},
             copy : Record \union {None}, before : SUBSET Sids, at : Nat]

\* None is none of the things it stands for the absence of.
ASSUME NoneAssumption ==
    None \notin Nat \union Record \union ClosedRecord /\ \A S \in SUBSET Sids : S # None

\* Type correctness of the records that hooks and calls write for each other.
TypeOK ==
    /\ active \in [Sids -> Record \union {None}]
    /\ closed \in [Sids -> ClosedRecord \union {None}]
    /\ sidecar \in [Calls -> Procs \union {None}]
    /\ pending \subseteq Calls
    /\ brief \in [Sids -> Assignments \union {None}]
    /\ proc \in [Procs -> Process]
    /\ call \in [Calls -> ToolCall]
    /\ manager \in {"runs", "ended"}
    /\ flag \in (SUBSET Sids) \union {None}
    /\ used \in 0..MaxSids
    /\ lost \in [Sids -> {"new", "no", "pruned", "rotated", "raced"}]
    /\ resumed \union gaveUp \union shadowed \subseteq Sids
    /\ unborn \subseteq Procs
    /\ mishaps \in 0..MaxMishaps

\* One worker runs, as SpawnBegin .. StartClaim have left it.
Init ==
    /\ active = [s \in Sids |-> IF s = 1 THEN [name |-> Requested, pid |-> 1, window |-> 1,
                                               nested |-> FALSE] ELSE None]
    /\ closed = [s \in Sids |-> None]
    /\ pending = {} /\ sidecar = [c \in Calls |-> None]
    /\ brief = [s \in Sids |-> IF s = 1 THEN 0 ELSE None]
    /\ proc = [p \in Procs |-> IF p = 1 THEN [NoProc EXCEPT !.pc = "run", !.sid = 1, !.asg = 0]
                                        ELSE NoProc]
    /\ call = [c \in Calls |-> NoCall]
    /\ manager = "runs" /\ flag = None /\ used = 1
    /\ lost = [s \in Sids |-> IF s = 1 THEN "no" ELSE "new"]
    /\ resumed = {} /\ gaveUp = {} /\ shadowed = {} /\ unborn = {}
    /\ mishaps = MaxMishaps

Mishap == mishaps > 0 /\ mishaps' = mishaps - 1
Lives(p) == p # None /\ proc[p].pc \notin {"none", "dead"}

(***************************************************************************)
(* The registry.                                                           *)
(***************************************************************************)
\* A prune that looks at what is alive only where a record names a pane.
PrunableByPane(s) == active[s] # None /\ ~Lives(active[s].window)
\* The record's process is dead and its pane, if it names one, is gone.
Prunable(s) ==
    /\ active[s] # None /\ ~Lives(active[s].pid)
    /\ ~Lives(active[s].window)

\* Calls that have read the record of a resumed session and will forget the
\* closed one.
Forgetting(s) == \E c \in Calls : call[c].op = "resume" /\ call[c].sid = s
                                    /\ call[c].pc \in {"fix", "forget"}
Pruned == [s \in Sids |-> IF Prunable(s) THEN None ELSE active[s]]
PrunedLost == [s \in Sids |-> IF Prunable(s) /\ (closed[s] = None \/ Forgetting(s))
                               THEN "pruned" ELSE lost[s]]
Taken(records, sid) == {records[s].name : s \in {t \in Sids \ {sid} : records[t] # None}}

RequestedName(base, taken) == base
\* _resolve_unique_name.
UniqueName(base, taken) ==
    IF base \notin taken THEN base
    ELSE Append(base, CHOOSE k \in 2..(MaxCalls + MaxSids) :
                        /\ Append(base, k) \notin taken
                        /\ \A j \in 2..(k - 1) : Append(base, j) \in taken)

(***************************************************************************)
(* session_start                                                           *)
(***************************************************************************)
ToPc(p, pc) == proc' = [proc EXCEPT ![p] = IF pc = "dead" THEN [NoProc EXCEPT !.pc = pc]
                                            ELSE [@ EXCEPT !.pc = pc]]

\* The pane the hook can see: a nested session has its parent's.
Pane(p) == IF proc[p].blind THEN None
           ELSE IF proc[p].parent # None THEN proc[p].parent ELSE p

SameProcess(p) == {s \in Sids \ {proc[p].sid} : active[s] # None /\ active[s].pid = p}

StartKnown(p) ==
    LET s == proc[p].sid IN
    /\ proc[p].pc = "boot" /\ active[s] # None
    /\ proc' = [proc EXCEPT ![p].pc = "rewrite", ![p].rec =
                  [active[s] EXCEPT !.pid = p,
                                    !.window = IF Pane(p) # None /\ ~active[s].nested
                                               THEN Pane(p) ELSE @]]
    /\ UNCHANGED <<files, call, manager, flag, used, seen, mishaps>>

\* _supersede_rotated_records: the records this process had under other ids.
StartRotated(p) ==
    LET s == proc[p].sid
        old == SameProcess(p)
        newest == active[Max(old)]
        left == [t \in Sids |-> IF t \in old THEN None ELSE Pruned[t]] IN
    /\ proc[p].pc = "boot" /\ active[s] = None /\ old # {}
    /\ active' = left
    /\ lost' = [t \in Sids |-> IF t \in old THEN "rotated" ELSE PrunedLost[t]]
    /\ proc' = [proc EXCEPT ![p].pc = "write", ![p].rec =
                  [newest EXCEPT !.name = UniqueName(@, Taken(left, s)),
                                 !.window = IF Pane(p) # None /\ ~newest.nested
                                            THEN Pane(p) ELSE @]]
    /\ UNCHANGED <<closed, pending, sidecar, brief, call, manager, flag, used,
                   resumed, gaveUp, shadowed, unborn, mishaps>>

\* _detect_nested_parent: an ancestor, or the process of its pane, is recorded.
HasParent(p) ==
    /\ Lives(proc[p].parent)
    /\ \E s \in Sids : active[s] # None /\ active[s].pid = proc[p].parent
Unknown(p) == proc[p].pc = "boot" /\ active[proc[p].sid] = None /\ SameProcess(p) = {}

\* The name carries its session's id; looking for a free one prunes all the same.
StartNested(p) ==
    /\ Unknown(p) /\ HasParent(p)
    /\ active' = Pruned /\ lost' = PrunedLost
    /\ proc' = [proc EXCEPT ![p].pc = "write", ![p].rec =
                  [name |-> <<0, proc[p].sid>>, pid |-> p, window |-> None, nested |-> TRUE]]
    /\ UNCHANGED <<closed, pending, sidecar, brief, call, manager, flag, used,
                   resumed, gaveUp, shadowed, unborn, mishaps>>

\* The name it was started with, if no other session has it.
StartFresh(p) ==
    /\ Unknown(p) /\ ~HasParent(p)
    /\ active' = Pruned /\ lost' = PrunedLost
    /\ proc' = [proc EXCEPT ![p].pc = "write", ![p].rec =
                  [name |-> UniqueName(proc[p].name, Taken(Pruned, proc[p].sid)),
                   pid |-> p, window |-> Pane(p), nested |-> FALSE]]
    /\ UNCHANGED <<closed, pending, sidecar, brief, call, manager, flag, used,
                   resumed, gaveUp, shadowed, unborn, mishaps>>

Claims(p) == ~proc[p].rec.nested

StartWrite(p) ==
    /\ proc[p].pc \in {"write", "rewrite"}
    /\ active' = [active EXCEPT ![proc[p].sid] = proc[p].rec]
    /\ lost' = IF proc[p].rec.nested THEN lost ELSE [lost EXCEPT ![proc[p].sid] = "no"]
    /\ ToPc(p, IF proc[p].pc = "write" /\ Claims(p) THEN "claim" ELSE "run")
    /\ UNCHANGED <<closed, pending, sidecar, brief, call, manager, flag, used,
                   resumed, gaveUp, shadowed, unborn, mishaps>>

\* A copy instead of the move.
UnclaimedStill(a) == pending
Unclaimed(a) == pending \ {a}
\* _claim_pending_assignment: the move; the update after it adds no choice.
\* _apply_captured_window_id then writes the hook's own copy of the record.
StartClaim(p) ==
    LET s == proc[p].sid
        a == proc[p].asg IN
    /\ proc[p].pc = "claim"
    /\ IF a \in pending /\ brief[s] = None
       THEN brief' = [brief EXCEPT ![s] = a] /\ pending' = Unclaimed(a)
       ELSE UNCHANGED <<brief, pending>>
    /\ IF a \in Calls /\ sidecar[a] # None
       THEN /\ active' = [active EXCEPT ![s] = [proc[p].rec EXCEPT !.window = sidecar[a]]]
            /\ sidecar' = [sidecar EXCEPT ![a] = None]
       ELSE UNCHANGED <<active, sidecar>>
    /\ proc' = [proc EXCEPT ![p].pc = "run", ![p].rec = None]
    /\ UNCHANGED <<closed, call, manager, flag, used, seen, mishaps>>

(***************************************************************************)
(* session_end, rotations, nested sessions and deaths.                     *)
(***************************************************************************)
RecordsOf(p) == [s \in Sids |-> IF s = proc[p].sid THEN None ELSE active[s]]
NextClose == 1 + Max({call[c].at : c \in Calls}
                     \union {closed[s].at : s \in {t \in Sids : closed[t] # None}})

\* Mutant: the active record goes first.
EndWriteLate(p) ==
    LET s == proc[p].sid IN
    /\ proc[p].pc \in {"run", "hup"}
    /\ active' = RecordsOf(p)
    /\ ToPc(p, "ending")
    /\ UNCHANGED <<closed, pending, sidecar, brief, call, manager, flag, used, seen, mishaps>>
\* The closed record comes first, then the active one goes.
EndWrite(p) ==
    LET s == proc[p].sid IN
    /\ proc[p].pc \in {"run", "hup"}
    /\ closed' = IF active[s] # None /\ ~active[s].nested
                 THEN [closed EXCEPT ![s] = [name |-> active[s].name, at |-> NextClose]]
                 ELSE closed
    /\ ToPc(p, "ending")
    /\ UNCHANGED <<active, pending, sidecar, brief, call, manager, flag, used, seen, mishaps>>

EndUnlink(p) ==
    /\ proc[p].pc = "ending"
    /\ active' = RecordsOf(p)
    /\ IF proc[p].again /\ used < MaxSids
       THEN /\ used' = used + 1
            /\ proc' = [proc EXCEPT ![p].pc = "boot", ![p].sid = used + 1, ![p].again = FALSE]
       ELSE ToPc(p, "dead") /\ UNCHANGED used
    /\ UNCHANGED <<closed, pending, sidecar, brief, call, manager, flag, seen, mishaps>>

\* /clear gives the session a new id, with or without a session_end for the
\* old one.
Rotate(p) ==
    /\ Mishap
    /\ proc[p].pc = "run" /\ used < MaxSids
    /\ \/ /\ used' = used + 1
          /\ proc' = [proc EXCEPT ![p].pc = "boot", ![p].sid = used + 1]
       \/ /\ proc' = [proc EXCEPT ![p].pc = "hup", ![p].again = TRUE]
          /\ UNCHANGED used
    /\ UNCHANGED <<files, call, manager, flag, seen>>

NextProc == CHOOSE p \in Procs : proc[p].pc = "none" /\ \A q \in 1..(p - 1) : proc[q].pc # "none"
SpareProc == \E p \in Procs : proc[p].pc = "none"

\* A claude that a worker starts inherits its environment.
Nest(p) ==
    /\ Mishap
    /\ proc[p].pc = "run" /\ SpareProc /\ used < MaxSids /\ proc[p].parent = None
    /\ proc' = [proc EXCEPT ![NextProc] = [NoProc EXCEPT !.pc = "boot", !.sid = used + 1,
                   !.name = proc[p].name, !.asg = proc[p].asg, !.parent = p]]
    /\ used' = used + 1
    /\ UNCHANGED <<files, call, manager, flag, seen>>

\* One that dies before its hook runs is one that never comes up.
Die(p) ==
    /\ Lives(p) /\ proc[p].pc # "boot" /\ Mishap
    /\ ToPc(p, "dead")
    /\ UNCHANGED <<files, call, manager, flag, used, seen>>

(***************************************************************************)
(* spawn_worker                                                            *)
(***************************************************************************)
NextCall == CHOOSE c \in Calls : call[c].pc = "free" /\ \A d \in 1..(c - 1) : call[d].pc # "free"
Spare == manager = "runs" /\ \E c \in Calls : call[c].pc = "free"
\* The server has one thread: a call that is between two awaits holds it.
HasThread(c) == \A d \in Calls \ {c} : call[d].pc \notin {"sidecar", "fix", "forget"}
MayCall == Spare /\ HasThread(None)
Begin(record) == call' = [call EXCEPT ![NextCall] = record]
ToStep(c, pc) == call' = [call EXCEPT ![c].pc = pc]
Returned == [NoCall EXCEPT !.pc = "done"]
Returns(c) == call' = [call EXCEPT ![c] = Returned]
Registered == {s \in Sids : active[s] # None}

\* _resolve_parent_manager has found the manager; the name is made unique and
\* the assignment written, both before anything is started.
SpawnBegin ==
    /\ MayCall
    /\ active' = Pruned /\ lost' = PrunedLost
    /\ Begin([NoCall EXCEPT !.op = "spawn", !.pc = "tab",
                            !.name = UniqueName(Requested, Taken(Pruned, None)),
                            !.before = {s \in Sids : Pruned[s] # None}])
    /\ pending' = pending \union {NextCall}
    /\ UNCHANGED <<closed, sidecar, brief, proc, manager, flag, used,
                   resumed, gaveUp, shadowed, unborn, mishaps>>

\* A process in a new pane; its hooks may not see which.
Launch(sid, name, asg, blind) ==
    proc' = [proc EXCEPT ![NextProc] = [NoProc EXCEPT !.pc = "boot", !.sid = sid, !.name = name,
                                                      !.asg = asg, !.blind = blind]]
MaybeBlind(blind) == IF blind THEN Mishap ELSE UNCHANGED mishaps

SpawnTab(c, blind) ==
    /\ call[c].op = "spawn" /\ call[c].pc = "tab" /\ SpareProc /\ used < MaxSids
    /\ MaybeBlind(blind)
    /\ Launch(used + 1, call[c].name, c, blind) /\ used' = used + 1
    /\ call' = [call EXCEPT ![c].pc = "sidecar", ![c].proc = NextProc]
    /\ UNCHANGED <<files, manager, flag, seen>>

\* The terminal fails, or has started the tab and answers too late.
SpawnFails(c, started) ==
    /\ call[c].op = "spawn" /\ call[c].pc = "tab" /\ Mishap
    /\ IF started
       THEN /\ SpareProc /\ used < MaxSids
            /\ Launch(used + 1, call[c].name, c, FALSE) /\ used' = used + 1
       ELSE UNCHANGED <<proc, used>>
    /\ Returns(c)
    /\ pending' = pending \ {c}
    /\ UNCHANGED <<active, closed, sidecar, brief, manager, flag, seen>>

SpawnSidecar(c) ==
    /\ call[c].pc = "sidecar"
    /\ sidecar' = [sidecar EXCEPT ![c] = call[c].proc]
    /\ ToStep(c, "confirm")
    /\ UNCHANGED <<active, closed, pending, brief, proc, manager, flag, used, seen, mishaps>>

\* _confirm_spawn_registration goes by the name.
SpawnConfirm(c) ==
    /\ call[c].pc = "confirm"
    /\ \E s \in Registered : active[s].name = call[c].name
    /\ Returns(c)
    /\ UNCHANGED <<files, proc, manager, flag, used, seen, mishaps>>

SpawnNoRegister(c) ==
    /\ call[c].pc = "confirm" /\ Mishap
    /\ Returns(c)
    /\ UNCHANGED <<files, proc, manager, flag, used, seen>>

\* _prune_stale_assignments: what nobody has claimed for a day.
Expire(c) ==
    /\ c \in pending /\ call[c].pc = "done" /\ Mishap
    /\ pending' = pending \ {c} /\ sidecar' = [sidecar EXCEPT ![c] = None]
    /\ UNCHANGED <<active, closed, brief, proc, call, manager, flag, used,
                   lost, resumed, gaveUp, shadowed, unborn>>

(***************************************************************************)
(* resume_worker                                                           *)
(***************************************************************************)
InFlight == {call[c].name : c \in {d \in Calls : call[d].op = "resume"}}
NoGuard(name) == TRUE
NotInFlight(name) == name \notin InFlight
\* _find_closed_record_by_name: the last that was closed under the name.
LastClosed(name) ==
    {s \in Sids : /\ closed[s] # None /\ closed[s].name = name
                  /\ \A t \in Sids : closed[t] # None /\ closed[t].name = name
                                       => closed[t].at <= closed[s].at}

ResumeBegin(s) ==
    LET name == closed[s].name IN
    /\ MayCall /\ closed[s] # None /\ s \in LastClosed(name)
    /\ name \notin Taken(Pruned, None) /\ Pruned[s] = None
    /\ NotInFlight(name)
    /\ active' = Pruned /\ lost' = PrunedLost
    /\ Begin([NoCall EXCEPT !.op = "resume", !.pc = "tab", !.name = name, !.sid = s,
                            !.at = closed[s].at, !.before = {t \in Sids : Pruned[t] # None}])
    /\ resumed' = resumed \union {s}
    /\ UNCHANGED <<closed, pending, sidecar, brief, proc, manager, flag, used,
                   gaveUp, shadowed, unborn, mishaps>>

\* codex may come up under a new id.
ResumedAs(c) == {call[c].sid} \union IF Codex THEN {used + 1} \intersect Sids ELSE {}
ResumeTab(c, blind) ==
    /\ call[c].op = "resume" /\ call[c].pc = "tab" /\ SpareProc
    /\ MaybeBlind(blind)
    /\ \E sid \in ResumedAs(c) :
          Launch(sid, call[c].name, None, blind) /\ used' = Max({used, sid})
    /\ call' = [call EXCEPT ![c].pc = "poll", ![c].proc = NextProc]
    /\ UNCHANGED <<files, manager, flag, seen>>

ResumeFails(c, started) ==
    /\ call[c].op = "resume" /\ call[c].pc = "tab" /\ Mishap
    /\ IF started
       THEN /\ SpareProc
            /\ \E sid \in ResumedAs(c) :
                  /\ Launch(sid, call[c].name, None, FALSE) /\ used' = Max({used, sid})
                  /\ gaveUp' = gaveUp \union {sid}
       ELSE UNCHANGED <<proc, used, gaveUp>>
    /\ Returns(c)
    /\ UNCHANGED <<files, manager, flag, lost, resumed, shadowed, unborn>>

ResumeSeen(c) ==
    LET record == active[call[c].sid] IN
    /\ call[c].pc = "poll" /\ record # None
    /\ call' = [call EXCEPT ![c].copy = record,
                            ![c].pc = IF record.window = call[c].proc THEN "forget" ELSE "fix"]
    /\ UNCHANGED <<files, proc, manager, flag, used, seen, mishaps>>

\* The copy goes back with the pane the terminal gave, whatever has become of
\* the record.
ResumeFix(c) ==
    /\ call[c].pc = "fix"
    /\ active' = [active EXCEPT ![call[c].sid] = [call[c].copy EXCEPT !.window = call[c].proc]]
    /\ ToStep(c, "forget")
    /\ UNCHANGED <<closed, pending, sidecar, brief, proc, manager, flag, used, seen, mishaps>>

ResumeForget(c) ==
    LET s == call[c].sid IN
    /\ call[c].pc = "forget"
    /\ closed' = [closed EXCEPT ![s] = None]
    /\ Returns(c)
    /\ lost' = IF closed[s] # None /\ closed[s].at # call[c].at
               THEN [lost EXCEPT ![s] = "raced"] ELSE lost
    /\ UNCHANGED <<active, pending, sidecar, brief, proc, manager, flag, used,
                   resumed, gaveUp, shadowed, unborn, mishaps>>

\* codex: a new record of that name, and the assignment moves to it.
ResumeForked(c) ==
    LET s == call[c].sid IN
    /\ Codex /\ call[c].pc = "poll" /\ active[s] = None
    /\ \E t \in Registered \ call[c].before :
          /\ active[t].name = call[c].name
          /\ brief' = IF brief[s] # None /\ brief[t] = None
                      THEN [brief EXCEPT ![t] = brief[s], ![s] = None] ELSE brief
    /\ closed' = [closed EXCEPT ![s] = None]
    /\ Returns(c)
    /\ lost' = [lost EXCEPT ![s] = "rotated"]
    /\ UNCHANGED <<active, pending, sidecar, proc, manager, flag, used,
                   resumed, gaveUp, shadowed, unborn, mishaps>>

ResumeGivesUp(c) ==
    /\ call[c].pc = "poll" /\ Mishap
    /\ gaveUp' = gaveUp \union ({proc[call[c].proc].sid} \ {None})
    /\ Returns(c)
    /\ UNCHANGED <<files, proc, manager, flag, used, lost, resumed, shadowed, unborn>>

(***************************************************************************)
(* kill_worker, and a prune between whose look and whose removal others    *)
(* act.                                                                    *)
(***************************************************************************)
Kill(s) ==
    LET p == active[s].window IN
    /\ MayCall /\ s \in Registered /\ ~active[s].nested /\ Lives(active[s].pid)
    /\ Begin(Returned)
    /\ IF Lives(p) THEN ToPc(p, IF proc[p].pc = "run" THEN "hup" ELSE "dead")
                   ELSE UNCHANGED proc
    /\ UNCHANGED <<files, manager, flag, used, seen, mishaps>>

PruneRead(s) ==
    /\ Spare /\ Prunable(s)
    /\ Begin([NoCall EXCEPT !.op = "prune", !.pc = "unlink", !.sid = s, !.copy = active[s]])
    /\ UNCHANGED <<files, proc, manager, flag, used, seen, mishaps>>

PruneUnlink(c) ==
    LET s == call[c].sid IN
    /\ call[c].pc = "unlink"
    /\ active' = [active EXCEPT ![s] = None]
    /\ shadowed' = IF active[s] # None /\ active[s].pid # call[c].copy.pid
                   THEN shadowed \union {s} ELSE shadowed
    /\ lost' = IF active[s] # None /\ (closed[s] = None \/ Forgetting(s))
             THEN [lost EXCEPT ![s] = "pruned"] ELSE lost
    /\ Returns(c)
    /\ UNCHANGED <<closed, pending, sidecar, brief, proc, manager, flag, used,
                   resumed, gaveUp, unborn, mishaps>>

(***************************************************************************)
(* The manager's own end.                                                  *)
(***************************************************************************)
LiveWorkers == {s \in Registered : ~active[s].nested /\ Lives(active[s].pid)}
Idle == \A c \in Calls : call[c].pc \in {"free", "done"}

\* session_end of the manager, with no handoff prepared: a flag for whoever
\* adopts the workers.
ManagerEnds ==
    /\ manager = "runs" /\ Idle /\ Mishap
    /\ manager' = "ended"
    /\ flag' = IF LiveWorkers # {} THEN LiveWorkers ELSE None
    /\ unborn' = {p \in Procs : ~\E s \in Sids : active[s] # None /\ active[s].pid = p}
    /\ UNCHANGED <<files, proc, call, used, lost, resumed, gaveUp, shadowed>>

SessionStep(p) ==
    \/ StartKnown(p) \/ StartRotated(p) \/ StartNested(p) \/ StartFresh(p)
    \/ StartWrite(p) \/ StartClaim(p)
    \/ EndWrite(p) \/ EndUnlink(p) \/ Rotate(p) \/ Nest(p) \/ Die(p)
CallStep(c) ==
    \/ SpawnSidecar(c) \/ SpawnConfirm(c) \/ SpawnNoRegister(c)
    \/ ResumeSeen(c) \/ ResumeFix(c) \/ ResumeForget(c) \/ ResumeForked(c) \/ ResumeGivesUp(c)
    \/ \E b \in BOOLEAN : SpawnTab(c, b) \/ SpawnFails(c, b) \/ ResumeTab(c, b) \/ ResumeFails(c, b)
Next ==
    \/ \E p \in Procs : SessionStep(p)
    \/ \E c \in Calls : (HasThread(c) /\ CallStep(c)) \/ Expire(c) \/ PruneUnlink(c)
    \/ SpawnBegin \/ \E s \in Sids : ResumeBegin(s) \/ Kill(s) \/ PruneRead(s)
    \/ ManagerEnds

Spec == Init /\ [][Next]_vars

(***************************************************************************)
(* Properties                                                              *)
(***************************************************************************)
\* A worker that has registered can be found again, whatever died on the way:
\* its record is in active/, or one is in closed/ from which it is resumed
\* (session_end, hooks.py:646-672).  It is in neither only after a prune of a
\* dead worker, after a rotation, when it ended while a resume of it was about
\* to forget its closed record, or when two processes shared it.
WorkerIsSomewhere ==
    \A s \in Sids : lost[s] = "no" /\ s \notin gaveUp \union shadowed
                    => active[s] # None \/ closed[s] # None

\* Two processes work in one session only where a resume of it reported that
\* it gave up before the first of them had registered (resume_worker_impl,
\* mcp_server.py:1724).
OneProcessPerSession ==
    \A p, q \in Procs :
        (p # q /\ Lives(p) /\ Lives(q) /\ "ending" \notin {proc[p].pc, proc[q].pc}
            /\ proc[p].sid = proc[q].sid)
        => proc[p].sid \in gaveUp \union shadowed

\* A spawn never reports as its worker a session that was registered before
\* it began and has not been resumed since, although it looks its worker up by
\* a name (_confirm_spawn_registration, mcp_server.py:1918).
SpawnReportsANewSession ==
    \A c \in Calls : call[c].pc = "confirm" =>
        \A s \in Registered :
            active[s].name = call[c].name => s \notin call[c].before \ resumed

\* An assignment is in one place, however often the session that claimed it
\* rotates, resumes or starts others that inherit its id; and never in the
\* hands of a nested session (_claim_pending_assignment, hooks.py:71).
BriefIsInOnePlace ==
    /\ \A a \in Assignments :
          Cardinality({s \in Sids : brief[s] = a}) + (IF a \in pending THEN 1 ELSE 0) <= 1
    /\ \A s \in Sids : active[s] # None /\ active[s].nested => brief[s] = None

\* A session that runs has its own record, unless a prune that had read the
\* record of a dead process removed that of its successor, or a resume gave
\* up and two processes share the session (_prune_stale_active_records,
\* registry.py:34).  And when a manager's session ends without a handoff, the
\* flag its successor adopts them from is set if it has such workers
\* (_flag_orphaned_workers, hooks.py:597).
RunningIsRegistered ==
    /\ TypeOK
    /\ \A p \in Procs :
          (proc[p].pc = "run" /\ proc[p].sid \notin gaveUp \union shadowed)
          => active[proc[p].sid] # None /\ active[proc[p].sid].pid = p
    /\ manager = "ended" =>
          \A p \in Procs \ unborn :
              proc[p].pc = "run" /\ proc[p].parent = None => flag # None
===============================================================================
