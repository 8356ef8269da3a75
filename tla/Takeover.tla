------------------------------- MODULE Takeover -------------------------------
(***************************************************************************)
(* A manager session is replaced by another.                               *)
(*                                                                         *)
(* Workers find their manager by its name alone, so a successor has to     *)
(* register under the very name its predecessor had.  A handoff file says  *)
(* who is succeeded; the call checks, closes the predecessor's window,     *)
(* removes its record, registers, and marks the handoff consumed as its    *)
(* last write.  There is no lock: several successors may be at it at once, *)
(* any of them may die half way, and the predecessor's hooks write its     *)
(* whole record back or remove it meanwhile.                               *)
(*                                                                         *)
(* The successor on the predecessor's own handoff registers as soon as its *)
(* session starts, under the next free name; one that the stale monitor    *)
(* launched stays without a record until it calls.                         *)
(***************************************************************************)
EXTENDS Integers, FiniteSets, FiniteSetsExt

CONSTANTS
    Old,        \* the manager session that is replaced
    Resumers,   \* sessions started to succeed it on its own handoff
    Recoverers, \* sessions the stale monitor started to recover its fleet
    Workers,    \* its workers; their sessions live on
    MaxDeaths   \* bound on the contenders that die

ASSUME TakeoverAssumption ==
    /\ Old \notin Resumers \union Recoverers
    /\ Resumers \intersect Recoverers = {}
    /\ IsFiniteSet(Resumers) /\ IsFiniteSet(Recoverers)
    /\ MaxDeaths \in Nat

VARIABLES
    name,       \* per session: the name in its ACTIVE record, NoName = no record
    phase,      \* per session: "up", "closing" (its window was closed), or dead:
                \* "ended" through its SessionEnd hook, "killed" without
    memory,     \* a distill of Old's transcript was written or started
    handoff,    \* handoffs/: handoff[Old] by prepare_handoff, handoff[c] by
                \* the prepare_recovery_handoff of recoverer c
    call,       \* what each contender is doing
    hook,       \* the hook of Old that runs, and the record it read
    parent      \* per worker: parent_manager_name, NoName = null

(***************************************************************************)
(* Observability variables.                                                *)
(***************************************************************************)
VARIABLES
    held,       \* per contender: who held the name when its takeover began
                \* and has held it ever since
    routed,     \* workers with the inherited name as their parent at first
    deaths

vars == <<name, phase, memory, handoff, call, hook, parent,
          held, routed, deaths>>

Contenders == Resumers \union Recoverers
Sessions == Contenders \union {Old}
Handoffs == Recoverers \union {Old}

\* Name 1 is Old's, name k is the same with the suffix "-k".
NoName == 0
Inherited == 1
Names == 1..Cardinality(Sessions)
MaybeNames == Names \union {NoName}

Dead(s) == phase[s] \in {"ended", "killed"}
Holds(s) == phase[s] = "up" /\ name[s] = Inherited

Pcs == {"off", "start", "idle", "judge", "scan", "close", "unlink", "name", "register", "write",
        "backfill", "stamp", "unregister", "revert", "consume", "done"}
Call == [pc : Pcs, takeover : BOOLEAN, saw : BOOLEAN,
         name : MaybeNames, stamp : MaybeNames, todo : SUBSET Workers]
FreeCall == [pc |-> "idle", takeover |-> FALSE, saw |-> FALSE,
             name |-> NoName, stamp |-> NoName, todo |-> {}]

TypeOK ==
    /\ name \in [Sessions -> MaybeNames]
    /\ phase \in [Sessions -> {"up", "closing", "ended", "killed"}]
    /\ memory \in BOOLEAN
    /\ handoff \in [Handoffs -> {"none", "open", "consumed"}]
    /\ call \in [Contenders -> Call]
    /\ hook \in [pc : {"none", "stop", "end"}, copy : MaybeNames]
    /\ parent \in [Workers -> MaybeNames]
    /\ held \in [Contenders -> SUBSET Contenders]
    /\ routed \subseteq Workers
    /\ deaths \in 0..MaxDeaths

\* A worker without a parent is one whose spawner knew no manager.
Init ==
    /\ name = [s \in Sessions |-> IF s = Old THEN Inherited ELSE NoName]
    /\ phase = [s \in Sessions |-> "up"]
    /\ memory = FALSE
    /\ handoff = [h \in Handoffs |-> "none"]
    /\ call = [c \in Contenders |-> [FreeCall EXCEPT !.pc = IF c \in Resumers THEN "off" ELSE "idle"]]
    /\ hook = [pc |-> "none", copy |-> NoName]
    /\ routed \in SUBSET Workers
    /\ parent = [w \in Workers |-> IF w \in routed THEN Inherited ELSE NoName]
    /\ held = [c \in Contenders |-> {}]
    /\ deaths = 0

(***************************************************************************)
(* Helpers                                                                 *)
(***************************************************************************)
\* What _prune_stale_active_records leaves: no record of a dead session.
Pruned == [s \in Sessions |-> IF Dead(s) THEN NoName ELSE name[s]]

Goto(c, pc) == call' = [call EXCEPT ![c].pc = pc]

\* A call that raises leaves nothing but what it has written so far.
Fails(c) == call' = [call EXCEPT ![c] = FreeCall]

\* The observer of who lost the name: a step of c is about to write name'[c].
Kept(c) == held' = [d \in Contenders |->
                      IF name'[c] = Inherited THEN held[d] ELSE held[d] \ {c}]

SameSessions == UNCHANGED <<phase, memory, hook, routed, deaths>>
CallOnly == UNCHANGED <<name, handoff, parent, held>> /\ SameSessions

\* _resolve_unique_name: the name, or the first free "-k".
UniqueName(c) == Min({n \in Names : \A s \in Sessions \ {c} : Pruned[s] # n})

(***************************************************************************)
(* Old, its hooks and its end                                              *)
(***************************************************************************)
\* prepare_handoff, called by Old itself; the distill at its end may fail.
PrepareHandoff ==
    /\ phase[Old] = "up" /\ hook.pc = "none"
    /\ name[Old] # NoName
    /\ handoff[Old] = "none"
    /\ handoff' = [handoff EXCEPT ![Old] = "open"]
    /\ memory' \in {memory, TRUE}
    /\ name' = Pruned
    /\ UNCHANGED <<phase, call, hook, parent, held, routed, deaths>>

\* stop_hook reads Old's record ...
HookRead ==
    /\ phase[Old] = "up"
    /\ hook.pc = "none"
    /\ name[Old] # NoName
    /\ hook' = [pc |-> "stop", copy |-> name[Old]]
    /\ UNCHANGED <<name, phase, memory, handoff, call, parent, held,
                   routed, deaths>>

\* ... and writes it back.
HookWrite ==
    /\ hook.pc = "stop"
    /\ ~Dead(Old)
    /\ name' = [name EXCEPT ![Old] = hook.copy]
    /\ hook' = [pc |-> "none", copy |-> NoName]
    /\ UNCHANGED <<phase, memory, handoff, call, parent, held, routed,
                   deaths>>

\* session_end: Old leaves by itself or its window was closed.  The record
\* is read first ...
EndRead ==
    /\ phase[Old] \in {"up", "closing"}
    /\ hook.pc = "none"
    /\ hook' = [pc |-> "end", copy |-> name[Old]]
    /\ phase' = [phase EXCEPT ![Old] = "closing"]
    /\ UNCHANGED <<name, memory, handoff, call, parent, held, routed,
                   deaths>>

\* ... removed, and whether to distill is decided by the copy.
EndUnlink ==
    /\ hook.pc = "end"
    /\ ~Dead(Old)
    /\ name' = [name EXCEPT ![Old] = NoName]
    /\ memory' = (memory \/ hook.copy # NoName)
    /\ phase' = [phase EXCEPT ![Old] = "ended"]
    /\ hook' = [pc |-> "none", copy |-> NoName]
    /\ UNCHANGED <<handoff, call, parent, held, routed, deaths>>

\* Old dies where it is, or outlives the grace after its window closed.
KillOld ==
    /\ ~Dead(Old)
    /\ phase' = [phase EXCEPT ![Old] = "killed"]
    /\ hook' = [pc |-> "none", copy |-> NoName]
    /\ UNCHANGED <<name, memory, handoff, call, parent, held, routed,
                   deaths>>

(***************************************************************************)
(* become_manager_with_takeover                                            *)
(***************************************************************************)
\* _recovery_target_liveness of a predecessor on record.  One that lives may
\* get stuck on the limit banner and recover from it at any time, so it looks
\* alive or not.
Liveness == IF Dead(Old) THEN {FALSE} ELSE BOOLEAN

\* prepare_recovery_handoff: Old is registered and does not look alive.
PrepareRecovery(c) ==
    /\ phase[c] = "up" /\ call[c].pc = "idle"
    /\ handoff[c] = "none"
    /\ name[Old] # NoName
    /\ FALSE \in Liveness
    /\ handoff' = [handoff EXCEPT ![c] = "open"]
    /\ name' = Pruned
    /\ UNCHANGED <<call, parent, held>>
    /\ SameSessions

HandoffOf(c) == IF c \in Recoverers THEN c ELSE Old

\* spawn_replacement_manager starts a session for a handoff that is not
\* consumed; its session_start hook picks the next free name ...
StartSession(c) ==
    /\ call[c].pc = "off"
    /\ handoff[Old] = "open"
    /\ name' = Pruned
    /\ call' = [call EXCEPT ![c].pc = "start", ![c].name = UniqueName(c)]
    /\ UNCHANGED <<handoff, parent, held>>
    /\ SameSessions

\* ... and writes the record.
StartWrite(c) ==
    /\ call[c].pc = "start"
    /\ name' = [name EXCEPT ![c] = call[c].name]
    /\ call' = [call EXCEPT ![c] = FreeCall]
    /\ UNCHANGED <<handoff, parent, held>>
    /\ SameSessions

\* The handoff is read: not consumed.  A recoverer that fell back to
\* become_manager does not take over as well.
Begin(c) ==
    /\ phase[c] = "up" /\ call[c].pc = "idle"
    /\ c \in Recoverers => name[c] = NoName
    /\ handoff[HandoffOf(c)] = "open"
    /\ call' = [call EXCEPT ![c] = [FreeCall EXCEPT !.pc = "judge", !.takeover = TRUE]]
    /\ held' = [held EXCEPT ![c] = {s \in Contenders \ {c} : Holds(s)}]
    /\ UNCHANGED <<name, handoff, parent>>
    /\ SameSessions

\* Old's record is read; a recovery leaves a predecessor alone that revived.
Judge(c) ==
    /\ call[c].pc = "judge"
    /\ \/ /\ c \in Recoverers /\ name[Old] # NoName /\ TRUE \in Liveness
          /\ Fails(c)
       \/ /\ c \in Resumers \/ name[Old] = NoName \/ FALSE \in Liveness
          /\ call' = [call EXCEPT ![c].pc = "scan", ![c].saw = name[Old] # NoName]
    /\ CallOnly

\* Mutant: nobody looks who has the name.
ScanNothing(c) ==
    /\ call[c].pc = "scan"
    /\ name' = Pruned
    /\ Goto(c, "close")
    /\ UNCHANGED <<handoff, parent, held>>
    /\ SameSessions

\* Prune, and look for another session that has the name.
Scan(c) ==
    /\ call[c].pc = "scan"
    /\ name' = Pruned
    /\ IF \E s \in Contenders \ {c} : Pruned[s] = Inherited
       THEN Fails(c)
       ELSE Goto(c, "close")
    /\ UNCHANGED <<handoff, parent, held>>
    /\ SameSessions

\* Old's window is closed if its record was seen and its pid lives; a tmux
\* command that fails goes unnoticed.
CloseOld(c) ==
    /\ call[c].pc = "close"
    /\ \/ /\ call[c].saw /\ phase[Old] = "up"
          /\ phase' = [phase EXCEPT ![Old] = "closing"]
       \/ UNCHANGED phase
    /\ Goto(c, "unlink")
    /\ UNCHANGED <<name, memory, handoff, hook, parent, held, routed, deaths>>

\* Mutant: the record is left to the predecessor's session_end.
LeaveOld(c) ==
    /\ call[c].pc = "unlink"
    /\ Goto(c, "name")
    /\ CallOnly

UnlinkOld(c) ==
    /\ call[c].pc = "unlink"
    /\ name' = [name EXCEPT ![Old] = NoName]
    /\ Goto(c, "name")
    /\ UNCHANGED <<handoff, parent, held>>
    /\ SameSessions

(***************************************************************************)
(* become_manager                                                          *)
(***************************************************************************)
\* The fallback of a recovery that finds neither Old nor any manager: the
\* session registers under the name without a takeover.
Boot(c) ==
    /\ phase[c] = "up" /\ call[c].pc = "idle"
    /\ handoff[c] = "none"
    /\ \A s \in Sessions : Pruned[s] = NoName
    /\ name' = Pruned
    /\ call' = [call EXCEPT ![c] = [FreeCall EXCEPT !.pc = "name"]]
    /\ UNCHANGED <<handoff, parent, held>>
    /\ SameSessions

ChooseName(c) ==
    /\ call[c].pc = "name"
    /\ name' = Pruned
    /\ call' = [call EXCEPT ![c].pc = "register", ![c].name = UniqueName(c)]
    /\ UNCHANGED <<handoff, parent, held>>
    /\ SameSessions

\* register_self looks once more; a name that went meanwhile raises.
RegisterScan(c) ==
    /\ call[c].pc = "register"
    /\ name' = Pruned
    /\ IF \E s \in Sessions \ {c} : Pruned[s] = call[c].name
       THEN Fails(c)
       ELSE Goto(c, "write")
    /\ UNCHANGED <<handoff, parent, held>>
    /\ SameSessions

RegisterWrite(c) ==
    /\ call[c].pc = "write"
    /\ name' = [name EXCEPT ![c] = call[c].name]
    /\ Goto(c, "backfill")
    /\ Kept(c)
    /\ UNCHANGED <<handoff, parent>>
    /\ SameSessions

Managers == {s \in Sessions : name[s] # NoName}
Null == {w \in Workers : parent[w] = NoName}

\* _backfill_legacy_workers: with a single manager on record, the workers
\* without a parent are his.
Backfill(c) ==
    /\ call[c].pc = "backfill"
    /\ call' = [call EXCEPT ![c].pc = "stamp",
                            ![c].stamp = IF Cardinality(Managers) = 1
                                         THEN name[CHOOSE s \in Managers : TRUE] ELSE NoName,
                            ![c].todo = IF Cardinality(Managers) = 1 THEN Null ELSE {}]
    /\ CallOnly

Stamp(c) ==
    /\ call[c].pc = "stamp"
    /\ \E w \in call[c].todo :
          /\ parent' = [parent EXCEPT ![w] = call[c].stamp]
          /\ call' = [call EXCEPT ![c].todo = @ \ {w}]
    /\ UNCHANGED <<name, handoff, held>>
    /\ SameSessions

\* Mutant: whatever name was registered, the takeover goes on.
RegisteredAnyName(c) ==
    /\ call[c].pc = "stamp" /\ call[c].todo = {}
    /\ IF call[c].takeover THEN Goto(c, "consume") ELSE Fails(c)
    /\ CallOnly

\* become_manager returns; a takeover insists on the inherited name.
Registered(c) ==
    /\ call[c].pc = "stamp" /\ call[c].todo = {}
    /\ CASE ~call[c].takeover              -> Fails(c)
         [] call[c].name = Inherited       -> Goto(c, "consume")
         [] OTHER                          -> Goto(c, "unregister")
    /\ CallOnly

(***************************************************************************)
(* The end of the takeover                                                 *)
(***************************************************************************)
\* The wrong name: the own record goes, and the workers just stamped with it
\* are set free again, record by record.
Unregister(c) ==
    /\ call[c].pc = "unregister"
    /\ name' = [name EXCEPT ![c] = NoName]
    /\ call' = [call EXCEPT ![c].pc = "revert", ![c].todo = Workers]
    /\ Kept(c)
    /\ UNCHANGED <<handoff, parent>>
    /\ SameSessions

\* Mutant: every worker the scan meets is set free.
RevertAll(c) ==
    /\ call[c].pc = "revert"
    /\ \E w \in call[c].todo :
          /\ parent' = [parent EXCEPT ![w] = NoName]
          /\ call' = [call EXCEPT ![c].todo = @ \ {w}]
    /\ UNCHANGED <<name, handoff, held>>
    /\ SameSessions

Revert(c) ==
    /\ call[c].pc = "revert"
    /\ \E w \in call[c].todo :
          /\ parent' = [parent EXCEPT ![w] = IF @ = call[c].name THEN NoName ELSE @]
          /\ call' = [call EXCEPT ![c].todo = @ \ {w}]
    /\ UNCHANGED <<name, handoff, held>>
    /\ SameSessions

Reverted(c) ==
    /\ call[c].pc = "revert" /\ call[c].todo = {}
    /\ Fails(c)
    /\ CallOnly

\* The handoff, as it was read, is written back consumed.
Consume(c) ==
    /\ call[c].pc = "consume"
    /\ handoff' = [handoff EXCEPT ![HandoffOf(c)] = "consumed"]
    /\ call' = [call EXCEPT ![c] = [FreeCall EXCEPT !.pc = "done"]]
    /\ UNCHANGED <<name, parent, held>>
    /\ SameSessions

(***************************************************************************)
(* Deaths of contenders                                                    *)
(***************************************************************************)
\* A contender dies; its SessionEnd hook may still remove its record.
Die(c) ==
    /\ phase[c] = "up" /\ call[c].pc # "off"
    /\ deaths < MaxDeaths
    /\ deaths' = deaths + 1
    /\ phase' = [phase EXCEPT ![c] = "killed"]
    /\ name' = [name EXCEPT ![c] = NoName] \/ UNCHANGED name
    /\ call' = [call EXCEPT ![c] = FreeCall]
    /\ UNCHANGED <<memory, handoff, hook, parent, held, routed>>

(***************************************************************************)
(* Specification                                                           *)
(***************************************************************************)
OldStep == PrepareHandoff \/ HookRead \/ HookWrite

OldEnds == EndRead \/ EndUnlink \/ KillOld

Step(c) ==
    \/ StartWrite(c)
    \/ Judge(c) \/ Scan(c) \/ CloseOld(c) \/ UnlinkOld(c)
    \/ ChooseName(c) \/ RegisterScan(c) \/ RegisterWrite(c) \/ Backfill(c) \/ Stamp(c)
    \/ Registered(c) \/ Unregister(c) \/ Revert(c) \/ Reverted(c) \/ Consume(c)

Start(c) ==
    \/ StartSession(c)
    \/ Begin(c)
    \/ c \in Recoverers /\ (PrepareRecovery(c) \/ Boot(c))

Next ==
    \/ OldStep \/ OldEnds
    \/ \E c \in Contenders : Start(c) \/ Step(c) \/ Die(c)

Spec == Init /\ [][Next]_vars

\* A call under way runs on, unless its session dies.  No call is assumed to
\* be made, or made again: a takeover that returns an error is not repeated.
Fairness == \A c \in Contenders : WF_vars(Step(c))

FairSpec == Spec /\ Fairness

(***************************************************************************)
(* Properties                                                              *)
(***************************************************************************)
\* A handoff is consumed only by a session that is on record under the
\* inherited name at that moment, whatever raced with its registration.
ConsumedUnderTheName ==
    [][\A c \in Contenders : Consume(c) => Holds(c)]_vars

PastScan == {"close", "unlink", "name", "register", "write", "backfill", "stamp",
             "unregister", "revert", "consume"}

\* A duplicate takeover stands down before it touches the predecessor: past
\* its scan, no session has held the name all the time since it began.
DuplicateStandsDown ==
    \A c \in Contenders :
        call[c].takeover /\ call[c].pc \in PastScan => \A s \in held[c] : ~Holds(s)

\* A worker in flight, routed to the inherited name, stays routed to it
\* through takeovers that fail, race and die.
InFlightStayRouted == \A w \in routed : parent[w] = Inherited

\* A stop hook that read the record before takeover c removed it writes it
\* back; the name then belongs to a session whose window is closing.
WritesBack(c) == call[c].pc = "name" /\ hook.pc = "stop"

\* Takeovers do not stand down for each other, or for the predecessor they
\* just closed, until nobody is left: one that has passed its scan ends with
\* the name in live hands, its own or those of the session it yielded to,
\* unless it dies, or a hook of the predecessor is writing the record back.
TakeoverLeavesAHolder ==
    \A c \in Contenders :
        (call[c].takeover /\ call[c].pc = "close")
            ~> ((\E s \in Sessions : Holds(s)) \/ Dead(c) \/ WritesBack(c))

(***************************************************************************)
(* A claim of the documents                                                *)
(***************************************************************************)
\* mcp_server.py, become_manager_with_takeover: "the graceful close lets its
\* SessionEnd fire the retro + memory distill".
ClosedPredecessorDistills == phase[Old] = "ended" => memory
===============================================================================
