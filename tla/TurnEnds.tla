------------------------------- MODULE TurnEnds -------------------------------
(***************************************************************************)
(* The turn-ends lane: how a manager learns that one of its workers went   *)
(* quiet without calling worker_done.                                      *)
(*                                                                         *)
(* stop_hook leaves one file per turn; a scan, started again and again by  *)
(* a shell loop, classifies each file it has not seen and either leaves it *)
(* for a later scan, consumes it, or prints one FINISHED_SILENTLY line and *)
(* consumes it.  The .seen and .fs-emitted files are written after the     *)
(* printing, and a scan may die at any point.                              *)
(***************************************************************************)
EXTENDS Integers, FiniteSets, FiniteSetsExt

CONSTANTS
    MaxTime,        \* the clock runs from 1 to MaxTime (bounds the model)
    MaxTurns,       \* bound on the worker's turns
    MaxEvents,      \* bound on tasks, done events, questions,
                    \* subagent writes and limit flags together
    MaxFailures,    \* bound on the scans that die or fail to write
    TurnEndGrace,   \* _turn_end_grace_sec, in ticks
    EpisodeGrace,   \* _episode_grace_sec
    Lookback,       \* DONE_FRESH_LOOKBACK_SEC
    RetaskGrace,    \* RETASK_GRACE_SEC
    LadderBase,     \* _fs_ladder_base_sec
    LadderCap,      \* FS_LADDER_RUNG_CAP_SEC
    LadderTTL,      \* FS_LADDER_ENTRY_TTL_SEC
    LimitedTTL      \* MANAGER_LIMITED_FLAG_TTL_SEC

ASSUME TurnEndsAssumption ==
    /\ {MaxTime, MaxTurns, LadderBase} \subseteq Nat \ {0}
    /\ {MaxEvents, MaxFailures, TurnEndGrace, EpisodeGrace, Lookback, RetaskGrace,
        LadderCap, LadderTTL, LimitedTTL} \subseteq Nat
    /\ TurnEndGrace <= EpisodeGrace
    /\ LadderCap <= LadderTTL

VARIABLES
    now,        \* time.time()
    record,     \* the worker's ACTIVE record, NoRecord when it is gone
    session,    \* the worker's session: "idle", "busy" in a turn, or "gone"
    ends,       \* turn-ends/<mgr>/<sid>-<ms>.json, by completed_at
    dones,      \* done/<mgr>/<sid>-*.json, by completed_at
    asked,      \* asked_at of the worker's pending question, 0 if none
    subagent,   \* mtime of the newest subagent transcript, 0 if none
    limited,    \* mtime of .manager-limited-<mgr>, 0 if absent
    seen,       \* .seen-turn-ends-<mgr>
    ladder,     \* the worker's entry of .fs-emitted-<mgr>.json
    scan        \* the running scan

(***************************************************************************)
(* Observability variables.                                                *)
(***************************************************************************)
VARIABLES
    pages,      \* the FINISHED_SILENTLY lines printed
    lost,       \* when a page was printed that the ladder does not record
    tasked,     \* when the worker got its last prompt or task
    questioned, \* a question of that episode was pending at some time
    misjudged,  \* turn-ends whose classification broke down
    failures,   \* scans that died, failed to write or to classify
    events      \* what MaxEvents bounds

lane == <<seen, ladder, scan, pages, lost, misjudged, failures>>
history == <<tasked, questioned>>
vars == <<now, record, session, ends, dones, asked, subagent, limited,
          seen, ladder, scan, pages, lost, misjudged, tasked, questioned, failures, events>>

Times == 1..MaxTime
Unset == 0
MaybeTimes == Times \union {Unset}

NoRecord == [state |-> "none", tasked |-> Unset, since |-> Unset]
NoEntry == [last |-> Unset, level |-> 0, exited |-> FALSE]
Entries == [last : MaybeTimes, level : 0..(MaxTurns + MaxFailures), exited : BOOLEAN]
IdleScan == [pc |-> "idle", todo |-> {}, new |-> {}, ladder |-> NoEntry]

TypeOK ==
    /\ now \in Times
    /\ record \in [state : {"idle", "processing"}, tasked : MaybeTimes, since : MaybeTimes]
                    \union {NoRecord}
    /\ session \in {"idle", "busy", "gone"}
    /\ ends \subseteq Times
    /\ dones \subseteq Times
    /\ {asked, subagent, limited, tasked} \subseteq MaybeTimes
    /\ seen \union misjudged \subseteq ends
    /\ ladder \in Entries
    /\ scan \in [pc : {"idle", "entries", "append"}, todo : SUBSET ends,
                 new : SUBSET ends, ladder : Entries]
    /\ pages \subseteq [end : ends, at : Times, exited : BOOLEAN]
    /\ lost \subseteq Times
    /\ questioned \in BOOLEAN
    /\ failures \in 0..MaxFailures
    /\ events \in 0..MaxEvents

Init ==
    /\ now = 1
    /\ record = [state |-> "idle", tasked |-> Unset, since |-> Unset]
    /\ session = "idle"
    /\ ends = {}
    /\ dones = {}
    /\ asked = Unset
    /\ subagent = Unset
    /\ limited = Unset
    /\ seen = {}
    /\ ladder = NoEntry
    /\ scan = IdleScan
    /\ pages = {}
    /\ lost = {}
    /\ misjudged = {}
    /\ tasked = Unset
    /\ questioned = FALSE
    /\ failures = 0
    /\ events = 0

(***************************************************************************)
(* The worker, its manager, and time.  A scan takes less than a tick.      *)
(***************************************************************************)
Tick ==
    /\ now < MaxTime
    /\ scan.pc = "idle"
    /\ now' = now + 1
    /\ UNCHANGED <<record, session, ends, dones, asked, subagent, limited, lane, history, events>>

\* send_manager_to_worker stamps tasked_at; the prompt may come later.
Task ==
    /\ events < MaxEvents
    /\ events' = events + 1
    /\ session # "gone"
    /\ record # NoRecord
    /\ record' = [record EXCEPT !.tasked = now]
    /\ tasked' = now
    /\ questioned' = (asked # Unset /\ asked >= now - RetaskGrace)
    /\ UNCHANGED <<now, session, ends, dones, asked, subagent, limited, lane>>

\* user_prompt_submit: a turn begins with a prompt.
Prompt ==
    /\ session = "idle"
    /\ Cardinality(ends) < MaxTurns
    /\ session' = "busy"
    /\ record' = IF record = NoRecord THEN record
                 ELSE [record EXCEPT !.state = "processing", !.since = now]
    /\ tasked' = now
    /\ questioned' = (asked # Unset /\ asked >= now - RetaskGrace)
    /\ UNCHANGED <<now, ends, dones, asked, subagent, limited, lane, events>>

\* A turn that no prompt began (a background task of the CLI reports back).
Wake ==
    /\ session = "idle"
    /\ Cardinality(ends) < MaxTurns
    /\ session' = "busy"
    /\ UNCHANGED <<now, record, ends, dones, asked, subagent, limited, lane, history, events>>

\* stop_hook: the record goes idle and the turn-end file is written.
Stop ==
    /\ session = "busy"
    /\ now \notin ends
    /\ session' = "idle"
    /\ record' = IF record = NoRecord THEN record ELSE [record EXCEPT !.state = "idle"]
    /\ ends' = IF record = NoRecord THEN ends ELSE ends \union {now}
    /\ UNCHANGED <<now, dones, asked, subagent, limited, lane, history, events>>

WorkerDone ==
    /\ events < MaxEvents
    /\ events' = events + 1
    /\ session = "busy"
    /\ now \notin dones
    /\ dones' = dones \union {now}
    /\ UNCHANGED <<now, record, session, ends, asked, subagent, limited, lane, history>>

\* ask_manager; the question may outlive the call (NO_ANSWER_YET) and the turn.
Ask ==
    /\ events < MaxEvents
    /\ events' = events + 1
    /\ session = "busy"
    /\ asked = Unset
    /\ asked' = now
    /\ questioned' = TRUE
    /\ UNCHANGED <<now, record, session, ends, dones, subagent, limited, lane, tasked>>

\* answer_question removes it, as often as there are questions.
Answered ==
    /\ asked # Unset
    /\ asked' = Unset
    /\ UNCHANGED <<now, record, session, ends, dones, subagent, limited, lane, history, events>>

\* A background subagent of the idle worker writes its transcript.
Subagent ==
    /\ events < MaxEvents
    /\ events' = events + 1
    /\ session = "idle"
    /\ subagent # now
    /\ subagent' = now
    /\ UNCHANGED <<now, record, session, ends, dones, asked, limited, lane, history>>

\* session_end, or a death that the pruner finds: record and questions go.
Exit ==
    /\ session # "gone"
    /\ session' = "gone"
    /\ record' = NoRecord
    /\ asked' = Unset
    /\ UNCHANGED <<now, ends, dones, subagent, limited, lane, history, events>>

\* A scan of the stale monitor finds the manager's account rate-limited and
\* touches the flag ...
Limit ==
    /\ events < MaxEvents
    /\ events' = events + 1
    /\ limited # now
    /\ limited' = now
    /\ UNCHANGED <<now, record, session, ends, dones, asked, subagent, lane, history>>

\* ... or finds it is not any more.
Unlimit ==
    /\ limited # Unset
    /\ limited' = Unset
    /\ UNCHANGED <<now, record, session, ends, dones, asked, subagent, lane, history, events>>

(***************************************************************************)
(* classify_turn_end                                                       *)
(***************************************************************************)
EpisodeStart == Max({record.tasked, record.since})

Predates(t) == EpisodeStart > 0 /\ t < EpisodeStart - RetaskGrace

\* Mutant: a done event suppresses whatever episode it belongs to.
AnyDone(e) == \E d \in dones : d >= e - Lookback

FreshDone(e) == \E d \in dones : d >= e - Lookback /\ ~Predates(d)

PendingQuestion == asked # Unset /\ ~Predates(asked)

DelegationHold(e) == subagent >= e /\ now - subagent < EpisodeGrace

\* An earlier turn-end close by delays the verdict to the episode grace.
EpisodeHold(e) ==
    LET prior == Max({p \in ends : p < e} \union {Unset})
    IN  prior > 0 /\ e - prior <= EpisodeGrace /\ now - e < EpisodeGrace

\* The verdict on turn-end e, in the order of the early returns; the handler
\* around them is ScanMisjudges.
ClassifyTurnEnd(e) ==
    CASE now - e < TurnEndGrace -> "pending"
      [] OTHER ->
    CASE (\E s \in ends : s > e) \/ FreshDone(e) \/ PendingQuestion -> "suppress"
      [] OTHER ->
    CASE record = NoRecord                             -> "exited"
      [] record.state = "processing"                   -> "suppress"
      [] record.state = "idle" /\ DelegationHold(e)    -> "pending"
      [] record.state = "idle" /\ EpisodeHold(e)       -> "pending"
      [] OTHER                                         -> "emit"

(***************************************************************************)
(* The doubling ladder over repeated pages of one worker                   *)
(***************************************************************************)
Rung(level) == Min({LadderBase * 2^(level - 1), LadderCap})

\* _prune_fs_ladder
Pruned(entry) ==
    IF entry # NoEntry /\ now - entry.last > LadderTTL THEN NoEntry ELSE entry

DoneSince(t) == \E d \in dones : d > t

Reset(entry, verdict) ==
    \/ entry = NoEntry
    \/ record.since > entry.last
    \/ DoneSince(entry.last)
    \/ verdict = "exited" /\ ~entry.exited

Gate(entry, verdict) ==
    IF Reset(entry, verdict) THEN "reset"
    ELSE IF now - entry.last >= Rung(entry.level) THEN "rung"
    ELSE "hold"

\* Mutant: the level never rises.
FlatEntry(entry, verdict, gate) ==
    [last |-> now, level |-> 1,
     exited |-> verdict = "exited" \/ (gate = "rung" /\ entry.exited)]

\* _fs_ladder_record
NextEntry(entry, verdict, gate) ==
    [last |-> now,
     level |-> IF gate = "rung" THEN entry.level + 1 ELSE 1,
     exited |-> verdict = "exited" \/ (gate = "rung" /\ entry.exited)]

(***************************************************************************)
(* run_turn_ends_scan                                                      *)
(***************************************************************************)
ScanOnly == UNCHANGED <<now, record, session, ends, dones, asked, subagent, limited,
                        history, events>>

ManagerLimited == limited # Unset /\ now - limited <= LimitedTTL

\* A manager whose account is limited is left alone: nothing is consumed.
ScanBegin ==
    /\ scan.pc = "idle"
    /\ ~ManagerLimited
    /\ limited' = Unset
    /\ scan' = [pc |-> "entries", todo |-> ends \ seen, new |-> {}, ladder |-> Pruned(ladder)]
    /\ UNCHANGED <<now, record, session, ends, dones, asked, subagent, history,
                   seen, ladder, pages, lost, misjudged, failures, events>>

Entry == Min(scan.todo)
Verdict == ClassifyTurnEnd(Entry)

\* A pending turn-end, and one the ladder holds, wait for a later scan.
ScanHold ==
    /\ scan.pc = "entries" /\ scan.todo # {}
    /\ \/ Verdict = "pending"
       \/ Verdict \in {"emit", "exited"} /\ Gate(scan.ladder, Verdict) = "hold"
    /\ scan' = [scan EXCEPT !.todo = @ \ {Entry}]
    /\ UNCHANGED <<seen, ladder, pages, lost, misjudged, failures>>
    /\ ScanOnly

\* A suppressed one is consumed.
ScanSuppress ==
    /\ scan.pc = "entries" /\ scan.todo # {}
    /\ Verdict = "suppress"
    /\ scan' = [scan EXCEPT !.todo = @ \ {Entry}, !.new = @ \union {Entry}]
    /\ UNCHANGED <<seen, ladder, pages, lost, misjudged, failures>>
    /\ ScanOnly

\* The exception handler of classify_turn_end: a payload or a sibling that is
\* not what it expects consumes the turn-end, whatever the verdict would be.
ScanMisjudges ==
    /\ scan.pc = "entries" /\ scan.todo # {}
    /\ failures < MaxFailures
    /\ failures' = failures + 1
    /\ misjudged' = misjudged \union {Entry}
    /\ scan' = [scan EXCEPT !.todo = @ \ {Entry}, !.new = @ \union {Entry}]
    /\ UNCHANGED <<seen, ladder, pages, lost>>
    /\ ScanOnly

\* The line is printed; that it was is known to this process only.
ScanPage ==
    /\ scan.pc = "entries" /\ scan.todo # {}
    /\ Verdict \in {"emit", "exited"}
    /\ LET gate == Gate(scan.ladder, Verdict)
       IN  /\ gate # "hold"
           /\ pages' = pages \union {[end |-> Entry, at |-> now, exited |-> Verdict = "exited"]}
           /\ scan' = [scan EXCEPT !.todo = @ \ {Entry}, !.new = @ \union {Entry},
                                   !.ladder = NextEntry(@, Verdict, gate)]
    /\ UNCHANGED <<seen, ladder, lost, misjudged, failures>>
    /\ ScanOnly

Unrecorded == IF scan.ladder.last = now THEN {now} ELSE {}

\* .fs-emitted is replaced; a write that fails is reported and passed over.
ScanLadder ==
    /\ scan.pc = "entries" /\ scan.todo = {}
    /\ scan' = [scan EXCEPT !.pc = "append"]
    /\ \/ ladder' = scan.ladder /\ UNCHANGED <<lost, failures>>
       \/ /\ failures < MaxFailures
          /\ failures' = failures + 1
          /\ lost' = lost \union Unrecorded
          /\ UNCHANGED ladder
    /\ UNCHANGED <<seen, pages, misjudged>>
    /\ ScanOnly

\* Mutant: only the suppressed turn-ends are remembered.
AppendSuppressed ==
    /\ scan.pc = "append"
    /\ seen' = seen \union {e \in scan.new : \A p \in pages : p.end # e}
    /\ scan' = IdleScan
    /\ UNCHANGED <<ladder, pages, lost, misjudged, failures>>
    /\ ScanOnly

\* _append_seen
ScanAppend ==
    /\ scan.pc = "append"
    /\ seen' = seen \union scan.new
    /\ scan' = IdleScan
    /\ UNCHANGED <<ladder, pages, lost, misjudged, failures>>
    /\ ScanOnly

\* The scan process dies; the shell loop starts another.
ScanDies ==
    /\ scan.pc # "idle"
    /\ failures < MaxFailures
    /\ failures' = failures + 1
    /\ scan' = IdleScan
    /\ lost' = lost \union IF scan.pc = "entries" THEN Unrecorded ELSE {}
    /\ UNCHANGED <<seen, ladder, pages, misjudged>>
    /\ ScanOnly

(***************************************************************************)
(* Specification                                                           *)
(***************************************************************************)
Worker == Task \/ Prompt \/ Wake \/ Stop \/ WorkerDone \/ Ask \/ Answered \/ Subagent \/ Exit

Scan == ScanBegin \/ ScanHold \/ ScanSuppress \/ ScanPage \/ ScanLadder \/ ScanAppend

Next == Tick \/ Worker \/ Limit \/ Unlimit \/ Scan \/ ScanMisjudges \/ ScanDies

Spec == Init /\ [][Next]_vars

\* The shell loop of the manager's Monitor starts scan after scan.
FairSpec == Spec /\ WF_vars(Scan)

(***************************************************************************)
(* Properties                                                              *)
(***************************************************************************)
\* The pages before q that belong to the same uninterrupted lull: no prompt,
\* no done event and no exit since, and the ladder was told of them and does
\* not forget one so young.  (By then the rungs have reached the cap.)
LullBefore(q) ==
    {p \in pages : /\ p.at \notin lost
                   /\ q.at - p.at <= LadderTTL
                   /\ record.since <= p.at
                   /\ \A d \in dones : d <= p.at
                   /\ q.exited => p.exited}

\* Repeated pages of one lull come at doubling distances up to the cap, over
\* any number of scans, whichever scans die after they printed.
PagesBackOff ==
    [][\A q \in pages' \ pages :
         LET lull == LullBefore(q)
         IN  lull # {} => q.at - Max({p.at : p \in lull}) >= Rung(Cardinality(lull))]_vars

\* One turn-end is paged twice only after a scan that printed it died before
\* .seen-turn-ends was appended.
PagedOnce == TypeOK /\ (failures = 0 => \A p, q \in pages : p.end = q.end => p = q)

\* The worker went quiet with turn-end e: it reported no done event and had
\* no question in the episode e belongs to.
WentQuiet(e) ==
    /\ e \in ends /\ e = Max(ends) /\ e > tasked
    /\ \A d \in dones : d < tasked - RetaskGrace
    /\ ~questioned

QuietFinish(e) == session = "idle" /\ record.state = "idle" /\ WentQuiet(e)

\* Every hold on e has run out: both graces, the rate-limit flag, the ladder.
Due(e) ==
    /\ limited = Unset
    /\ now - e >= EpisodeGrace
    /\ now - subagent >= EpisodeGrace
    /\ \A p \in pages : now - p.at >= LadderCap

Paged(e) == \E p \in pages : p.end = e

\* A quiet finish reaches the manager: no scan consumed its turn-end because
\* of what belongs to an earlier episode, no hold outlives its time, and a
\* scan that dies loses nothing.  Only one whose classification broke down may
\* be consumed unheard.
QuietFinishIsPaged ==
    \A e \in Times :
      (QuietFinish(e) /\ Due(e))
          ~> (Paged(e) \/ e \in misjudged \/ ~QuietFinish(e) \/ ~Due(e))

(***************************************************************************)
(* A claim of deploy/agents/manager.core.md, under "Silent-finish          *)
(* detection": "A done event or a question that PREDATES the worker's      *)
(* current assignment does NOT suppress".                                  *)
(***************************************************************************)
\* The same for a worker whose session exited after its quiet finish.
QuietExit(e) == session = "gone" /\ WentQuiet(e)

QuietExitIsPaged ==
    \A e \in Times : (QuietExit(e) /\ Due(e)) ~> (Paged(e) \/ ~Due(e))
==============================================================================
