-------------------------------- MODULE Retask --------------------------------
(***************************************************************************)
(* One worker's ACTIVE record, given task after task by its manager.       *)
(*                                                                         *)
(* active/<sid>.json is shared memory without a lock: the worker's hooks   *)
(* (user_prompt_submit, stop_hook), send_manager_to_worker and the idle    *)
(* auto-close each read the whole record, work, and write the whole record *)
(* back or remove it.  wait_for_worker decides from that record which done *)
(* event of the worker is an answer to the last task.                      *)
(***************************************************************************)
EXTENDS Integers, Sequences, FiniteSets, FiniteSetsExt

CONSTANTS
    NTasks,     \* tasks the manager sends, in order
    MaxTime,    \* the clock stops here (bounds the model)
    Grace       \* _RETASK_GRACE_SEC, in ticks

ASSUME RetaskAssumption == NTasks \in Nat \ {0} /\ MaxTime \in Nat /\ Grace \in Nat

VARIABLES
    now,        \* time.time()
    record,     \* the ACTIVE record, or NoRecord
    session,    \* the worker's CLI: what its turn or hook is doing
    pane,       \* tasks typed into the worker's window, not yet submitted
    done,       \* done events: the task they report and completed_at
    sender,     \* the send_manager_to_worker call in flight
    waiter,     \* the wait_for_worker call in flight
    closer      \* the stale monitor's auto-close of this worker

(***************************************************************************)
(* Observability variables.                                                *)
(***************************************************************************)
VARIABLES
    sentAt      \* per task: when send_manager_to_worker stamped tasked_at

retaskVars == <<now, record, session, pane, done, sender, waiter, closer, sentAt>>

Tasks == 1..NTasks
Times == 0..MaxTime
Never == MaxTime + 1

\* Of a record only the fields wait_for_worker and auto-close look at.
Records == [state : {"idle", "processing"}, since : Times, tasked : Times]
NoRecord == [state |-> "none", since |-> 0, tasked |-> 0]
MaybeRecord == Records \union {NoRecord}

FreeWaiter == [pc |-> "free", task |-> 0, busy |-> FALSE, gated |-> FALSE,
               bound |-> 0, got |-> 0, gotAt |-> 0]

Registered == record # NoRecord
Alive == session.pc # "gone"

\* The last task whose send has returned; 0 before the first.
LastSent == Cardinality({k \in Tasks : sentAt[k] # Never})

RetaskTypeOK ==
    /\ now \in Times
    /\ record \in MaybeRecord
    /\ session \in [pc : {"idle", "prompt", "turn", "stop", "gone"},
                    task : 0..NTasks, reported : BOOLEAN, copy : MaybeRecord]
    /\ pane \in Seq(Tasks) /\ Len(pane) <= NTasks
    /\ done \subseteq [task : Tasks, at : Times]
    /\ sender \in [pc : {"free", "read", "resolved", "typed"}, task : 0..NTasks,
                   copy : MaybeRecord]
    /\ waiter \in [pc : {"free", "first", "look", "check", "done", "exited"},
                   task : 0..NTasks, busy : BOOLEAN, gated : BOOLEAN,
                   bound : Times, got : 0..NTasks, gotAt : Times]
    /\ closer \in [pc : {"free", "judged", "unlinked"}]
    /\ sentAt \in [Tasks -> 0..Never]

RetaskInit ==
    /\ now = 0
    /\ record = [state |-> "idle", since |-> 0, tasked |-> 0]
    /\ session = [pc |-> "idle", task |-> 0, reported |-> FALSE, copy |-> NoRecord]
    /\ pane = <<>>
    /\ done = {}
    /\ sender = [pc |-> "free", task |-> 0, copy |-> NoRecord]
    /\ waiter = FreeWaiter
    /\ closer = [pc |-> "free"]
    /\ sentAt = [k \in Tasks |-> Never]

Tick ==
    /\ now < MaxTime
    /\ now' = now + 1
    /\ UNCHANGED <<record, session, pane, done, sender, waiter, closer, sentAt>>

(***************************************************************************)
(* The worker's session.  Its hooks run one after the other: the CLI does  *)
(* not submit the next prompt before the Stop hook of the last turn ended. *)
(***************************************************************************)
SessionOnly == UNCHANGED <<now, pane, done, sender, waiter, closer, sentAt>>

\* user_prompt_submit reads the record ...
SubmitPrompt ==
    /\ session.pc = "idle"
    /\ pane # <<>>
    /\ session' = [session EXCEPT !.pc = "prompt", !.task = Head(pane), !.copy = record]
    /\ pane' = Tail(pane)
    /\ UNCHANGED <<now, record, done, sender, waiter, closer, sentAt>>

\* Mutant: processing_since is left as it was.
StampState ==
    /\ session.pc = "prompt"
    /\ session' = [session EXCEPT !.pc = "turn", !.reported = FALSE, !.copy = NoRecord]
    /\ record' = IF session.copy = NoRecord THEN record
                 ELSE [session.copy EXCEPT !.state = "processing"]
    /\ SessionOnly

\* ... and writes it back as processing.  Without a record it writes none.
StampProcessing ==
    /\ session.pc = "prompt"
    /\ session' = [session EXCEPT !.pc = "turn", !.reported = FALSE, !.copy = NoRecord]
    /\ record' = IF session.copy = NoRecord THEN record
                 ELSE [session.copy EXCEPT !.state = "processing", !.since = now]
    /\ SessionOnly

\* worker_done; with the ACTIVE record gone it heals itself from the
\* assignment record, so it is written either way.
WorkerDone ==
    /\ session.pc = "turn"
    /\ ~session.reported
    /\ done' = done \union {[task |-> session.task, at |-> now]}
    /\ session' = [session EXCEPT !.reported = TRUE]
    /\ UNCHANGED <<now, record, pane, sender, waiter, closer, sentAt>>

\* stop_hook reads the record and then the whole transcript ...
StopRead ==
    /\ session.pc = "turn"
    /\ session' = [session EXCEPT !.pc = IF Registered THEN "stop" ELSE "idle",
                                  !.copy = record]
    /\ UNCHANGED record
    /\ SessionOnly

\* ... before it writes the record it read back, idle.
StopWrite ==
    /\ session.pc = "stop"
    /\ record' = [session.copy EXCEPT !.state = "idle"]
    /\ session' = [session EXCEPT !.pc = "idle", !.copy = NoRecord]
    /\ SessionOnly

\* session_end: CLOSED record, then the ACTIVE record goes.
SessionEnd ==
    /\ session.pc = "idle"
    /\ record' = NoRecord
    /\ session' = [session EXCEPT !.pc = "gone"]
    /\ SessionOnly

\* The process dies at any point without running a hook, and its pane with it.
Crash ==
    /\ Alive
    /\ session' = [session EXCEPT !.pc = "gone"]
    /\ UNCHANGED record
    /\ SessionOnly

(***************************************************************************)
(* send_manager_to_worker                                                  *)
(***************************************************************************)
SendRead ==
    /\ sender.pc = "free"
    /\ sender.task < NTasks
    /\ Registered
    /\ sender' = [pc |-> "read", task |-> sender.task + 1, copy |-> record]
    /\ UNCHANGED <<now, record, session, pane, done, waiter, closer, sentAt>>

\* _resolve_live_worker_window: the recorded pane is not listed and exactly
\* one pane matches by cwd, so the record is written back with that pane.
SendResolve ==
    /\ sender.pc = "read"
    /\ Alive
    /\ record' = sender.copy
    /\ sender' = [sender EXCEPT !.pc = "resolved"]
    /\ UNCHANGED <<now, session, pane, done, waiter, closer, sentAt>>

\* The text is typed into the pane.  TmuxDriver.send_text ignores a tmux
\* command that fails, and a listing that fails skips the check of the pane,
\* so the text may be lost ...
SendText ==
    /\ sender.pc \in {"read", "resolved"}
    /\ \/ Alive /\ pane' = Append(pane, sender.task)
       \/ UNCHANGED pane
    /\ sender' = [sender EXCEPT !.pc = "typed"]
    /\ UNCHANGED <<now, record, session, done, waiter, closer, sentAt>>

\* ... and the record that was read is written back, stamped tasked_at.
SendStamp ==
    /\ sender.pc = "typed"
    /\ record' = [sender.copy EXCEPT !.tasked = now]
    /\ sentAt' = [sentAt EXCEPT ![sender.task] = now]
    /\ sender' = [sender EXCEPT !.pc = "free", !.copy = NoRecord]
    /\ UNCHANGED <<now, session, pane, done, waiter, closer>>

\* No live window after the retries: the call raises, nothing was typed.
SendFails ==
    /\ sender.pc \in {"read", "resolved"}
    /\ ~Alive
    /\ sender' = [sender EXCEPT !.pc = "free", !.task = sender.task - 1, !.copy = NoRecord]
    /\ UNCHANGED <<now, record, session, pane, done, waiter, closer, sentAt>>

(***************************************************************************)
(* wait_for_worker.  It runs in the manager's MCP server, which a send     *)
(* blocks, so it starts between sends.                                     *)
(***************************************************************************)
Minus(a, b) == IF a >= b THEN a - b ELSE 0

\* Mutant: processing_since is ignored.
TaskedAtOnly == Minus(record.tasked, Grace)

\* Mutant: no grace.
NoGrace ==
    Max({record.tasked} \union IF record.state = "processing" THEN {record.since} ELSE {})

\* min_completed_at: tasked_at, and processing_since while processing; 0 when
\* neither is set or there is no ACTIVE record.
MinCompletedAt ==
    LET bound == Max({record.tasked}
                       \union IF record.state = "processing" THEN {record.since} ELSE {})
    IN  Minus(bound, Grace)

WaitStart ==
    /\ waiter.pc = "free"
    /\ sender.pc = "free"
    /\ LastSent > 0
    /\ waiter' = [pc |-> "first", task |-> LastSent,
                  busy |-> session.pc = "turn" /\ session.task = LastSent,
                  gated |-> Registered, bound |-> MinCompletedAt, got |-> 0, gotAt |-> 0]
    /\ UNCHANGED <<now, record, session, pane, done, sender, closer, sentAt>>

Admitted == {e \in done : e.at >= waiter.bound}

\* _latest_done_event, before the loop and in it.
WaitLook ==
    /\ waiter.pc \in {"first", "look"}
    /\ \/ \E e \in Admitted :
            /\ \A f \in Admitted : f.at <= e.at
            /\ waiter' = [waiter EXCEPT !.pc = "done", !.got = e.task, !.gotAt = e.at]
       \/ /\ Admitted = {}
          /\ waiter' = [waiter EXCEPT !.pc = CASE waiter.pc = "look" -> "check"
                                              [] waiter.gated         -> "look"
                                              [] OTHER                -> "exited"]
    /\ UNCHANGED <<now, record, session, pane, done, sender, closer, sentAt>>

\* The ACTIVE file is gone: the worker exited.  Otherwise sleep and poll.
WaitCheck ==
    /\ waiter.pc = "check"
    /\ waiter' = [waiter EXCEPT !.pc = IF Registered THEN "look" ELSE "exited"]
    /\ UNCHANGED <<now, record, session, pane, done, sender, closer, sentAt>>

\* The result is read by the manager, or the deadline raises TimeoutError.
WaitReturn ==
    /\ waiter.pc \in {"done", "exited", "check"}
    /\ waiter' = FreeWaiter
    /\ UNCHANGED <<now, record, session, pane, done, sender, closer, sentAt>>

(***************************************************************************)
(* The stale monitor                                                       *)
(***************************************************************************)
\* The scan reads the record; it is idle, and has been for IDLE_THRESHOLD.
CloseJudge ==
    /\ closer.pc = "free"
    /\ record.state = "idle"
    /\ closer' = [closer EXCEPT !.pc = "judged"]
    /\ UNCHANGED <<now, record, session, pane, done, sender, waiter, sentAt>>

\* _autoclose_idle_worker reads transcript and process table for a while; a
\* worker that looks busy is left alone ...
CloseAbandon ==
    /\ closer.pc = "judged"
    /\ closer' = [closer EXCEPT !.pc = "free"]
    /\ UNCHANGED <<now, record, session, pane, done, sender, waiter, sentAt>>

\* ... else the CLOSED record is written and the ACTIVE one removed,
CloseUnlink ==
    /\ closer.pc = "judged"
    /\ record' = NoRecord
    /\ closer' = [closer EXCEPT !.pc = "unlinked"]
    /\ UNCHANGED <<now, session, pane, done, sender, waiter, sentAt>>

\* and the recorded window is closed; TmuxDriver.close ignores a window id
\* that is stale, so the session may live on without a record.
CloseWindow ==
    /\ closer.pc = "unlinked"
    /\ closer' = [closer EXCEPT !.pc = "free"]
    /\ \/ session' = [session EXCEPT !.pc = "gone"]
       \/ UNCHANGED session
    /\ UNCHANGED <<now, record, pane, done, sender, waiter, sentAt>>

\* _prune_stale_active_records: the pid is dead and the pane is not listed.
\* A pane still listed, or a listing that fails, leaves the record, and
\* nothing schedules the prune, so a dead worker's record may stay.
Prune ==
    /\ Registered
    /\ ~Alive
    /\ record' = NoRecord
    /\ UNCHANGED <<now, session, pane, done, sender, waiter, closer, sentAt>>

(***************************************************************************)
(* Specification                                                           *)
(***************************************************************************)
Turn == SubmitPrompt \/ StampProcessing \/ StopRead \/ StopWrite

Send == SendResolve \/ SendText \/ SendStamp \/ SendFails

Wait == WaitLook \/ WaitCheck

Close == CloseJudge \/ CloseAbandon \/ CloseUnlink \/ CloseWindow

RetaskNext ==
    \/ Tick
    \/ (Alive /\ (Turn \/ WorkerDone \/ SessionEnd)) \/ Crash
    \/ SendRead \/ Send
    \/ WaitStart \/ Wait \/ WaitReturn
    \/ Close \/ Prune

RetaskSpec == RetaskInit /\ [][RetaskNext]_retaskVars

\* A waiting call polls.  Nothing else is assumed: neither a prune nor the
\* deadline of the call.
RetaskFairness == WF_retaskVars(Wait)

FairRetask == RetaskSpec /\ RetaskFairness

(***************************************************************************)
(* Properties                                                              *)
(***************************************************************************)
\* The done event a wait returned reports an earlier task than the one it
\* waits for, completed before that one was sent, by more than the grace.
Stale ==
    /\ waiter.pc = "done"
    /\ waiter.got < waiter.task
    /\ waiter.gotAt + Grace < sentAt[waiter.task]

\* A wait that starts while the worker's turn on the task runs never returns
\* the done event of an earlier task: processing_since holds the bound even
\* where stop_hook overwrote tasked_at, and tasked_at where a late send
\* overwrote processing_since.
BusyWaitIsFresh == waiter.busy /\ waiter.gated => ~Stale

\* While a turn runs, the record's episode (tasked_at or processing_since)
\* is not older than the task the turn is about, whoever wrote it last, once
\* the send that is in flight has stamped it.
EpisodeIsCurrent ==
    RetaskTypeOK /\
    ((session.pc = "turn" /\ Registered /\ sender.pc = "free"
        /\ sentAt[session.task] # Never)
      => Max({record.tasked, record.since}) >= sentAt[session.task])

Polling == waiter.pc \in {"first", "look", "check"}

\* The awaited task has been reported, at or after its send's stamp up to
\* the grace (typed before it is stamped, a task may be done by then).
Reported == \E e \in done : e.task = waiter.task /\ e.at + Grace >= sentAt[waiter.task]

\* The worker is gone, and nobody is left who would write its record back.
GoneForGood == ~Alive /\ ~Registered /\ sender.pc = "free"

\* wait_for_worker comes back without its deadline: on the report of the
\* task it waits for, whichever of send, hooks and auto-close wrote the
\* record's two stamps last before the wait took its bound from them, and on
\* a worker that is gone for good, record and all.
WaitComesBack ==
    /\ (Polling /\ Reported) ~> ~Polling
    /\ (Polling /\ GoneForGood) ~> ~Polling

(***************************************************************************)
(* A claim of the tests                                                    *)
(***************************************************************************)
\* tests/test_mcp_tools.py: "stale done must not satisfy the wait".
GatedWaitIsFresh == waiter.gated => ~Stale
==============================================================================
