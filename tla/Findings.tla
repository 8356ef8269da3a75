------------------------------- MODULE Findings -------------------------------
(***************************************************************************)
(* How the end of a session becomes a finding: selffix-trigger.sh, the     *)
(* SessionEnd hook; selffix-run.sh, the retrospective it starts, which     *)
(* waits for the lock the loops share; and the retry queue                 *)
(* (selffix-retry-lib.sh), which gardener_gate.py serves at every tick.    *)
(* Digest adds the gardener's runs, which read the findings.               *)
(*                                                                         *)
(* A finding is a file: it has content or is a stub (empty, or ended in an *)
(* error), is reviewed when a .reviewed file stands beside it, and is      *)
(* fresh while its mtime is later than the marker the last good digest     *)
(* touched.  The lock is the one RunLock is about, acquired in one step;   *)
(* what RunLock shows it to allow is here: a holder that is killed leaves  *)
(* the lock behind, with its pid or without one, and a live holder loses   *)
(* it to two contenders, to an age of two hours or to its own TERM trap.   *)
(***************************************************************************)
EXTENDS Naturals, FiniteSets

CONSTANTS
    Sessions,   \* sessions worth a retrospective: the trigger rates them high
    Jobs,       \* slots for selffix-run processes
    Runs,       \* slots for gardener-run processes
    MaxEnds,    \* bound: how often one session ends (it may be resumed)
    MaxActs,    \* bound: what people and the clock do
    MaxFaults   \* bound: failures, timeouts and deaths

Free == "free"
Dead == "dead"  \* the lock of a holder that was killed
Bare == "bare"  \* a lock without a pid: its maker was killed before it wrote one

ASSUME SlotsAssumption == /\ Jobs \cap Runs = {}
                          /\ {Free, Dead, Bare} \cap (Jobs \cup Runs) = {}
ASSUME EndsAssumption == MaxEnds \in Nat

VARIABLES
    finding,    \* per session: its finding file
    ends,       \* per session: SessionEnd hooks so far
    dedup,      \* sessions whose dedup key was touched in the last hour
    job,        \* per slot: a selffix-run process
    queue,      \* sessions with a file in the retry directory
    brick,      \* a manager was limited in the last five minutes
    lock,       \* the holder of analyst-run.lock
    loose,      \* processes that go on although they have lost the lock
    orphan,     \* sessions with a claude that outlived its selffix-run
    known,      \* ghost, below
    dropped,    \* ghost: sessions whose retry could not be started
    budget      \* acts and faults so far

findVars == <<finding, ends, dedup, job, queue, brick, lock, loose, orphan, known, dropped, budget>>

(***************************************************************************)
(* The ghost known is what is known of the texts, as they are now:         *)
(*   read      a good digest has read them                                 *)
(*   same[r]   they are as they were when the analyst of r read            *)
(*   stray     written by an orphan, or while a loose process was about,   *)
(*             and no good digest has begun since                          *)
(***************************************************************************)

NoFinding == [there |-> FALSE, content |-> FALSE, reviewed |-> FALSE, fresh |-> FALSE]
NoJob == [sid |-> Free, attempt |-> 0, pc |-> "none"]

FindingsTypeOK ==
    /\ finding \in [Sessions -> [there: BOOLEAN, content: BOOLEAN,
                                 reviewed: BOOLEAN, fresh: BOOLEAN]]
    /\ ends \in [Sessions -> 0..MaxEnds]
    /\ dedup \cup queue \cup orphan \cup dropped \subseteq Sessions
    /\ known \in [read: SUBSET Sessions, stray: SUBSET Sessions, same: [Runs -> SUBSET Sessions]]
    /\ job \in [Jobs -> [sid: Sessions \cup {Free}, attempt: 0..1, pc: {"none", "wait", "run"}]]
    /\ lock \in Jobs \cup Runs \cup {Free, Dead, Bare} /\ loose \subseteq Jobs \cup Runs
    /\ \A j \in Jobs : job[j].pc = "run" => lock = j \/ j \in loose

FindingsInit ==
    /\ finding = [s \in Sessions |-> NoFinding]
    /\ ends = [s \in Sessions |-> 0]
    /\ dedup = {} /\ queue = {} /\ orphan = {} /\ dropped = {} /\ brick = FALSE
    /\ lock = Free /\ loose = {}
    /\ known = [read |-> {}, stray |-> {}, same |-> [r \in Runs |-> {}]]
    /\ job = [j \in Jobs |-> NoJob]
    /\ budget = [acts |-> 0, faults |-> 0]

\* slots are alike: a new process takes some idle one
AnyOf(idle) == CHOOSE p \in idle : TRUE

Act == budget.acts < MaxActs /\ budget' = [budget EXCEPT !.acts = @ + 1]
Fault == budget.faults < MaxFaults /\ budget' = [budget EXCEPT !.faults = @ + 1]

-----------------------------------------------------------------------------
(* The lock *)

\* of a dead holder at once, and of none after two hours
Takes(p) == /\ lock \in {Free, Dead, Bare} /\ lock' = p
            /\ UNCHANGED <<loose, budget>>

\* The holder lives: it made the lock after somebody else was found dead, or
\* the lock is over two hours old, the machine having slept.
Steals(p) == /\ Fault /\ lock \in Jobs \cup Runs /\ lock' = p
             /\ loose' = loose \cup {lock}

\* runlock_release leaves the lock of somebody else alone
Unlock(p) == /\ lock' = IF lock = p THEN Free ELSE lock
             /\ loose' = loose \ {p}

\* a kill leaves the pid behind, or the directory alone if p was about to write it
Abandons(p, making) ==
    /\ \/ lock' = IF lock = p THEN Dead ELSE lock
       \/ making /\ lock \in {Free, Dead} /\ lock' = Bare
    /\ loose' = loose \ {p}

-----------------------------------------------------------------------------
\* the text of s is another one; outside: nothing kept its writer from a run
Written(s, outside) ==
    known' = [read |-> known.read \ {s},
              stray |-> IF outside THEN known.stray \cup {s} ELSE known.stray \ {s},
              same |-> [r \in Runs |-> known.same[r] \ {s}]]
Unguarded(j) == j \in loose \/ loose \cap Runs # {}

\* selffix-trigger.sh: no second retrospective beside an existing finding or
\* within an hour of the last; a limited account puts it off to the queue
Spawn(s, attempt) ==
    LET idle == {j \in Jobs : job[j].pc = "none"}
    IN /\ idle # {}
       /\ job' = [job EXCEPT ![AnyOf(idle)] = [sid |-> s, attempt |-> attempt, pc |-> "wait"]]

Trigger(s) ==
    /\ ends[s] < MaxEnds
    /\ ends' = [ends EXCEPT ![s] = @ + 1]
    /\ IF finding[s].there \/ s \in dedup
       THEN UNCHANGED <<dedup, queue, job>>
       ELSE /\ dedup' = dedup \cup {s}
            /\ IF brick THEN queue' = queue \cup {s} /\ UNCHANGED job
                        ELSE Spawn(s, 0) /\ UNCHANGED queue
    /\ dropped' = dropped \ queue'
    /\ UNCHANGED <<finding, brick, lock, loose, orphan, known, budget>>

\* an hour passes; and the trigger prunes what was reviewed a fortnight ago
Expire(s) ==
    /\ Act
    /\ \/ s \in dedup /\ dedup' = dedup \ {s} /\ UNCHANGED <<finding, orphan>>
       \/ /\ finding[s].reviewed /\ finding' = [finding EXCEPT ![s] = NoFinding]
          /\ orphan' = orphan \ {s}     \* whose output goes with the file
          /\ UNCHANGED dedup
    /\ UNCHANGED <<ends, job, queue, brick, lock, loose, known, dropped>>

Limited == /\ IF brick THEN UNCHANGED budget ELSE Act
           /\ brick' = ~brick
           /\ UNCHANGED <<finding, ends, dedup, job, queue, lock, loose, orphan, known, dropped>>

\* enqueue_retry: only a first attempt is put into the queue again
Enqueue(j) == IF job[j].attempt = 0 THEN queue \cup {job[j].sid} ELSE queue

\* a missing transcript, or one with no model turn: nothing to do
NotWorth(j) ==
    /\ Fault /\ job[j].pc = "wait"
    /\ job' = [job EXCEPT ![j] = NoJob]
    /\ UNCHANGED <<finding, ends, dedup, queue, brick, lock, loose, orphan, known, dropped>>

\* what was in the finding is gone
Empty(j) == /\ finding' = [finding EXCEPT ![job[j].sid] = [@ EXCEPT !.there = TRUE,
                                             !.content = FALSE, !.fresh = TRUE]]
            /\ Written(job[j].sid, Unguarded(j))
            /\ job' = [job EXCEPT ![j].pc = "run"]
            /\ UNCHANGED <<ends, dedup, queue, brick, orphan, dropped>>

\* the mutated retrospective does not wait for its turn
JobUnlocked(j) ==
    /\ job[j].pc = "wait"
    /\ lock' = IF lock = Free THEN j ELSE lock
    /\ Empty(j)
    /\ UNCHANGED <<loose, budget>>

\* runlock_acquire wait, then the finding is emptied for the output
JobLock(j) == job[j].pc = "wait" /\ Takes(j) /\ Empty(j)
JobSteals(j) == job[j].pc = "wait" /\ Steals(j) /\ Empty(j)

\* the lock was not to be had for two hours: the retrospective is put off
JobGivesUp(j) ==
    /\ Fault /\ job[j].pc = "wait" /\ lock \notin {Free, Dead}
    /\ queue' = Enqueue(j) /\ dropped' = dropped \ queue'
    /\ job' = [job EXCEPT ![j] = NoJob]
    /\ UNCHANGED <<finding, ends, dedup, brick, lock, loose, orphan, known>>

\* The output is complete; or the process failed, said so or wrote a stub,
\* which is put into the queue.  A TERM ends the wait for the claude, not the
\* claude, which has a process group of its own.
JobEnds(j, good, termed) ==
    /\ job[j].pc = "run"
    /\ IF good THEN UNCHANGED budget ELSE Fault
    /\ finding' = [finding EXCEPT ![job[j].sid] = [@ EXCEPT !.there = TRUE, !.content = @ \/ good,
                                                            !.fresh = TRUE]]
    /\ Written(job[j].sid, Unguarded(j))
    /\ queue' = IF good THEN queue ELSE Enqueue(j)
    /\ dropped' = dropped \ queue'
    /\ orphan' = IF termed THEN orphan \cup {job[j].sid} ELSE orphan
    /\ job' = [job EXCEPT ![j] = NoJob]
    /\ Unlock(j)
    /\ UNCHANGED <<ends, dedup, brick>>

\* killed; the claude it started lives on
JobDies(j) ==
    /\ Fault /\ job[j].pc # "none"
    /\ orphan' = IF job[j].pc = "run" THEN orphan \cup {job[j].sid} ELSE orphan
    /\ job' = [job EXCEPT ![j] = NoJob]
    /\ Abandons(j, job[j].pc = "wait")
    /\ UNCHANGED <<finding, ends, dedup, queue, brick, known, dropped>>

\* an orphan writes its output and ends, or its watchdog ends it
OrphanWrites(s) ==
    /\ s \in orphan /\ finding[s].there
    /\ orphan' = orphan \ {s}
    /\ finding' = [finding EXCEPT ![s] = [@ EXCEPT !.content = TRUE, !.fresh = TRUE]]
    /\ Written(s, TRUE)
    /\ UNCHANGED <<ends, dedup, job, queue, brick, lock, loose, dropped, budget>>

OrphanEnds(s) ==
    /\ s \in orphan /\ orphan' = orphan \ {s}
    /\ UNCHANGED <<finding, ends, dedup, job, queue, brick, lock, loose, known, dropped, budget>>

JobStep(j) == JobLock(j) \/ \E good \in BOOLEAN : JobEnds(j, good, FALSE)

\* process_retry_queue, for the entry whose turn it is: put off while an
\* account is limited; taken out of the queue before the process is started
Retry(s, started) ==
    /\ s \in queue
    /\ IF brick THEN UNCHANGED <<queue, dropped, job, budget>>
       ELSE /\ queue' = queue \ {s}
            /\ IF started THEN Spawn(s, 1) /\ UNCHANGED <<dropped, budget>>
                          ELSE Fault /\ dropped' = dropped \cup {s} /\ UNCHANGED job

FindingsNext ==
    \/ \E s \in Sessions : Trigger(s) \/ Expire(s) \/ OrphanWrites(s) \/ OrphanEnds(s)
    \/ Limited
    \/ \E j \in Jobs : \/ JobStep(j) \/ JobSteals(j) \/ JobEnds(j, FALSE, TRUE)
                       \/ NotWorth(j) \/ JobGivesUp(j) \/ JobDies(j)
=============================================================================
