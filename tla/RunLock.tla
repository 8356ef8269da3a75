------------------------------- MODULE RunLock -------------------------------
(***************************************************************************)
(* The run lock of the gardener and selffix loops (deploy/scripts/         *)
(* runlock.sh): a directory made with mkdir, with the holder's pid in a    *)
(* file inside, that is stolen with mv from a holder that is dead or has   *)
(* held it for too long.                                                   *)
(*                                                                         *)
(* Every command of the script is a step of its own, because other runs    *)
(* execute between any two of them.  A run of a loop is one process: it    *)
(* takes the lock at most once and exits.                                  *)
(***************************************************************************)
EXTENDS Naturals, FiniteSets

CONSTANTS
    Procs,      \* the runs, each with a pid of its own
    NoPid,      \* the pid file is missing or empty
    MaxDeaths,  \* bound on the runs killed before their exit trap
    Ages        \* whether a lock may outlive RUNLOCK_MAX_HOLD_SEC

ASSUME RunLockAssumption ==
    /\ NoPid \notin Procs
    /\ MaxDeaths \in Nat
    /\ Ages \in BOOLEAN

VARIABLES
    dir,        \* the lock directory: "none", "young", or older than
                \* RUNLOCK_MAX_HOLD_SEC ("aged")
    pid,        \* what its pid file holds
    pc,         \* per run: the command it executes next
    holder,     \* per run: $holder in _runlock_try_steal
    deaths,     \* runs killed so far
    overstayed, \* ghost: runs whose lock grew over-aged
    stale,      \* ghost: runs that judge a lock made after they looked at it
    blind       \* ghost: one of these stole it

ghosts == <<overstayed, stale, blind>>
lockVars == <<dir, pid, pc, holder, deaths, ghosts>>

LockTypeOK ==
    /\ dir \in {"none", "young", "aged"}
    /\ pid \in Procs \union {NoPid}
    /\ dir = "none" => pid = NoPid
    /\ pc \in [Procs -> {"start", "mkdir", "read", "kill", "age", "mv", "poll", "echo",
                         "held", "rm", "exited", "killed"}]
    /\ holder \in [Procs -> Procs \union {NoPid}]
    /\ deaths \in 0..MaxDeaths
    /\ overstayed \union stale \subseteq Procs /\ blind \in BOOLEAN

LockInit ==
    /\ dir = "none"
    /\ pid = NoPid
    /\ pc = [p \in Procs |-> "start"]
    /\ holder = [p \in Procs |-> NoPid]
    /\ deaths = 0
    /\ overstayed = {} /\ stale = {} /\ blind = FALSE

Dead(p) == pc[p] \in {"exited", "killed"}

Goto(p, label) == pc' = [pc EXCEPT ![p] = label]

Begin(p) ==
    /\ pc[p] = "start"
    /\ Goto(p, "mkdir")
    /\ UNCHANGED <<dir, pid, holder, deaths, ghosts>>

\* while ! mkdir "$RUNLOCK_DIR"
Mkdir(p) ==
    /\ pc[p] = "mkdir"
    /\ \/ /\ dir = "none"
          /\ dir' = "young"
          /\ Goto(p, "echo")
          /\ stale' = stale \union {q \in Procs : pc[q] \in {"kill", "age", "mv"}}
       \/ /\ dir # "none"
          /\ Goto(p, "read")
          /\ UNCHANGED <<dir, stale>>
    /\ UNCHANGED <<pid, holder, deaths, overstayed, blind>>

\* holder=$(_runlock_holder_pid)
ReadHolder(p) ==
    /\ pc[p] = "read"
    /\ holder' = [holder EXCEPT ![p] = pid]
    /\ Goto(p, "kill")
    /\ stale' = stale \ {p}
    /\ UNCHANGED <<dir, pid, deaths, overstayed, blind>>

\* Mutant: a lock without a pid file is taken for a dead holder's.
StealUnnamed(p) ==
    /\ pc[p] = "kill"
    /\ Goto(p, IF holder[p] = NoPid \/ Dead(holder[p]) THEN "mv" ELSE "age")
    /\ UNCHANGED <<dir, pid, holder, deaths, ghosts>>

\* kill -0 "$holder"
CheckHolder(p) ==
    /\ pc[p] = "kill"
    /\ Goto(p, IF holder[p] # NoPid /\ Dead(holder[p]) THEN "mv" ELSE "age")
    /\ UNCHANGED <<dir, pid, holder, deaths, ghosts>>

\* Mutant: the age of the lock is not looked at.
IgnoreAge(p) ==
    /\ pc[p] = "age"
    /\ Goto(p, "poll")
    /\ UNCHANGED <<dir, pid, holder, deaths, ghosts>>

\* _runlock_dir_age
CheckAge(p) ==
    /\ pc[p] = "age"
    /\ Goto(p, IF dir = "aged" THEN "mv" ELSE "poll")
    /\ stale' = stale \ {p}
    /\ UNCHANGED <<dir, pid, holder, deaths, overstayed, blind>>

\* mv "$RUNLOCK_DIR" "$grave": whatever directory has that name now.
Steal(p) ==
    /\ pc[p] = "mv"
    /\ dir' = "none"
    /\ pid' = NoPid
    /\ Goto(p, IF dir # "none" THEN "mkdir" ELSE "poll")
    /\ blind' = (blind \/ (dir # "none" /\ p \in stale))
    /\ UNCHANGED <<holder, deaths, overstayed, stale>>

\* Nothing to steal: a waiter sleeps and tries again ...
Poll(p) ==
    /\ pc[p] = "poll"
    /\ Goto(p, "mkdir")
    /\ UNCHANGED <<dir, pid, holder, deaths, ghosts>>

\* ... unless it is in mode try or has waited for max_wait.
GiveUp(p) ==
    /\ pc[p] = "poll"
    /\ Goto(p, "exited")
    /\ UNCHANGED <<dir, pid, holder, deaths, ghosts>>

\* echo "$$" > "$RUNLOCK_DIR/pid"; its failure is not looked at.
WritePid(p) ==
    /\ pc[p] = "echo"
    /\ pid' = IF dir # "none" THEN p ELSE pid
    /\ Goto(p, "held")
    /\ UNCHANGED <<dir, holder, deaths, ghosts>>

\* runlock_release: a lock that carries another pid is not removed,
CheckOwner(p) ==
    /\ pc[p] = "held"
    /\ Goto(p, IF pid = p THEN "rm" ELSE "exited")
    /\ UNCHANGED <<dir, pid, holder, deaths, ghosts>>

\* rm -rf "$RUNLOCK_DIR", and the run exits.
Remove(p) ==
    /\ pc[p] = "rm"
    /\ dir' = "none"
    /\ pid' = NoPid
    /\ Goto(p, "exited")
    /\ UNCHANGED <<holder, deaths, ghosts>>

\* A run is killed before its EXIT trap.
Die(p) ==
    /\ ~Dead(p)
    /\ deaths < MaxDeaths
    /\ deaths' = deaths + 1
    /\ Goto(p, "killed")
    /\ UNCHANGED <<dir, pid, holder, ghosts>>

\* RUNLOCK_MAX_HOLD_SEC pass.
Age ==
    /\ Ages
    /\ dir = "young"
    /\ dir' = "aged"
    /\ overstayed' = overstayed \union {p \in Procs : pc[p] \in {"echo", "held", "rm"}}
    /\ UNCHANGED <<pid, pc, holder, deaths, stale, blind>>

Acquire(p) ==
    Mkdir(p) \/ ReadHolder(p) \/ CheckHolder(p) \/ CheckAge(p) \/ Steal(p) \/ Poll(p) \/
    WritePid(p)

ReleaseLock(p) == CheckOwner(p) \/ Remove(p)

LockNext ==
    \/ \E p \in Procs : Begin(p) \/ Acquire(p) \/ GiveUp(p) \/ ReleaseLock(p) \/ Die(p)
    \/ Age

LockSpec == LockInit /\ [][LockNext]_lockVars

\* A started run goes on, its job is bounded by a timeout, and time passes.
Fairness ==
    /\ \A p \in Procs : WF_lockVars(Acquire(p)) /\ WF_lockVars(ReleaseLock(p))
    /\ WF_lockVars(Age)

FairSpec == LockSpec /\ Fairness

(***************************************************************************)
(* Properties                                                              *)
(***************************************************************************)
Holding(p) == pc[p] \in {"held", "rm"} /\ p \notin overstayed

\* Two runs never hold the lock at once, however many contend and whichever
\* dies where, as long as none has held it beyond RUNLOCK_MAX_HOLD_SEC and no
\* steal was decided on a look at an earlier lock than the one it moved.
Exclusive ==
    \A p, q \in Procs : Holding(p) /\ Holding(q) => p = q \/ overstayed # {} \/ blind

\* A run that wants the lock ends up holding it or giving up, although runs
\* die between mkdir and echo, or with the lock in hand.
Settles == \A p \in Procs : pc[p] = "mkdir" ~> (pc[p] = "held" \/ Dead(p))

(***************************************************************************)
(* The assertion of tests/test_runlock.py, test_try_yields_to_live_holder: *)
(* "live holder's lock was broken" must not happen.                        *)
(***************************************************************************)
\* A run that holds the lock and has not overstayed finds its pid in it.
LiveHolderKept == \A p \in Procs : Holding(p) => pid = p
==============================================================================
