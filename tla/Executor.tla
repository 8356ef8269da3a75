------------------------------ MODULE Executor ------------------------------
(***************************************************************************)
(* The action executor (deploy/scripts/action_executor.py).  A worker      *)
(* proposes actions in a file, and after an approval the manager runs the  *)
(* executor on it, as often as it likes and from several sessions.  A call *)
(* validates the items, starts one actuator process for each that passed,  *)
(* and appends what happens to a ledger it never rewrites; the ledger is   *)
(* what keeps an action from being done twice.                             *)
(*                                                                         *)
(* A call may die anywhere, with half a line written, and leaves the       *)
(* actuator it had started to itself.  The ledger is read as a set of      *)
(* facts, whatever their order and number, and is modelled as one.  A call *)
(* that refuses before it takes the lock (a proposal or verb-config that   *)
(* is not valid, is stale or asks for too much) and a dry run change       *)
(* nothing: they are steps that stutter.                                   *)
(***************************************************************************)
EXTENDS Naturals, Sequences

CONSTANTS
    Calls,     \* invocations of the executor
    Verbs,     \* kinds of action; each call is for one
    Ids,       \* id_template applied to an item
    MaxItems,  \* max_items of the verb-configs
    MaxRuns,   \* bound: how often a call gets the lock
    MaxFaults, \* bound: calls that die
    None

ASSUME CallsAssumption == None \notin Calls
ASSUME BoundsAssumption == MaxItems \in Nat /\ MaxRuns \in Nat /\ MaxFaults \in Nat

\* a record of the ledger counts for the calls of its own verb only
Keys == Verbs \X Ids

\* Where an item fails in classify_item: a field is missing or has the wrong
\* syntax, require, forbid or allow leave it out, its value is not in the
\* file it should be grounded in (which may have changed since the last
\* call), its id_key is empty, or nowhere.
Gates == {"form", "policy", "ground", "noid", "ok"}
Items(v) == [key : {v} \X Ids, gate : Gates]

\* what a call has decided about an item, and how its attempt ended
Kinds == {"REFUSED", "FILTERED", "EXECUTE"}
Decided == [key : Keys, kind : Kinds]

VARIABLES
    ledger,  \* ledger.jsonl: the keys with a record of each type, a torn line
    lock,    \* the holder of the flock on ledger.lock
    running,    \* the calls in progress
    orphan,  \* actuators whose call died
    effect,  \* the actions that took effect
    twice,   \* ... and those that did so more than once
    budget   \* runs and faults so far

executorVars == <<ledger, lock, running, orphan, effect, twice, budget>>

Idle == [pc |-> "idle", verb |-> None, items |-> <<>>, todo |-> <<>>, acted |-> FALSE,
         ok |-> FALSE]

ExecutorTypeOK ==
    /\ ledger \in [dispatched : SUBSET Keys, executed : SUBSET Keys,
                   failed : SUBSET Keys, torn : BOOLEAN]
    /\ lock \in Calls \union {None}
    /\ running \in [Calls -> [pc : {"idle", "read", "run", "item", "start", "wait", "outcome"},
                           verb : Verbs \union {None}, items : Seq([key : Keys, gate : Gates]),
                           todo : Seq(Decided), acted : BOOLEAN, ok : BOOLEAN]]
    /\ orphan \in SUBSET Keys /\ effect \in SUBSET Keys /\ twice \in SUBSET Keys
    /\ budget \in [runs : Nat, faults : Nat]

ExecutorInit ==
    /\ ledger = [dispatched |-> {}, executed |-> {}, failed |-> {}, torn |-> FALSE]
    /\ lock = None
    /\ running = [c \in Calls |-> Idle]
    /\ orphan = {} /\ effect = {} /\ twice = {}
    /\ budget = [runs |-> 0, faults |-> 0]

-----------------------------------------------------------------------------
(* One call *)

\* The checks before the lock: the proposal parses and is not empty, the
\* verb-config is valid, the proposal is fresh and not over the cap.
Acceptable(items) == items # <<>> /\ Len(items) <= MaxItems

\* LOCK_EX | LOCK_NB: a call that finds the lock held refuses.
AcquireLock(c, v, items) ==
    /\ running[c].pc = "idle" /\ lock = None
    /\ budget.runs < MaxRuns
    /\ Acceptable(items)
    /\ lock' = c
    /\ running' = [running EXCEPT ![c] = [Idle EXCEPT !.pc = "read", !.verb = v, !.items = items]]
    /\ budget' = [budget EXCEPT !.runs = @ + 1]
    /\ UNCHANGED <<ledger, orphan, effect, twice>>

\* A dispatch counts as resolved by any outcome recorded for its key, of
\* whatever attempt.
Unresolved == ledger.dispatched \ (ledger.executed \union ledger.failed)
OfVerb(v) == {v} \X Ids

\* the mutated reader drops the second half of executed_keys_from_ledger
OnlyDamage(v) == ledger.torn

Anomaly(v) == ledger.torn \/ Unresolved \intersect OfVerb(v) # {}

\* the mutated loop has no batch_keys
NotInBatch(items, i) == FALSE

InBatch(items, i) ==
    \E j \in 1..(i-1) : items[j].key = items[i].key /\ items[j].gate = "ok"

\* classify_item, and batch_keys for a key that comes twice
Disposition(items, i) ==
    CASE items[i].gate \in {"form", "ground"} -> "REFUSED"
      [] items[i].gate = "policy" -> "FILTERED"
      [] OTHER -> IF items[i].key \in ledger.executed \/ InBatch(items, i)
                  THEN "FILTERED" ELSE "EXECUTE"

Plan(items) == [i \in 1..Len(items) |-> [key |-> items[i].key, kind |-> Disposition(items, i)]]

\* an item without an id would be invisible to the dedup set
NoId(items) == \E i \in 1..Len(items) : items[i].gate = "noid"

\* Both the dedup set and the anomalies come from one reading of the ledger,
\* under the lock.
ReadLedger(c) ==
    /\ running[c].pc = "read"
    /\ IF Anomaly(running[c].verb) \/ NoId(running[c].items)
       THEN /\ running' = [running EXCEPT ![c] = Idle]
            /\ lock' = None
       ELSE /\ running' = [running EXCEPT ![c].pc = "run", ![c].todo = Plan(running[c].items)]
            /\ UNCHANGED lock
    /\ UNCHANGED <<ledger, orphan, effect, twice, budget>>

\* the "run" record, which nothing reads
AppendRun(c) ==
    /\ running[c].pc = "run"
    /\ running' = [running EXCEPT ![c].pc = "item"]
    /\ UNCHANGED <<ledger, lock, orphan, effect, twice, budget>>

\* a refused or filtered item: a record that nothing reads
Skip(c) ==
    /\ running[c].pc = "item" /\ running[c].todo # <<>>
    /\ Head(running[c].todo).kind # "EXECUTE"
    /\ running' = [running EXCEPT ![c].todo = Tail(@)]
    /\ UNCHANGED <<ledger, lock, orphan, effect, twice, budget>>

Cur(c) == Head(running[c].todo).key

\* the intent is written ahead of the action
AppendDispatch(c) ==
    /\ running[c].pc = "item" /\ running[c].todo # <<>>
    /\ Head(running[c].todo).kind = "EXECUTE"
    /\ ledger' = [ledger EXCEPT !.dispatched = @ \union {Cur(c)}]
    /\ running' = [running EXCEPT ![c].pc = "start"]
    /\ UNCHANGED <<lock, orphan, effect, twice, budget>>

\* subprocess.run: the actuator starts, or cannot be started
Start(c) ==
    /\ running[c].pc = "start"
    /\ running' = [running EXCEPT ![c].pc = "wait", ![c].acted = FALSE]
    /\ UNCHANGED <<ledger, lock, orphan, effect, twice, budget>>

SpawnError(c) ==
    /\ running[c].pc = "start"
    /\ running' = [running EXCEPT ![c].pc = "outcome", ![c].ok = FALSE]
    /\ UNCHANGED <<ledger, lock, orphan, effect, twice, budget>>

TakesEffect(k) ==
    /\ effect' = effect \union {k}
    /\ twice' = twice \union ({k} \intersect effect)

\* The actuator does what it is for, once, and exits 0 only then.
Act(c) ==
    /\ running[c].pc = "wait" /\ ~running[c].acted
    /\ TakesEffect(Cur(c))
    /\ running' = [running EXCEPT ![c].acted = TRUE]
    /\ UNCHANGED <<ledger, lock, orphan, budget>>

\* It exits, or is killed at timeout_sec: without exit code 0 nothing is known
\* of what it did.
Exit(c, ok) ==
    /\ running[c].pc = "wait"
    /\ ok => running[c].acted
    /\ running' = [running EXCEPT ![c].pc = "outcome", ![c].ok = ok]
    /\ UNCHANGED <<ledger, lock, orphan, effect, twice, budget>>

AppendOutcome(c) ==
    /\ running[c].pc = "outcome"
    /\ ledger' = IF running[c].ok THEN [ledger EXCEPT !.executed = @ \union {Cur(c)}]
                               ELSE [ledger EXCEPT !.failed = @ \union {Cur(c)}]
    /\ running' = [running EXCEPT ![c].pc = "item", ![c].todo = Tail(@)]
    /\ UNCHANGED <<lock, orphan, effect, twice, budget>>

\* the end of main closes the lock file
Return(c) ==
    /\ running[c].pc = "item" /\ running[c].todo = <<>>
    /\ running' = [running EXCEPT ![c] = Idle]
    /\ lock' = None
    /\ UNCHANGED <<ledger, orphan, effect, twice, budget>>

Appending(c) ==
    running[c].pc \in {"run", "outcome"} \/ (running[c].pc = "item" /\ running[c].todo # <<>>)

\* The call is killed, or an append raises (the disk is full).  The kernel
\* drops the lock; the actuator does not hear of it.
CallDies(c) ==
    /\ running[c].pc # "idle"
    /\ budget.faults < MaxFaults
    /\ budget' = [budget EXCEPT !.faults = @ + 1]
    /\ \E torn \in BOOLEAN :
         /\ torn => Appending(c)
         /\ ledger' = [ledger EXCEPT !.torn = @ \/ torn]
    /\ orphan' = IF running[c].pc = "wait" /\ ~running[c].acted THEN orphan \union {Cur(c)}
                                                         ELSE orphan
    /\ running' = [running EXCEPT ![c] = Idle]
    /\ lock' = None
    /\ UNCHANGED <<effect, twice>>

-----------------------------------------------------------------------------
(* Around the calls *)

OrphanActs(k) ==
    /\ k \in orphan
    /\ TakesEffect(k)
    /\ orphan' = orphan \ {k}
    /\ UNCHANGED <<ledger, lock, running, budget>>

OrphanEnds(k) ==
    /\ k \in orphan
    /\ orphan' = orphan \ {k}
    /\ UNCHANGED <<ledger, lock, running, effect, twice, budget>>

\* The operator repairs the ledger while no call runs, as the refusals ask:
\* drops a torn line, and settles an unresolved dispatch, once its actuator
\* is gone, by what it did.
Mend ==
    /\ lock = None /\ ledger.torn
    /\ ledger' = [ledger EXCEPT !.torn = FALSE]
    /\ UNCHANGED <<lock, running, orphan, effect, twice, budget>>

Settle(k) ==
    /\ lock = None /\ k \in Unresolved \ orphan
    /\ ledger' = IF k \in effect THEN [ledger EXCEPT !.executed = @ \union {k}]
                                 ELSE [ledger EXCEPT !.failed = @ \union {k}]
    /\ UNCHANGED <<lock, running, orphan, effect, twice, budget>>

Step(c) ==
    \/ ReadLedger(c) \/ AppendRun(c) \/ Skip(c) \/ AppendDispatch(c)
    \/ Start(c) \/ SpawnError(c) \/ Act(c) \/ AppendOutcome(c) \/ Return(c)
    \/ \E ok \in BOOLEAN : Exit(c, ok)

Proposals(v) == UNION {[1..n -> Items(v)] : n \in 0..MaxItems}

ExecutorNext ==
    \/ \E c \in Calls : \/ \E v \in Verbs : \E items \in Proposals(v) : AcquireLock(c, v, items)
                        \/ Step(c) \/ CallDies(c)
    \/ \E k \in Keys : OrphanActs(k) \/ OrphanEnds(k) \/ Settle(k)
    \/ Mend

ExecutorSpec == ExecutorInit /\ [][ExecutorNext]_executorVars

-----------------------------------------------------------------------------
(* Properties *)

\* An action takes effect a second time only if an attempt at it is on record
\* as failed (a timeout, say, of an actuator that had done its work): not
\* because calls raced, died, lost their last line or left an actuator
\* behind, and not by a key that comes twice in one proposal.
TwiceOnlyAfterFailure == ExecutorTypeOK /\ twice \subseteq ledger.failed

\* No actuator is started for a key the ledger has as executed, by whichever
\* call and however long ago that call read the ledger.
Starts(c) == running[c].pc = "start" /\ running'[c].pc = "wait"

ExecutedIsFinal ==
    [][\A c \in Calls : Starts(c) => Cur(c) \notin ledger.executed]_executorVars

\* The ledger accounts for every effect, and has none as executed that did
\* not happen.
EffectsAreOnRecord == effect \subseteq ledger.dispatched /\ ledger.executed \subseteq effect

\* "unresolved dispatch - the actuator may have run": while the outcome of an
\* attempt is unknown no other starts.  The code does not have this: once a
\* key has a failure on record, a later attempt that dies leaves no trace.
UnknownBlocks == [][\A c \in Calls : Starts(c) => Cur(c) \notin orphan]_executorVars
=============================================================================
