-------------------------------- MODULE Slots --------------------------------
(***************************************************************************)
(* The worker slots of one category: a counting semaphore that lives in    *)
(* slots/<category>.json and is changed by the MCP servers of all workers  *)
(* under one file lock, so that one attempt is one step.                   *)
(*                                                                         *)
(* A holder is known by its session id and by the pid of the MCP server    *)
(* that took the slot.  acquire_worker_slot evicts holders whose ACTIVE    *)
(* record or whose pid is gone, whatever their session is doing.           *)
(***************************************************************************)
EXTENDS Naturals, FiniteSets

CONSTANTS
    Workers,    \* claude_sid of the sessions
    SlotIds,    \* uuid4 slot ids; their number bounds the grants
    NoSlot,     \* no slot
    CapOf,      \* per worker: what _resolve_max_concurrent gives its calls
    Cap,        \* the largest of them
    MaxRestarts \* bound on the restarts of each MCP server

ASSUME SlotsAssumption ==
    /\ NoSlot \notin SlotIds
    /\ Cap \in Nat
    /\ CapOf \in [Workers -> 0..Cap]
    /\ MaxRestarts \in Nat

VARIABLES
    holders,    \* slots/<category>.json
    active,     \* sessions that have an ACTIVE record
    server,     \* per session: the incarnation (pid) of its MCP server, 0 = down
    starts,     \* per session: MCP servers started so far
    call,       \* per session: the slot call its MCP server executes
    arg         \* per session: the slot that call is about

(***************************************************************************)
(* Observability variables.                                                *)
(***************************************************************************)
VARIABLES
    working,    \* per session: slots handed to it and not given back
    lapsed,     \* slots whose holder had, or got, no record or server
    lost,       \* slots whose caller did not wait for the answer
    granted     \* slots ever written to the file

file == <<holders, granted>>
process == <<active, server, starts, lapsed>>
caller == <<call, arg, working, lost>>
vars == <<holders, active, server, starts, call, arg, working, lapsed, lost, granted>>

Pids == 1..(MaxRestarts + 1)

SlotsOf(hs) == {h.slot : h \in hs}

TypeOK ==
    /\ holders \subseteq [slot : SlotIds, sid : Workers, pid : Pids]
    /\ active \subseteq Workers
    /\ server \in [Workers -> Pids \union {0}]
    /\ starts \in [Workers -> Pids]
    /\ call \in [Workers -> {"none", "acquire", "granted", "release"}]
    /\ arg \in [Workers -> SlotIds \union {NoSlot}]
    /\ working \in [Workers -> SUBSET SlotIds]
    /\ lapsed \subseteq SlotIds
    /\ lost \subseteq SlotIds
    /\ granted \subseteq SlotIds

Init ==
    /\ holders = {}
    /\ active = Workers
    /\ server = [w \in Workers |-> 1]
    /\ starts = [w \in Workers |-> 1]
    /\ call = [w \in Workers |-> "none"]
    /\ arg = [w \in Workers |-> NoSlot]
    /\ working = [w \in Workers |-> {}]
    /\ lapsed = {}
    /\ lost = {}
    /\ granted = {}

Up(w) == server[w] # 0

(***************************************************************************)
(* acquire_worker_slot                                                     *)
(***************************************************************************)
AcquireBegin(w) ==
    /\ Up(w) /\ call[w] = "none"
    /\ call' = [call EXCEPT ![w] = "acquire"]
    /\ UNCHANGED <<file, process, arg, working, lost>>

\* Mutant: the pid of a holder is not tested.
FreshRecord == {h \in holders : h.sid \in active}

\* _evict_stale_holders
Fresh == {h \in holders : h.sid \in active /\ server[h.sid] = h.pid}

\* Mutant: the slot is added although the category is full.
AdmitOneMore(w) ==
    /\ Up(w) /\ call[w] = "acquire"
    /\ Cardinality(Fresh) <= CapOf[w]
    /\ \E s \in SlotIds \ granted :
          /\ holders' = Fresh \union {[slot |-> s, sid |-> w, pid |-> server[w]]}
          /\ granted' = granted \union {s}
          /\ call' = [call EXCEPT ![w] = "granted"]
          /\ arg' = [arg EXCEPT ![w] = s]
          /\ lapsed' = IF w \in active THEN lapsed ELSE lapsed \union {s}
    /\ UNCHANGED <<active, server, starts, working, lost>>

\* The caller's own record is not looked at.
Admit(w) ==
    /\ Up(w) /\ call[w] = "acquire"
    /\ Cardinality(Fresh) < CapOf[w]
    /\ \E s \in SlotIds \ granted :
          /\ holders' = Fresh \union {[slot |-> s, sid |-> w, pid |-> server[w]]}
          /\ granted' = granted \union {s}
          /\ call' = [call EXCEPT ![w] = "granted"]
          /\ arg' = [arg EXCEPT ![w] = s]
          /\ lapsed' = IF w \in active THEN lapsed ELSE lapsed \union {s}
    /\ UNCHANGED <<active, server, starts, working, lost>>

\* Full: the evictions are written, and the call sleeps and tries again.
Full(w) ==
    /\ Up(w) /\ call[w] = "acquire"
    /\ Cardinality(Fresh) >= CapOf[w]
    /\ holders' = Fresh
    /\ UNCHANGED <<granted, process, caller>>

\* The deadline has passed: TimeoutError.
TimeOut(w) ==
    /\ Up(w) /\ call[w] = "acquire"
    /\ Cardinality(Fresh) >= CapOf[w]
    /\ holders' = Fresh
    /\ call' = [call EXCEPT ![w] = "none"]
    /\ UNCHANGED <<granted, process, arg, working, lost>>

\* The session gets its slot and starts to work ...
Deliver(w) ==
    /\ Up(w) /\ call[w] = "granted"
    /\ call' = [call EXCEPT ![w] = "none"]
    /\ arg' = [arg EXCEPT ![w] = NoSlot]
    /\ working' = [working EXCEPT ![w] = @ \union {arg[w]}]
    /\ UNCHANGED <<file, process, lost>>

\* ... or was interrupted while the call polled: nobody has the slot id.
Lose(w) ==
    /\ Up(w) /\ call[w] = "granted"
    /\ call' = [call EXCEPT ![w] = "none"]
    /\ arg' = [arg EXCEPT ![w] = NoSlot]
    /\ lost' = lost \union {arg[w]}
    /\ UNCHANGED <<file, process, working>>

(***************************************************************************)
(* release_worker_slot                                                     *)
(***************************************************************************)
ReleaseBegin(w) ==
    /\ Up(w) /\ call[w] = "none"
    /\ \E s \in working[w] :
          /\ working' = [working EXCEPT ![w] = @ \ {s}]
          /\ arg' = [arg EXCEPT ![w] = s]
    /\ call' = [call EXCEPT ![w] = "release"]
    /\ UNCHANGED <<file, process, lost>>

\* Mutant: every slot of the session goes.
ReleaseSession(w) ==
    /\ Up(w) /\ call[w] = "release"
    /\ holders' = {h \in holders : h.sid # w}
    /\ call' = [call EXCEPT ![w] = "none"]
    /\ arg' = [arg EXCEPT ![w] = NoSlot]
    /\ UNCHANGED <<granted, process, working, lost>>

\* A slot that was evicted meanwhile is not found; that is no error.
Release(w) ==
    /\ Up(w) /\ call[w] = "release"
    /\ holders' = {h \in holders : h.slot # arg[w]}
    /\ call' = [call EXCEPT ![w] = "none"]
    /\ arg' = [arg EXCEPT ![w] = NoSlot]
    /\ UNCHANGED <<granted, process, working, lost>>

(***************************************************************************)
(* What happens to sessions, records and MCP servers meanwhile             *)
(***************************************************************************)
HeldBy(w) == SlotsOf({h \in holders : h.sid = w})

\* The ACTIVE record goes while the session lives on (auto-close of a window
\* that does not close, a prune on a wrong pid).
LoseRecord(w) ==
    /\ w \in active
    /\ active' = active \ {w}
    /\ lapsed' = lapsed \union HeldBy(w)
    /\ UNCHANGED <<file, server, starts, caller>>

\* register_self, a late hook write or a resume brings it back.
Register(w) ==
    /\ w \notin active
    /\ active' = active \union {w}
    /\ lapsed' = lapsed \union HeldBy(w)
    /\ UNCHANGED <<file, server, starts, caller>>

\* The MCP server dies, with the call it executes; its session may go on
\* working.
ServerDies(w) ==
    /\ Up(w)
    /\ server' = [server EXCEPT ![w] = 0]
    /\ lapsed' = lapsed \union HeldBy(w)
    /\ call' = [call EXCEPT ![w] = "none"]
    /\ arg' = [arg EXCEPT ![w] = NoSlot]
    /\ UNCHANGED <<file, active, starts, working, lost>>

\* The session dies, or ends: its work ends with it.
SessionDies(w) ==
    /\ Up(w)
    /\ server' = [server EXCEPT ![w] = 0]
    /\ lapsed' = lapsed \union HeldBy(w)
    /\ call' = [call EXCEPT ![w] = "none"]
    /\ arg' = [arg EXCEPT ![w] = NoSlot]
    /\ working' = [working EXCEPT ![w] = {}]
    /\ UNCHANGED <<file, active, starts, lost>>

ServerStarts(w) ==
    /\ ~Up(w)
    /\ starts[w] <= MaxRestarts
    /\ starts' = [starts EXCEPT ![w] = @ + 1]
    /\ server' = [server EXCEPT ![w] = starts[w] + 1]
    /\ UNCHANGED <<file, active, lapsed, caller>>

(***************************************************************************)
(* Specification                                                           *)
(***************************************************************************)
Next ==
    \E w \in Workers :
        \/ AcquireBegin(w) \/ Admit(w) \/ Full(w) \/ TimeOut(w) \/ Deliver(w) \/ Lose(w)
        \/ ReleaseBegin(w) \/ Release(w)
        \/ LoseRecord(w) \/ Register(w) \/ ServerDies(w) \/ SessionDies(w) \/ ServerStarts(w)

Spec == Init /\ [][Next]_vars

(***************************************************************************)
(* Properties                                                              *)
(***************************************************************************)
Working == UNION {working[w] : w \in Workers}

\* However calls, deaths and evictions interleave, the slots at work whose
\* holder kept its record and its MCP server since it was admitted never
\* exceed the cap: only such a lapse lets one worker too many in.
CapKept == Cardinality(Working \ lapsed) <= Cap

\* A slot somebody holds: at work, on its way to or from the session, or lost.
Accounted == Working \union {arg[w] : w \in Workers} \union lost

\* A caller finds the category full only because of slots that live sessions
\* hold: what dead sessions, earlier incarnations and releases left behind
\* does not block it.
BlockedByUsers ==
    [][\A w \in Workers : Full(w) \/ TimeOut(w) => SlotsOf(holders') \subseteq Accounted]_vars

\* The file implements a counting semaphore.
Semaphores == INSTANCE Semaphore WITH Slots <- SlotIds, inUse <- SlotsOf(holders)

ImplementsSemaphore == Semaphores!Spec
==============================================================================
