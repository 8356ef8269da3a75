-------------------------------- MODULE Watch --------------------------------
(***************************************************************************)
(* The scans of one manager's stale monitor, and how their lines reach the *)
(* manager.                                                                *)
(*                                                                         *)
(* A scan reads the emitted state of the scan before it, looks at the      *)
(* manager, at its workers, at questions, windows, dialogs and the other   *)
(* lanes, types nudges, closes idle workers, collects lines, and only then *)
(* prints them: or, while the manager is limited, notes in a buffer that   *)
(* it did not.  What a scan remembers is written at its end.  In between   *)
(* the monitor may die, its reader may be gone and its writes may fail.    *)
(*                                                                         *)
(* One worker stands for all of them, one question, window, dialog and     *)
(* lane for each kind.  A scan is short against a tick.  The environment   *)
(* moves between scans; only the worker may also ask while one runs.       *)
(***************************************************************************)
EXTENDS Integers, Sequences, FiniteSets, FiniteSetsExt, SequencesExt

CONSTANTS
    Processing, RateLimit, Question, OrphanGrace, Repage, NudgeRepeat,
    IdleThreshold, BusyDeadline, Cadence, Retry, MaxHold,  \* in ticks
    LaneGap, LaneBase, LaneCap,                            \* in ticks
    None,
    MaxTime,     \* bound on the clock
    MaxEvents,   \* bound on what happens to worker, manager, windows and lanes
    MaxMishaps   \* bound on dying scans, dead readers, failing writes and
                 \* terminals that do not answer

ASSUME WatchAssumption ==
    /\ {Processing, RateLimit, Question, Repage, NudgeRepeat, LaneBase} \subseteq Nat \ {0}
    /\ {OrphanGrace, IdleThreshold, BusyDeadline, Cadence, Retry, MaxHold, LaneGap, LaneCap} \subseteq Nat
    /\ {MaxTime, MaxEvents, MaxMishaps} \subseteq Nat
    /\ IdleThreshold <= BusyDeadline
    /\ None \notin Nat

\* What is paged on a ladder, each under its key of the emitted state.
Kinds == {"stalled", "question", "orphan", "approval", "lane"}

VARIABLES
    now,
    worker,    \* its record and the end of its transcript
    since,     \* per kind: since when there is one, or None
    manager,   \* whether its transcript ends in a limit, and its last activity
    beat,      \* the other lane's heartbeat
    alive,     \* whether that lane's loop runs
    emitted,   \* .stale-emitted-<manager>.json
    flag,      \* .manager-limited-<manager>
    outbox,    \* notify-outbox/<manager>: when each line was put there
    scan,      \* the scan that runs
    due,       \* no scan since the last tick
    rested     \* the machine has been awake for a tick since it last slept

(***************************************************************************)
(* Observability variables.                                                *)
(***************************************************************************)
VARIABLES
    told,      \* per kind and alarm: the highest rung it was paged or nudged for
    nudge,     \* the last nudge of the worker: its turn, when, for what, on which
               \* rung unless a roll-up gave that up, whether RESUMED was said
               \* of it, and what was left of mishaps
    closed,    \* what became of the line of the worker's auto-close
    steady,    \* the scan before looked at the lane and was completed, and the
               \* lane has lived since
    events,    \* what is left of MaxEvents
    mishaps    \* what is left of MaxMishaps

wvars == <<worker, since, manager>>
lvars == <<beat, alive, steady, rested>>
ovars == <<told, nudge, closed>>
watchVars == <<now, wvars, lvars, emitted, flag, outbox, scan, due, ovars, events, mishaps>>

Times == 0..MaxTime
\* A line to print: what for, and for a page its alarm and rung.
Lines == [kind : Kinds \union {"nudged", "resumed", "autoclosed"}, id : Times, level : Nat]
\* What was held back while the manager was limited: limited_buffer.
Buffers == [lines : SUBSET Lines]
ASSUME BuffersAssumption == None \notin Buffers
Entry == [id : Times, first : Times, level : Nat]
ASSUME EntriesAssumption == None \notin Entry
\* The emitted state: page entries, and the keys of the action ledger.
Emitted == [pages : [Kinds -> Entry \union {None}], seen : BOOLEAN,
            nudgeSent : Times \union {None}, nudged : Times \union {None},
            sched : [at : Nat, base : Times] \union {None},
            mgrSched : [at : Nat, base : Times] \union {None},
            lastClose : Times \union {None}, tick : Times \union {None},
            buffer : Buffers \union {None}]
Nothing == [pages |-> [k \in Kinds |-> None], seen |-> FALSE, nudgeSent |-> None,
            nudged |-> None, sched |-> None, mgrSched |-> None, lastClose |-> None,
            tick |-> None, buffer |-> None]

Off == [pc |-> "off", was |-> Nothing, next |-> Nothing, lines |-> <<>>, blocked |-> FALSE,
        limited |-> FALSE, close |-> FALSE, printed |-> FALSE, why |-> "none"]
Pcs == {"off", "manager", "wakeManager", "worker", "send", "pages", "hold", "rollup", "print", "drain", "commit"}
Whys == {"none", "reset", "rung", "limit"}
Scans == [pc : Pcs, was : Emitted, next : Emitted, lines : Seq(Lines), blocked : BOOLEAN,
          limited : BOOLEAN, close : BOOLEAN, printed : BOOLEAN, why : Whys]
WatchTypeOK ==
    /\ now \in Times
    /\ worker \in [st : {"idle", "busy", "gone"}, mtime : Times, active : Times,
                   banner : {"no", "plain", "reset"}, holds : {"no", "shell", "agents"}]
    /\ since \in [{"question", "orphan", "approval"} -> Times \union {None}]
    /\ manager \in [limited : BOOLEAN, active : Times]
    /\ beat \in Times /\ alive \in BOOLEAN /\ steady \in BOOLEAN /\ rested \in BOOLEAN
    /\ flag \in BOOLEAN /\ due \in BOOLEAN
    /\ emitted \in Emitted /\ scan \in Scans
    /\ outbox \subseteq Times
    /\ told \in [Kinds -> [Times -> Nat]]
    /\ nudge \in [turn : Times \union {None}, at : Times, why : Whys, rung : Nat,
                  said : BOOLEAN, left : Nat]
    /\ closed \in {"no", "line", "outbox", "told", "lost"}
    /\ events \in Nat /\ mishaps \in Nat

WatchInit ==
    /\ now = 0 /\ due = TRUE
    /\ worker = [st |-> "idle", mtime |-> 0, active |-> 0, banner |-> "no", holds |-> "no"]
    /\ since = [k \in {"question", "orphan", "approval"} |-> None]
    /\ manager = [limited |-> FALSE, active |-> 0]
    /\ beat = 0 /\ alive = TRUE /\ steady = TRUE /\ rested = TRUE
    /\ emitted = Nothing /\ flag = FALSE /\ outbox = {}
    /\ scan = Off
    /\ told = [k \in Kinds |-> [t \in Times |-> 0]]
    /\ nudge = [turn |-> None, at |-> 0, why |-> "none", rung |-> 0, said |-> TRUE, left |-> 0]
    /\ closed = "no"
    /\ events = MaxEvents /\ mishaps = MaxMishaps

Happens == events > 0 /\ events' = events - 1
Mishap == mishaps > 0 /\ mishaps' = mishaps - 1

(***************************************************************************)
(* The ladders.                                                            *)
(***************************************************************************)
\* _highest_threshold: the last doubling of the base that has passed.
Highest(elapsed, base) ==
    Max({0} \union {t \in 0..elapsed : \E k \in 0..elapsed : t = base * 2^k})
\* _highest_nudge_threshold: doublings up to four times the base, then one
\* rung every NudgeRepeat.
HighestNudge(elapsed, base) ==
    IF elapsed < 4 * base THEN Highest(elapsed, base)
    ELSE 4 * base + ((elapsed - 4 * base) \div NudgeRepeat) * NudgeRepeat

\* The entry of the scan before for this alarm, if it has one.
OnRecord(k, id) == scan.was.pages[k] # None /\ scan.was.pages[k].id = id
Level(k, id) == IF OnRecord(k, id) THEN scan.was.pages[k].level ELSE 0
First(k, id) == IF OnRecord(k, id) THEN scan.was.pages[k].first ELSE now
NewEntry(id, first, level) == [id |-> id, first |-> first, level |-> level]

Line(kind, id, level) == [kind |-> kind, id |-> id, level |-> level]
\* A key of the next state, and a line of it if the rung is new.
Climb(s, k, e, page) ==
    [s EXCEPT !.next.pages[k] = e, !.lines = IF page THEN Append(@, Line(k, e.id, e.level)) ELSE @]

(***************************************************************************)
(* The emitted state on disk.                                              *)
(***************************************************************************)
Newer(new, old) == IF new # None THEN new ELSE old
\* _commit_actions_only: the pages of the scan before, the actions of this.
ActionsOnly(s) ==
    [s.was EXCEPT !.nudgeSent = Newer(s.next.nudgeSent, @), !.nudged = Newer(s.next.nudged, @),
                  !.sched = Newer(s.next.sched, @), !.mgrSched = Newer(s.next.mgrSched, @),
                  !.lastClose = Newer(s.next.lastClose, @), !.tick = Newer(s.next.tick, @),
                  !.buffer = Newer(s.next.buffer, @)]

\* A failing write of the ledger is passed over.
WriteActions(s) ==
    \/ emitted' = ActionsOnly(s) /\ UNCHANGED mishaps
    \/ Mishap /\ UNCHANGED emitted

(***************************************************************************)
(* A scan.                                                                 *)
(***************************************************************************)
Goto(s, pc) == [s EXCEPT !.pc = pc]
Quiet == UNCHANGED <<now, lvars, due, events>>

\* blocked_sids and whether to auto-close are fixed at the start.
ScanStart ==
    /\ due /\ scan.pc = "off"
    /\ due' = FALSE
    /\ LET close == emitted.lastClose = None \/ now - emitted.lastClose >= Cadence IN
       scan' = [Off EXCEPT !.pc = IF manager.limited THEN "manager" ELSE "worker",
                           !.was = emitted, !.close = close,
                           !.next.lastClose = IF close THEN now ELSE emitted.lastClose,
                           !.blocked = since["question"] # None,
                           !.limited = manager.limited]
    /\ UNCHANGED <<now, wvars, lvars, emitted, flag, outbox, ovars, events, mishaps>>

\* A limited manager: a first nudge is scheduled, a due one is written ahead.
ScanManager ==
    /\ scan.pc = "manager"
    /\ LET sched == scan.was.mgrSched
           later == [at |-> now + Retry, base |-> manager.active]
           ahead == [scan EXCEPT !.next.mgrSched = [at |-> now, base |-> manager.active]]
       IN  CASE sched = None -> /\ scan' = Goto([scan EXCEPT !.next.mgrSched = later], "worker")
                                /\ UNCHANGED <<emitted, mishaps>>
             [] sched # None /\ now < sched.at ->
                    /\ scan' = Goto([scan EXCEPT !.next.mgrSched = sched], "worker")
                    /\ UNCHANGED <<emitted, mishaps>>
             [] sched # None /\ now >= sched.at /\ manager.active > sched.base ->
                    /\ scan' = Goto([scan EXCEPT !.next.mgrSched = later], "worker")
                    /\ UNCHANGED <<emitted, mishaps>>
             [] OTHER -> scan' = Goto(ahead, "wakeManager") /\ WriteActions(ahead)
    /\ UNCHANGED <<wvars, flag, outbox, ovars>> /\ Quiet
WakeManager ==
    /\ scan.pc = "wakeManager"
    /\ scan' = Goto([scan EXCEPT !.next.mgrSched = [at |-> now + Retry, base |-> manager.active]],
                    "worker")
    /\ UNCHANGED <<wvars, emitted, flag, outbox, ovars, mishaps>> /\ Quiet

\* A worker in a turn.  Why it is nudged, if it is: its scheduled nudge is due
\* and it has not gone on, a new rung, or a limit not yet answered.
Elapsed == now - worker.active
Due == scan.was.sched # None /\ now >= scan.was.sched.at
Rung == IF Elapsed < Processing THEN 0
        ELSE IF scan.blocked THEN Highest(Elapsed, Processing) ELSE HighestNudge(Elapsed, Processing)
\* Mutant: whatever was paged before.
AnyRung == Rung > 0
NewRung == Rung > Level("stalled", worker.mtime)
WhyNudge ==
    CASE scan.blocked -> "none"
      [] ~scan.blocked /\ Due /\ (worker.active <= scan.was.sched.base \/ worker.banner # "no") -> "reset"
      [] ~scan.blocked /\ NewRung -> "rung"
      [] ~scan.blocked /\ Rung = 0 /\ scan.was.sched = None /\ Elapsed >= RateLimit
         /\ scan.was.nudged # worker.mtime /\ worker.banner # "no" -> "limit"
      [] OTHER -> "none"

\* A turn shorter than this is not looked at, unless something is due.
ActivityGate == Min({Processing, RateLimit})

\* What is kept of the ledger, the RESUMED of an earlier nudge, and the rung.
Looked ==
    LET kept == [scan EXCEPT
            !.next.nudged = IF scan.was.nudged = worker.mtime THEN worker.mtime ELSE None,
            !.next.sched = IF Due THEN None ELSE scan.was.sched]
        sent == scan.was.nudgeSent
        resumed ==
            IF sent = None THEN kept
            ELSE IF worker.active > sent THEN [kept EXCEPT !.lines = Append(@, Line("resumed", sent, 0))]
            ELSE [kept EXCEPT !.next.nudgeSent = sent]
    IN  IF Rung = 0 THEN resumed
        ELSE Climb(resumed, "stalled", NewEntry(worker.mtime, now, Rung), scan.blocked /\ NewRung)

ScanBusy ==
    /\ scan.pc = "worker" /\ worker.st = "busy"
    /\ IF scan.was.nudgeSent = None /\ ~Due /\ now - worker.mtime < ActivityGate
       THEN /\ scan' = Goto([scan EXCEPT
                    !.next.nudged = IF scan.was.nudged = worker.mtime THEN worker.mtime ELSE None,
                    !.next.sched = scan.was.sched], "pages")
            /\ UNCHANGED <<emitted, mishaps>>
       ELSE IF WhyNudge = "none"
       THEN scan' = Goto(Looked, "pages") /\ UNCHANGED <<emitted, mishaps>>
       ELSE LET ahead == [Looked EXCEPT
                    !.next.nudgeSent = now, !.why = WhyNudge,
                    !.next.nudged = IF WhyNudge = "limit" THEN worker.mtime ELSE @]
            IN  scan' = Goto(ahead, "send") /\ WriteActions(ahead)
    /\ UNCHANGED <<wvars, flag, outbox, ovars>> /\ Quiet
\* The text goes to the pane whatever the worker has done since; a limit with
\* a reset is answered again at the reset.
Send ==
    /\ scan.pc = "send"
    /\ scan' = Goto([scan EXCEPT
            !.lines = Append(@, Line("nudged", now, 0)),
            !.next.sched = IF scan.why = "limit" /\ worker.banner = "reset"
                           THEN [at |-> now + Retry, base |-> worker.active] ELSE @], "pages")
    /\ LET e == scan.next.pages["stalled"] IN
       /\ told' = IF e = None THEN told ELSE [told EXCEPT !["stalled"][e.id] = Max({@, e.level})]
       /\ nudge' = [turn |-> worker.mtime, at |-> now, why |-> scan.why,
                    rung |-> IF e = None THEN 0 ELSE e.level,
                    said |-> emitted.nudgeSent # now, left |-> mishaps]
    /\ UNCHANGED <<wvars, emitted, flag, outbox, closed, mishaps>> /\ Quiet

\* A background shell, or a transcript that was just written, holds up the
\* auto-close for a time, live subagents as long as they live.
Delegates == worker.holds = "agents"
HeldUp == worker.holds = "shell" /\ now - worker.mtime <= BusyDeadline
\* An idle worker is closed once an hour at most, and not while it asks.
MayClose ==
    /\ worker.st = "idle" /\ scan.close /\ ~scan.blocked
    /\ now - worker.mtime > IdleThreshold
    /\ ~Delegates /\ ~HeldUp
ScanIdle ==
    /\ scan.pc = "worker" /\ worker.st # "busy"
    /\ IF MayClose
       THEN /\ worker' = [worker EXCEPT !.st = "gone"]
            /\ scan' = Goto([scan EXCEPT !.lines = Append(@, Line("autoclosed", now, 0))], "pages")
            /\ closed' = "line"
       ELSE scan' = Goto(scan, "pages") /\ UNCHANGED <<worker, closed>>
    /\ UNCHANGED <<since, manager, emitted, flag, outbox, told, nudge, mishaps>> /\ Quiet

\* The pages of a scan, one kind after the other.  Questions, of workers that
\* are still there:
Questions(s) ==
    LET asked == since["question"]
        level == IF asked # None /\ worker.st # "gone" /\ now - asked > Question
                 THEN Highest(now - asked, Question) ELSE 0
    IN  IF level = 0 THEN s
        ELSE Climb(s, "question", NewEntry(asked, now, level), level > Level("question", asked))
\* Windows without a record, from the time a scan first saw them.
Orphans(s) ==
    LET id == since["orphan"]
        first == First("orphan", id)
        paged == Level("orphan", id)
        rung == IF now - first >= OrphanGrace THEN Highest(now - first, OrphanGrace) ELSE 0
    IN  IF id = None THEN s
        ELSE Climb(s, "orphan", NewEntry(id, first, Max({rung, paged})), rung > paged)
\* Dialogs that wait for an approval: at once, then from a base.
Approvals(s) ==
    LET id == since["approval"]
        first == First("approval", id)
        paged == Level("approval", id)
        rung == IF paged = 0 THEN 1 ELSE HighestNudge(now - first, Repage)
    IN  IF id = None THEN s
        ELSE Climb(s, "approval", NewEntry(id, first, Max({rung, paged})), rung > paged)

\* The other lane's heartbeat.  After a sleep of the machine nothing is judged;
\* a silence is paged when a second scan sees it, or once it was paged.
LaneRung(level) == IF level = 0 THEN 0 ELSE Min({LaneBase * 2^(level - 1), LaneCap})
\* Mutant: the first scan that sees it pages.
AtOnce == TRUE
Confirmed == scan.was.pages["lane"] # None \/ scan.was.seen
Judged == scan.was.tick = None \/ now - scan.was.tick <= LaneGap
LaneSilence(s) ==
    LET prior == scan.was.pages["lane"]
        level == IF prior = None THEN 0 ELSE prior.level
        silent == [s EXCEPT !.next.seen = TRUE]
    IN  IF ~Judged THEN [s EXCEPT !.next.pages["lane"] = prior]
        ELSE IF now = beat THEN s
        ELSE IF ~Confirmed THEN silent
        ELSE IF prior # None /\ now - prior.first < LaneRung(level)
        THEN [silent EXCEPT !.next.pages["lane"] = prior]
        ELSE Climb(silent, "lane", NewEntry(beat, now, level + 1), TRUE)

Ticked(s) ==
    Goto([LaneSilence(s) EXCEPT !.next.tick = now], IF s.limited THEN "hold" ELSE "rollup")

\* A terminal that does not answer ends the scan of windows, or of dialogs:
\* what the scan before knew of them is forgotten.
ScanPages ==
    /\ scan.pc = "pages"
    /\ \/ scan' = Ticked(Approvals(Orphans(Questions(scan)))) /\ UNCHANGED mishaps
       \/ Mishap /\ scan' \in {Ticked(Approvals(Questions(scan))), Ticked(Orphans(Questions(scan)))}
    /\ UNCHANGED <<wvars, emitted, flag, outbox, ovars>> /\ Quiet

(***************************************************************************)
(* The lines of the scan.                                                  *)
(***************************************************************************)
Tell(line) ==
    /\ told' = IF line.kind \in Kinds THEN [told EXCEPT ![line.kind][line.id] = Max({@, line.level})]
               ELSE told
    /\ nudge' = IF line.kind = "resumed" /\ line.id >= nudge.at THEN [nudge EXCEPT !.said = TRUE] ELSE nudge
    /\ closed' = IF line.kind = "autoclosed" THEN "told" ELSE closed

\* While the manager is limited nothing is printed: what would have been is
\* added to what earlier scans held back.
\* Mutant: only the pages of earlier scans.
HeldPages == IF scan.was.buffer = None THEN {} ELSE {line \in scan.was.buffer.lines : line.kind \in Kinds}
Held == IF scan.was.buffer = None THEN {} ELSE scan.was.buffer.lines
Hold ==
    /\ scan.pc = "hold"
    /\ scan' = Goto([scan EXCEPT !.next.buffer = [lines |-> Held \union ToSet(scan.lines)], !.lines = <<>>], "commit")
    /\ flag' = TRUE
    /\ UNCHANGED <<wvars, emitted, outbox, ovars, mishaps>> /\ Quiet

\* The key of a page that was held back is dropped from the next state, or its
\* rung is, so that the next scan pages it.
Suppressed(k, e) == e # None /\ \E line \in Held : line.kind = k /\ line.id = e.id
Refire(pages) ==
    [k \in Kinds |->
        IF ~Suppressed(k, pages[k]) THEN pages[k]
        ELSE IF k \in {"orphan", "approval"} THEN [pages[k] EXCEPT !.level = 0] ELSE None]
\* The first scan after the limit prints one line for what was held back.
Rollup ==
    /\ scan.pc = "rollup"
    /\ LET held == {line \in Held : line.kind \notin Kinds} IN
       IF scan.was.buffer # None \/ flag
       THEN /\ scan' = Goto([scan EXCEPT !.next.pages = Refire(@), !.printed = TRUE], "print")
            /\ flag' = FALSE
            /\ nudge' = [nudge EXCEPT
                    !.said = @ \/ \E line \in held : line.kind = "resumed" /\ line.id >= nudge.at,
                    !.rung = IF Suppressed("stalled", scan.next.pages["stalled"]) THEN 0 ELSE @]
            /\ closed' = IF \E line \in held : line.kind = "autoclosed" THEN "told" ELSE closed
       ELSE scan' = Goto(scan, "print") /\ UNCHANGED <<flag, nudge, closed>>
    /\ UNCHANGED <<wvars, emitted, outbox, told, mishaps>> /\ Quiet

\* All lines but those of the auto-close are printed one after the other,
\* then those go to the outbox; one that cannot be put there is printed.
Direct == {i \in DOMAIN scan.lines : scan.lines[i].kind # "autoclosed"}
Emit ==
    /\ scan.pc = "print" /\ Direct # {}
    /\ Tell(scan.lines[Min(Direct)])
    /\ scan' = [scan EXCEPT !.lines = RemoveAt(@, Min(Direct)), !.printed = TRUE]
    /\ UNCHANGED <<wvars, emitted, flag, outbox, mishaps>> /\ Quiet
Divert ==
    /\ scan.pc = "print" /\ Direct = {}
    /\ scan' = Goto([scan EXCEPT !.lines = <<>>], "drain")
    /\ IF scan.lines = <<>> THEN UNCHANGED <<outbox, told, nudge, closed, mishaps>>
       ELSE \/ /\ outbox' = outbox \union {now} /\ closed' = "outbox"
               /\ UNCHANGED <<told, nudge, mishaps>>
            \/ Mishap /\ Tell(Head(scan.lines)) /\ UNCHANGED outbox
    /\ UNCHANGED <<wvars, emitted, flag>> /\ Quiet

\* The outbox rides along with a printed line, or when it has waited long: each
\* of its lines is printed and then unlinked.
Drain ==
    /\ scan.pc = "drain"
    /\ scan' = Goto(scan, "commit")
    /\ IF outbox # {} /\ (scan.printed \/ now - Min(outbox) >= MaxHold)
       THEN outbox' = {} /\ closed' = "told"
       ELSE UNCHANGED <<outbox, closed>>
    /\ UNCHANGED <<wvars, emitted, flag, told, nudge, mishaps>> /\ Quiet

Forget == steady' = FALSE /\ closed' = IF closed = "line" THEN "lost" ELSE closed
Save ==
    /\ scan.pc = "commit"
    /\ scan' = Off
    /\ \/ emitted' = scan.next /\ steady' = (alive /\ Judged) /\ UNCHANGED <<closed, mishaps>>
       \/ Mishap /\ Forget /\ UNCHANGED emitted
    /\ UNCHANGED <<now, wvars, beat, alive, rested, due, events, flag, outbox, told, nudge>>

\* LaneDead: the reader of the lines is gone.  Whatever was to be printed is
\* given up, and of the next state only the action ledger is kept.
Prints ==
    \/ scan.pc = "rollup" /\ (scan.was.buffer # None \/ flag)
    \/ scan.pc = "print" /\ Direct # {}
    \/ scan.pc = "drain" /\ outbox # {}
LaneDead ==
    /\ Prints
    /\ Mishap
    /\ emitted' = ActionsOnly(scan)
    /\ Forget
    /\ scan' = Off
    /\ UNCHANGED <<now, wvars, beat, alive, rested, due, events, flag, outbox, told, nudge>>
\* The monitor is killed, which may also lose a line before its unlink.
Dies ==
    /\ scan.pc # "off"
    /\ Mishap
    /\ Forget
    /\ scan' = Off
    /\ UNCHANGED <<now, wvars, beat, alive, rested, due, events, emitted, flag, outbox, told, nudge>>

(***************************************************************************)
(* What is watched.                                                        *)
(***************************************************************************)
Between == scan.pc = "off"
Prompt ==
    /\ Between /\ worker.st = "idle" /\ Happens
    /\ worker' = [st |-> "busy", mtime |-> now, active |-> now, banner |-> "no", holds |-> "no"]
    /\ UNCHANGED <<now, since, manager, lvars, emitted, flag, outbox, scan, due, ovars, mishaps>>
\* Its transcript grows: it works, runs into a limit, or comes back from one.
Works ==
    /\ Between /\ worker.st = "busy" /\ since["question"] = None /\ Happens
    /\ \E banner \in {"no", "plain", "reset"} : worker' = [worker EXCEPT !.active = now, !.banner = banner]
    /\ UNCHANGED <<now, since, manager, lvars, emitted, flag, outbox, scan, due, ovars, mishaps>>
TurnEnds ==
    /\ Between /\ worker.st = "busy" /\ since["question"] = None /\ Happens
    /\ \E holds \in {"no", "shell", "agents"} :
          worker' = [st |-> "idle", mtime |-> now, active |-> now, banner |-> "no", holds |-> holds]
    /\ UNCHANGED <<now, since, manager, lvars, emitted, flag, outbox, scan, due, ovars, mishaps>>
AgentsEnd ==
    /\ Between /\ worker.st = "idle" /\ Delegates /\ Happens
    /\ worker' = [worker EXCEPT !.holds = "no"]
    /\ UNCHANGED <<now, since, manager, lvars, emitted, flag, outbox, scan, due, ovars, mishaps>>
\* A question may be asked at any moment of a scan.
Ask ==
    /\ scan.pc \in {"off", "worker", "send"} /\ worker.st = "busy" /\ worker.banner = "no"
    /\ since["question"] = None /\ Happens
    /\ since' = [since EXCEPT !["question"] = now]
    /\ worker' = [worker EXCEPT !.active = now]
    /\ UNCHANGED <<now, manager, lvars, emitted, flag, outbox, scan, due, ovars, mishaps>>
Answered ==
    /\ Between /\ since["question"] # None /\ Happens
    /\ since' = [since EXCEPT !["question"] = None]
    /\ worker' = [worker EXCEPT !.active = now]
    /\ UNCHANGED <<now, manager, lvars, emitted, flag, outbox, scan, due, ovars, mishaps>>
\* A window without a record appears or goes, and so does a dialog.
Appears(k) ==
    /\ Between /\ Happens
    /\ since' = [since EXCEPT ![k] = IF @ = None THEN now ELSE None]
    /\ UNCHANGED <<now, worker, manager, lvars, emitted, flag, outbox, scan, due, ovars, mishaps>>
Limit ==
    /\ Between /\ Happens
    /\ \E limited \in BOOLEAN :
          /\ limited \/ manager.limited
          /\ manager' = [limited |-> limited, active |-> now]
    /\ UNCHANGED <<now, worker, since, lvars, emitted, flag, outbox, scan, due, ovars, mishaps>>
\* The other lane's loop ends, or is armed again.
LaneEnds ==
    /\ Between /\ Happens
    /\ alive' = ~alive
    /\ steady' = FALSE
    /\ beat' = IF alive THEN beat ELSE now
    /\ UNCHANGED <<now, wvars, rested, emitted, flag, outbox, scan, due, ovars, mishaps>>

\* A tick in which the machine is awake: every lane that lives scans.
Tick ==
    /\ Between /\ now < MaxTime
    /\ now' = now + 1 /\ due' = TRUE /\ rested' = TRUE
    /\ beat' = IF alive THEN now + 1 ELSE beat
    /\ UNCHANGED <<wvars, alive, steady, emitted, flag, outbox, scan, ovars, events, mishaps>>
\* The machine sleeps; when it wakes up the stale lane may be the first to run.
\* It sleeps for no longer than LaneGap only if every lane has scanned since the
\* sleep before.
Sleep ==
    /\ Between /\ Happens
    /\ \E d \in 1..(LaneGap + 1) :
          /\ d > LaneGap \/ (rested /\ ~due)
          /\ now + d <= MaxTime /\ now' = now + d
    /\ due' = TRUE /\ rested' = FALSE
    /\ UNCHANGED <<wvars, beat, alive, steady, emitted, flag, outbox, scan, ovars, mishaps>>

ScanStep == ScanStart \/ ScanManager \/ WakeManager \/ ScanBusy \/ Send \/ ScanIdle
            \/ ScanPages
            \/ Hold \/ Rollup \/ Emit \/ Divert \/ Drain \/ Save
WatchNext ==
    \/ ScanStep
    \/ LaneDead \/ Dies
    \/ Prompt \/ Works \/ TurnEnds \/ AgentsEnd \/ Ask \/ Answered
    \/ Appears("orphan") \/ Appears("approval")
    \/ Limit \/ LaneEnds \/ Tick \/ Sleep

WatchSpec == WatchInit /\ [][WatchNext]_watchVars

(***************************************************************************)
(* Properties.                                                             *)
(***************************************************************************)
\* What the emitted state has as paged was printed, or is held back and will
\* be printed again after the limit: no page is swallowed by a scan that dies,
\* a reader that is gone or a limit that comes and goes.
PagesReachOrWait ==
    WatchTypeOK /\ \A k \in Kinds :
        LET e == emitted.pages[k] IN
        e # None /\ e.level > 0 =>
            \/ told[k][e.id] >= e.level
            \/ emitted.buffer # None /\ \E line \in emitted.buffer.lines : line.kind = k /\ line.id = e.id

\* A nudge without an answer stays in the ledger until RESUMED is said of it,
\* or the turn it was sent into is over.
ResumedIsSaid ==
    scan.pc = "off" /\ ~nudge.said /\ worker.st = "busy" /\ worker.mtime = nudge.turn =>
        \/ emitted.nudgeSent # None
        \/ emitted.buffer # None /\ \E line \in emitted.buffer.lines : line.kind = "resumed"

\* The line of an auto-close was printed, waits in the outbox or in the buffer,
\* or was lost with the scan that closed the worker.
ClosedIsTold ==
    scan.pc = "off" =>
        CASE closed = "line" -> emitted.buffer # None /\ \E line \in emitted.buffer.lines : line.kind = "autoclosed"
          [] closed = "outbox" -> outbox # {}
          [] OTHER -> TRUE

\* What the monitor owes the manager (a page it has on record, the answer to a
\* nudge, the close of a worker) was said or will be.
OwedIsSaid == PagesReachOrWait /\ ResumedIsSaid /\ ClosedIsTold

\* A silent worker is not nudged twice for one rung but after a mishap, or after
\* a limit during which its turn was paged.
NudgedOncePerRung ==
    [][scan.pc = "send" /\ scan'.pc = "pages" /\ nudge.turn = worker.mtime
       /\ nudge.at > worker.active /\ nudge.left = mishaps =>
          ~(nudge'.why = nudge.why /\ nudge'.rung = nudge.rung)]_watchVars

\* No lane is called silent that lived at the scan before, which looked at it and
\* was completed, and ever since, however the machine slept.
NoFalseSilence ==
    [][scan.pc = "pages" /\ steady /\ alive =>
          \A i \in DOMAIN scan'.lines : scan'.lines[i].kind # "lane"]_watchVars
=============================================================================
