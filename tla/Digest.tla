-------------------------------- MODULE Digest --------------------------------
(***************************************************************************)
(* The gardener's runs: gardener_gate.py decides at every tick whether to  *)
(* start one; gardener-run.sh takes the shared lock, starts an analyst     *)
(* session, waits for its Status line, lets gardener_postrun.py vet what   *)
(* the analyst drafted, and touches the marker when the digest was good.   *)
(* The analyst is a session of its own: it outlives a run that timed out   *)
(* or died.  People decide on the pending proposals meanwhile, each with a *)
(* gardener_postrun.py of their own.                                       *)
(***************************************************************************)
EXTENDS Findings

CONSTANTS
    Proposals,  \* proposal files, named after the run that drafts them
    Deciders,   \* managers that call gardener_postrun.py decide
    K,          \* K_THRESHOLD
    MaxWeek     \* MAX_RUNS_PER_WEEK

VARIABLES
    marker,     \* last-digest: is it there, is it older than FLOOR_DAYS
    pace,       \* run_start events: one within the gap, how many this week
    stop,       \* the stop file
    run,        \* per slot: a gardener-run process
    analyst,    \* per slot: the session the run started
    prop,       \* per proposal: the file and the ledger's events about it
    decider     \* per manager: the decide call it is in

digestVars == <<marker, pace, stop, run, analyst, prop, decider>>

NoRun == [pc |-> "none", todo |-> {}, cur |-> Free, bad |-> FALSE, ok |-> FALSE]
NoAnalyst == [on |-> FALSE, sees |-> {}, drafting |-> FALSE, status |-> "none"]
NoProposal == [at |-> "nowhere", flaw |-> FALSE, members |-> {}, proposed |-> FALSE,
               rejected |-> FALSE, decided |-> 0]
NoDecider == [pc |-> "none", p |-> Free]

DigestTypeOK ==
    /\ marker \in [there: BOOLEAN, old: BOOLEAN]
    /\ pace \in [recent: BOOLEAN, week: Nat]
    /\ \A r \in Runs : /\ run[r].pc \in {"none", "spawned", "wait", "post", "vet", "end"}
                       /\ run[r].pc \in {"wait", "post", "vet", "end"} => lock = r \/ r \in loose
                       /\ run[r].todo \subseteq Proposals /\ analyst[r].sees \subseteq Sessions
                       /\ analyst[r].status \in {"none", "ok", "error"}
    /\ \A p \in Proposals :
          /\ prop[p].at \in {"nowhere", "pending", "decided", "rejected"}
          /\ prop[p].members \subseteq Sessions /\ prop[p].flaw \in BOOLEAN
    /\ \A d \in Deciders : decider[d].pc \in {"none", "checked", "moved"}

DigestInit ==
    /\ marker = [there |-> FALSE, old |-> FALSE]
    /\ pace = [recent |-> FALSE, week |-> 0]
    /\ stop = FALSE
    /\ run = [r \in Runs |-> NoRun]
    /\ analyst = [r \in Runs |-> NoAnalyst]
    /\ prop = [p \in Proposals |-> NoProposal]
    /\ decider = [d \in Deciders |-> NoDecider]

-----------------------------------------------------------------------------
(* The gate *)

\* count_new_unreviewed
Fresh == {s \in Sessions : finding[s].there /\ ~finding[s].reviewed /\ finding[s].fresh}

\* decide, without the stop file and the lock
Due == /\ ~pace.recent /\ pace.week < MaxWeek
       /\ \/ Cardinality(Fresh) >= K
          \/ (~marker.there \/ marker.old) /\ Fresh # {}

StartRun(trigger) ==
    LET idle == {r \in Runs : run[r].pc = "none" /\ ~analyst[r].on}
    IN IF trigger THEN idle # {} /\ run' = [run EXCEPT ![AnyOf(idle)].pc = "spawned"]
                  ELSE UNCHANGED run

\* lock_held_by_live_pid; a lock without a pid is held, however old
Locked == lock \notin {Free, Dead}

\* the mutated gate serves the queue only when a run is due
GateDue(started) ==
    /\ ~stop /\ ~Locked /\ Due
    /\ IF queue # {} THEN /\ \E s \in queue : Retry(s, started)
                          /\ StartRun(brick)
       ELSE /\ StartRun(TRUE) /\ started
            /\ UNCHANGED <<queue, dropped, job, budget>>
    /\ UNCHANGED <<finding, ends, dedup, brick, lock, loose, orphan, known>>
    /\ UNCHANGED <<marker, pace, stop, analyst, prop, decider>>

\* a tick: the retry queue is served whatever the decision, unless the loop is
\* stopped or the lock is held, and a retry that was started takes the place of
\* the run
Gate(started) ==
    /\ ~stop /\ ~Locked
    /\ IF queue # {} THEN /\ \E s \in queue : Retry(s, started)
                          /\ StartRun(Due /\ (brick \/ ~started))
       ELSE /\ Due /\ StartRun(TRUE) /\ started
            /\ UNCHANGED <<queue, dropped, job, budget>>
    /\ UNCHANGED <<finding, ends, dedup, brick, lock, loose, orphan, known>>
    /\ UNCHANGED <<marker, pace, stop, analyst, prop, decider>>

\* --force passes over the pace and the count
Forced ==
    /\ Act /\ ~stop /\ ~Locked
    /\ StartRun(TRUE)
    /\ UNCHANGED <<finding, ends, dedup, job, queue, brick, lock, loose, orphan, known, dropped>>
    /\ UNCHANGED <<marker, pace, stop, analyst, prop, decider>>

\* six hours, a week, FLOOR_DAYS pass; the operator stops and resumes the loop
TimePasses ==
    /\ Act
    /\ \/ pace' = [pace EXCEPT !.recent = FALSE] /\ UNCHANGED <<marker, stop>>
       \/ pace' = [recent |-> FALSE, week |-> 0] /\ marker' = [marker EXCEPT !.old = @ \/ marker.there]
          /\ UNCHANGED stop
       \/ stop' = ~stop /\ UNCHANGED <<marker, pace>>
    /\ UNCHANGED <<finding, ends, dedup, job, queue, brick, lock, loose, orphan, known, dropped>>
    /\ UNCHANGED <<run, analyst, prop, decider>>

-----------------------------------------------------------------------------
(* A run *)

Without(r) == run' = [run EXCEPT ![r] = NoRun]

\* run_start, and the launch of the analyst
Begins(r) == /\ pace' = [recent |-> TRUE, week |-> pace.week + 1]
             /\ run' = [run EXCEPT ![r].pc = "wait"]
             /\ analyst' = [analyst EXCEPT ![r] = [NoAnalyst EXCEPT !.on = TRUE]]
             /\ UNCHANGED <<finding, ends, dedup, job, queue, brick, orphan, known, dropped>>
             /\ UNCHANGED <<marker, stop, prop, decider>>

\* gardener-run.sh up to the launch: the lock is tried once; a settings preset
\* or a tmux that fails ends the run at once
RunStarts(r) == run[r].pc = "spawned" /\ ~stop /\ Takes(r) /\ Begins(r)
RunSteals(r) == run[r].pc = "spawned" /\ ~stop /\ Steals(r) /\ Begins(r)

RunSkips(r) ==
    /\ run[r].pc = "spawned"
    /\ \/ (stop \/ Locked) /\ UNCHANGED <<lock, pace, budget>>
       \/ /\ ~stop /\ ~Locked /\ Fault /\ lock' = Free
          /\ pace' = [recent |-> TRUE, week |-> pace.week + 1]
    /\ Without(r)
    /\ UNCHANGED <<finding, ends, dedup, job, queue, brick, loose, orphan, known, dropped>>
    /\ UNCHANGED <<marker, stop, analyst, prop, decider>>

\* the parked remainder is what no pending proposal has among its members
Parked(s) == \A p \in Proposals : prop[p].at = "pending" => s \notin prop[p].members

\* The analyst reads the unreviewed findings: those newer than the marker and
\* the parked ones; or all, as long as no proposal was ever recorded.
AnalystReads(r) ==
    /\ analyst[r].on /\ ~analyst[r].drafting
    /\ LET full == \A p \in Proposals : ~prop[p].proposed
       IN analyst' = [analyst EXCEPT ![r] = [@ EXCEPT !.drafting = TRUE,
            !.sees = {s \in Sessions : /\ finding[s].there /\ ~finding[s].reviewed
                                       /\ full \/ finding[s].fresh \/ Parked(s)}]]
    /\ known' = [known EXCEPT !.same[r] = {s \in Sessions : finding[s].fresh \/ Parked(s)}]
    /\ UNCHANGED <<finding, ends, dedup, job, queue, brick, lock, loose, orphan, dropped, budget>>
    /\ UNCHANGED <<marker, pace, stop, run, prop, decider>>

AnalystDrafts(r, p, flaw) ==
    /\ analyst[r].drafting /\ prop[p].at = "nowhere" /\ ~prop[p].proposed
    /\ prop' = [prop EXCEPT ![p] = [NoProposal EXCEPT !.at = "pending", !.flaw = flaw,
                   !.members = {s \in analyst[r].sees : finding[s].content}]]
    /\ UNCHANGED findVars
    /\ UNCHANGED <<marker, pace, stop, run, analyst, decider>>

\* its Status line; a session that ends without one looks like a late one
AnalystReports(r, status) ==
    /\ analyst[r].drafting /\ analyst[r].status = "none"
    /\ IF status = "ok" THEN UNCHANGED budget ELSE Fault
    /\ analyst' = [analyst EXCEPT ![r].status = status]
    /\ UNCHANGED <<finding, ends, dedup, job, queue, brick, lock, loose, orphan, known, dropped>>
    /\ UNCHANGED <<marker, pace, stop, run, prop, decider>>

\* known_from_ledger: some event names the file
Known(p) == prop[p].proposed \/ prop[p].rejected \/ prop[p].decided > 0

\* the poll ends: the Status line is there, or the deadline and the grace are
\* over (the tab stays open).  finish_run calls postrun, which takes what the
\* ledger knows and what is pending.
RunSees(r) ==
    /\ run[r].pc = "wait"
    /\ IF analyst[r].status = "none" THEN Fault ELSE UNCHANGED budget
    /\ run' = [run EXCEPT ![r] = [@ EXCEPT !.pc = "post", !.ok = analyst[r].status = "ok",
                  !.todo = {p \in Proposals : prop[p].at = "pending" /\ ~Known(p)}]]
    /\ UNCHANGED <<finding, ends, dedup, job, queue, brick, lock, loose, orphan, known, dropped>>
    /\ UNCHANGED <<marker, pace, stop, analyst, prop, decider>>

\* validate_proposal: the form of the draft (frontmatter, sections, members,
\* scope, paths of the diff) and the costs it declares; the draft alone decides
WellFormed(p) == ~prop[p].flaw

\* _apply_check: whether the diff fits the files as they are now; a check that
\* breaks down lets the proposal through
Passes(verdict) == verdict \in {"applies", "skipped-env"}

\* process_run_artifacts: a proposal is read and judged ...
Vet(r, p) ==
    /\ run[r].pc = "post" /\ p \in run[r].todo
    /\ IF prop[p].at = "pending"
       THEN \E verdict \in {"applies", "fails", "skipped-env"} :
              run' = [run EXCEPT ![r] = [@ EXCEPT !.pc = "vet", !.cur = p,
                        !.bad = ~(WellFormed(p) /\ Passes(verdict)),
                        !.todo = run[r].todo \ {p}]]
       ELSE run' = [run EXCEPT ![r].pc = "end"]   \* the file is gone: postrun fails
    /\ UNCHANGED findVars
    /\ UNCHANGED <<marker, pace, stop, analyst, prop, decider>>

Quarantined(p) == [prop EXCEPT ![p].at = "rejected", ![p].rejected = TRUE]

\* ... and quarantined or recorded.  The move fails when somebody has decided
\* on the file meanwhile, and ends the whole postrun; the next run goes on.
Record(r) ==
    /\ run[r].pc = "vet"
    /\ LET p == run[r].cur
       IN IF run[r].bad /\ prop[p].at # "pending"
          THEN UNCHANGED prop /\ run' = [run EXCEPT ![r].pc = "end", ![r].cur = Free]
          ELSE /\ prop' = IF run[r].bad THEN Quarantined(p)
                                        ELSE [prop EXCEPT ![p].proposed = TRUE]
               /\ run' = [run EXCEPT ![r].pc = "post", ![r].cur = Free]
    /\ UNCHANGED findVars
    /\ UNCHANGED <<marker, pace, stop, analyst, decider>>

PostEnds(r) ==
    /\ run[r].pc = "post" /\ run[r].todo = {}
    /\ run' = [run EXCEPT ![r].pc = "end"]
    /\ UNCHANGED findVars
    /\ UNCHANGED <<marker, pace, stop, analyst, prop, decider>>

\* what touching the marker does: nothing on disk is newer than it
Touch(r) ==
    /\ marker' = [there |-> TRUE, old |-> FALSE]
    /\ finding' = [s \in Sessions |-> [finding[s] EXCEPT !.fresh = FALSE]]
    /\ known' = [known EXCEPT !.read = @ \cup (analyst[r].sees \cap known.same[r]),
                              !.stray = @ \ known.same[r], !.same[r] = {}]

\* run_end; only a good digest touches the marker, has its window killed, and
\* is announced; the exit trap releases the lock
RunEnds(r) ==
    /\ run[r].pc = "end"
    /\ IF run[r].ok THEN Touch(r) ELSE UNCHANGED <<marker, finding, known>>
    /\ Unlock(r)
    /\ Without(r)
    /\ analyst' = IF run[r].ok THEN [analyst EXCEPT ![r] = NoAnalyst] ELSE analyst
    /\ UNCHANGED <<ends, dedup, job, queue, brick, orphan, dropped, budget, pace, stop, prop, decider>>

\* a TERM while it polls: the trap releases the lock and the run goes on
RunTermed(r) ==
    /\ Fault /\ run[r].pc = "wait" /\ lock = r
    /\ lock' = Free /\ loose' = loose \cup {r}
    /\ UNCHANGED <<finding, ends, dedup, job, queue, brick, orphan, known, dropped>>
    /\ UNCHANGED digestVars

RunDies(r) ==
    /\ Fault /\ run[r].pc # "none"
    /\ Without(r)
    /\ Abandons(r, run[r].pc = "spawned")
    /\ UNCHANGED <<finding, ends, dedup, job, queue, brick, orphan, known, dropped>>
    /\ UNCHANGED <<marker, pace, stop, analyst, prop, decider>>

\* the tab a run left open is closed, or its session ends
AnalystEnds(r) ==
    /\ analyst[r].on /\ run[r].pc = "none"
    /\ analyst' = [analyst EXCEPT ![r] = NoAnalyst]
    /\ known' = [known EXCEPT !.same[r] = {}]
    /\ UNCHANGED <<finding, ends, dedup, job, queue, brick, lock, loose, orphan, dropped, budget>>
    /\ UNCHANGED <<marker, pace, stop, run, prop, decider>>

-----------------------------------------------------------------------------
(* decide *)

DecideChecks(p) ==
    LET idle == {d \in Deciders : decider[d].pc = "none"}
    IN /\ idle # {} /\ prop[p].at = "pending"
       /\ decider' = [decider EXCEPT ![AnyOf(idle)] = [pc |-> "checked", p |-> p]]
       /\ UNCHANGED findVars
       /\ UNCHANGED <<marker, pace, stop, run, analyst, prop>>

\* the members' findings are marked as reviewed, unless the evidence is of
\* another kind or a retirement is declined
Marked(p, marks) ==
    [s \in Sessions |-> IF marks /\ s \in prop[p].members /\ finding[s].there
                        THEN [finding[s] EXCEPT !.reviewed = TRUE] ELSE finding[s]]

\* the mutated decide copies the file instead of moving it
DecideCopies(d, marks) ==
    /\ decider[d].pc = "checked"
    /\ LET p == decider[d].p
       IN /\ prop' = [prop EXCEPT ![p].at = "decided"]
          /\ finding' = Marked(p, marks)
          /\ decider' = [decider EXCEPT ![d].pc = "moved"]
    /\ UNCHANGED <<ends, dedup, job, queue, brick, lock, loose, orphan, known, dropped, budget>>
    /\ UNCHANGED <<marker, pace, stop, run, analyst>>

\* shutil.move fails for whoever comes second
DecideMoves(d, marks) ==
    /\ decider[d].pc = "checked"
    /\ LET p == decider[d].p
       IN IF prop[p].at # "pending"
          THEN decider' = [decider EXCEPT ![d] = NoDecider] /\ UNCHANGED <<prop, finding>>
          ELSE /\ prop' = [prop EXCEPT ![p].at = "decided"]
               /\ finding' = Marked(p, marks)
               /\ decider' = [decider EXCEPT ![d].pc = "moved"]
    /\ UNCHANGED <<ends, dedup, job, queue, brick, lock, loose, orphan, known, dropped, budget>>
    /\ UNCHANGED <<marker, pace, stop, run, analyst>>

DecideRecords(d) ==
    /\ decider[d].pc = "moved"
    /\ prop' = [prop EXCEPT ![decider[d].p].decided = @ + 1]
    /\ decider' = [decider EXCEPT ![d] = NoDecider]
    /\ UNCHANGED findVars
    /\ UNCHANGED <<marker, pace, stop, run, analyst>>

DigestStep(r) ==
    \/ RunStarts(r) \/ RunSkips(r) \/ RunSees(r) \/ Record(r) \/ PostEnds(r) \/ RunEnds(r)
    \/ \E p \in Proposals : Vet(r, p)
AnalystStep(r) == AnalystReads(r) \/ \E status \in {"ok", "error"} : AnalystReports(r, status)

DigestNext ==
    \/ \E started \in BOOLEAN : Gate(started)
    \/ Forced \/ TimePasses
    \/ \E r \in Runs : \/ DigestStep(r) \/ AnalystStep(r) \/ AnalystEnds(r)
                       \/ RunSteals(r) \/ RunTermed(r) \/ RunDies(r)
                       \/ \E p \in Proposals, flaw \in BOOLEAN : AnalystDrafts(r, p, flaw)
    \/ \E d \in Deciders : DecideRecords(d) \/ \E marks \in BOOLEAN : DecideMoves(d, marks)
    \/ \E p \in Proposals : DecideChecks(p)
=============================================================================
