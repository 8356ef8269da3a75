# Formal models of dockwright

dockwright runs a *manager* CLI session and a pool of *worker* CLI sessions.
There is no daemon and almost no locking: the parties are processes that share
one directory tree (`~/.claude/dockwright/`) of small JSON files, each written
whole by `state.write_json_atomic` (write a temporary file, `os.replace`) and
removed by `unlink`.  Hooks of the sessions, the sessions' MCP servers, the
monitor scans and the stale monitor read and write these files concurrently.
What is atomic is one file operation; everything the program promises has to
survive any interleaving of them, and the death of any party between two.

The TLA+ modules beside this file model that protocol, TLC checks them on small
instances, and TLAPS proves the most important invariants for every instance.

## 1. The system

| Component | State it keeps | Operations | Hard part |
|---|---|---|---|
| Question channel | `questions/<mgr>/<qid>.json`, `answers/<qid>.json` | `ask_manager`, `answer_question`, `_drop_questions_for_worker` | three unlocked parties, re-asks after a timeout, a session that dies in between |
| Registry and session lifecycle | `active/<sid>.json`, `closed/<sid>.json`, `orphaned/<mgr>.json` | `session_start`, `session_end`, `register_self`, `become_manager`, `_prune_stale_active_records`, `_supersede_rotated_records`, nested detection | lock-free rewriting of whole records, name uniqueness, a prune racing a resume |
| Tasking and waiting | `tasked_at`, `processing_since`, `state` of the ACTIVE record, `done/` | `send_manager_to_worker`, `user_prompt_submit`, `stop_hook`, `worker_done`, `wait_for_worker`, idle auto-close | lost updates, a bound computed from a record that changes or goes |
| Monitor lanes | `.seen-<kind>-<mgr>`, `.fs-emitted-<mgr>.json`, `turn_ends/`, `done/`, `questions/`, outbox, heartbeats | `run_done_scan`, `run_turn_ends_scan`, `run_questions_scan`, `run_stale_scan` | a scan that dies between emitting and remembering, a signal consumed too early |
| Takeover and handoff | `handoffs/<id>.json`, manager records | `prepare_handoff`, `prepare_recovery_handoff`, `become_manager_with_takeover`, `spawn_replacement_manager` | one holder of the manager's name, a crash half way |
| Worker slots | `slots/<category>.json`, `.lock` | `acquire_worker_slot`, `release_worker_slot` | a holder that dies, one that loses its record while it works |
| Accounts | `account-active`, `account-state.json`, `account-flips.jsonl`, spawn counter | `_pick_account`, `_record_brick`, `_record_auth_401`, `_maybe_flip_account`, recovery launches | several monitors that act on what they read before; launches whose memory is lost |
| Spawn and resume | `assignments/`, `assignments/pending/`, closed records | `spawn_worker`, `resume_worker`, `kill_worker`, `_claim_pending_assignment` | late registration, double resume, ids inherited by environment |
| Artifact store | `artifacts/<task>/…`, events | `artifact_put`, `artifact_get`, `_archive_replaced` | check-then-write without a lock |
| Stale monitor | emitted-state file, buffer, outbox, limited flags | nudges, auto-close, pages for questions, windows and dialogs, lane silence | write-ahead of actions, scans that die, a reader that is gone, a manager that is limited |
| Run lock of the loops | lock directory and its `pid` file | `runlock_acquire`, `runlock_release`, `_runlock_try_steal` | stealing from a dead holder without an atomic test |
| Retrospectives (selffix) | finding files, dedup keys, retry queue, the loops' lock | `selffix-trigger.sh`, `selffix-run.sh`, `selffix-retry-lib.sh` | limits, failures and deaths between a session's end and its finding |
| Gardener | marker, ledger, proposals | `gardener_gate.py`, `gardener-run.sh`, `gardener_postrun.py`, `gardener_apply.py` | an analyst that outlives its run, two deciders, application in several repositories |
| Worktree prune | worktrees and branches of a clone, hold list, stop files | `worktree_prune.py` | destroying what somebody put there a moment ago |
| Action executor | proposal, `ledger.jsonl`, `ledger.lock` | `action_executor.py` | calls that overlap or die with the actuator left behind, a ledger that is never rewritten |
| Other loops (bootlite, shadow ledger) | ledgers, queues | Python scripts of `deploy/scripts` | single scheduled runs |
| Migration | legacy and new state roots | `migrate.run` | restart after a failure half way |
| Distillation, spend, sweep, transcripts, config, compose, install, names, status row, terminal drivers | files and tmux | reports and adapters | mostly I/O and formatting |

The parts meet in the ACTIVE records (written by hooks, MCP tools and the stale
monitor), in the event directories (written by workers, read by lanes) and in
tmux (text typed into a pane is the only way to reach a session).

Which of these parts are modelled, and how completely, is in the table of
`PROJECT.json` under "components"; its "hazards" list what can go wrong in this
code at which line, and which property would notice.

What makes each part correct:

- *Question channel*: a question leaves the disk only answered or dropped, an
  answer leaves it only into the hands of the session that asked, and a waiting
  session gets it.
- *Tasking and waiting*: `wait_for_worker` returns a report of the task it
  waits for, never an older one, and returns when the worker is gone for good.
- *Monitor lanes*: every report reaches the manager, once, in spite of scans
  that die; repeats keep their distance.
- *Takeover*: successors that race leave the name the workers know with one of
  them, and no worker loses its route on the way.
- *Worker slots*: never more holders than the cap but by a lapse, and nobody is
  blocked by what the dead left behind.
- *Run lock*: runs do not overlap but after a steal that was decided on an
  earlier lock, or of a lock too old; a dead run blocks nobody for ever.
- *Sessions*: a session that runs has a record, a worker that is gone has one to
  be resumed from, one session runs in one process, one assignment is in one
  place.
- *Accounts*: only a limit blocks an account, the pointer moves only away from a
  blocked one and not again within the cooldown, a stopped manager gets at most
  two successors, and one more for each launch the ledger cannot tell of.
- *Stale monitor*: what it has on record as paged was printed or will be; a
  nudge is sent once for a rung; what it did is told.
- *Retrospectives and gardener*: no finding is hidden from the digest, decisions
  are final, a proposal is in all of its targets or in none, what was put off is
  tried again.
- *Worktree prune*: nobody's work is destroyed, nothing guarded goes, leftovers
  go unless removals fail again and again.
- *Action executor*: an action is done once, and again only after an attempt at it
  is on record as failed; what is on record as executed is final.
- *Artifacts*: no write is lost silently.  *Migration*: a restart finishes what
  was begun.

## 2. The modules

Modules are independent of each other unless stated otherwise; they share no
variables, because the parts share nothing but the ACTIVE records, and each
module models of those records what its part reads and writes.  One action is
one file operation, together with the local computation before the next one;
where the code reads, computes and writes back, the action that reads keeps the
copy and another one writes it.  Variables under "Observability" are history
that the properties need and the code does not have.  A definition marked
"Mutant" (or "the mutated ...") is a wrong variant of the one it precedes; it
is not part of the specification.

**Questions** (`mcp_server.py` `ask_manager_impl`, `_try_consume_answer`,
`answer_question_impl`; `registry.py` `_drop_questions_for_worker`; `hooks.py`
`session_start`, `session_end`; `kill_worker_impl`).  `question` and `answer`
are the two directories, `call` what each `ask_manager` invocation is doing,
`reply` each `answer_question`, `reap` the lifecycle handler of each worker.
`AskNew`/`AskResume` enter a call, `WriteQuestion` creates the file,
`LookHit`/`LookMiss` are `exists()`, `ReadAnswer` is `read_json` with the stamp
check, `TakeAnswer` the `unlink`, `Deliver` the return; `FindQuestion` is the
resume's look at `questions/`, after which the code looks at `answers/` again.
`AnswerFind`, `AnswerRead`, `AnswerWrite`, `AnswerUnlink` are the four steps of
`answer_question`.  `SessionDies`, `EndSession`, `KillWorker`, `Drop…` and
`KillClose` are what a session's end does to all this, at any point.  An answer is
identified by the call that wrote it, so that each of several answers to one
question is followed by itself; `exposed` are the answers that another one may
have cost.

**Retask** (`hooks.py` `user_prompt_submit`, `stop_hook`, `session_end`;
`mcp_server.py` `send_manager_to_worker_impl`, `worker_done_impl`,
`wait_for_worker_impl`; `stale_monitor.py` `_autoclose_idle_worker`;
`registry.py` `_prune_stale_active_records`).  One worker's `record`, reduced
to `state`, `processing_since`, `tasked_at`, and four writers that overwrite it
whole: the worker's hooks (`session`), a send (`sender`: `SendRead`,
`SendResolve`, `SendText`, `SendStamp`), the auto-close (`closer`) and the
pruner.  `waiter` is `wait_for_worker`: `WaitStart` computes the lower bound,
`WaitLook` looks for a done event not older than it, `WaitCheck` for the record.

**TurnEnds** (`monitor.py` `run_turn_ends_scan`, `classify_turn_end`,
`_fs_ladder_*`; `hooks.py` `stop_hook`; `lane_io.py`).  A worker that takes
tasks and prompts, ends turns, reports, asks, works through subagents and
exits; and a scan that runs entry by entry over the turn-end files.
`ClassifyTurnEnd` is the classification, `Gate`, `Reset`, `NextEntry`, `Rung`
the ladder; `ScanHold`, `ScanSuppress` and `ScanPage` treat one entry,
`ScanMisjudges` is the entry whose classification raises, which the handler
consumes (`misjudged`), `ScanLadder` writes the ladder file, `ScanAppend` the seen
file, and `ScanDies` may come anywhere.

**RunLock** (`deploy/scripts/runlock.sh`): `mkdir`, `cat pid`, `kill -0`, the
age test, `mv` and `echo $$ > pid` are one action each.  `stale` are the runs that
judge a lock made after they looked, and `blind` is set when one of them steals.

**Semaphore**, **Slots** (`mcp_server.py` `acquire_worker_slot_impl`,
`release_worker_slot_impl`, `_evict_stale_holders`).  `Semaphore` is what the
slots promise.  `Slots` is the file under its lock (one attempt is one step),
and around it sessions, MCP servers and ACTIVE records that come and go.
`Slots` implements `Semaphore` with the ids in the file as the slots in use;
an eviction is a lapse there.

**Takeover** (`mcp_server.py` `prepare_handoff_impl`,
`prepare_recovery_handoff_impl`, `_recovery_target_liveness`,
`become_manager_with_takeover_impl`, `become_manager_impl`,
`register_self_impl`, `_backfill_legacy_workers`; `registry.py`
`_prune_stale_active_records`, `_resolve_unique_name`; `hooks.py` `stop_hook`,
`session_start`, `session_end`).  The old manager `Old` and its contenders: *resumers*,
started by `spawn_replacement_manager` on `Old`'s own handoff, which register
under a free name as soon as their session starts; and *recoverers*, launched
by the stale monitor, which write a handoff of their own and fall back to
`become_manager` when no manager is left (`Boot`; that decision is in
`deploy/commands/manager-takeover-recovery.md`).  The call runs through
`Judge` (liveness), `Scan` (prune, who has the name), `CloseOld`, `UnlinkOld`,
`ChooseName`, `RegisterScan`, `RegisterWrite`, `Backfill`/`Stamp`, and then
either `Consume` or `Unregister`/`Revert`.  `HookRead`/`HookWrite` are the stop
hook of `Old`, which writes back a record the takeover removed; `EndRead`/
`EndUnlink` its SessionEnd hook.  Names are numbers: 1 is the inherited name,
k the same with suffix "-k".

**Sessions** (`hooks.py` `session_start`, `session_end`,
`_supersede_rotated_records`, `_claim_pending_assignment`,
`_flag_orphaned_workers`; `registry.py` `_prune_stale_active_records`,
`_resolve_unique_name`; `mcp_server.py` `spawn_worker_impl`,
`resume_worker_impl`, `_spawn_and_confirm_resume`, `kill_worker_impl`,
`list_workers_impl`).  `active`, `closed`, `pending`, `sidecar`, `brief` are the
directories; `proc` are processes with the place their hooks are at: `Start…` is
the branch of `session_start` taken (known, rotated, nested or fresh session),
`StartWrite` and `StartClaim` its last steps, `EndWrite`/`EndUnlink` are
`session_end`.  `call` are the tool calls of the manager's server, which run one
statement at a time between two awaits (`HasThread`): `Spawn…` and `Resume…`
with every return, `PruneRead`/`PruneUnlink` the pruning of one record.  Codex
sessions, which resume under a new id, and hooks that see no pane are part of it.

**Accounts** (`stale_monitor.py`, the account functions and the manager part of
`main`; `spawner.py` `_pick_account`, `usage_spawn_gate`,
`ensure_account_config_dir`, `_build_account_prefix`).  One `scan` per manager,
one action per lock region or effect: `Brick`, `Flip`, `Launch`, `Relaunch`,
`Auth`, `AuthFlip`, `AuthLaunch`, `Append1` (the ledger line), `Emit` (the
commit of the keys), `Die` anywhere.  The record of a stop and the ledger line may
fail, and the ledger may be unreadable; the scan goes on each time, as the code
does (`unwritten`, `lost`, `blind`).  `Respawn` is a spawn by any session, which
reads the same files without the lock.  Times are kept as ages, so that the
clock need not be bounded; the ledger and the launches there were are the sets of
their ages, which is all that is asked of them, because no loop launches twice in a
tick (a conjunct of `LaunchesBounded`).

**Watch** (`stale_monitor.py` `main` and the functions it calls).  The scan of a
manager's stale monitor in the order of `main`: `ScanManager`, `ScanBusy` (stall
pages, nudges, scheduled nudges), `ScanIdle` (auto-close), `ScanPages`
(questions, orphan windows, approval prompts, `LaneSilence`), then `Hold` or
`Refire` for a limited manager, `Emit`, `Divert` and `Drain` (the outbox),
`Save`.  `WriteActions` is `_commit_actions_only`, called before an action is
done.  `Dies`, `LaneDead` (nobody reads the pipe), writes that fail and a
terminal that does not answer are the mishaps; `Sleep` is a machine that slept.

**Findings**, **Digest**, **Apply**, **Gardener** (`deploy/scripts`:
`selffix-*.sh`, `gardener_gate.py`, `gardener-run.sh`, `gardener_postrun.py`,
`gardener_apply.py`).  Findings: SessionEnd triggers a retrospective, which
waits for the loops' lock, empties the finding and writes it, or goes to the
retry queue.  The lock is taken in one step, with what RunLock shows it to allow:
a killed holder leaves it behind with its pid (`Dead`) or without one (`Bare`),
and a live one may lose it and go on (`Steals`, `RunTermed`; `loose`).  A claude
outlives the script that started it and writes when it likes (`orphan`;
`OrphanWrites`, `OrphanEnds`).  `known` is what is known of the texts.  Digest
extends it: `Gate` (hourly) serves that queue and decides
on a run, and takes a lock for held (`Locked`) by pid and by its missing;
`RunStarts` … `RunEnds` are the process, `AnalystReads` (what is newer than the
marker and what is `Parked` behind it), `AnalystDrafts`, `AnalystReports` the session
it started and which outlives it,
`Vet`/`Record` the vetting, `DecideChecks`/`DecideMoves`/`DecideRecords` a
manager's decision, step by step.  Apply: `Resolve`, `EnsureClean`, `Snapshot`,
`Write` root by root, `CanonGate`, `RecordApply`, with `Restore` on each error
path and `Edit`/`Commit` of other people in between.  Gardener composes them.
Digest and Apply share only the proposal file, whose text does not change, and
an application does not ask what was decided; so a behaviour of Gardener is
about one of the two (`side`), and TLC need not form the product.

**Worktrees** (`deploy/scripts/worktree_prune.py`).  A run scans the trees, judges
each through the gates (`Contained`, `Terminal`, `Merged`, `Clean`, `NotBusy`,
`Owned`), takes the first ones up to the cap (`FirstOf`; a tree is its place in
git's list), looks at each again (`LookAtOwners`, `LookAtTree`, `LookAtRefs`,
`CheckHead`, `AskMerged`), removes it and deletes its branch; each call of git,
gh or lsof may fail, and a removal every time (`RemoveFails`).  Tags of the clone
are a place work can be in, until somebody deletes them (`Anchored`).  People and agents act between any two of these steps.  A
commit is the set of the pieces of work it contains.  `wrongs` records what a
step destroyed that it should not have, judged against the state it happened in.

**Executor** (`deploy/scripts/action_executor.py`).  A call takes the lock
(`AcquireLock`), reads the ledger once (`ReadLedger`: `Anomaly`, and the plan
from `Disposition`, which has `classify_item` and the keys of the batch), and
then goes item by item: `Skip`, or `AppendDispatch`, `Start`/`SpawnError`,
`Act` (the actuator's effect), `Exit`, `AppendOutcome`.  `CallDies` may come
anywhere, with half a line written, and leaves its actuator as an `orphan` that
may still act.  The operator mends a torn line (`Mend`) and settles a dispatch
without an outcome (`Settle`), as the refusals ask.  What is refused before the
lock, and a dry run, change nothing and are stutters.

The MC modules give TLC sets and symmetries; the `…Proofs` modules hold the
theorems.

## 3. What the runs check

| Run | Instance | What it shows |
|---|---|---|
| `questions` | 2 workers, one of which may end, 2 calls, 2 answers, 1 question, fair | no interleaving loses a question (`QuestionAccounted`), or an answer but one of two to the same question (`AnswerSurvives`, per answer), or makes a resume report as unknown what is there (`ResumeFindsAnswer`); an answer reaches another session only unstamped (`ForeignOnlyIfUnstamped`); a waiting call gets its answer (`WaitingCallIsAnswered`) |
| `retask` | 2 tasks, 2 ticks, grace 1, fair | `BusyWaitIsFresh`, `EpisodeIsCurrent`: whoever overwrites the record, one of its two time stamps dates the running task; `WaitComesBack`: a wait returns on the report of its task, be it older than the send's stamp, and on a worker that is gone for good |
| `turnends` | 4 ticks, 3 turns, 1 event, 1 failure, fair | `PagedOnce`, `PagesBackOff`: pages of one lull keep doubling distances through any dying scan; `QuietFinishIsPaged`: no chain of holds, and no report of an earlier task, keeps a quiet finish from the manager, unless its classification raised |
| `runlock` | 3 runs, 2 may die, locks age, fair | `Exclusive`, `Settles`: runs exclude each other as long as none stole a lock it had not looked at, and none has overstayed; a run that wants the lock gets it or gives up |
| `slots` | 2 workers with caps 2 and 1, 4 slots, 1 restart each | `CapKept`, `BlockedByUsers`, `ImplementsSemaphore` |
| `takeover` | a resumer, a recoverer, 1 worker, 1 death, fair | `DuplicateStandsDown`, `InFlightStayRouted`, `ConsumedUnderTheName`; `TakeoverLeavesAHolder`: a takeover that passed its scan and lives leaves the name with a live holder, unless the predecessor's stop hook is writing its record back |
| `accounts` | 2 accounts, 2 managers, 1 worker, 2 mishaps | `LaunchesBounded`: two successors at most for one stop, one more for each launch the ledger never learned of and each made on a ledger that could not be read; `BricksAreEarned`; `FlipsAreSane`: also where the stop could not be recorded |
| `watch` | 4 ticks, 3 events, 1 mishap | `OwedIsSaid`: what the monitor did or recorded (pages, RESUMED lines, closed windows) reaches the manager or waits for it; `NudgedOncePerRung`: a worker that stays silent is nudged again only for something new, or after a mishap or a limit of the manager that held its page back; `NoFalseSilence`: a lane that lived since a completed scan that looked at it is not called silent, however the machine slept |
| `sessions` | 2 session ids, 3 processes, 2 calls, 3 mishaps, codex | `WorkerIsSomewhere`, `OneProcessPerSession`, `SpawnReportsANewSession`, `BriefIsInOnePlace`, `RunningIsRegistered` |
| `gardener` | 2 sessions that end once, 1 retrospective and 1 run at a time, 1 proposal, 2 deciders, 1 act, 1 fault; 2 roots (one new), 2 touches, 2 calls, 1 mishap; fair | `NoFindingForgotten`: also by what outlived its script or lost the lock, until the next digest; `DecidedOnce`; `PutOffIsRetried`; `ApplyAllOrNothing` |
| `executor` | 2 calls, 2 verbs, 2 ids, proposals of at most 2 items, 3 runs, 2 deaths | `TwiceOnlyAfterFailure`, `ExecutedIsFinal` |
| `worktrees` | 2 trees, 1 agent, cap 1, 2 pieces of work per tree, 3 acts, 2 faults, failing removals not counted, fair | `NothingIsLost`, `GuardedStays`; `LeftoversGo`: unless the removal of that tree, or of the one before it in the list, fails again and again |

Modules with proofs have their `TypeOK` as a theorem; in the others it is a
conjunct of one of the invariants above.  `CHECK_DEADLOCK FALSE` is set where
everybody may be done, or gone, or a bound is used up.

### Bounds

- *Questions*: ids do not interact, so one question with the parties that can
  race on it is the interesting case: two calls (a retried tool call beside the
  first), two answers, and a second worker, which a foreign resume needs.  Only
  one worker's session ends (`Mortal`), be it the one that asks or the other one.
  Two sessions that end are more than the liveness check can take; the theorems
  have any number of all of them.
- *Retask*: two tasks are needed for a stale report; the clock needs to pass
  the grace between them.  `Tick` stops at `MaxTime`, behaviour does not.
- *TurnEnds*: three turns give the ladder two rungs, four ticks are enough for
  both to expire; `MaxEvents` bounds tasks, done events, questions, subagents
  and rate limits together, `MaxFailures` the scans that die, fail to write or
  fail to classify.  Both graces are 1, so that the hold for an earlier turn-end
  (`EpisodeHold`) ends together with the first grace; an episode grace of 2 needs
  five ticks before a quiet finish can be due, more than TLC can take, and one
  that is the larger by a turn-end grace of 0 holds as well, in four minutes.
  A lull that outlives its ladder entry takes more ticks and turns; that case
  is covered by the theorem only.
- *RunLock*: three runs are the least that can steal a lock none of them had
  looked at; two of them may die.
- *Slots*: four slot ids over a cap of two let every slot be evicted and granted
  anew; one restart gives a server a second pid.
- *Sessions*: two ids are a worker and the session that a rotation, a fork, a
  spawn or a nested start makes beside it; three processes let two resumes of
  one session meet; two calls overlap in every way; three mishaps let failures
  meet.  Three ids with two mishaps, and three calls with two, hold as well;
  they take minutes and are not among the runs.
- *Accounts*: two accounts make a flip possible and a flip back; two loops race;
  the second manager has a worker, so that a session without a monitor of its
  own can stop.
- *Watch*: thresholds are as small as keeps them in their order; four ticks let
  the first rung and the repeat come, and a limit begin and end in between.  `Sleep`
  lasts at most `LaneGap + 1`, which is as good as longer: the scan after it does
  not judge the lanes.  A sleep that is shorter, so that the gap does not show
  it, comes only after every lane has scanned since the sleep before: two of
  them with nothing in between make a living lane look silent, and nothing in the
  code could tell.
- *Gardener*: two sessions, each of which ends once, give a retrospective beside a
  digest and a retry that waits while another text is written; one slot for runs
  is taken again after a run died, but not while its analyst goes on, so that an
  analyst of a dead run beside another run is covered by the theorems only; two
  deciders race.  Two roots let the second fail after the first was written;
  two touches let an edit and a commit surround a write.
- *Executor*: two calls race for the lock and a third one reads what they left;
  two deaths leave a torn line and an orphan; two items bring a key twice in one
  proposal; a second verb shares the ledger.
- *Worktrees*: one tree on a branch and one on a detached HEAD, a cap of one, so
  that the first tree of the list can starve the second; three acts are needed for, say, a merge at an old head, a new commit and a
  switch.
- *Takeover*: one contender of each kind, as one handoff has one resumer and a
  limit flip one recovery; `MaxDeaths` 1 kills either of them anywhere.

### Fairness, and why the code justifies it

- *Questions*: `WF(CallStep)`, the poll loop of a coroutine that asyncio gives its
  turn; `WF(AskAgain)`, because `deploy/agents/worker.core.md` has a worker that got
  `NO_ANSWER_YET` call again.  Answering is not fair: a human may never answer.
- *Retask*: `WF(Wait)`, the poll loop of `wait_for_worker`, and nothing else: no
  turn, send, hook or close has to happen, and nobody has to prune (`stale_monitor`
  does not, and the manager is blocked in its wait).
- *TurnEnds*: `WF(Scan)`: the manager's Monitor runs
  `while dockwright monitor turn-ends || exit $?; do sleep 5; done` and re-arms it.  Failures are
  bounded: a scan that always dies pages nothing.
- *RunLock*: a started run goes on, its job runs under a timeout, time passes.
- *Takeover*: `WF(Step(c))`: a call that was made and whose server lives runs to
  its end.  Nobody has to make one, or to make one again: the commands have a
  session whose takeover failed surface the error and stop
  (`manager-takeover-recovery.md:13`).  Contenders may die, up to the bound.
- *Gardener*: `WF(Gate(TRUE))`: launchd calls the gate every hour
  (`gardener-install.sh`); retrospectives, runs and analysts that are not killed
  go on.  Faults and acts are bounded; nobody has to decide or to apply.
- *Worktrees*: `WF(Prune)`: launchd starts run after run, and a run goes on to
  its end.  A removal may fail each time it is tried.  Nobody has to do anything.

## 4. What is proved

TLAPS checks these for every value of the constants.

- **ChannelProofs** (Questions and Retask; definitions that would clash have the
  prefix `Retask`): `TypeCorrect`, `QuestionsAccounted`, `AnswersSurvive`,
  `ResumesFindAnswers`, `ForeignAnswersAreUnstamped`.  The inductive invariant
  has the types; `RefInv` (what calls refer to was asked); `AccountInv` (a call that
  saw an answer is on an answered question; a second look happens only after the
  question file is gone for good, which is why a miss there proves that somebody
  took the answer); `TextInv` and `EachInv`, which follow each answer by itself
  (what a call is about to unlink is the answer it read, or one that was written
  since and is in `exposed`), for any number of answers to a question; and
  `StampInv` (files and calls past the check carry the
  asker's sid, or the question is *loose*: dropped, or in the hands of two
  `answer_question` calls).  `Taken`, `Loose` and the asker never change back;
  these are lemmas of their own.
  For tasks and waits `EpisodesAreCurrent` and `BusyWaitsAreFresh`, for any number of
  tasks and any grace.  Hooks, a send, the auto-close and the pruner overwrite one
  record with copies read at different times.  `SentInOrder` says which tasks
  were typed and stamped, `CopiesHold` that who writes a record back has one;
  `TurnIsDated` that in a turn one of the record's two stamps is not older than the
  task, except while a send is in flight, which will stamp it again; `WaitIsBound`
  that a wait begun in such a turn keeps a bound not before it.
- **LockProofs** (RunLock, Slots and Executor, the three parts that are built on a
  lock; definitions that would clash have the prefix `Lock` or `Executor`):
  `LockTypeCorrect`, and `RunsExclude`: `Exclusive` for any number of runs and
  deaths.  `Exclusive` is about the time before anybody overstayed or stole a lock
  made after it looked, which can happen (section 6); for that time `Orderly` says
  that one run at most is inside and the lock has its pid (`OneInside`), that
  nobody is inside an over-aged one (`AgedIsLeft`), and that a run that judges the
  lock it looked at steals it only when nobody is inside (`FreshLook`).  For the
  slots
  `TypeCorrect`, `CapIsKept`, `SlotsImplementSemaphore` and `OnlyUsersBlock`.  The
  cap is not inductive by itself: `WorkCounts` ties a slot at work to a holder in
  the file that eviction keeps, `OnePlace` says that no slot is held twice, and
  `FileBounded` bounds the file by the cap.  That only users block
  (`BlockedByUsers`) needs to know who a surviving holder is: `UserInv` says that a
  server's pid tells its starts apart (`PidsAreStarts`) and that a holder whose
  server still runs is at work, in a call, or was lost on the way to its session
  (`HoldersHaveUsers`).  For the executor `LedgerIsTyped`, `RepeatsFollowFailures`,
  `ExecutedStaysDone`, and `LedgerAccounts` (every effect has its dispatch on
  record, every executed record its effect).  `Locked` says that only the holder
  of the lock works; `Holds` what its plan is worth at each step although the
  ledger was read long ago: the keys left to execute are different and none is
  executed (`PlanHolds`), the one at hand is dispatched (`AttemptHolds`).
  `Repeats` is stronger than its property: an orphan whose action took effect
  before has a failure on record, too.

- **TurnEndsProofs**: `PagesOnce` and the action property `PagesKeepBackingOff`.
  `PagedIsConsumed` says that what was printed is in the seen file, or in the
  running scan's list, or a scan died; `LookedAtOnce`, `RungsArePaid` and
  `TurnsCounted` are what it rests on.  The back-off needs a second layer,
  `LullIsCounted`: the ladder, or the copy a scan works on (`Working`), counts at
  least the pages of the lull that were written (`Kept`), and its time is not
  before theirs.  Rungs grow because 2^n counts the subsets of n things
  (`RungsGrow`); induction over n is not available.  The attempt at this proof
  corrected the property: the ladder drops an entry after `LadderTTL`, and the
  next page then starts at the first rung, so a lull is what lies within that
  time (48 h, when the cap is 4 h).
- **ScanProofs**, Worktrees: `TypeCorrect`, `WorkSurvives` (`NothingIsLost`), `GuardsHold`
  (`GuardedStays`), for any numbers of trees, tags, agents, acts and failures.  A run
  acts on answers that git, gh and lsof gave it before; `Relies` says for each tree what
  such an answer still means: between the gates and the second look (`WaitHolds`),
  after it (`LateHolds`), while HEAD is what it was (`SameHolds`), and once its
  commit was found in the main branch or in a merged pull request (`MergedHolds`).
  `Sound` is the clone's own consistency: no work is anywhere that nobody made
  (`AllKnown`), what is uncommitted is on no branch (`Uncommitted`), the clone's view of
  main lags behind the server's (`MainLags`).

- **ScanProofs**, Watch: `WatchIsSound` (`WatchTypeOK` and `WatchInv`),
  `OwedIsAlwaysSaid`, and the action properties `RungsAreNudgedOnce` and
  `SilenceIsReal`, for any thresholds, gaps, ladders and bounds.  A scan works on
  a copy (`scan.was`), builds the next state (`scan.next`) and may die anywhere,
  so that each part of `WatchInv` says the same thing twice: of the state on disk,
  and of the scan at each of its steps.  `ScanKeeps`: a running scan leaves the pages
  and the buffer on disk as it found them, and has not touched what comes later.
  `PagesOwed`, `AnswersOwed` and `CloseOwed` name the places where a page, the answer to
  a nudge and the line of a close may be (said, in the list of lines, held by the
  scan before, in the buffer about to be written) and lose none of them when the scan
  goes on, ends or dies.  `RungsRemembered` says which record remembers the last nudge
  of a silent worker (`Remembers`), and why a nudge that is about to be sent is a
  new one (`SendIsDue`).  `LaneRemembered` says that of a living lane only a scan after a
  sleep can have seen a stale heartbeat, and that the next one either finds it
  beating or does not judge it.  Below these there is one lemma per action that
  says what it makes of the scan (`StartIs`, `BusyIs`, `PagesAre`, ...), and lemmas on the
  ladders, which grow with the time that passed (`HighestGrows`, `NudgesGrow`).
  The assumptions are that thresholds and bases are positive numbers, that
  `BusyDeadline` is not below `IdleThreshold` (`_busy_shell_deadline` takes a
  maximum), and that `None` is no number, entry or buffer.

  The attempt at these proofs corrected two of the properties, both false outside
  the bounds of the run.  After a limit, `Refire` drops the page entry of a worker
  whose page was held back, so the next scan nudges for a rung it had nudged for
  (`stale_monitor.py:2008-2017`); `NudgedOncePerRung` now leaves that nudge out.  And a
  scan that skips the lanes after a sleep carries an earlier `lane_silent` entry over
  unlooked (`stale_monitor.py:1186-1193`), so that a short sleep right after it pages
  a lane that has lived throughout; `NoFalseSilence` now asks that the scan before
  looked.

- **TakeoverProofs**: `TypeCorrect`, `RoutesSurvive`, `DuplicatesStandDown`,
  `ConsumersHoldTheName`, for any number of successors and deaths.  Nothing is
  locked there, so the invariant says what a call may rely on all the same:
  `RecordInv` (its session lives and its record has the name it registered),
  `RouteInv` (whom it is about to stamp is not routed, and it reverts only
  under another name), `HeldInv` (a holder from before it began has the name or
  is gone).  That a free name exists at all is a pigeonhole argument
  (`UniqueNameIsName`), part of the type correctness.

- **GardenerProofs**: `ForgetsNoFinding` (with the types of both sides),
  `DecidesOnce`, `AppliesAllOrNothing`, for any numbers of sessions,
  retrospectives, runs, proposals, managers, repositories and faults.  What a
  good digest hides is decided only at its end, by a marker that is younger than
  everything on disk; so the invariant follows the lock (`LockHeld`: who works
  without it is `loose`) and what the analyst saw (`SeenByRun`: to an analyst whose
  run is under way all that waits is as it was, and among what it saw, or was
  read before, or is stray; `ReportsAreDrafts`: a run that found a good status has
  such an analyst).  A stray text, written by a claude that outlived its script or
  while somebody was loose, may be hidden by the marker, but the next good digest
  reads it among the parked ones.  `OneMove` says that the rename of the file picks one manager.
  For an application `CallOnCourse` relates the files, the snapshot and the
  ledger at each point of a call; it holds as long as nothing was torn.  The
  assumptions are that slots of retrospectives and runs are different
  (`SlotsAssumption`) and that the bounds are numbers.

- **SessionsProofs**: `TypeCorrect`, `BriefsAreClaimedOnce`,
  `SpawnsReportTheirOwn`, `SessionsAreSingle`, `RunningAreRegistered` and
  `WorkersAreFound`, for any numbers of sessions, processes, calls and mishaps.
  The invariant is built in layers, each of which rests on those before it.
  `StartInv`: a session that starts and was never resumed has touched nothing
  yet (`FirstStart`, `NewUntouched`), a process that resumes one is in no record
  (`ResumedBoot`), a hook between its two writes finds the record it wrote
  (`ClaimIsWritten`), a nested session has nothing that could be resumed
  (`NestedIsBare`), and assignments are claimed by one (`OneBrief`).
  `SpawnedIsNew`: what a spawn could find under its name is new since the names
  were read.  `FlagIsSet`: who the manager left behind registered has set the
  flag.  `SoleInv`: outside the two races that `gaveUp` and `shadowed` name, a
  process that works has its own record and one that starts finds none
  (`OwnRecord`), no other has its session (`Alone`), and that is so because the
  resume that started it still waits for it (`ResumedIsAwaited`), was the only one
  to do so (`ResumeIsFirst`), and writes back a record of it (`FixIsOwn`).
  `FoundInv`: between the two writes of a session's end the closed record is
  there (`EndingIsClosed`), and a resume drops a closed record only beside an
  active one (`ForgetsTheFound`).  Free names, numbers and processes exist by
  the pigeonhole principle and well-foundedness (`UniqueNameIsFree`,
  `NextProcIsFree`).  The assumption `NoneAssumption` says that `None` is no
  number and no record.

- **AccountsProofs**: `LaunchesStayBounded`, `FlipsStaySane` (an action property)
  and `BricksStayEarned` (with the types), for any numbers of loops, workers,
  accounts and mishaps and any periods.  `FlipInv` says what a scan still knows
  when it flips: records of limits and failed logins go only with time
  (`RecordsStay`) and no scan outlasts a tick, so what was recorded at `Brick` or
  `Auth`, or failed to be (`unwritten`), holds at the flip, although the lock was
  released in between.
  `EarnedInv` follows an account from a limit to the session's banner, to the scan
  that reads it, to the record; a worker loses its stamp only when every account
  is blocked.  `LaunchInv` counts what the ledger cannot know: a launch that is not
  in it was lost with its scan or its line (`Unknown`); the second launch is made
  only while it has one at most, or while it cannot be read (`blind`).  `ScanMoves` and `LaunchMoves` say once what a step can make of
  a scan and of the launches.  The assumptions say that a manager is nobody's
  worker, that the registry is a sequence, and that the cooldown is not longer than
  `MaxReset`.

Only model-checked are all liveness properties (`WaitingCallIsAnswered`,
`WaitComesBack`, `QuietFinishIsPaged`, `Settles`, `TakeoverLeavesAHolder`,
`PutOffIsRetried`, `LeftoversGo`), which are out of the prover's reach.  Every other
property of the runs is the statement of a theorem.

## 5. What is not modelled

- *Of the modelled parts*: what is said, printed and painted; several scans of
  one lane at once; the pruning of turn-end files after 24 hours; the tmux
  dialogue of a send; the in-place restart of a manager (`/manager-recycle`);
  who reads the orphan flags (Sessions sets them); hooks of workers that write their record back while a
  takeover stamps `parent_manager_name` on it (every one of the lost updates
  that Retask has for `tasked_at` can lose that stamp, too); collisions of
  worker and manager names.
- *Uniqueness of names* is not a property of the code: `register_self` scans and
  then writes, so two sessions can end up under one name.  Takeover has that
  race and checks what holds in spite of it.
- *Sessions*: agents other than workers and managers, presets and command lines,
  a manager's restart under a new id.  *Accounts*: the measured usage of an
  account is any answer; settings are not copied.  *Watch*: one worker, question,
  window, dialog and lane stands for all; texts and the numbers of the roll-up.
- *Gardener*: the frontier lane (which runs by the same script), the headless
  mode, back-pressure, the currency of findings, evaluation gates.  Two
  `gardener_apply` calls at once are not modelled: nothing locks them, and each
  would restore over the other.  Hunks are assumed to have context on both
  sides; one without, at the end of a file, could be applied twice.
- *Executor*: the verb-configs and what makes an item valid (an item fails at one of
  `Gates`); rendering of the actuator's command line.  An actuator that takes
  effect does so once, and exits 0 only then.
- *Worktrees*: one clone and one run at a time; a build that runs in a tree while
  nobody's cwd is in it; several remotes.
- *Whole parts*: distillation, spend and reports (sequential parsing of
  transcripts), terminal, installation and configuration (adapters), artifacts
  (no promise to concurrent writers), migration (one run at installation), the
  boot watchdog and the shadow ledger.

### What the properties except

Some of what the code does is in the models and is not what one would wish.  The
property it concerns names the case, and says that nothing else leads there.

- *Questions*: of two answers to one question that are under way at once, one may
  be lost: overwritten by the other, or written between a call's read of the other
  and its unlink, which goes by name (`exposed` in `AnswerSurvives`).
- *Retask*: a record that a late send or Stop hook writes back after its removal
  is a worker to `wait_for_worker`, which then ends by its deadline
  (`GoneForGood` in `WaitComesBack`).
- *TurnEnds*: a turn-end whose classification raises is consumed unheard
  (`misjudged` in `QuietFinishIsPaged`); one that was printed by a scan that died
  before `.seen` is printed again (`failures` in `PagedOnce`).
- *RunLock*: see `LiveHolderKept` below (`blind` and `overstayed` in `Exclusive`).
- *Slots*: a holder that lost its record or server while it works is evicted, and
  its slot granted again (`lapsed` in `CapKept`); a slot granted to an interrupted
  call stays in the file until the server ends (`lost` in `BlockedByUsers`).
- *Takeover*: where the predecessor's stop hook read its record before the removal
  and writes it back before the successor chooses its name, the successor stands
  down for a session whose window is closing, and nobody has the name
  (`WritesBack` in `TakeoverLeavesAHolder`).
- *Accounts*: launches the ledger cannot tell of (`lost` and `blind` in
  `LaunchesBounded`); a flip may land on an account whose stop could not be
  recorded, since no file says so.
- *Sessions*: the record of a session that was started again is pruned
  (`shadowed`), a closed record is dropped beside one just written (`raced`), a
  resume that gave up leaves a process that starts all the same (`gaveUp`).
- *Watch*: a scan that dies between the close of a worker and its line loses the
  line (`closed` in `OwedIsSaid`), one that dies between a nudge and its mark may
  repeat the nudge (`left` in `NudgedOncePerRung`).
- *Gardener*: a TERM has the trap release the lock while the script goes on, and a
  lock over two hours old is stolen from a live holder: what is written meanwhile,
  or by a claude that outlived its script, may be behind the marker until the next
  digest reads what is parked (`known.stray` in `NoFindingForgotten`); the gate
  takes a lock without a pid for held, so that the queue waits until a contender
  steals it after two hours (`Bare`), and a retry whose start fails is lost, its
  entry being gone (`dropped`; both in `PutOffIsRetried`).  A text that is written
  anew after the analyst read it is marked reviewed with its proposal's decision;
  `NoFindingForgotten` is about unreviewed ones.
- *Worktrees*: the removal cannot see what comes after the second look; what the
  server or a tag had when the run asked may be given up later; `git branch -D`
  deletes by name although HEAD's commit was compared (`exempt`, and the comment
  of `NothingIsLost`).  A run tries the first trees of the list up to the cap, and
  a removal that fails counts, so trees whose removal always fails starve those
  behind them (`StuckAgain` in `LeftoversGo`).

## 6. Known divergences

Five claims of documents, comments or tests are stated as properties, and the
code does not have them.  No run lists them; adding the property to the named
cfg, with the instance given, lets TLC print the behaviour.

- `GatedWaitIsFresh` (Retask; `MCRetask.cfg` with `MaxTime = 3`):
  `deploy/agents/manager.core.md:325` promises that `wait_for_worker` ignores done
  events older than the latest send.  `stop_hook` writes back a record that it read
  before it parsed the transcript; a `tasked_at` stamped meanwhile is gone, and
  the wait returns the older event.
- `QuietExitIsPaged` (TurnEnds; `MCTurnEnds.cfg` with `MaxFailures = 0`):
  `deploy/agents/manager.core.md:297` promises that reports older than the
  current assignment do not suppress a quiet finish.  When the session exits
  before the grace, its record is gone, the start of the episode counts as 0,
  and the old report suppresses and consumes the turn-end.
- `LiveHolderKept` (RunLock; `MCRunLock.cfg` with `MaxDeaths = 0` and
  `Ages = FALSE`): `tests/test_runlock.py:43` asserts that a live holder's lock is
  not broken.  The holder's pid is read, tested and its directory moved by name in
  three commands; in between the directory can have become another run's.
- `UnknownBlocks` (Executor; `MCExecutor.cfg`): the refusal at
  `action_executor.py:258` ("unresolved dispatch ... the actuator may have run") and
  `tests/test_action_executor.py:401` have an attempt without an outcome block the
  next.  Dispatches and outcomes are compared as sets of keys, so once a key has a
  failure on record, a later attempt that dies is not seen, and its actuator
  may still be running when the next one starts.
- `ClosedPredecessorDistills` (Takeover; `MCTakeover.cfg` without resumers,
  workers and deaths): the docstring of `become_manager_with_takeover` has the
  graceful close fire the predecessor's distill.  `kill-pane` returns at once,
  the record is removed next, and the SessionEnd hook that then finds no record
  starts none.

## 7. Plan

Done: all parts of section 1 whose difficulty is in interleavings and failures,
except the artifact store, migration and the smaller loops; proofs of every
safety property that a run checks.  Next, in this order:

1. The done and questions lanes as further instances of what TurnEnds has for
   the turn-ends lane, implementing at-least-once delivery.
2. Artifacts: concurrent `artifact_put` against a store in which every version
   written is the current one or archived.
3. Several workers in Watch, two `gardener_apply` calls at once.
