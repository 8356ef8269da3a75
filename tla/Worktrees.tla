------------------------------ MODULE Worktrees ------------------------------
(***************************************************************************)
(* The worktree-prune loop (deploy/scripts/worktree_prune.py): a run       *)
(* started by launchd, or by hand, scans the worktrees of a clone, judges  *)
(* each through eight gates, and with --apply removes the eligible ones    *)
(* after it has looked at each of them once more; then it may delete the   *)
(* branch.  Nothing locks the trees meanwhile: people and agents enter     *)
(* them, write, commit, switch, push and merge, between any two of its     *)
(* git, gh and lsof calls, and each of these calls may fail.               *)
(*                                                                         *)
(* A branch is named by the tree it was made for.  A commit is the set of  *)
(* the pieces of work it contains, so "ancestor of" is inclusion; a squash *)
(* merge leaves a PR in state merged with the head it was merged at, and   *)
(* main without that commit.  A tree is a number, its place in the list of *)
(* git worktree.  Build artefacts and the injected untracked files, which  *)
(* the gates pass over, are no work and are left out.                      *)
(***************************************************************************)
EXTENDS Naturals, FiniteSets

CONSTANTS
    Trees,         \* the worktrees, and the branches made for them
    StartDetached, \* the trees that start on a detached HEAD
    Protected,     \* PROTECTED_BRANCHES: main and master
    Agents,        \* sessions that come to work in a tree
    MaxRemovals,   \* MAX_REMOVALS, the cap of a run
    MaxWork,       \* bound: pieces of work made in one tree
    MaxActs,       \* bound: what people and agents do, in number of actions
    MaxFaults      \* bound: calls of the loop that fail

ASSUME TreesAssumption == /\ Trees \subseteq Nat \ {0}
                          /\ StartDetached \subseteq Trees /\ Protected \subseteq Trees
ASSUME BoundsAssumption == MaxRemovals \in Nat \ {0} /\ MaxWork \in Nat \ {0}

Away == 0
Work == Trees \X (1..MaxWork)

VARIABLES
    tree,     \* per tree: is it there, HEAD, uncommitted files, markers
    local,    \* per branch: does it exist in the clone, and its tip
    tags,     \* the commits that tags of the clone name
    origin,   \* the remote-tracking refs of the clone, as last fetched
    server,   \* the remote: main and the pushed branches
    pr,       \* per branch: its pull request
    agent,    \* per agent: the tree its cwd is in, and whether it is in active/
    ops,      \* the operator's stop file and hold list
    run,      \* the run in progress
    made,     \* per tree: pieces of work made so far
    budget,   \* acts and faults so far
    wrongs    \* what a run did and should not have done

vars == <<tree, local, tags, origin, server, pr, agent, ops, run, made, budget, wrongs>>
repo == <<tree, local, tags, origin, server, pr>>

Idle == [pc |-> "idle", apply |-> TRUE, todo |-> {}, found |-> {}, owned |-> {},
         seen |-> [t \in Trees |-> [head |-> {}, detached |-> FALSE, locked |-> FALSE]],
         batch |-> {}, cur |-> Away, unowned |-> FALSE, held |-> FALSE,
         guarded |-> FALSE, merged |-> FALSE,
         exempt |-> {}]  \* work the run does not answer for: see NothingIsLost

TypeOK ==
    /\ tree \in [Trees -> [on: BOOLEAN, detached: BOOLEAN, at: SUBSET Work,
                           files: SUBSET Work, ignored: SUBSET Work,
                           busy: BOOLEAN, locked: BOOLEAN]]
    /\ local \in [Trees -> [has: BOOLEAN, tip: SUBSET Work]]
    /\ \A c \in tags : c \subseteq Work
    /\ origin \in [main: SUBSET Work, tips: [Trees -> SUBSET Work]]
    /\ server \in [main: SUBSET Work, tips: [Trees -> SUBSET Work]]
    /\ pr \in [Trees -> [state: {"none", "open", "closed", "merged"}, head: SUBSET Work]]
    /\ agent \in [Agents -> [in: Trees \cup {Away}, active: BOOLEAN]]
    /\ ops \in [stop: BOOLEAN, list: BOOLEAN, hold: SUBSET Trees]
    /\ run.pc \in {"idle", "fetch", "scan", "owners", "tree", "refs", "head", "merged", "remove", "branch"}
    /\ run.found \cup run.todo \cup run.batch \cup run.owned \subseteq Trees
    /\ \A t \in Trees : tree[t].on /\ ~tree[t].detached => local[t].has
    /\ made \in [Trees -> 0..MaxWork]

Init ==
    /\ LET first == [t \in Trees |-> {<<t, 1>>}]
       IN /\ tree = [t \in Trees |-> [on |-> TRUE, detached |-> t \in StartDetached,
                        at |-> IF t \in StartDetached THEN first[t] ELSE {},
                        files |-> {}, ignored |-> {}, busy |-> FALSE, locked |-> FALSE]]
          /\ local = [t \in Trees |-> [has |-> t \notin StartDetached, tip |->
                        IF t \in StartDetached THEN {} ELSE first[t]]]
          /\ origin = [main |-> {}, tips |-> first]
          /\ server = [main |-> {}, tips |-> first]
    /\ tags = {}
    /\ pr = [t \in Trees |-> [state |-> IF t \in StartDetached THEN "none" ELSE "open",
                              head |-> {}]]
    /\ agent = [a \in Agents |-> [in |-> Away, active |-> FALSE]]
    /\ ops = [stop |-> FALSE, list |-> TRUE, hold |-> {}]
    /\ run = Idle
    /\ made = [t \in Trees |-> 1]
    /\ budget = [acts |-> 0, faults |-> 0]
    /\ wrongs = {}

-----------------------------------------------------------------------------
(* What git shows *)

HeadOf(t) == IF tree[t].detached THEN tree[t].at ELSE local[t].tip
CheckedOut(t) == tree[t].on /\ ~tree[t].detached

OnServer ==
    server.main \cup (UNION {server.tips[t] : t \in Trees})
    \cup (UNION {pr[t].head : t \in {u \in Trees : pr[u].state = "merged"}})

Anchored == OnServer \cup UNION tags

\* what some ref or some tree still leads to, on the clone or on the server
Reachable(trees, branches) ==
    Anchored \cup (UNION {branches[t].tip : t \in {u \in Trees : branches[u].has}})
    \cup (UNION {IF trees[t].detached THEN trees[t].at ELSE branches[t].tip :
                   t \in {u \in Trees : trees[u].on}})

\* merge-base --is-ancestor c origin/main
InMain(c) == c \subseteq origin.main

\* gate_contained: a detached HEAD must be in main, in a tag, which need not be
\* on the server, or in a remote branch the server still has at the very
\* commit; a local branch is no proof.  for-each-ref shows one remote branch
\* first, and only that one is asked of the server.
Contained(c) ==
    LET refs == {b \in Trees : c \subseteq origin.tips[b]}
    IN \/ InMain(c)
       \/ \E tag \in tags : c \subseteq tag
       \/ /\ refs # {}
          /\ LET ref == CHOOSE b \in refs : TRUE
             IN server.tips[ref] = origin.tips[ref]

\* gate_terminal; without an answer of gh only ancestry counts
Terminal(t, c, gh) ==
    \/ run.seen[t].detached
    \/ gh /\ pr[t].state \in {"closed", "merged"}
    \/ (~gh \/ pr[t].state = "none") /\ InMain(c)

\* the mutated gate_merged does not compare the commit
MergedAtAnyHead(t, c, gh) == (gh /\ pr[t].state = "merged") \/ InMain(c)

\* gate_merged: the branch may go only if this very commit was merged
Merged(t, c, gh) ==
    \/ gh /\ pr[t].state = "merged" /\ pr[t].head = c
    \/ InMain(c)

\* clean_from_porcelain, check_ignored: a status that cannot be read is dirty
Clean(t) == tree[t].on /\ tree[t].files = {} /\ tree[t].ignored = {}

\* gate_in_progress
NotBusy(t) == tree[t].on /\ ~tree[t].busy

Registered(t) == {a \in Agents : agent[a].in = t /\ agent[a].active}

\* the mutated gate takes silence of both sources for absence
OwnedIfSeen(actives, lsof) ==
    {t \in Trees : \/ actives /\ Registered(t) # {}
                   \/ lsof /\ \E a \in Agents : agent[a].in = t}

\* gate_unowned: by the records of active/ with a live pid, and by the cwds
\* lsof lists; when neither can be read every tree counts as owned
Owned(actives, lsof) ==
    {t \in Trees :
        \/ ~actives /\ ~lsof
        \/ actives /\ Registered(t) # {}
        \/ lsof /\ \E a \in Agents : agent[a].in = t}

-----------------------------------------------------------------------------
(* The run *)

Fault == /\ budget.faults < MaxFaults
         /\ budget' = [budget EXCEPT !.faults = @ + 1]
\* the outcomes of a call: it works, or it is one of the faults
Call(ok) == IF ok THEN UNCHANGED budget ELSE Fault

\* load_keeplist: a list that is gone, or an entry no path matches any more,
\* stops the run (the list must never protect less than it says)
HoldListReads == ops.list /\ \A t \in ops.hold : tree[t].on

\* keeplist_matches: an entry names the tree, a directory above it or a pattern
Kept(t) == t \in ops.hold

\* the worktrees of the clone, as git lists them
Candidates == {t \in Trees : tree[t].on}

\* what the loop reads of the owners: one of the two sources may fail, or both
ReadOwners(actives, lsof) ==
    IF actives /\ lsof THEN UNCHANGED budget
    ELSE /\ budget.faults < MaxFaults
         /\ budget' = [budget EXCEPT !.faults = @ + 1]

\* run_prune to the end of enumerate_candidates: stop file, hold list, the
\* porcelain list of the trees and one look at the owners.  A run that a stop
\* file or a hold list that cannot be read stops does nothing.
Start(apply, actives, lsof) ==
    /\ run.pc = "idle" /\ ~ops.stop /\ HoldListReads
    /\ IF apply THEN ReadOwners(actives, lsof) ELSE Fault /\ actives /\ lsof
    /\ run' = [Idle EXCEPT
                !.pc = "fetch", !.apply = apply,
                !.todo = {t \in Candidates : ~Kept(t)},
                !.owned = Owned(actives, lsof),
                !.seen = [t \in Trees |-> [head |-> HeadOf(t), detached |-> tree[t].detached,
                                           locked |-> tree[t].locked]]]
    /\ UNCHANGED <<repo, agent, ops, made, wrongs>>

\* the mutated run judges by the refs it has
NoFetch(ok) ==
    /\ run.pc = "fetch" /\ ok
    /\ run' = IF run.todo # {} THEN [run EXCEPT !.pc = "scan"] ELSE Idle
    /\ UNCHANGED <<repo, agent, ops, made, budget, wrongs>>

\* git fetch origin main; when it fails every tree of the clone is skipped
Fetch(ok) ==
    /\ run.pc = "fetch"
    /\ Call(ok)
    /\ origin' = IF ok THEN [origin EXCEPT !.main = server.main] ELSE origin
    /\ run' = IF ok /\ run.todo # {} THEN [run EXCEPT !.pc = "scan"] ELSE Idle
    /\ UNCHANGED <<tree, local, tags, server, pr, agent, ops, made, wrongs>>

\* the gates of one candidate, and decide
Eligible(t, gh) ==
    /\ ~run.seen[t].locked
    /\ NotBusy(t)
    /\ run.seen[t].detached => Contained(run.seen[t].head)
    /\ Terminal(t, run.seen[t].head, gh)
    /\ Clean(t)
    /\ t \notin run.owned

\* the first n of a set, in the order of the list
FirstOf(n, S) == {t \in S : Cardinality({u \in S : u < t}) < n}

\* the last candidate is judged: the cap takes the first of those found
Judge(t, gh, git) ==
    /\ run.pc = "scan" /\ t \in FirstOf(1, run.todo)
    /\ gh \/ git
    /\ Call(gh /\ git)
    /\ LET todo == run.todo \ {t}
           found == IF git /\ Eligible(t, gh) THEN run.found \cup {t} ELSE run.found
       IN IF todo # {}
          THEN run' = [run EXCEPT !.todo = todo, !.found = found]
          ELSE IF ~run.apply \/ found = {} THEN run' = Idle
          ELSE run' = [run EXCEPT !.pc = "owners", !.todo = {}, !.found = {},
                                  !.owned = {}, !.batch = FirstOf(MaxRemovals, found)]
    /\ UNCHANGED <<repo, agent, ops, made, wrongs>>

\* on to the next of the batch, or the end of the run
Next1(r) == LET rest == r.batch \ {r.cur}
            IN IF rest = {} THEN Idle
               ELSE [r EXCEPT !.pc = "owners", !.batch = rest, !.cur = Away]

\* the second look at a candidate begins with the owners and the hold list,
\* which stops this candidate when it can no longer be read
LookAtOwners(t, actives, lsof) ==
    /\ run.pc = "owners" /\ t \in FirstOf(1, run.batch)
    /\ ReadOwners(actives, lsof)
    /\ run' = [run EXCEPT !.pc = "tree", !.cur = t,
                          !.unowned = t \notin Owned(actives, lsof),
                          !.held = ~HoldListReads \/ Kept(t),
                          !.guarded = t \in ops.hold \/ Registered(t) # {}]
    /\ UNCHANGED <<repo, agent, ops, made, wrongs>>

\* then the status of the tree and its submodules
LookAtTree(git) ==
    /\ run.pc = "tree"
    /\ Call(git)
    /\ run' = IF git /\ ~run.held /\ run.unowned /\ Clean(run.cur)
              THEN [run EXCEPT !.pc = "refs"] ELSE Next1(run)
    /\ UNCHANGED <<repo, agent, ops, made, wrongs>>

\* then the markers and, for a detached HEAD, containment; every answer has to
\* be the good one
LookAtRefs(git) ==
    /\ run.pc = "refs"
    /\ Call(git)
    /\ LET t == run.cur
       IN IF /\ git /\ NotBusy(t)
             /\ run.seen[t].detached => Contained(run.seen[t].head)
          THEN run' = [run EXCEPT !.pc = "head",
                                  !.guarded = @ \/ tree[t].busy,
                                  !.exempt = @ \cup Anchored]
          ELSE run' = Next1(run)
    /\ UNCHANGED <<repo, agent, ops, made, wrongs>>

\* _head_unchanged compares commits: a branch switched at the same commit passes
SameHead(t) == tree[t].on /\ HeadOf(t) = run.seen[t].head

CheckHead ==
    /\ run.pc = "head"
    /\ run' = IF SameHead(run.cur) THEN [run EXCEPT !.pc = "merged"] ELSE Next1(run)
    /\ UNCHANGED <<repo, agent, ops, made, budget, wrongs>>

\* may the branch go: asked of gh and git before the tree is removed
AskMerged(gh) ==
    /\ run.pc = "merged"
    /\ Call(gh)
    /\ LET t == run.cur
       IN run' = [run EXCEPT !.pc = "remove",
                    !.merged = ~run.seen[t].detached /\ t \notin Protected
                               /\ Merged(t, run.seen[t].head, gh)]
    /\ UNCHANGED <<repo, agent, ops, made, wrongs>>

\* what a step destroys that was neither seen on the server nor made too late
Charge(held, trees, branches) ==
    IF held \subseteq Reachable(trees, branches) \cup run.exempt THEN {} ELSE {"lost"}

\* git worktree remove --force, with one --force: git refuses a locked tree
Removable(t) == tree[t].on /\ ~tree[t].locked

\* which may fail each time, whatever the reason
RemoveFails(t) ==
    /\ run.pc = "remove" /\ run.cur = t
    /\ run' = Next1(run)
    /\ UNCHANGED <<repo, agent, ops, made, budget, wrongs>>

RemoveTree ==
    /\ run.pc = "remove"
    /\ LET t == run.cur
           trees == [tree EXCEPT ![t] = [@ EXCEPT !.on = FALSE, !.detached = FALSE, !.at = {},
                        !.files = {}, !.ignored = {}, !.busy = FALSE, !.locked = FALSE]]
       IN IF Removable(t)
          THEN /\ tree' = trees
               /\ wrongs' = wrongs
                    \cup Charge(tree[t].files \cup tree[t].ignored \cup HeadOf(t), trees, local)
                    \cup (IF run.guarded \/ tree[t].locked THEN {"guarded"} ELSE {})
               /\ run' = IF run.seen[t].detached THEN Next1(run)
                                                 ELSE [run EXCEPT !.pc = "branch"]
          ELSE RemoveFails(t)
    /\ UNCHANGED <<local, tags, origin, server, pr, agent, ops, made, budget>>

\* git branch -D, which git refuses for a branch some tree has checked out
DeleteBranch ==
    /\ run.pc = "branch"
    /\ LET t == run.cur
           branches == [local EXCEPT ![t] = [has |-> FALSE, tip |-> {}]]
       IN IF run.merged /\ local[t].has /\ ~CheckedOut(t)
          THEN /\ local' = branches
               /\ wrongs' = wrongs \cup Charge(local[t].tip, tree, branches)
                                   \cup (IF t \in Protected THEN {"guarded"} ELSE {})
          ELSE UNCHANGED <<local, wrongs>>
    /\ run' = Next1(run)
    /\ UNCHANGED <<tree, tags, origin, server, pr, agent, ops, made, budget>>

Prune ==
    \/ \E apply, actives, lsof \in BOOLEAN : Start(apply, actives, lsof)
    \/ \E ok \in BOOLEAN : Fetch(ok) \/ LookAtTree(ok) \/ LookAtRefs(ok) \/ AskMerged(ok)
    \/ \E t \in Trees, gh, git \in BOOLEAN : Judge(t, gh, git)
    \/ \E t \in Trees, actives, lsof \in BOOLEAN : LookAtOwners(t, actives, lsof)
    \/ \E t \in Trees : RemoveFails(t)
    \/ CheckHead \/ RemoveTree \/ DeleteBranch

-----------------------------------------------------------------------------
(* People and agents *)

Act == /\ budget.acts < MaxActs
       /\ budget' = [budget EXCEPT !.acts = @ + 1]

\* after a run has seen the status of a tree, it does not answer for what comes
\* into it
Late(t) == run.cur = t /\ run.pc \in {"refs", "head", "merged", "remove", "branch"}

\* a file is written, tracked or untracked, or one that git is told to ignore
Write(t, kind) ==
    /\ Act /\ tree[t].on /\ made[t] < MaxWork
    /\ LET w == <<t, made[t] + 1>>
       IN /\ tree' = IF kind = "ignored" THEN [tree EXCEPT ![t].ignored = @ \cup {w}]
                                         ELSE [tree EXCEPT ![t].files = @ \cup {w}]
          /\ run' = IF Late(t) THEN [run EXCEPT !.exempt = @ \cup {w}] ELSE run
    /\ made' = [made EXCEPT ![t] = @ + 1]
    /\ UNCHANGED <<local, tags, origin, server, pr, agent, ops, wrongs>>

Commit(t) ==
    /\ Act /\ tree[t].on /\ tree[t].files # {}
    /\ IF tree[t].detached
       THEN /\ tree' = [tree EXCEPT ![t].at = @ \cup tree[t].files, ![t].files = {}]
            /\ UNCHANGED local
       ELSE /\ tree' = [tree EXCEPT ![t].files = {}]
            /\ local' = [local EXCEPT ![t].tip = @ \cup tree[t].files]
    /\ UNCHANGED <<tags, origin, server, pr, agent, ops, run, made, wrongs>>

\* the tree leaves its branch for main; commits made on the branch since the
\* scan are out of the loop's sight then (the branch is deleted by its name)
CheckoutMain(t) ==
    /\ Act /\ CheckedOut(t) /\ tree[t].files = {}
    /\ tree' = [tree EXCEPT ![t].detached = TRUE, ![t].at = origin.main]
    /\ run' = IF run.pc = "idle" THEN run
              ELSE [run EXCEPT !.exempt = @ \cup (local[t].tip \ run.seen[t].head)]
    /\ UNCHANGED <<local, tags, origin, server, pr, agent, ops, made, wrongs>>

\* git worktree add: on the branch when it is there, on a new one otherwise
AddTree(t) ==
    /\ Act /\ ~tree[t].on
    /\ tree' = [tree EXCEPT ![t].on = TRUE]
    /\ local' = IF local[t].has THEN local
                ELSE [local EXCEPT ![t] = [has |-> TRUE, tip |-> origin.main]]
    /\ UNCHANGED <<tags, origin, server, pr, agent, ops, run, made, wrongs>>

Mark(t) ==
    /\ Act /\ tree[t].on
    /\ \/ tree' = [tree EXCEPT ![t].busy = ~@]    \* a rebase stops, or is ended
       \/ tree' = [tree EXCEPT ![t].locked = ~@]  \* git worktree lock, unlock
    /\ UNCHANGED <<local, tags, origin, server, pr, agent, ops, run, made, wrongs>>

Push(t) ==
    /\ Act /\ tree[t].on
    /\ server' = [server EXCEPT !.tips[t] = HeadOf(t)]
    /\ origin' = [origin EXCEPT !.tips[t] = HeadOf(t)]
    /\ UNCHANGED <<tree, local, tags, pr, agent, ops, run, made, wrongs>>

\* git tag, and git tag -d
Tag(t) ==
    /\ Act /\ tree[t].on /\ HeadOf(t) \notin tags
    /\ tags' = tags \cup {HeadOf(t)}
    /\ UNCHANGED <<tree, local, origin, server, pr, agent, ops, run, made, wrongs>>

Untag(c) ==
    /\ Act /\ tags' = tags \ {c}
    /\ UNCHANGED <<tree, local, origin, server, pr, agent, ops, run, made, wrongs>>

OpenPr(t) ==
    /\ Act /\ pr[t].state = "none" /\ server.tips[t] # {}
    /\ pr' = [pr EXCEPT ![t].state = "open"]
    /\ UNCHANGED <<tree, local, tags, origin, server, agent, ops, run, made, wrongs>>

\* the pull request is closed, or merged: with a merge commit or squashed
EndPr(t, how) ==
    /\ Act /\ pr[t].state = "open"
    /\ pr' = [pr EXCEPT ![t] = [state |-> IF how = "closed" THEN "closed" ELSE "merged",
                                head |-> server.tips[t]]]
    /\ server' = IF how = "merge" THEN [server EXCEPT !.main = @ \cup server.tips[t]]
                                  ELSE server
    /\ UNCHANGED <<tree, local, tags, origin, agent, ops, run, made, wrongs>>

\* a remote branch goes, and the clone is not told
DeleteOnServer(t) ==
    /\ Act /\ server.tips[t] # {}
    /\ server' = [server EXCEPT !.tips[t] = {}]
    /\ UNCHANGED <<tree, local, tags, origin, pr, agent, ops, run, made, wrongs>>

Arrive(a, t) ==
    /\ Act /\ agent[a].in = Away /\ tree[t].on
    /\ agent' = [agent EXCEPT ![a] = [in |-> t, active |-> FALSE]]
    /\ UNCHANGED <<repo, ops, run, made, wrongs>>

Register(a) ==
    /\ agent[a].in # Away /\ ~agent[a].active
    /\ agent' = [agent EXCEPT ![a].active = TRUE]
    /\ UNCHANGED <<repo, ops, run, made, budget, wrongs>>

\* the session ends: a record it leaves behind names a dead pid
Leave(a) ==
    /\ Act /\ agent[a].in # Away
    /\ agent' = [agent EXCEPT ![a] = [in |-> Away, active |-> FALSE]]
    /\ UNCHANGED <<repo, ops, run, made, wrongs>>

Operate ==
    /\ Act
    /\ \/ ops' = [ops EXCEPT !.stop = ~@]
       \/ ops' = [ops EXCEPT !.list = ~@]
       \/ \E t \in Trees :
            ops' = [ops EXCEPT !.hold = IF t \in @ THEN @ \ {t} ELSE @ \cup {t}]
    /\ UNCHANGED <<repo, agent, run, made, wrongs>>

People ==
    \/ \E t \in Trees : \/ Commit(t) \/ CheckoutMain(t) \/ AddTree(t) \/ Mark(t)
                        \/ Push(t) \/ Tag(t) \/ OpenPr(t) \/ DeleteOnServer(t)
                        \/ \E kind \in {"file", "ignored"} : Write(t, kind)
                        \/ \E how \in {"closed", "merge", "squash"} : EndPr(t, how)
                        \/ \E a \in Agents : Arrive(a, t)
    \/ \E c \in tags : Untag(c)
    \/ \E a \in Agents : Register(a) \/ Leave(a)
    \/ Operate

Next == Prune \/ People

\* launchd starts the loop again and again, and a run goes on to its end;
\* nobody has to do anything
Spec == Init /\ [][Next]_vars /\ WF_vars(Prune)

-----------------------------------------------------------------------------
(* Properties *)

\* No run destroys work: what a removed tree held, committed or not, and what
\* a deleted branch led to, is still reachable from a branch, a tag, a tree or
\* the server.  A run answers for everything but what came into the tree after
\* it read its status a second time (the removal itself cannot look), what the
\* server or a tag had when it asked and gave up later, and commits made since
\* the scan on a branch the tree then left.
NothingIsLost == "lost" \notin wrongs

\* A tree is never removed when the hold list named it or a registered session
\* was in it as the run looked at it for the second time, when an operation
\* was stopped half-way in it, or while it is locked; and a protected branch
\* is never deleted: whichever of the sources of these facts failed meanwhile.
GuardedStays == TypeOK /\ "guarded" \notin wrongs

\* A tree nothing speaks for does not stay: with its pull request ended, or its
\* commit in main or, detached, in a tag, nothing uncommitted, nobody in it and
\* no mark on it, a run removes it in the end, whichever runs failed meanwhile;
\* unless its removal fails again and again, or the removal of as many trees
\* before it in the list as the cap lets a run try.
Leftover(t) ==
    /\ tree[t].on /\ ~tree[t].locked /\ NotBusy(t) /\ Clean(t)
    /\ \/ HeadOf(t) \subseteq server.main /\ (tree[t].detached \/ pr[t].state # "open")
       \/ tree[t].detached /\ \E tag \in tags : HeadOf(t) \subseteq tag
       \/ ~tree[t].detached /\ pr[t].state \in {"closed", "merged"}
    /\ \A a \in Agents : agent[a].in # t
    /\ HoldListReads /\ ~ops.stop /\ t \notin ops.hold

StuckAgain(t) == []<><<RemoveFails(t)>>_vars

LeftoversGo ==
    \A t \in Trees :
        \/ []<>~Leftover(t)
        \/ StuckAgain(t)
        \/ \E S \in {T \in SUBSET {u \in Trees : u < t} : Cardinality(T) = MaxRemovals} :
              \A u \in S : StuckAgain(u)
=============================================================================
