------------------------------ MODULE ScanProofs ------------------------------
(***************************************************************************)
(* Proofs about the two scans that look at what others go on changing: the *)
(* worktree-prune loop and the stale monitor.                              *)
(*                                                                         *)
(* The invariant of the prune says what is still true of a tree between    *)
(* the look of a run and its step: while the tree waits for its turn,      *)
(* while it is judged for the second time, and while it is removed and its *)
(* branch deleted.                                                         *)
(*                                                                         *)
(* The invariant of the monitor relates what the emitted state and the     *)
(* running scan remember to what became of it: each page, answer and close *)
(* was told or is in exactly such a place that what dies next leaves it    *)
(* there, each nudge is remembered by whichever record the next scan will  *)
(* read, and a lane that lives is late only for a scan after a sleep.      *)
(***************************************************************************)
EXTENDS Worktrees, Watch, SequenceTheorems, WellFoundedInduction, TLAPS

(***************************************************************************)
(* The worktree-prune loop.                                                *)
(***************************************************************************)
(* Types *)

RunPcs == {"idle", "fetch", "scan", "owners", "tree", "refs", "head", "merged", "remove", "branch"}
TreeType == [on: BOOLEAN, detached: BOOLEAN, at: SUBSET Work, files: SUBSET Work,
             ignored: SUBSET Work, busy: BOOLEAN, locked: BOOLEAN]
BranchType == [has: BOOLEAN, tip: SUBSET Work]
RefsType == [main: SUBSET Work, tips: [Trees -> SUBSET Work]]
PrType == [state: {"none", "open", "closed", "merged"}, head: SUBSET Work]
SeenType == [head: SUBSET Work, detached: BOOLEAN, locked: BOOLEAN]
RunType == [pc: RunPcs, apply: BOOLEAN, todo: SUBSET Trees, found: SUBSET Trees,
            owned: SUBSET Trees, seen: [Trees -> SeenType], batch: SUBSET Trees,
            cur: Trees \cup {Away}, unowned: BOOLEAN, held: BOOLEAN, guarded: BOOLEAN,
            merged: BOOLEAN, exempt: SUBSET Work]

Typed ==
    /\ tree \in [Trees -> TreeType] /\ local \in [Trees -> BranchType]
    /\ tags \subseteq SUBSET Work
    /\ origin \in RefsType /\ server \in RefsType /\ pr \in [Trees -> PrType]
    /\ agent \in [Agents -> [in: Trees \cup {Away}, active: BOOLEAN]]
    /\ ops \in [stop: BOOLEAN, list: BOOLEAN, hold: SUBSET Trees]
    /\ run \in RunType /\ made \in [Trees -> 0..MaxWork]
    /\ budget \in [acts : Nat, faults : Nat]

-----------------------------------------------------------------------------
(* The repository, whatever runs do *)

\* A tree that is gone holds nothing, and a branch checked out is there.
GoneIsEmpty ==
    \A t \in Trees : /\ ~tree[t].on => tree[t].files = {} /\ tree[t].ignored = {}
                     /\ CheckedOut(t) => local[t].has

\* The work there is so far: what is new is none of it.
Known == {w \in Work : w[2] <= made[w[1]]}

AllKnown ==
    /\ server.main \subseteq Known
    /\ \A t \in Trees : /\ tree[t].at \cup tree[t].files \cup local[t].tip \subseteq Known
                        /\ server.tips[t] \cup run.seen[t].head \subseteq Known

\* The clone's main lags behind the server's.
MainLags == origin.main \subseteq server.main

\* Uncommitted files are not committed, neither now nor when the run looked.
Uncommitted ==
    \A t \in Trees : /\ tree[t].on => tree[t].files \cap HeadOf(t) = {}
                     /\ tree[t].files \cap run.seen[t].head = {}

-----------------------------------------------------------------------------
(* What a run may rely on *)

\* A candidate waits: it is still there, still detached if it was, and if it
\* has left its branch since, the branch has not moved out of sight.
Waiting(t) ==
    run.pc # "idle" /\ t \in run.todo \cup run.found \cup run.batch
    /\ ~(run.pc = "branch" /\ run.cur = t)

WaitHolds(t) ==
    Waiting(t) =>
        /\ tree[t].on
        /\ run.seen[t].detached => tree[t].detached
        /\ ~run.seen[t].detached /\ tree[t].detached =>
             /\ tree[t].at \cap run.seen[t].head \subseteq server.main
             /\ local[t].tip \subseteq run.seen[t].head \cup run.exempt

\* The status has been read: what is in the tree came later; and after the look
\* at the refs, the server or a tag had the commit.
LateHolds(t) ==
    Late(t) =>
        /\ t \in run.batch
        /\ tree[t].files \cup tree[t].ignored \subseteq run.exempt
        /\ run.pc # "refs" /\ run.seen[t].detached => run.seen[t].head \subseteq run.exempt

\* So has the look at HEAD.
SameHolds(t) ==
    run.cur = t /\ run.pc \in {"merged", "remove", "branch"} =>
        /\ run.pc # "branch" /\ tree[t].detached => tree[t].at \subseteq server.main \cup run.exempt
        /\ ~run.seen[t].detached =>
             local[t].tip \subseteq run.seen[t].head \cup run.exempt \cup server.main

\* A branch to be deleted was merged at the very commit seen.
MergedHolds(t) ==
    run.cur = t /\ run.pc \in {"remove", "branch"} /\ run.merged =>
        /\ ~run.seen[t].detached /\ t \notin Protected
        /\ \/ run.seen[t].head \subseteq server.main
           \/ pr[t].state = "merged" /\ pr[t].head = run.seen[t].head

\* The guards of a candidate: they stop it, or there are none.
GuardHolds ==
    /\ run.pc = "tree" /\ run.guarded => run.held \/ ~run.unowned
    /\ run.pc \in {"refs", "head", "merged", "remove"} => ~run.guarded
    /\ run.pc \in {"tree", "refs", "head", "merged", "remove", "branch"} => run.cur \in run.batch
    /\ run.pc = "branch" => ~run.seen[run.cur].detached
    /\ run.pc \notin {"idle", "fetch", "scan"} => run.todo = {} /\ run.found = {}

Relies == \A t \in Trees : WaitHolds(t) /\ LateHolds(t) /\ SameHolds(t) /\ MergedHolds(t)

Sound == GoneIsEmpty /\ AllKnown /\ MainLags /\ Uncommitted

Inv == Typed /\ Sound /\ Relies /\ GuardHolds /\ wrongs = {}
-----------------------------------------------------------------------------
(* Lemmas on what git shows *)

LEMMA HeadIsWork == ASSUME Typed, NEW t \in Trees PROVE HeadOf(t) \in SUBSET Work
BY DEF Typed, HeadOf, TreeType, BranchType

LEMMA AnchoredIsWork == ASSUME Typed PROVE Anchored \in SUBSET Work
<1>1. \A t \in Trees : server.tips[t] \subseteq Work /\ pr[t].head \subseteq Work
  BY DEF Typed, RefsType, PrType
<1>2. server.main \subseteq Work  BY DEF Typed, RefsType
<1>3. tags \subseteq SUBSET Work  BY DEF Typed
<1>4. UNION tags \subseteq Work  BY <1>3
<1> QED  BY <1>1, <1>2, <1>4 DEF OnServer, Anchored

\* What the server has is reachable, and so is a branch that is there.
LEMMA ServerHas ==
    /\ server.main \subseteq Anchored
    /\ \A t \in Trees : server.tips[t] \subseteq Anchored
    /\ \A t \in Trees : pr[t].state = "merged" => pr[t].head \subseteq Anchored
BY DEF OnServer, Anchored

LEMMA Reaches ==
    ASSUME NEW trees, NEW branches
    PROVE  /\ Anchored \subseteq Reachable(trees, branches)
           /\ \A t \in Trees : branches[t].has => branches[t].tip \subseteq Reachable(trees, branches)
BY DEF Reachable

\* Containment, by ancestry, a tag or the server's answer, is what the server or
\* a tag has.
LEMMA ContainedIsAnchored ==
    ASSUME MainLags, NEW c, Contained(c) PROVE c \subseteq Anchored
<1>1. CASE InMain(c)  BY <1>1, ServerHas DEF InMain, MainLags
<1>3. CASE \E tag \in tags : c \subseteq tag  BY <1>3 DEF Anchored
<1>2. CASE ~InMain(c) /\ ~\E tag \in tags : c \subseteq tag
  <2> DEFINE refs == {b \in Trees : c \subseteq origin.tips[b]}
  <2>1. refs # {} /\ server.tips[CHOOSE b \in refs : TRUE] = origin.tips[CHOOSE b \in refs : TRUE]
    BY <1>2 DEF Contained
  <2>2. (CHOOSE b \in refs : TRUE) \in refs  BY <2>1
  <2> QED  BY <2>1, <2>2, ServerHas
<1> QED  BY <1>1, <1>2, <1>3

-----------------------------------------------------------------------------
(* Type correctness *)

LEMMA IdleIsTyped == Idle \in RunType
BY DEF Idle, RunType, RunPcs, SeenType

LEMMA NextIsTyped == ASSUME NEW r \in RunType PROVE Next1(r) \in RunType
BY IdleIsTyped DEF Next1, RunType, RunPcs

LEMMA InitTyped == Init => Typed
<1> SUFFICES ASSUME Init PROVE Typed  OBVIOUS
<1>1. \A t \in Trees : {<<t, 1>>} \subseteq Work  BY BoundsAssumption DEF Work
<1>2. tree \in [Trees -> TreeType]  BY <1>1 DEF Init, TreeType
<1>3. local \in [Trees -> BranchType]  BY <1>1 DEF Init, BranchType
<1>4. origin \in RefsType /\ server \in RefsType  BY <1>1 DEF Init, RefsType
<1>5. pr \in [Trees -> PrType]  BY DEF Init, PrType
<1>6. made \in [Trees -> 0..MaxWork] /\ tags \subseteq SUBSET Work  BY BoundsAssumption DEF Init
<1> QED  BY <1>2, <1>3, <1>4, <1>5, <1>6, IdleIsTyped DEF Init, Typed

LEMMA PruneTyped == ASSUME Typed, Prune PROVE Typed'
<1>r. run \in RunType  BY DEF Typed
<1>b. budget \in [acts : Nat, faults : Nat]  BY DEF Typed
<1>c. \A ok : Call(ok) => budget' \in [acts : Nat, faults : Nat]  BY <1>b DEF Call, Fault
<1>o. \A a, l : ReadOwners(a, l) => budget' \in [acts : Nat, faults : Nat]
  BY <1>b DEF ReadOwners
<1>1. ASSUME NEW apply \in BOOLEAN, NEW actives \in BOOLEAN, NEW lsof \in BOOLEAN,
             Start(apply, actives, lsof)
      PROVE  Typed'
  <2>1. Owned(actives, lsof) \in SUBSET Trees /\ {t \in Candidates : ~Kept(t)} \in SUBSET Trees
    BY DEF Owned, Candidates
  <2>2. [t \in Trees |-> [head |-> HeadOf(t), detached |-> tree[t].detached,
                         locked |-> tree[t].locked]] \in [Trees -> SeenType]
    BY HeadIsWork DEF Typed, TreeType, SeenType
  <2>3. run' \in RunType  BY <1>1, <2>1, <2>2, IdleIsTyped DEF Start, RunType, RunPcs
  <2>4. budget' \in [acts : Nat, faults : Nat]  BY <1>1, <1>b, <1>o DEF Start, Fault
  <2> QED  BY <1>1, <2>3, <2>4 DEF Start, Typed, repo
<1>2. ASSUME NEW ok \in BOOLEAN, Fetch(ok) PROVE Typed'
  <2>1. run' \in RunType  BY <1>r, <1>2, IdleIsTyped DEF Fetch, RunType, RunPcs
  <2>2. origin' \in RefsType  BY <1>2 DEF Fetch, Typed, RefsType
  <2> QED  BY <1>2, <1>c, <2>1, <2>2 DEF Fetch, Typed
<1>3. ASSUME NEW ok \in BOOLEAN, LookAtTree(ok) PROVE Typed'
  <2>1. [run EXCEPT !.pc = "refs"] \in RunType  BY <1>r DEF RunType, RunPcs
  <2>2. run' \in RunType  BY <1>3, <1>r, <2>1, NextIsTyped DEF LookAtTree
  <2> QED  BY <1>3, <1>c, <2>2 DEF LookAtTree, Typed, repo
<1>10. ASSUME NEW ok \in BOOLEAN, LookAtRefs(ok) PROVE Typed'
  <2>1. (run.guarded \/ tree[run.cur].busy) \in BOOLEAN  OBVIOUS
  <2>2. [run EXCEPT !.pc = "head", !.guarded = run.guarded \/ tree[run.cur].busy,
                    !.exempt = run.exempt \cup Anchored] \in RunType
    BY <1>r, <2>1, AnchoredIsWork DEF RunType, RunPcs
  <2>3. run' \in RunType  BY <1>10, <1>r, <2>2, NextIsTyped DEF LookAtRefs
  <2> QED  BY <1>10, <1>c, <2>3 DEF LookAtRefs, Typed, repo
<1>11. ASSUME NEW t \in Trees, RemoveFails(t) PROVE Typed'
  <2>1. run' \in RunType  BY <1>11, <1>r, NextIsTyped DEF RemoveFails
  <2> QED  BY <1>11, <2>1 DEF RemoveFails, Typed, repo
<1>4. ASSUME NEW ok \in BOOLEAN, AskMerged(ok) PROVE Typed'
  <2>1. \A b : [run EXCEPT !.pc = "remove", !.merged = b] \in RunType \/ b \notin BOOLEAN
    BY <1>r DEF RunType, RunPcs
  <2>2. (~run.seen[run.cur].detached /\ run.cur \notin Protected
         /\ Merged(run.cur, run.seen[run.cur].head, ok)) \in BOOLEAN
    OBVIOUS
  <2>3. run' \in RunType  BY <1>4, <2>1, <2>2 DEF AskMerged
  <2> QED  BY <1>4, <1>c, <2>3 DEF AskMerged, Typed, repo
<1>5. CASE RemoveTree
  <2>1. run' \in RunType
    <3>1. [run EXCEPT !.pc = "branch"] \in RunType  BY <1>r DEF RunType, RunPcs
    <3> QED  BY <1>5, <1>r, <3>1, NextIsTyped DEF RemoveTree, RemoveFails
  <2>2. tree' \in [Trees -> TreeType]
    <3>1. tree \in [Trees -> TreeType]  BY DEF Typed
    <3>2. CASE Removable(run.cur)
      <4>1. run.cur \in Trees =>
              [tree[run.cur] EXCEPT !.on = FALSE, !.detached = FALSE, !.at = {},
                        !.files = {}, !.ignored = {}, !.busy = FALSE, !.locked = FALSE] \in TreeType
        BY ZenonT(40), <3>1 DEF TreeType
      <4> QED  BY <1>5, <3>1, <3>2, <4>1 DEF RemoveTree
    <3>3. CASE ~Removable(run.cur)  BY <1>5, <3>1, <3>3 DEF RemoveTree, RemoveFails, repo
    <3> QED  BY <3>2, <3>3
  <2> QED  BY <1>5, <2>1, <2>2 DEF RemoveTree, Typed
<1>6. ASSUME NEW t \in Trees, NEW gh \in BOOLEAN, NEW git \in BOOLEAN, Judge(t, gh, git) PROVE Typed'
  <2> DEFINE todo == run.todo \ {t}
             found == IF git /\ Eligible(t, gh) THEN run.found \cup {t} ELSE run.found
  <2>1. todo \in SUBSET Trees /\ found \in SUBSET Trees  BY <1>r DEF RunType
  <2>2. [run EXCEPT !.todo = todo, !.found = found] \in RunType  BY <1>r, <2>1 DEF RunType
  <2>3. [run EXCEPT !.pc = "owners", !.todo = {}, !.found = {}, !.owned = {},
                    !.batch = FirstOf(MaxRemovals, found)] \in RunType
    <3>1. FirstOf(MaxRemovals, found) \in SUBSET Trees  BY <2>1 DEF FirstOf
    <3> QED  BY <1>r, <2>1, <3>1 DEF RunType, RunPcs
  <2>4. \/ run' = [run EXCEPT !.todo = todo, !.found = found]
        \/ run' = Idle
        \/ run' = [run EXCEPT !.pc = "owners", !.todo = {}, !.found = {}, !.owned = {},
                              !.batch = FirstOf(MaxRemovals, found)]
    BY <1>6 DEF Judge
  <2>5. run' \in RunType  BY <2>2, <2>3, <2>4, IdleIsTyped
  <2> QED  BY <1>6, <1>c, <2>5 DEF Judge, Typed, repo
<1>7. ASSUME NEW t \in Trees, NEW actives \in BOOLEAN, NEW lsof \in BOOLEAN,
             LookAtOwners(t, actives, lsof)
      PROVE  Typed'
  <2>1. \A u, h, g \in BOOLEAN :
          [run EXCEPT !.pc = "tree", !.cur = t, !.unowned = u, !.held = h, !.guarded = g] \in RunType
    BY <1>r DEF RunType, RunPcs
  <2>2. run' \in RunType  BY <1>7, <2>1 DEF LookAtOwners
  <2> QED  BY <1>7, <1>o, <2>2 DEF LookAtOwners, Typed, repo
<1>8. CASE CheckHead
  <2>1. [run EXCEPT !.pc = "merged"] \in RunType  BY <1>r DEF RunType, RunPcs
  <2>2. run' \in RunType  BY <1>8, <1>r, <2>1, NextIsTyped DEF CheckHead
  <2> QED  BY <1>8, <2>2 DEF CheckHead, Typed, repo
<1>9. CASE DeleteBranch
  <2>1. run' \in RunType  BY <1>9, <1>r, NextIsTyped DEF DeleteBranch
  <2>2. local' \in [Trees -> BranchType]
    <3>1. local \in [Trees -> BranchType] /\ [has |-> FALSE, tip |-> {}] \in BranchType
      BY DEF Typed, BranchType
    <3> QED  BY <1>9, <3>1 DEF DeleteBranch
  <2> QED  BY <1>9, <2>1, <2>2 DEF DeleteBranch, Typed
<1> QED  BY <1>1, <1>2, <1>3, <1>4, <1>5, <1>6, <1>7, <1>8, <1>9, <1>10, <1>11 DEF Prune

LEMMA PeopleTyped == ASSUME Typed, People PROVE Typed'
<1>b. Act => budget' \in [acts : Nat, faults : Nat]  BY DEF Typed, Act
<1>r. run \in RunType  BY DEF Typed
<1>t. tree \in [Trees -> TreeType] /\ local \in [Trees -> BranchType]  BY DEF Typed
<1>1. ASSUME NEW t \in Trees, Commit(t) PROVE Typed'
  <2>1. tree[t].files \in SUBSET Work /\ tree[t].at \in SUBSET Work /\ local[t].tip \in SUBSET Work
    BY <1>t DEF TreeType, BranchType
  <2>2. tree' \in [Trees -> TreeType] /\ local' \in [Trees -> BranchType]
    <3>1. CASE tree[t].detached
      <4>1. [tree[t] EXCEPT !.at = tree[t].at \cup tree[t].files, !.files = {}] \in TreeType
        BY <1>t, <2>1 DEF TreeType
      <4> QED  BY <1>1, <1>t, <3>1, <4>1 DEF Commit
    <3>2. CASE ~tree[t].detached
      <4>1. /\ [tree[t] EXCEPT !.files = {}] \in TreeType
            /\ [local[t] EXCEPT !.tip = local[t].tip \cup tree[t].files] \in BranchType
        BY <1>t, <2>1 DEF TreeType, BranchType
      <4> QED  BY <1>1, <1>t, <3>2, <4>1 DEF Commit
    <3> QED  BY <3>1, <3>2
  <2> QED  BY <1>1, <1>b, <2>2 DEF Commit, Typed
<1>2. ASSUME NEW t \in Trees, CheckoutMain(t) PROVE Typed'
  <2>1. origin.main \in SUBSET Work /\ local[t].tip \in SUBSET Work
    BY <1>t DEF Typed, RefsType, BranchType
  <2>2. [tree[t] EXCEPT !.detached = TRUE, !.at = origin.main] \in TreeType
    BY <1>t, <2>1 DEF TreeType
  <2>3. tree' \in [Trees -> TreeType]  BY <1>2, <1>t, <2>2 DEF CheckoutMain
  <2>4. [run EXCEPT !.exempt = run.exempt \cup (local[t].tip \ run.seen[t].head)] \in RunType
    BY <1>r, <2>1 DEF RunType
  <2>5. run' \in RunType  BY <1>2, <1>r, <2>4 DEF CheckoutMain
  <2> QED  BY <1>2, <1>b, <2>3, <2>5 DEF CheckoutMain, Typed
<1>3. ASSUME NEW t \in Trees, AddTree(t) PROVE Typed'
  <2>a. origin.main \in SUBSET Work  BY DEF Typed, RefsType
  <2>b. [tree[t] EXCEPT !.on = TRUE] \in TreeType  BY <1>t DEF TreeType
  <2>1. [tree[t] EXCEPT !.on = TRUE] \in TreeType /\ [has |-> TRUE, tip |-> origin.main] \in BranchType
    BY <2>a, <2>b DEF BranchType
  <2>2. tree' \in [Trees -> TreeType] /\ local' \in [Trees -> BranchType]
    BY <1>3, <1>t, <2>1 DEF AddTree
  <2> QED  BY <1>3, <1>b, <2>2 DEF AddTree, Typed
<1>4. ASSUME NEW t \in Trees, Mark(t) PROVE Typed'
  <2>1. /\ [tree[t] EXCEPT !.busy = ~tree[t].busy] \in TreeType
        /\ [tree[t] EXCEPT !.locked = ~tree[t].locked] \in TreeType
    BY <1>t DEF TreeType
  <2>2. tree' \in [Trees -> TreeType]  BY <1>4, <1>t, <2>1 DEF Mark
  <2> QED  BY <1>4, <1>b, <2>2 DEF Mark, Typed
<1>5. ASSUME NEW t \in Trees, Push(t) PROVE Typed'
  <2>1. server' \in RefsType /\ origin' \in RefsType
    BY <1>5, HeadIsWork DEF Push, Typed, RefsType
  <2> QED  BY <1>5, <1>b, <2>1 DEF Push, Typed
<1>6. ASSUME NEW t \in Trees, OpenPr(t) PROVE Typed'
  <2>1. [pr[t] EXCEPT !.state = "open"] \in PrType  BY DEF Typed, PrType
  <2>2. pr' \in [Trees -> PrType]  BY <1>6, <2>1 DEF OpenPr, Typed
  <2> QED  BY <1>6, <1>b, <2>2 DEF OpenPr, Typed
<1>7. ASSUME NEW t \in Trees, DeleteOnServer(t) PROVE Typed'
  <2>1. server' \in RefsType  BY <1>7 DEF DeleteOnServer, Typed, RefsType
  <2> QED  BY <1>7, <1>b, <2>1 DEF DeleteOnServer, Typed
<1>8. ASSUME NEW t \in Trees, NEW kind \in {"file", "ignored"}, Write(t, kind) PROVE Typed'
  <2>1. made[t] \in Nat /\ made[t] + 1 \in 1..MaxWork /\ made' \in [Trees -> 0..MaxWork]
    BY <1>8, BoundsAssumption DEF Write, Typed
  <2>2. <<t, made[t] + 1>> \in Work  BY <2>1 DEF Work
  <2>3. /\ [tree[t] EXCEPT !.ignored = tree[t].ignored \cup {<<t, made[t] + 1>>}] \in TreeType
        /\ [tree[t] EXCEPT !.files = tree[t].files \cup {<<t, made[t] + 1>>}] \in TreeType
    BY <1>t, <2>2 DEF TreeType
  <2>4. tree' \in [Trees -> TreeType]  BY <1>8, <1>t, <2>3 DEF Write
  <2>5. [run EXCEPT !.exempt = run.exempt \cup {<<t, made[t] + 1>>}] \in RunType
    BY <1>r, <2>2 DEF RunType
  <2>6. run' \in RunType  BY <1>8, <1>r, <2>5 DEF Write
  <2> QED  BY <1>8, <1>b, <2>1, <2>4, <2>6 DEF Write, Typed
<1>9. ASSUME NEW t \in Trees, NEW how \in {"closed", "merge", "squash"}, EndPr(t, how) PROVE Typed'
  <2>1. server.tips[t] \in SUBSET Work /\ server.main \in SUBSET Work  BY DEF Typed, RefsType
  <2>2. [state |-> IF how = "closed" THEN "closed" ELSE "merged", head |-> server.tips[t]] \in PrType
    BY <2>1 DEF PrType
  <2>3. pr' \in [Trees -> PrType]  BY <1>9, <2>2 DEF EndPr, Typed
  <2>4. server' \in RefsType  BY <1>9, <2>1 DEF EndPr, Typed, RefsType
  <2> QED  BY <1>9, <1>b, <2>3, <2>4 DEF EndPr, Typed
<1>14. ASSUME NEW t \in Trees, Tag(t) PROVE Typed'
  <2>1. tags' \subseteq SUBSET Work  BY <1>14, HeadIsWork DEF Tag, Typed
  <2> QED  BY <1>14, <1>b, <2>1 DEF Tag, Typed
<1>15. ASSUME NEW c \in tags, Untag(c) PROVE Typed'
  BY <1>15, <1>b DEF Untag, Typed
<1>10. ASSUME NEW a \in Agents, NEW t \in Trees, Arrive(a, t) PROVE Typed'
  BY <1>10, <1>b DEF Arrive, Typed, repo
<1>11. ASSUME NEW a \in Agents, Register(a) PROVE Typed'
  BY <1>11 DEF Register, Typed, repo
<1>12. ASSUME NEW a \in Agents, Leave(a) PROVE Typed'
  BY <1>12, <1>b DEF Leave, Typed, repo
<1>13. CASE Operate
  <2>a. ops \in [stop: BOOLEAN, list: BOOLEAN, hold: SUBSET Trees]  BY DEF Typed
  <2>b. ASSUME ops' = [ops EXCEPT !.stop = ~ops.stop] \/ ops' = [ops EXCEPT !.list = ~ops.list]
        PROVE  ops' \in [stop: BOOLEAN, list: BOOLEAN, hold: SUBSET Trees]
    BY <2>a, <2>b
  <2>c. ASSUME NEW t \in Trees,
               ops' = [ops EXCEPT !.hold = IF t \in ops.hold THEN ops.hold \ {t} ELSE ops.hold \cup {t}]
        PROVE  ops' \in [stop: BOOLEAN, list: BOOLEAN, hold: SUBSET Trees]
    <3>1. (IF t \in ops.hold THEN ops.hold \ {t} ELSE ops.hold \cup {t}) \in SUBSET Trees  BY <2>a
    <3> QED  BY <2>a, <2>c, <3>1
  <2>1. ops' \in [stop: BOOLEAN, list: BOOLEAN, hold: SUBSET Trees]
    BY <1>13, <2>a, <2>b, <2>c DEF Operate
  <2> QED  BY <1>13, <1>b, <2>1 DEF Operate, Typed, repo
<1> QED
  BY <1>1, <1>2, <1>3, <1>4, <1>5, <1>6, <1>7, <1>8, <1>9, <1>10, <1>11, <1>12, <1>13,
     <1>14, <1>15 DEF People

-----------------------------------------------------------------------------
(* Steps of the run that only look *)

\* The run's fields, as records.
LEMMA RunParts ==
    ASSUME Typed
    PROVE  /\ run.pc \in RunPcs /\ run.cur \in Trees \cup {Away}
           /\ run.todo \subseteq Trees /\ run.found \subseteq Trees /\ run.batch \subseteq Trees
           /\ \A t \in Trees : run.seen[t].head \subseteq Work /\ run.seen[t].detached \in BOOLEAN
           /\ run.exempt \subseteq Work
BY DEF Typed, RunType, SeenType

\* An idle run relies on nothing.
LEMMA IdleRelies ==
    ASSUME run' = Idle
    PROVE  /\ Relies' /\ GuardHolds'
           /\ \A t \in Trees : run'.seen[t].head = {}
BY DEF Idle, Relies, WaitHolds, Waiting, LateHolds, Late, SameHolds, MergedHolds, GuardHolds

\* On to the next candidate: the others still wait.
LEMMA NextRelies ==
    ASSUME Inv, run' = Next1(run), run.pc \notin {"idle", "fetch", "scan"},
           \A t \in Trees \ {run.cur} : tree'[t] = tree[t] /\ local'[t] = local[t],
           server' = server
    PROVE  Relies' /\ GuardHolds'
<1>1. CASE run.batch \ {run.cur} = {}
  BY <1>1, IdleRelies DEF Next1
<1>2. CASE run.batch \ {run.cur} # {}
  <2>1. /\ run'.pc = "owners" /\ run'.batch = run.batch \ {run.cur} /\ run'.seen = run.seen
        /\ run'.exempt = run.exempt /\ run'.todo = {} /\ run'.found = {}
    BY <1>2 DEF Next1, Inv, Typed, RunType, GuardHolds
  <2>2. ASSUME NEW t \in Trees PROVE WaitHolds(t)'
    <3>1. CASE t \in run.batch \ {run.cur}
      <4>1. WaitHolds(t) /\ Waiting(t)  BY <3>1 DEF Inv, Relies, Waiting
      <4> QED  BY <2>1, <3>1, <4>1 DEF WaitHolds
    <3>2. CASE t \notin run.batch \ {run.cur}  BY <2>1, <3>2 DEF WaitHolds, Waiting
    <3> QED  BY <3>1, <3>2
  <2> QED  BY <2>1, <2>2 DEF Relies, LateHolds, Late, SameHolds, MergedHolds, GuardHolds
<1> QED  BY <1>1, <1>2

\* What a run looks at it does not change.
LEMMA LookKeepsSound ==
    ASSUME Inv, UNCHANGED <<tree, local, server, pr, made>>,
           origin'.main \in {origin.main, server.main},
           \A t \in Trees : run'.seen[t].head \in {{}, run.seen[t].head, HeadOf(t)}
    PROVE  Sound'
<1>1. MainLags' /\ GoneIsEmpty'
  BY DEF Inv, Sound, MainLags, GoneIsEmpty, CheckedOut
<1>2. \A t \in Trees : HeadOf(t) \in {tree[t].at, local[t].tip}  BY DEF HeadOf
<1>3. Known' = Known  BY DEF Known
<1>4. AllKnown'  BY <1>2, <1>3 DEF Inv, Sound, AllKnown
<1>5. Uncommitted'
  BY DEF Inv, Sound, Uncommitted, HeadOf, GoneIsEmpty
<1> QED  BY <1>1, <1>4, <1>5 DEF Sound

\* The candidates wait on while the run is at one of them.
LEMMA LookKeepsWaiting ==
    ASSUME Inv, UNCHANGED <<tree, local, server>>, run'.seen = run.seen,
           run.exempt \subseteq run'.exempt,
           NEW t \in Trees, run.pc # "idle", run.pc # "branch",
           run'.todo \cup run'.found \cup run'.batch \subseteq run.todo \cup run.found \cup run.batch
    PROVE  WaitHolds(t)'
<1>1. Waiting(t)' => Waiting(t)  BY DEF Waiting
<1>2. WaitHolds(t)  BY DEF Inv, Relies
<1> QED  BY <1>1, <1>2 DEF WaitHolds
-----------------------------------------------------------------------------
(* The steps of the run *)

Good == Sound /\ Relies /\ GuardHolds /\ wrongs = {}

LEMMA StartGood ==
    ASSUME Inv, NEW apply \in BOOLEAN, NEW actives \in BOOLEAN, NEW lsof \in BOOLEAN,
           Start(apply, actives, lsof)
    PROVE  Good'
<1>1. /\ run'.pc = "fetch" /\ run'.todo = {t \in Candidates : ~Kept(t)} /\ run'.found = {}
      /\ run'.batch = {} /\ run'.exempt = {}
      /\ \A t \in Trees : /\ run'.seen[t].head = HeadOf(t)
                           /\ run'.seen[t].detached = tree[t].detached
  BY DEF Start, Idle
<1>2. Sound'  BY <1>1, LookKeepsSound DEF Start, repo
<1>3. Relies'
  BY <1>1 DEF Start, repo, Candidates, Relies, WaitHolds, Waiting, LateHolds, Late, SameHolds,
     MergedHolds
<1>4. GuardHolds'  BY <1>1 DEF GuardHolds
<1> QED  BY <1>2, <1>3, <1>4 DEF Good, Start, Inv

LEMMA FetchGood ==
    ASSUME Inv, NEW ok \in BOOLEAN, Fetch(ok) PROVE Good'
<1>r. run \in RunType /\ run.pc = "fetch"  BY DEF Inv, Typed, Fetch
<1>1. CASE run' = Idle
  <2>1. Sound'
    <3>1. origin'.main \in {origin.main, server.main}  BY DEF Fetch, Inv, Typed, RefsType
    <3> QED  BY <1>1, <3>1, IdleRelies, LookKeepsSound DEF Fetch
  <2> QED  BY <1>1, <2>1, IdleRelies DEF Good, Fetch, Inv
<1>2. CASE run' = [run EXCEPT !.pc = "scan"]
  <2>0. /\ run'.pc = "scan" /\ run'.seen = run.seen /\ run'.exempt = run.exempt
        /\ run'.todo = run.todo /\ run'.found = run.found /\ run'.batch = run.batch
    BY <1>r, <1>2 DEF RunType
  <2>1. Sound'
    <3>1. origin'.main \in {origin.main, server.main}  BY DEF Fetch, Inv, Typed, RefsType
    <3> QED  BY <2>0, <3>1, LookKeepsSound DEF Fetch
  <2>2. \A t \in Trees : WaitHolds(t)'  BY <1>r, <2>0, LookKeepsWaiting DEF Fetch
  <2>3. Relies' /\ GuardHolds'
    BY <2>0, <2>2 DEF Relies, LateHolds, Late, SameHolds, MergedHolds, GuardHolds
  <2> QED  BY <2>1, <2>3 DEF Good, Fetch, Inv
<1> QED  BY <1>1, <1>2 DEF Fetch

LEMMA JudgeGood ==
    ASSUME Inv, NEW t \in Trees, NEW gh \in BOOLEAN, NEW git \in BOOLEAN, Judge(t, gh, git)
    PROVE  Good'
<1> DEFINE todo == run.todo \ {t}
           found == IF git /\ Eligible(t, gh) THEN run.found \cup {t} ELSE run.found
<1>r. /\ run \in RunType /\ run.pc = "scan" /\ t \in run.todo
      /\ FirstOf(MaxRemovals, found) \subseteq found
      /\ found \subseteq run.todo \cup run.found
      /\ UNCHANGED <<tree, local, origin, server, pr, made, wrongs>>
  BY DEF Inv, Typed, Judge, repo, FirstOf
<1>c. \/ run' = [run EXCEPT !.todo = todo, !.found = found]
      \/ run' = Idle
      \/ \E batch \in SUBSET found :
           run' = [run EXCEPT !.pc = "owners", !.todo = {}, !.found = {}, !.owned = {},
                              !.batch = batch]
  BY <1>r DEF Judge
<1>1. CASE run' = Idle
  <2>1. Sound'  BY <1>r, <1>1, IdleRelies, LookKeepsSound
  <2> QED  BY <1>r, <1>1, <2>1, IdleRelies DEF Good, Inv
<1>2. CASE run' # Idle
  <2>0. /\ run'.pc \in {"scan", "owners"} /\ run'.seen = run.seen /\ run'.exempt = run.exempt
        /\ run'.todo \cup run'.found \cup run'.batch \subseteq run.todo \cup run.found \cup run.batch
        /\ run'.pc = "owners" => run'.todo = {} /\ run'.found = {}
    <3>1. CASE run' = [run EXCEPT !.todo = todo, !.found = found]
      <4> HIDE DEF found
      <4> QED  BY <1>r, <3>1 DEF RunType
    <3>2. ASSUME NEW batch \in SUBSET found,
                 run' = [run EXCEPT !.pc = "owners", !.todo = {}, !.found = {}, !.owned = {},
                                    !.batch = batch]
          PROVE  /\ run'.pc \in {"scan", "owners"} /\ run'.seen = run.seen /\ run'.exempt = run.exempt
                 /\ run'.todo \cup run'.found \cup run'.batch
                      \subseteq run.todo \cup run.found \cup run.batch
                 /\ run'.pc = "owners" => run'.todo = {} /\ run'.found = {}
      <4> HIDE DEF found
      <4> QED  BY <1>r, <3>2 DEF RunType
    <3> QED  BY <1>c, <1>2, <3>1, <3>2
  <2>1. Sound'  BY <1>r, <2>0, LookKeepsSound
  <2>2. \A u \in Trees : WaitHolds(u)'  BY <1>r, <2>0, LookKeepsWaiting
  <2>3. Relies' /\ GuardHolds'
    BY <2>0, <2>2 DEF Relies, LateHolds, Late, SameHolds, MergedHolds, GuardHolds
  <2> QED  BY <1>r, <2>1, <2>3 DEF Good, Inv
<1> QED  BY <1>1, <1>2

\* A tree the hold list names is held, and one a registered session is in is
\* owned whichever source of the owners can be read.
LEMMA GuardsAreSeen ==
    ASSUME NEW t \in Trees, NEW actives \in BOOLEAN, NEW lsof \in BOOLEAN
    PROVE  /\ t \in ops.hold => Kept(t)
           /\ Registered(t) # {} => t \in Owned(actives, lsof)
BY DEF Kept, Registered, Owned

LEMMA LookAtOwnersGood ==
    ASSUME Inv, NEW t \in Trees, NEW actives \in BOOLEAN, NEW lsof \in BOOLEAN,
           LookAtOwners(t, actives, lsof)
    PROVE  Good'
<1>r. /\ run \in RunType /\ run.pc = "owners" /\ t \in run.batch
      /\ UNCHANGED <<tree, local, origin, server, pr, made, wrongs>>
  BY DEF Inv, Typed, LookAtOwners, repo, FirstOf
<1>1. /\ run'.pc = "tree" /\ run'.cur = t /\ run'.seen = run.seen /\ run'.exempt = run.exempt
      /\ run'.todo = run.todo /\ run'.found = run.found /\ run'.batch = run.batch
      /\ run'.unowned = (t \notin Owned(actives, lsof))
      /\ run'.held = (~HoldListReads \/ Kept(t))
      /\ run'.guarded = (t \in ops.hold \/ Registered(t) # {})
  BY <1>r DEF LookAtOwners, RunType
<1>2. Sound'  BY <1>r, <1>1, LookKeepsSound
<1>3. \A u \in Trees : WaitHolds(u)'  BY <1>r, <1>1, LookKeepsWaiting
<1>4. Relies'  BY <1>1, <1>3 DEF Relies, LateHolds, Late, SameHolds, MergedHolds
<1>5. GuardHolds'
  <2>1. run'.guarded => run'.held \/ ~run'.unowned  BY <1>1, GuardsAreSeen
  <2>2. run.todo = {} /\ run.found = {}  BY <1>r DEF Inv, GuardHolds
  <2> QED  BY <1>r, <1>1, <2>1, <2>2 DEF GuardHolds
<1> QED  BY <1>r, <1>2, <1>4, <1>5 DEF Good, Inv

LEMMA LookAtTreeGood ==
    ASSUME Inv, NEW git \in BOOLEAN, LookAtTree(git) PROVE Good'
<1>r. /\ run \in RunType /\ run.pc = "tree" /\ run.cur \in run.batch /\ run.cur \in Trees
      /\ run.todo = {} /\ run.found = {}
      /\ UNCHANGED <<tree, local, origin, server, pr, made, wrongs>>
  BY DEF Inv, Typed, LookAtTree, repo, GuardHolds, RunType
<1>1. CASE run' = Next1(run)
  <2>1. \A t \in Trees : run'.seen[t].head \in {{}, run.seen[t].head}
    BY <1>r, <1>1 DEF Next1, Idle, RunType
  <2>2. Sound'  BY <1>r, <2>1, LookKeepsSound
  <2> QED  BY <1>r, <1>1, <2>2, NextRelies DEF Good, Inv
<1>2. CASE /\ git /\ ~run.held /\ run.unowned /\ Clean(run.cur)
           /\ run' = [run EXCEPT !.pc = "refs"]
  <2>0. /\ run'.pc = "refs" /\ run'.cur = run.cur /\ run'.seen = run.seen
        /\ run'.exempt = run.exempt /\ run'.batch = run.batch /\ run'.guarded = run.guarded
        /\ run'.todo = {} /\ run'.found = {}
    BY <1>r, <1>2 DEF RunType
  <2>1. Sound'  BY <1>r, <2>0, LookKeepsSound
  <2>2. \A t \in Trees : WaitHolds(t)'  BY <1>r, <2>0, LookKeepsWaiting
  <2>3. tree[run.cur].files = {} /\ tree[run.cur].ignored = {} /\ ~run.guarded
    BY <1>r, <1>2 DEF Clean, Inv, GuardHolds
  <2>4. \A t \in Trees : LateHolds(t)'  BY <1>r, <2>0, <2>3 DEF LateHolds, Late
  <2>5. Relies'  BY <2>0, <2>2, <2>4 DEF Relies, SameHolds, MergedHolds
  <2>6. GuardHolds'  BY <1>r, <2>0, <2>3 DEF GuardHolds, Inv
  <2> QED  BY <1>r, <2>1, <2>5, <2>6 DEF Good, Inv
<1> QED  BY <1>1, <1>2 DEF LookAtTree

LEMMA LookAtRefsGood ==
    ASSUME Inv, NEW git \in BOOLEAN, LookAtRefs(git) PROVE Good'
<1>r. /\ run \in RunType /\ run.pc = "refs" /\ run.cur \in run.batch /\ run.cur \in Trees
      /\ run.todo = {} /\ run.found = {} /\ ~run.guarded
      /\ UNCHANGED <<tree, local, origin, server, pr, made, wrongs>>
  BY DEF Inv, Typed, LookAtRefs, repo, GuardHolds, RunType
<1>1. CASE run' = Next1(run)
  <2>1. \A t \in Trees : run'.seen[t].head \in {{}, run.seen[t].head}
    BY <1>r, <1>1 DEF Next1, Idle, RunType
  <2>2. Sound'  BY <1>r, <2>1, LookKeepsSound
  <2> QED  BY <1>r, <1>1, <2>2, NextRelies DEF Good, Inv
<1>2. CASE /\ NotBusy(run.cur)
           /\ run.seen[run.cur].detached => Contained(run.seen[run.cur].head)
           /\ run' = [run EXCEPT !.pc = "head", !.guarded = run.guarded \/ tree[run.cur].busy,
                                 !.exempt = run.exempt \cup Anchored]
  <2>0. /\ run'.pc = "head" /\ run'.cur = run.cur /\ run'.seen = run.seen
        /\ run'.exempt = run.exempt \cup Anchored /\ run'.batch = run.batch
        /\ run'.todo = {} /\ run'.found = {}
        /\ run'.guarded = (run.guarded \/ tree[run.cur].busy)
    BY <1>r, <1>2 DEF RunType
  <2>1. Sound'  BY <1>r, <2>0, LookKeepsSound
  <2>2. \A t \in Trees : WaitHolds(t)'  BY <1>r, <2>0, LookKeepsWaiting
  <2>3. /\ ~tree[run.cur].busy
        /\ run.seen[run.cur].detached => run.seen[run.cur].head \subseteq Anchored
    BY <1>2, ContainedIsAnchored DEF NotBusy, Inv, Sound
  <2>4. /\ tree[run.cur].files \cup tree[run.cur].ignored \subseteq run.exempt
    BY <1>r DEF Inv, Relies, LateHolds, Late
  <2>5. \A t \in Trees : LateHolds(t)'  BY <1>r, <2>0, <2>3, <2>4 DEF LateHolds, Late
  <2>6. Relies'  BY <2>0, <2>2, <2>5 DEF Relies, SameHolds, MergedHolds
  <2>7. GuardHolds'  BY <1>r, <2>0, <2>3 DEF GuardHolds, Inv
  <2> QED  BY <1>r, <2>1, <2>6, <2>7 DEF Good, Inv
<1> QED  BY <1>1, <1>2 DEF LookAtRefs

LEMMA CheckHeadGood == ASSUME Inv, CheckHead PROVE Good'
<1>r. /\ run \in RunType /\ run.pc = "head" /\ run.cur \in run.batch /\ run.cur \in Trees
      /\ run.todo = {} /\ run.found = {} /\ ~run.guarded
      /\ UNCHANGED <<tree, local, origin, server, pr, made, wrongs>>
  BY DEF Inv, Typed, CheckHead, repo, GuardHolds, RunType
<1>1. CASE run' = Next1(run)
  <2>1. \A t \in Trees : run'.seen[t].head \in {{}, run.seen[t].head}
    BY <1>r, <1>1 DEF Next1, Idle, RunType
  <2>2. Sound'  BY <1>r, <2>1, LookKeepsSound
  <2> QED  BY <1>r, <1>1, <2>2, NextRelies DEF Good, Inv
<1>2. CASE SameHead(run.cur) /\ run' = [run EXCEPT !.pc = "merged"]
  <2>0. /\ run'.pc = "merged" /\ run'.cur = run.cur /\ run'.seen = run.seen
        /\ run'.exempt = run.exempt /\ run'.batch = run.batch /\ run'.guarded = run.guarded
        /\ run'.todo = {} /\ run'.found = {}
    BY <1>r, <1>2 DEF RunType
  <2>1. Sound'  BY <1>r, <2>0, LookKeepsSound
  <2>2. \A t \in Trees : WaitHolds(t)'  BY <1>r, <2>0, LookKeepsWaiting
  <2>3. \A t \in Trees : LateHolds(t)'
    BY <1>r, <2>0 DEF LateHolds, Late, Inv, Relies
  <2>4. SameHolds(run.cur)'
    <3> DEFINE t == run.cur
    <3>1. Waiting(t) /\ Late(t) /\ WaitHolds(t) /\ LateHolds(t)
      BY <1>r DEF Waiting, Late, Inv, Relies
    <3>2. tree[t].detached => tree[t].at = run.seen[t].head  BY <1>2 DEF SameHead, HeadOf
    <3>3. ~tree[t].detached => local[t].tip = run.seen[t].head  BY <1>2 DEF SameHead, HeadOf
    <3>4. tree[t].detached => tree[t].at \subseteq server.main \cup run.exempt
      BY <1>r, <3>1, <3>2 DEF WaitHolds, LateHolds
    <3>5. ~run.seen[t].detached => local[t].tip \subseteq run.seen[t].head \cup run.exempt
      BY <3>1, <3>3 DEF WaitHolds
    <3> QED  BY <1>r, <2>0, <3>4, <3>5 DEF SameHolds
  <2>5. Relies'  BY <2>0, <2>2, <2>3, <2>4 DEF Relies, SameHolds, MergedHolds
  <2>6. GuardHolds'  BY <1>r, <2>0 DEF GuardHolds, Inv
  <2> QED  BY <1>r, <2>1, <2>5, <2>6 DEF Good, Inv
<1> QED  BY <1>1, <1>2 DEF CheckHead

LEMMA AskMergedGood == ASSUME Inv, NEW gh \in BOOLEAN, AskMerged(gh) PROVE Good'
<1> DEFINE t == run.cur
<1>r. /\ run \in RunType /\ run.pc = "merged" /\ run.cur \in run.batch /\ run.cur \in Trees
      /\ run.todo = {} /\ run.found = {} /\ ~run.guarded
      /\ UNCHANGED <<tree, local, origin, server, pr, made, wrongs>>
  BY DEF Inv, Typed, AskMerged, repo, GuardHolds, RunType
<1>0. /\ run'.pc = "remove" /\ run'.cur = run.cur /\ run'.seen = run.seen
      /\ run'.exempt = run.exempt /\ run'.batch = run.batch /\ run'.guarded = run.guarded
      /\ run'.todo = {} /\ run'.found = {}
      /\ run'.merged = (/\ ~run.seen[t].detached /\ t \notin Protected
                        /\ Merged(t, run.seen[t].head, gh))
  BY <1>r DEF RunType, AskMerged
<1>1. Sound'  BY <1>r, <1>0, LookKeepsSound
<1>2. \A u \in Trees : WaitHolds(u)'  BY <1>r, <1>0, LookKeepsWaiting
<1>3. \A u \in Trees : LateHolds(u)'
  BY <1>r, <1>0 DEF LateHolds, Late, Inv, Relies
<1>4. \A u \in Trees : SameHolds(u)'
  BY <1>r, <1>0 DEF SameHolds, Inv, Relies
<1>5. \A u \in Trees : MergedHolds(u)'
  BY <1>r, <1>0 DEF MergedHolds, Merged, InMain, MainLags, Inv, Sound
<1>6. Relies'  BY <1>2, <1>3, <1>4, <1>5 DEF Relies
<1>7. GuardHolds'  BY <1>r, <1>0 DEF GuardHolds, Inv
<1> QED  BY <1>r, <1>1, <1>6, <1>7 DEF Good, Inv

\* What a tree that passed both looks holds is reachable without it, or came
\* too late for them.
LEMMA RemoveLosesNothing ==
    ASSUME Inv, run.pc = "remove", Removable(run.cur), NEW trees
    PROVE  Charge(tree[run.cur].files \cup tree[run.cur].ignored \cup HeadOf(run.cur), trees, local) = {}
<1> DEFINE t == run.cur
<1>1. t \in Trees /\ Late(t)  BY DEF Inv, GuardHolds, Typed, RunType, Late
<1>2. tree[t].files \cup tree[t].ignored \subseteq run.exempt
  BY <1>1 DEF Inv, Relies, LateHolds
<1>3. CASE tree[t].detached
  <2>1. tree[t].at \subseteq server.main \cup run.exempt
    BY <1>1, <1>3 DEF Inv, Relies, SameHolds
  <2> QED  BY <1>2, <1>3, <2>1, ServerHas, Reaches DEF HeadOf, Charge
<1>4. CASE ~tree[t].detached
  <2>1. local[t].has  BY <1>1, <1>4 DEF Inv, Sound, GoneIsEmpty, CheckedOut, Removable
  <2> QED  BY <1>1, <1>2, <1>4, <2>1, Reaches DEF HeadOf, Charge
<1> QED  BY <1>3, <1>4

LEMMA RemoveFailsGood == ASSUME Inv, NEW t \in Trees, RemoveFails(t) PROVE Good'
<1>1. run' = Next1(run) /\ UNCHANGED <<tree, local, origin, server, pr, made, wrongs>>
  BY DEF RemoveFails, repo
<1>2. \A u \in Trees : run'.seen[u].head \in {{}, run.seen[u].head}
  BY <1>1 DEF Next1, Idle, RunType, Inv, Typed
<1>3. Sound'  BY <1>1, <1>2, LookKeepsSound
<1> QED  BY <1>1, <1>3, NextRelies DEF Good, Inv, RemoveFails

LEMMA RemoveGood == ASSUME Inv, RemoveTree PROVE Good'
<1> DEFINE t == run.cur
<1>r. /\ run \in RunType /\ run.pc = "remove" /\ t \in run.batch /\ t \in Trees
      /\ run.todo = {} /\ run.found = {} /\ ~run.guarded /\ tree \in [Trees -> TreeType]
      /\ UNCHANGED <<local, origin, server, pr, made>>
  BY DEF Inv, Typed, RemoveTree, GuardHolds, RunType
<1>1. CASE Removable(t)
  <2> DEFINE gone == [tree[t] EXCEPT !.on = FALSE, !.detached = FALSE, !.at = {},
                        !.files = {}, !.ignored = {}, !.busy = FALSE, !.locked = FALSE]
  <2>1. tree' = [tree EXCEPT ![t] = gone]  BY <1>1 DEF RemoveTree
  <2>2. /\ ~tree'[t].on /\ ~tree'[t].detached /\ tree'[t].at = {} /\ tree'[t].files = {}
        /\ tree'[t].ignored = {}
        /\ \A u \in Trees \ {t} : tree'[u] = tree[u]
    BY <1>r, <2>1 DEF TreeType
  <2>3. wrongs' = {}
    <3>1. ~tree[t].locked  BY <1>1 DEF Removable
    <3> QED  BY <1>r, <1>1, <3>1, RemoveLosesNothing DEF RemoveTree, Inv
  <2>4. ASSUME \A u \in Trees : run'.seen[u].head \in {{}, run.seen[u].head} PROVE Sound'
    <3>1. Known' = Known  BY <1>r DEF Known
    <3>2. AllKnown'  BY <1>r, <2>2, <2>4, <3>1 DEF Inv, Sound, AllKnown
    <3>3. GoneIsEmpty' /\ MainLags'
      BY <1>r, <2>2 DEF Inv, Sound, GoneIsEmpty, MainLags, CheckedOut
    <3>4. Uncommitted'
      BY <1>r, <2>2, <2>4 DEF Inv, Sound, Uncommitted, HeadOf
    <3> QED  BY <3>2, <3>3, <3>4 DEF Sound
  <2>5. CASE run.seen[t].detached
    <3>1. run' = Next1(run)  BY <1>1, <2>5 DEF RemoveTree
    <3>2. \A u \in Trees : run'.seen[u].head \in {{}, run.seen[u].head}
      BY <1>r, <3>1 DEF Next1, Idle, RunType
    <3> QED  BY <1>r, <2>2, <2>3, <2>4, <3>1, <3>2, NextRelies DEF Good
  <2>6. CASE ~run.seen[t].detached
    <3>1. run' = [run EXCEPT !.pc = "branch"]  BY <1>1, <2>6 DEF RemoveTree
    <3>2. /\ run'.pc = "branch" /\ run'.cur = run.cur /\ run'.seen = run.seen
          /\ run'.exempt = run.exempt /\ run'.batch = run.batch /\ run'.merged = run.merged
          /\ run'.todo = {} /\ run'.found = {}
      BY <1>r, <3>1 DEF RunType
    <3>3. ASSUME NEW u \in Trees PROVE WaitHolds(u)'
      <4>1. CASE u = t  BY <3>2, <4>1 DEF WaitHolds, Waiting
      <4>2. CASE u # t
        <5>1. Waiting(u)' => Waiting(u)  BY <1>r, <3>2 DEF Waiting
        <5> QED  BY <1>r, <2>2, <3>2, <4>2, <5>1 DEF Inv, Relies, WaitHolds
      <4> QED  BY <4>1, <4>2
    <3>4. ASSUME NEW u \in Trees PROVE LateHolds(u)' /\ SameHolds(u)' /\ MergedHolds(u)'
      BY <1>r, <2>2, <3>2 DEF Inv, Relies, LateHolds, Late, SameHolds, MergedHolds
    <3>5. GuardHolds'  BY <1>r, <2>6, <3>2 DEF GuardHolds
    <3> QED  BY <2>3, <2>4, <3>2, <3>3, <3>4, <3>5 DEF Good, Relies
  <2> QED  BY <2>5, <2>6
<1>2. CASE ~Removable(t)  BY <1>r, <1>2, RemoveFailsGood DEF RemoveTree
<1> QED  BY <1>1, <1>2

\* A branch goes only when the server has what was seen of it, and the rest
\* came too late.
LEMMA DeleteLosesNothing ==
    ASSUME Inv, run.pc = "branch", run.merged, NEW trees, NEW branches
    PROVE  Charge(local[run.cur].tip, trees, branches) = {} /\ run.cur \notin Protected
<1> DEFINE t == run.cur
<1>1. t \in Trees  BY DEF Inv, GuardHolds, Typed, RunType
<1>2. /\ ~run.seen[t].detached /\ t \notin Protected
      /\ run.seen[t].head \subseteq Anchored
  BY <1>1, ServerHas DEF Inv, Relies, MergedHolds
<1>3. local[t].tip \subseteq run.seen[t].head \cup run.exempt \cup server.main
  BY <1>1, <1>2 DEF Inv, Relies, SameHolds
<1>4. local[t].tip \subseteq Reachable(trees, branches) \cup run.exempt
  BY <1>2, <1>3, ServerHas, Reaches
<1> QED  BY <1>2, <1>4 DEF Charge

LEMMA DeleteBranchGood == ASSUME Inv, DeleteBranch PROVE Good'
<1> DEFINE t == run.cur
<1>r. /\ run \in RunType /\ run.pc = "branch" /\ t \in run.batch /\ t \in Trees
      /\ UNCHANGED <<tree, origin, server, pr, made>> /\ run' = Next1(run)
      /\ local \in [Trees -> BranchType]
  BY DEF Inv, Typed, DeleteBranch, GuardHolds, RunType
<1>1. \A u \in Trees : run'.seen[u].head \in {{}, run.seen[u].head}
  BY <1>r DEF Next1, Idle, RunType
<1>2. CASE run.merged /\ local[t].has /\ ~CheckedOut(t)
  <2>1. local' = [local EXCEPT ![t] = [has |-> FALSE, tip |-> {}]]  BY <1>2 DEF DeleteBranch
  <2>2. local'[t].tip = {} /\ \A u \in Trees \ {t} : local'[u] = local[u]  BY <1>r, <2>1
  <2>3. wrongs' = {}
    BY <1>r, <1>2, DeleteLosesNothing DEF DeleteBranch, Inv
  <2>4. Sound'
    <3>1. Known' = Known  BY <1>r DEF Known
    <3>2. AllKnown'  BY <1>r, <1>1, <2>2, <3>1 DEF Inv, Sound, AllKnown
    <3>3. GoneIsEmpty' /\ MainLags'
      BY <1>r, <1>2, <2>2 DEF Inv, Sound, GoneIsEmpty, MainLags, CheckedOut
    <3>4. Uncommitted'
      BY <1>r, <1>1, <2>2 DEF Inv, Sound, Uncommitted, HeadOf
    <3> QED  BY <3>2, <3>3, <3>4 DEF Sound
  <2> QED  BY <1>r, <2>2, <2>3, <2>4, NextRelies DEF Good
<1>3. CASE ~(run.merged /\ local[t].has /\ ~CheckedOut(t))
  <2>1. UNCHANGED <<local, wrongs>>  BY <1>3 DEF DeleteBranch
  <2>2. Sound'  BY <1>r, <1>1, <2>1, LookKeepsSound
  <2> QED  BY <1>r, <2>1, <2>2, NextRelies DEF Good, Inv
<1> QED  BY <1>2, <1>3
-----------------------------------------------------------------------------
(* What people and agents do *)

\* Whatever leaves the files, the commits and the branches of the clone alone,
\* and takes nothing from main or from an ended pull request.
LEMMA RemoteGood ==
    ASSUME Inv, UNCHANGED <<local, run, made, wrongs>>, origin'.main = origin.main,
           \A t \in Trees : /\ tree'[t].on = tree[t].on /\ tree'[t].detached = tree[t].detached
                            /\ tree'[t].at = tree[t].at /\ tree'[t].files = tree[t].files
                            /\ tree'[t].ignored = tree[t].ignored,
           server.main \subseteq server'.main, server'.main \subseteq Known,
           \A t \in Trees : server'.tips[t] \subseteq Known,
           \A t \in Trees : pr[t].state = "merged" => pr'[t] = pr[t]
    PROVE  Good'
<1>1. Known' = Known  BY DEF Known
<1>2. GoneIsEmpty' /\ AllKnown' /\ MainLags'
  BY <1>1 DEF Inv, Sound, GoneIsEmpty, AllKnown, MainLags, CheckedOut
<1>3. Uncommitted'  BY DEF Inv, Sound, Uncommitted, HeadOf
<1>4. ASSUME NEW t \in Trees
      PROVE  WaitHolds(t)' /\ LateHolds(t)' /\ SameHolds(t)' /\ MergedHolds(t)'
  <2>1. WaitHolds(t) /\ LateHolds(t) /\ SameHolds(t) /\ MergedHolds(t)  BY DEF Inv, Relies
  <2>2. WaitHolds(t)' /\ LateHolds(t)'  BY <2>1 DEF WaitHolds, Waiting, LateHolds, Late
  <2>3. SameHolds(t)' /\ MergedHolds(t)'  BY <2>1 DEF SameHolds, MergedHolds
  <2> QED  BY <2>2, <2>3
<1>5. GuardHolds'  BY DEF Inv, GuardHolds
<1> QED  BY <1>2, <1>3, <1>4, <1>5 DEF Good, Sound, Relies, Inv

LEMMA HeadIsKnown == ASSUME Inv, NEW t \in Trees PROVE HeadOf(t) \subseteq Known
BY DEF Inv, Sound, AllKnown, HeadOf

LEMMA RemoteStepsGood ==
    ASSUME Inv, NEW t \in Trees,
           \/ Mark(t) \/ Push(t) \/ OpenPr(t) \/ DeleteOnServer(t) \/ Tag(t)
           \/ \E how \in {"closed", "merge", "squash"} : EndPr(t, how)
    PROVE  Good'
<1>t. /\ tree \in [Trees -> TreeType] /\ server \in RefsType /\ origin \in RefsType
      /\ pr \in [Trees -> PrType]
      /\ server.main \subseteq Known /\ \A u \in Trees : server.tips[u] \subseteq Known
  BY DEF Inv, Typed, Sound, AllKnown
<1>1. CASE Mark(t)
  <2>1. \A u \in Trees : /\ tree'[u].on = tree[u].on /\ tree'[u].detached = tree[u].detached
                         /\ tree'[u].at = tree[u].at /\ tree'[u].files = tree[u].files
                         /\ tree'[u].ignored = tree[u].ignored
    BY <1>t, <1>1 DEF Mark, TreeType
  <2> QED  BY <1>t, <1>1, <2>1, RemoteGood DEF Mark
<1>2. CASE Push(t)
  <2>1. /\ server'.main = server.main /\ origin'.main = origin.main
        /\ \A u \in Trees : server'.tips[u] \in {server.tips[u], HeadOf(t)}
    BY <1>t, <1>2 DEF Push, RefsType
  <2> QED  BY <1>t, <1>2, <2>1, HeadIsKnown, RemoteGood DEF Push
<1>3. CASE OpenPr(t)
  <2>1. \A u \in Trees : pr[u].state = "merged" => pr'[u] = pr[u]  BY <1>t, <1>3 DEF OpenPr
  <2> QED  BY <1>t, <1>3, <2>1, RemoteGood DEF OpenPr
<1>4. CASE DeleteOnServer(t)
  <2>1. server'.main = server.main /\ \A u \in Trees : server'.tips[u] \in {server.tips[u], {}}
    BY <1>t, <1>4 DEF DeleteOnServer, RefsType
  <2> QED  BY <1>t, <1>4, <2>1, RemoteGood DEF DeleteOnServer
<1>5. ASSUME NEW how \in {"closed", "merge", "squash"}, EndPr(t, how) PROVE Good'
  <2>1. /\ server'.main \in {server.main, server.main \cup server.tips[t]}
        /\ server'.tips = server.tips
    BY <1>t, <1>5 DEF EndPr, RefsType
  <2>2. \A u \in Trees : pr[u].state = "merged" => pr'[u] = pr[u]  BY <1>t, <1>5 DEF EndPr
  <2> QED  BY <1>t, <1>5, <2>1, <2>2, RemoteGood DEF EndPr
<1>6. CASE Tag(t)  BY <1>t, <1>6, RemoteGood DEF Tag
<1> QED  BY <1>1, <1>2, <1>3, <1>4, <1>5, <1>6

LEMMA ElsewhereGood ==
    ASSUME Inv,
           \/ Operate
           \/ \E c \in tags : Untag(c)
           \/ \E a \in Agents : Register(a) \/ Leave(a) \/ \E t \in Trees : Arrive(a, t)
    PROVE  Good'
<1>1. UNCHANGED <<tree, local, origin, server, pr, run, made, wrongs>>
  BY DEF Operate, Untag, Register, Leave, Arrive, repo
<1> QED  BY <1>1, RemoteGood DEF Inv, Sound, AllKnown

\* A new piece of work is none of the work there is.
LEMMA WriteGood ==
    ASSUME Inv, NEW t \in Trees, NEW kind \in {"file", "ignored"}, Write(t, kind)
    PROVE  Good'
<1> DEFINE w == <<t, made[t] + 1>>
<1>t. /\ tree \in [Trees -> TreeType] /\ made \in [Trees -> 0..MaxWork] /\ made[t] \in Nat
      /\ run \in RunType /\ tree[t].on
      /\ UNCHANGED <<local, origin, server, pr, wrongs>>
  BY BoundsAssumption DEF Inv, Typed, Write
<1>1. w \notin Known /\ w \in Known' /\ Known \subseteq Known'
  <2>1. \A u \in Trees : made[u] \in Nat /\ made'[u] = (IF u = t THEN made[t] + 1 ELSE made[u])
    BY <1>t, BoundsAssumption DEF Write
  <2>2. made[t] + 1 \in 1..MaxWork  BY <1>t, BoundsAssumption DEF Write
  <2>3. \A v \in Work : v[1] \in Trees /\ v[2] \in Nat  BY BoundsAssumption DEF Work
  <2>4. \A v \in Known : v \in Known'
    <3> SUFFICES ASSUME NEW v \in Known PROVE v \in Known'  OBVIOUS
    <3>1. v \in Work /\ v[2] <= made[v[1]] /\ v[1] \in Trees /\ v[2] \in Nat
      BY <2>3 DEF Known
    <3>2. v[2] <= made'[v[1]]  BY <2>1, <3>1
    <3> QED  BY <3>1, <3>2 DEF Known
  <2>5. w \in Work /\ w[1] = t /\ w[2] = made[t] + 1  BY <2>2 DEF Work
  <2> QED  BY <1>t, <2>1, <2>4, <2>5 DEF Known
<1>2. /\ \A u \in Trees \ {t} : tree'[u] = tree[u]
      /\ tree'[t].on = tree[t].on /\ tree'[t].detached = tree[t].detached /\ tree'[t].at = tree[t].at
      /\ tree[t].files \cup tree[t].ignored \subseteq tree'[t].files \cup tree'[t].ignored
      /\ tree'[t].files \subseteq tree[t].files \cup {w}
      /\ tree'[t].ignored \subseteq tree[t].ignored \cup {w}
  <2>1. CASE kind = "ignored"
    <3>1. tree' = [tree EXCEPT ![t].ignored = tree[t].ignored \cup {w}]  BY <2>1 DEF Write
    <3> QED  BY <1>t, <3>1 DEF TreeType
  <2>2. CASE kind = "file"
    <3>1. tree' = [tree EXCEPT ![t].files = tree[t].files \cup {w}]  BY <2>2 DEF Write
    <3> QED  BY <1>t, <3>1 DEF TreeType
  <2> QED  BY <2>1, <2>2
<1>3. /\ run'.pc = run.pc /\ run'.cur = run.cur /\ run'.seen = run.seen /\ run'.todo = run.todo
      /\ run'.found = run.found /\ run'.batch = run.batch /\ run'.merged = run.merged
      /\ run'.held = run.held /\ run'.unowned = run.unowned /\ run'.guarded = run.guarded
      /\ run.exempt \subseteq run'.exempt
      /\ Late(t) => w \in run'.exempt
  <2>1. CASE Late(t)
    <3>1. run' = [run EXCEPT !.exempt = run.exempt \cup {w}]  BY <2>1 DEF Write
    <3> QED  BY <1>t, <3>1 DEF RunType
  <2>2. CASE ~Late(t)  BY <2>2 DEF Write
  <2> QED  BY <2>1, <2>2
<1>4. Sound'
  <2>1. GoneIsEmpty' /\ MainLags'
    BY <1>t, <1>2 DEF Inv, Sound, GoneIsEmpty, MainLags, CheckedOut
  <2>2. AllKnown'  BY <1>t, <1>1, <1>2, <1>3 DEF Inv, Sound, AllKnown
  <2>3. \A u \in Trees : w \notin HeadOf(u) /\ w \notin run.seen[u].head
    BY <1>1, HeadIsKnown DEF Inv, Sound, AllKnown
  <2>4. \A u \in Trees : HeadOf(u)' = HeadOf(u)  BY <1>t, <1>2 DEF HeadOf
  <2>5. Uncommitted'  BY <1>t, <1>2, <1>3, <2>3, <2>4 DEF Inv, Sound, Uncommitted
  <2> QED  BY <2>1, <2>2, <2>5 DEF Sound
<1>5. ASSUME NEW u \in Trees
      PROVE  WaitHolds(u)' /\ LateHolds(u)' /\ SameHolds(u)' /\ MergedHolds(u)'
  <2>1. WaitHolds(u) /\ LateHolds(u) /\ SameHolds(u) /\ MergedHolds(u)  BY DEF Inv, Relies
  <2>0. /\ tree'[u].on = tree[u].on /\ tree'[u].detached = tree[u].detached
        /\ tree'[u].at = tree[u].at
    BY <1>2
  <2>2. WaitHolds(u)'  BY <1>t, <1>3, <2>0, <2>1 DEF WaitHolds, Waiting
  <2>3. LateHolds(u)'  BY <1>2, <1>3, <2>1 DEF LateHolds, Late
  <2>4. SameHolds(u)' /\ MergedHolds(u)'
    BY <1>t, <1>3, <2>0, <2>1 DEF SameHolds, MergedHolds
  <2> QED  BY <2>2, <2>3, <2>4
<1>6. GuardHolds'  BY <1>3 DEF Inv, GuardHolds
<1> QED  BY <1>t, <1>4, <1>5, <1>6 DEF Good, Relies, Inv
\* A commit moves the files of a tree to its HEAD.
LEMMA CommitGood == ASSUME Inv, NEW t \in Trees, Commit(t) PROVE Good'
<1>t. /\ tree \in [Trees -> TreeType] /\ local \in [Trees -> BranchType] /\ tree[t].on
      /\ UNCHANGED <<origin, server, pr, run, made, wrongs>>
  BY DEF Inv, Typed, Commit
<1>1. /\ \A u \in Trees \ {t} : tree'[u] = tree[u] /\ local'[u] = local[u]
      /\ tree'[t].on /\ tree'[t].detached = tree[t].detached /\ tree'[t].files = {}
      /\ tree'[t].ignored = tree[t].ignored /\ local'[t].has = local[t].has
      /\ tree[t].detached => /\ tree'[t].at = tree[t].at \cup tree[t].files
                             /\ local'[t] = local[t]
      /\ ~tree[t].detached => /\ tree'[t].at = tree[t].at
                              /\ local'[t].tip = local[t].tip \cup tree[t].files
  <2>1. CASE tree[t].detached
    <3>1. /\ tree' = [tree EXCEPT ![t].at = tree[t].at \cup tree[t].files, ![t].files = {}]
          /\ local' = local
      BY <2>1 DEF Commit
    <3> QED  BY <1>t, <2>1, <3>1 DEF TreeType
  <2>2. CASE ~tree[t].detached
    <3>1. /\ tree' = [tree EXCEPT ![t].files = {}]
          /\ local' = [local EXCEPT ![t].tip = local[t].tip \cup tree[t].files]
      BY <2>2 DEF Commit
    <3> QED  BY <1>t, <2>2, <3>1 DEF TreeType, BranchType
  <2> QED  BY <2>1, <2>2
<1>2. Sound'
  <2>1. Known' = Known  BY <1>t DEF Known
  <2>2. GoneIsEmpty' /\ MainLags'
    BY <1>t, <1>1 DEF Inv, Sound, GoneIsEmpty, MainLags, CheckedOut
  <2>3. tree'[t].at \cup local'[t].tip \subseteq tree[t].at \cup local[t].tip \cup tree[t].files
    BY <1>1
  <2>4. AllKnown'  BY <1>t, <1>1, <2>1, <2>3 DEF Inv, Sound, AllKnown
  <2>5. Uncommitted'  BY <1>t, <1>1 DEF Inv, Sound, Uncommitted, HeadOf
  <2> QED  BY <2>2, <2>4, <2>5 DEF Sound
<1>3. tree[t].files \cap run.seen[t].head = {}  BY DEF Inv, Sound, Uncommitted
<1>4. ASSUME NEW u \in Trees
      PROVE  WaitHolds(u)' /\ LateHolds(u)' /\ SameHolds(u)' /\ MergedHolds(u)'
  <2>1. WaitHolds(u) /\ LateHolds(u) /\ SameHolds(u) /\ MergedHolds(u)  BY DEF Inv, Relies
  <2>2. CASE u # t
    <3>1. tree'[u] = tree[u] /\ local'[u] = local[u]  BY <1>1, <2>2
    <3>2. WaitHolds(u)' /\ LateHolds(u)'
      BY <1>t, <2>1, <3>1 DEF WaitHolds, Waiting, LateHolds, Late
    <3> QED  BY <1>t, <2>1, <3>1, <3>2 DEF SameHolds, MergedHolds
  <2>3. CASE u = t
    <3>1. WaitHolds(t)'  BY <1>t, <1>1, <1>3, <2>1, <2>3 DEF WaitHolds, Waiting
    <3>2. LateHolds(t)'  BY <1>t, <1>1, <2>1, <2>3 DEF LateHolds, Late
    <3>3. run.cur = t /\ run.pc \in {"merged", "remove", "branch"} => tree[t].files \subseteq run.exempt
      BY <2>1, <2>3 DEF LateHolds, Late
    <3>4. SameHolds(t)'  BY <1>t, <1>1, <2>1, <2>3, <3>3 DEF SameHolds
    <3> QED  BY <1>t, <2>1, <2>3, <3>1, <3>2, <3>4 DEF MergedHolds
  <2> QED  BY <2>2, <2>3
<1>5. GuardHolds'  BY <1>t DEF Inv, GuardHolds
<1> QED  BY <1>t, <1>2, <1>4, <1>5 DEF Good, Relies, Inv

\* A tree that leaves its branch takes the commits since the scan with it.
LEMMA CheckoutMainGood == ASSUME Inv, NEW t \in Trees, CheckoutMain(t) PROVE Good'
<1>t. /\ tree \in [Trees -> TreeType] /\ run \in RunType /\ tree[t].on /\ ~tree[t].detached
      /\ tree[t].files = {} /\ UNCHANGED <<local, origin, server, pr, made, wrongs>>
  BY DEF Inv, Typed, CheckoutMain, CheckedOut
<1>1. /\ \A u \in Trees \ {t} : tree'[u] = tree[u]
      /\ tree'[t].on /\ tree'[t].detached /\ tree'[t].files = {} /\ tree'[t].at = origin.main
      /\ tree'[t].ignored = tree[t].ignored
  <2>1. tree' = [tree EXCEPT ![t].detached = TRUE, ![t].at = origin.main]  BY DEF CheckoutMain
  <2> QED  BY <1>t, <2>1 DEF TreeType
<1>2. /\ run'.pc = run.pc /\ run'.cur = run.cur /\ run'.seen = run.seen /\ run'.todo = run.todo
      /\ run'.found = run.found /\ run'.batch = run.batch /\ run'.merged = run.merged
      /\ run'.held = run.held /\ run'.unowned = run.unowned /\ run'.guarded = run.guarded
      /\ run.exempt \subseteq run'.exempt
      /\ run.pc # "idle" => local[t].tip \subseteq run.seen[t].head \cup run'.exempt
  <2>1. CASE run.pc = "idle"  BY <2>1 DEF CheckoutMain
  <2>2. CASE run.pc # "idle"
    <3>1. run' = [run EXCEPT !.exempt = run.exempt \cup (local[t].tip \ run.seen[t].head)]
      BY <2>2 DEF CheckoutMain
    <3> QED  BY <1>t, <3>1 DEF RunType
  <2> QED  BY <2>1, <2>2
<1>3. origin.main \subseteq server.main  BY DEF Inv, Sound, MainLags
<1>4. Sound'
  <2>1. Known' = Known  BY <1>t DEF Known
  <2>2. GoneIsEmpty' /\ MainLags'
    BY <1>t, <1>1 DEF Inv, Sound, GoneIsEmpty, MainLags, CheckedOut
  <2>3. AllKnown'  BY <1>t, <1>1, <1>2, <1>3, <2>1 DEF Inv, Sound, AllKnown
  <2>4. Uncommitted'  BY <1>t, <1>1, <1>2 DEF Inv, Sound, Uncommitted, HeadOf
  <2> QED  BY <2>2, <2>3, <2>4 DEF Sound
<1>5. ASSUME NEW u \in Trees
      PROVE  WaitHolds(u)' /\ LateHolds(u)' /\ SameHolds(u)' /\ MergedHolds(u)'
  <2>1. WaitHolds(u) /\ LateHolds(u) /\ SameHolds(u) /\ MergedHolds(u)  BY DEF Inv, Relies
  <2>2. CASE u # t
    <3>1. tree'[u] = tree[u] /\ local'[u] = local[u]  BY <1>t, <1>1, <2>2
    <3>2. WaitHolds(u)'  BY <1>t, <1>2, <2>1, <3>1 DEF WaitHolds, Waiting
    <3>3. LateHolds(u)'  BY <1>2, <2>1, <3>1 DEF LateHolds, Late
    <3> QED  BY <1>t, <1>2, <2>1, <3>1, <3>2, <3>3 DEF SameHolds, MergedHolds
  <2>3. CASE u = t
    <3>1. WaitHolds(t)'
      BY <1>t, <1>1, <1>2, <1>3, <2>1, <2>3 DEF WaitHolds, Waiting
    <3>2. LateHolds(t)'  BY <1>t, <1>1, <1>2, <2>1, <2>3 DEF LateHolds, Late
    <3>3. SameHolds(t)'  BY <1>t, <1>1, <1>2, <1>3, <2>1, <2>3 DEF SameHolds
    <3> QED  BY <1>t, <1>2, <2>1, <2>3, <3>1, <3>2, <3>3 DEF MergedHolds
  <2> QED  BY <2>2, <2>3
<1>6. GuardHolds'  BY <1>2 DEF Inv, GuardHolds
<1> QED  BY <1>t, <1>4, <1>5, <1>6 DEF Good, Relies, Inv

\* Only a tree that is gone is added, and it comes empty.
LEMMA AddTreeGood == ASSUME Inv, NEW t \in Trees, AddTree(t) PROVE Good'
<1>t. /\ tree \in [Trees -> TreeType] /\ local \in [Trees -> BranchType] /\ ~tree[t].on
      /\ tree[t].files = {} /\ tree[t].ignored = {}
      /\ UNCHANGED <<origin, server, pr, run, made, wrongs>>
  BY DEF Inv, Typed, AddTree, Sound, GoneIsEmpty
<1>1. /\ \A u \in Trees \ {t} : tree'[u] = tree[u] /\ local'[u] = local[u]
      /\ tree'[t].on /\ tree'[t].detached = tree[t].detached /\ tree'[t].files = {}
      /\ tree'[t].at = tree[t].at /\ tree'[t].ignored = {}
      /\ local'[t].has /\ local'[t].tip \in {local[t].tip, origin.main}
  <2>1. tree' = [tree EXCEPT ![t].on = TRUE]  BY DEF AddTree
  <2>2. local' = (IF local[t].has THEN local
                  ELSE [local EXCEPT ![t] = [has |-> TRUE, tip |-> origin.main]])
    BY DEF AddTree
  <2> QED  BY <1>t, <2>1, <2>2 DEF TreeType, BranchType
<1>2. origin.main \subseteq server.main  BY DEF Inv, Sound, MainLags
<1>3. Sound'
  <2>1. Known' = Known  BY <1>t DEF Known
  <2>2. GoneIsEmpty' /\ MainLags'
    BY <1>t, <1>1 DEF Inv, Sound, GoneIsEmpty, MainLags, CheckedOut
  <2>3. AllKnown'  BY <1>t, <1>1, <1>2, <2>1 DEF Inv, Sound, AllKnown
  <2>4. Uncommitted'  BY <1>t, <1>1 DEF Inv, Sound, Uncommitted, HeadOf
  <2> QED  BY <2>2, <2>3, <2>4 DEF Sound
<1>4. ASSUME NEW u \in Trees
      PROVE  WaitHolds(u)' /\ LateHolds(u)' /\ SameHolds(u)' /\ MergedHolds(u)'
  <2>1. WaitHolds(u) /\ LateHolds(u) /\ SameHolds(u) /\ MergedHolds(u)  BY DEF Inv, Relies
  <2>2. CASE u # t
    <3>1. tree'[u] = tree[u] /\ local'[u] = local[u]  BY <1>1, <2>2
    <3>2. WaitHolds(u)' /\ LateHolds(u)'
      BY <1>t, <2>1, <3>1 DEF WaitHolds, Waiting, LateHolds, Late
    <3> QED  BY <1>t, <2>1, <3>1, <3>2 DEF SameHolds, MergedHolds
  <2>3. CASE u = t
    <3>1. ~Waiting(t)  BY <1>t, <2>1, <2>3 DEF WaitHolds
    <3>2. WaitHolds(t)'  BY <1>t, <3>1 DEF WaitHolds, Waiting
    <3>3. LateHolds(t)'  BY <1>t, <1>1, <2>1, <2>3 DEF LateHolds, Late
    <3>4. SameHolds(t)'  BY <1>t, <1>1, <1>2, <2>1, <2>3 DEF SameHolds
    <3> QED  BY <1>t, <2>1, <2>3, <3>2, <3>3, <3>4 DEF MergedHolds
  <2> QED  BY <2>2, <2>3
<1>5. GuardHolds'  BY <1>t DEF Inv, GuardHolds
<1> QED  BY <1>t, <1>3, <1>4, <1>5 DEF Good, Relies, Inv

-----------------------------------------------------------------------------
(* The invariant *)

LEMMA InitInv == Init => Inv
<1> SUFFICES ASSUME Init PROVE Inv  OBVIOUS
<1>1. \A t \in Trees : <<t, 1>> \in Work /\ <<t, 1>> \in Known
  BY BoundsAssumption DEF Init, Work, Known
<1>2. \A t \in Trees : run.seen[t].head = {} /\ tree[t].on /\ tree[t].files = {}
  BY DEF Init, Idle
<1>3. \A t \in Trees : /\ tree[t].at \in {{<<t, 1>>}, {}} /\ local[t].tip \in {{<<t, 1>>}, {}}
                       /\ server.tips[t] = {<<t, 1>>}
                       /\ CheckedOut(t) => local[t].has
  BY DEF Init, CheckedOut
<1>4. server.main = {} /\ origin.main = {}  BY DEF Init
<1>5. Sound
  <2>1. GoneIsEmpty /\ MainLags  BY <1>2, <1>3, <1>4 DEF GoneIsEmpty, MainLags
  <2>2. Uncommitted  BY <1>2 DEF Uncommitted
  <2>3. \A t \in Trees : {<<t, 1>>} \subseteq Known  BY <1>1
  <2>4. AllKnown  BY <1>2, <1>3, <1>4, <2>3 DEF AllKnown
  <2> QED  BY <2>1, <2>2, <2>4 DEF Sound
<1>6. Relies /\ GuardHolds
  BY DEF Init, Idle, Relies, WaitHolds, Waiting, LateHolds, Late, SameHolds, MergedHolds, GuardHolds
<1> QED  BY <1>5, <1>6, InitTyped DEF Inv, Init

LEMMA NextInv == Inv /\ [Next]_vars => Inv'
<1> SUFFICES ASSUME Inv, [Next]_vars PROVE Inv'  OBVIOUS
<1>1. CASE Prune
  <2>1. Typed'  BY <1>1, PruneTyped DEF Inv
  <2>2. Good'
    BY <1>1, StartGood, FetchGood, LookAtTreeGood, LookAtRefsGood, AskMergedGood, RemoveGood,
       RemoveFailsGood, JudgeGood,
       LookAtOwnersGood, CheckHeadGood, DeleteBranchGood DEF Prune
  <2> QED  BY <2>1, <2>2 DEF Inv, Good
<1>2. CASE People
  <2>1. Typed'  BY <1>2, PeopleTyped DEF Inv
  <2>2. Good'
    BY <1>2, CommitGood, CheckoutMainGood, AddTreeGood, RemoteStepsGood, ElsewhereGood, WriteGood
    DEF People
  <2> QED  BY <2>1, <2>2 DEF Inv, Good
<1>3. CASE UNCHANGED vars
  <2>1. UNCHANGED <<local, tags, run, made, wrongs, origin, tree, server, pr, agent, ops, budget>>
    BY <1>3 DEF vars
  <2>2. Typed'  BY <2>1 DEF Inv, Typed
  <2>3. Good'  BY <2>1, RemoteGood DEF Inv, Sound, AllKnown
  <2> QED  BY <2>2, <2>3 DEF Inv, Good
<1> QED  BY <1>1, <1>2, <1>3 DEF Next

LEMMA InvAlways == Spec => []Inv
BY InitInv, NextInv, PTL DEF Spec

LEMMA InvTypes == Inv => TypeOK
BY DEF Inv, Typed, Sound, GoneIsEmpty, CheckedOut, TypeOK, RunType, RunPcs, TreeType, BranchType,
   RefsType, PrType

-----------------------------------------------------------------------------
(* The theorems *)

\* The states of the loop, of the clone and of the remote are well typed, and
\* a branch that is checked out exists.
THEOREM TypeCorrect == Spec => []TypeOK
BY InvAlways, InvTypes, PTL

\* For any number of trees, agents, acts, failed calls and removals, no run of
\* the prune destroys work it answers for.
THEOREM WorkSurvives == Spec => []NothingIsLost
<1>1. Inv => NothingIsLost  BY DEF Inv, NothingIsLost
<1> QED  BY <1>1, InvAlways, PTL

\* No run removes a guarded tree or deletes a protected branch, whichever of
\* its sources fail.
THEOREM GuardsHold == Spec => []GuardedStays
<1>1. Inv => GuardedStays  BY InvTypes DEF Inv, GuardedStays
<1> QED  BY <1>1, InvAlways, PTL

(***************************************************************************)
(* The stale monitor.                                                      *)
(***************************************************************************)
-----------------------------------------------------------------------------
(* The inductive invariants of the stale monitor *)

InScan == scan.pc # "off"
\* Nothing is decided yet about the worker.
Ahead == scan.pc \in {"manager", "wakeManager", "worker"}
\* The lines held back by earlier scans are still theirs.
Holding == scan.pc \notin {"off", "print", "drain", "commit"}
Queued == ToSet(scan.lines)
HeldNow == IF Holding THEN Held ELSE {}
Buffered(em) == IF em.buffer = None THEN {} ELSE em.buffer.lines
\* What a scan that ends now will have held back.
Written == IF scan.pc = "commit" THEN Buffered(scan.next) ELSE {}

\* What a scan leaves of the scan before, and what it has not written yet.
ScanKeeps ==
    /\ InScan => /\ ~due
                 /\ scan.was.pages = emitted.pages /\ scan.was.buffer = emitted.buffer
                 /\ scan.was.tick = emitted.tick /\ scan.was.seen = emitted.seen
    /\ scan.pc # "commit" => scan.next.buffer = None
    /\ (Ahead \/ scan.pc \in {"send", "pages"}) =>
          /\ scan.next.tick = None /\ ~scan.next.seen
          /\ \A k \in Kinds \ {"stalled"} : scan.next.pages[k] = None
          /\ \A line \in Queued : line.kind \in {"stalled", "nudged", "resumed", "autoclosed"}
    /\ Ahead => scan.next.pages["stalled"] = None /\ Queued = {} /\ scan.next.nudgeSent = None
    /\ scan.pc \in {"drain", "commit"} => Queued = {}

\* Times of the worker and of its last nudge.
InTime ==
    /\ worker.mtime <= worker.active /\ worker.active <= now
    /\ nudge.turn # None => nudge.turn <= nudge.at /\ nudge.at <= now
    /\ nudge.turn # None /\ nudge.at = now => ~due /\ ~Ahead /\ scan.pc # "send"
    /\ mishaps <= nudge.left \/ nudge.turn = None

\* A page is told, or a line of B will tell it.
PageIsIn(B, k, e) == \E line \in B : line.kind = k /\ line.id = e.id
PageIsTold(k, e) == told[k][e.id] >= e.level
PagesOwed ==
    /\ \A k \in Kinds : LET e == emitted.pages[k] IN
          e # None /\ e.level > 0 => PageIsTold(k, e) \/ PageIsIn(Buffered(emitted), k, e)
    /\ InScan => \A k \in Kinds : LET e == scan.next.pages[k] IN
          e # None /\ e.level > 0 =>
             \/ PageIsTold(k, e)
             \/ \E line \in Queued : line.kind = k /\ line.id = e.id /\ line.level >= e.level
             \/ PageIsIn(HeldNow, k, e)
             \/ PageIsIn(Written, k, e)
             \/ k = "stalled" /\ scan.pc = "send"

\* A nudge not yet answered of the turn the worker is in, or was in just now.
Owed == /\ ~nudge.said /\ nudge.turn # None
        /\ nudge.turn = now \/ (worker.st = "busy" /\ worker.mtime = nudge.turn)
AnswerIn(B) == \E line \in B : line.kind = "resumed" /\ line.id >= nudge.at
SentSince(at) == at # None /\ at >= nudge.at
OnLedger(em) == SentSince(em.nudgeSent) \/ AnswerIn(Buffered(em))
AnswersOwed ==
    /\ Owed => OnLedger(emitted)
    /\ scan.pc = "send" => scan.next.nudgeSent = now
    /\ InScan => scan.next.nudgeSent \in {None, now, scan.was.nudgeSent}
    /\ InScan /\ Owed => OnLedger(scan.was) \/ scan.next.nudgeSent = now
    /\ InScan /\ ~Ahead /\ scan.pc # "send" /\ Owed =>
          SentSince(scan.next.nudgeSent) \/ AnswerIn(Queued) \/ AnswerIn(HeldNow) \/ AnswerIn(Written)

HasClose(B) == \E line \in B : line.kind = "autoclosed"
CloseOwed ==
    /\ closed = "outbox" => outbox # {}
    /\ closed = "line" /\ ~InScan => HasClose(Buffered(emitted))
    /\ closed = "line" /\ InScan => HasClose(Queued) \/ HasClose(HeldNow) \/ HasClose(Written)

\* The worker is silent since its last nudge, and nothing went wrong since.
Silent == /\ nudge.turn # None /\ nudge.turn = worker.mtime /\ nudge.at > worker.active
          /\ nudge.left = mishaps
Remembers(em) ==
    /\ nudge.why = "limit" => em.nudged = worker.mtime
    /\ nudge.why = "reset" => em.sched = None
    /\ nudge.why = "rung" /\ nudge.rung # 0 =>
          LET e == em.pages["stalled"] IN e # None /\ e.id = worker.mtime /\ e.level >= nudge.rung
\* Why the scan is about to nudge.
SendIsDue ==
    LET e == scan.next.pages["stalled"] IN
    /\ scan.why # "none"
    /\ scan.why = "limit" => scan.was.nudged # worker.mtime /\ scan.next.nudged = worker.mtime
    /\ scan.why = "reset" => scan.was.sched # None /\ scan.next.sched = None
    /\ scan.why = "rung" => /\ e # None /\ e.id = worker.mtime /\ e.level > Level("stalled", worker.mtime)
                            /\ worker.active < now =>
                                  Elapsed >= Processing /\ e.level = HighestNudge(Elapsed, Processing)
RungsRemembered ==
    /\ Silent => worker.st = "busy" /\ since["question"] = None
    /\ Silent /\ nudge.why = "rung" /\ nudge.rung # 0 =>
          Elapsed >= Processing /\ nudge.rung <= HighestNudge(Elapsed, Processing)
    /\ InScan /\ scan.blocked => since["question"] # None
    /\ (Ahead \/ scan.pc = "send") /\ ~scan.blocked /\ since["question"] # None => worker.active = now
    /\ scan.pc = "send" => ~scan.blocked /\ worker.st = "busy" /\ SendIsDue
    /\ Silent /\ ~InScan => Remembers(emitted)
    /\ Silent /\ (Ahead \/ scan.pc = "send") => Remembers(scan.was)
    /\ Silent /\ InScan /\ ~Ahead /\ scan.pc # "send" => Remembers(scan.next)

\* A lane that lives is late only after a sleep, and after one whose length
\* shows a scan does not look at it.
LaneIsLate(em) == em.pages["lane"] # None \/ em.seen
LaneRemembered ==
    /\ alive /\ rested => beat = now
    /\ LaneIsLate(emitted) => emitted.tick # None /\ emitted.tick <= now
    /\ steady /\ alive /\ LaneIsLate(emitted) /\ ~InScan =>
          \/ emitted.tick = now /\ ~due /\ ~rested
          \/ beat = now /\ due
          \/ emitted.tick # None /\ now - emitted.tick > LaneGap
    /\ steady /\ alive /\ LaneIsLate(emitted) /\ (Ahead \/ scan.pc \in {"send", "pages"}) =>
          beat = now \/ ~Judged
    /\ scan.pc \in {"hold", "rollup", "print", "drain", "commit"} =>
          /\ scan.next.tick = now
          /\ alive /\ Judged /\ LaneIsLate(scan.next) => ~rested

WatchInv == ScanKeeps /\ InTime /\ PagesOwed /\ AnswersOwed /\ CloseOwed /\ RungsRemembered /\ LaneRemembered
-----------------------------------------------------------------------------
(* Ladders and lines *)

LEMMA LeastIs ==
  ASSUME NEW S \in SUBSET Nat, S # {}
  PROVE  Min(S) \in S /\ \A x \in S : Min(S) <= x
<1>1. PICK x \in S : \A y \in S : ~(<<y, x>> \in OpToRel(<, Nat))
  BY NatLessThanWellFounded, WFMin
<1>2. ASSUME NEW y \in S
      PROVE  x <= y
  <2>1. y < x => <<y, x>> \in OpToRel(<, Nat)
    BY Zenon DEF OpToRel
  <2>2. ~(y < x)
    BY <1>1, <2>1, Zenon
  <2>3. x \in Nat /\ y \in Nat
    OBVIOUS
  <2> QED  BY <2>2, <2>3
<1> QED  BY <1>2 DEF Min

LEMMA GreatestIs ==
  ASSUME NEW S \in SUBSET Nat, S # {}, NEW k \in Nat, \A x \in S : x <= k
  PROVE  Max(S) \in S /\ \A x \in S : x <= Max(S)
<1> DEFINE rest == {k - x : x \in S}
<1>1. rest \in SUBSET Nat /\ rest # {}
  <2>1. \A x \in S : x \in Nat /\ k - x \in Nat
    OBVIOUS
  <2> QED  BY <2>1
<1>2. Min(rest) \in rest /\ \A y \in rest : Min(rest) <= y
  BY <1>1, LeastIs
<1>3. PICK x \in S : Min(rest) = k - x
  BY <1>2
<1>4. ASSUME NEW y \in S
      PROVE  x >= y
  <2>1. k - x <= k - y /\ x \in Nat /\ y \in Nat
    BY <1>2, <1>3
  <2> QED  BY <2>1
<1> QED  BY <1>4 DEF Max

LEMMA GreaterOfTwo ==
  ASSUME NEW a \in Nat, NEW b \in Nat
  PROVE  Max({a, b}) \in {a, b} /\ a <= Max({a, b}) /\ b <= Max({a, b})
<1>1. {a, b} \in SUBSET Nat /\ a + b \in Nat /\ \A x \in {a, b} : x <= a + b
  OBVIOUS
<1> QED  BY <1>1, GreatestIs

Rungs(elapsed, base) == {0} \union {t \in 0..elapsed : \E k \in 0..elapsed : t = base * 2^k}

LEMMA HighestIs ==
  ASSUME NEW elapsed \in Nat, NEW base \in Nat
  PROVE  /\ Highest(elapsed, base) \in 0..elapsed
         /\ Highest(elapsed, base) \in Rungs(elapsed, base)
         /\ \A t \in Rungs(elapsed, base) : t <= Highest(elapsed, base)
<1> DEFINE S == Rungs(elapsed, base)
<1>1. S \in SUBSET (0..elapsed) /\ S # {}
  BY DEF Rungs
<1>2. S \in SUBSET Nat /\ \A x \in S : x <= elapsed
  BY <1>1
<1>3. Highest(elapsed, base) = Max(S)
  BY DEF Highest, Rungs
<1> HIDE DEF S
<1> QED  BY <1>1, <1>2, <1>3, GreatestIs DEF S

\* The rung of a page never falls as time goes by.
LEMMA HighestGrows ==
  ASSUME NEW e \in Nat, NEW f \in Nat, e <= f, NEW base \in Nat
  PROVE  Highest(e, base) <= Highest(f, base)
<1>1. Highest(e, base) \in Rungs(f, base)
  <2>1. Highest(e, base) \in Rungs(e, base)
    BY HighestIs
  <2>2. 0..e \subseteq 0..f
    OBVIOUS
  <2> QED  BY <2>1, <2>2 DEF Rungs
<1> QED  BY <1>1, HighestIs

\* So does the last multiple that has passed.
LEMMA MultiplesGrow ==
  ASSUME NEW a \in Nat, NEW b \in Nat, a <= b, NEW n \in Nat \ {0}
  PROVE  /\ (a \div n) * n \in Nat /\ (b \div n) * n \in Nat
         /\ (a \div n) * n <= (b \div n) * n
<1> DEFINE p == a \div n
           q == b \div n
<1>1. p \in Nat /\ q \in Nat /\ p * n <= a /\ a < (p + 1) * n /\ q * n <= b /\ b < (q + 1) * n
  OBVIOUS
<1>2. p <= q
  <2> HIDE DEF p, q
  <2>1. SUFFICES ASSUME q + 1 <= p PROVE FALSE
    BY <1>1
  <2>2. (q + 1) * n <= p * n
    BY <1>1, <2>1
  <2> QED  BY <1>1, <2>2
<1>3. p * n <= q * n /\ p * n \in Nat /\ q * n \in Nat
  <2> HIDE DEF p, q
  <2> QED  BY <1>1, <1>2
<1> QED  BY <1>3

LEMMA NudgesGrow ==
  ASSUME NEW e \in Nat, NEW f \in Nat, e <= f, NEW base \in Nat
  PROVE  /\ HighestNudge(e, base) \in Nat /\ HighestNudge(f, base) \in Nat
         /\ HighestNudge(e, base) <= HighestNudge(f, base)
<1> USE WatchAssumption
<1>1. 4 * base \in Nat
  OBVIOUS
<1>2. Highest(e, base) \in Nat /\ Highest(f, base) \in Nat /\ Highest(e, base) <= e /\ Highest(f, base) <= f
      /\ Highest(e, base) <= Highest(f, base)
  <2>1. Highest(e, base) \in 0..e /\ Highest(f, base) \in 0..f
    BY HighestIs
  <2>2. Highest(e, base) <= Highest(f, base)
    BY HighestGrows
  <2> QED  BY <2>1, <2>2
<1>3. CASE f < 4 * base
  BY <1>1, <1>2, <1>3 DEF HighestNudge
<1>4. CASE f >= 4 * base
  <2> DEFINE m == 4 * base
             up(x) == ((x - m) \div NudgeRepeat) * NudgeRepeat
  <2>1. HighestNudge(f, base) = m + up(f) /\ (e >= m => HighestNudge(e, base) = m + up(e))
        /\ (e < m => HighestNudge(e, base) = Highest(e, base))
    BY <1>1, <1>4 DEF HighestNudge
  <2>2. up(f) \in Nat /\ (e >= m => up(e) \in Nat /\ up(e) <= up(f))
    <3>1. NudgeRepeat \in Nat \ {0} /\ f - m \in Nat /\ (e >= m => e - m \in Nat /\ e - m <= f - m)
      BY <1>1, <1>4
    <3> HIDE DEF m
    <3>2. up(f) \in Nat
      BY <3>1, MultiplesGrow
    <3>3. CASE e >= m
      BY <3>1, <3>2, <3>3, MultiplesGrow
    <3> QED  BY <3>2, <3>3
  <2> HIDE DEF m, up
  <2>3. m \in Nat
    BY <1>1 DEF m
  <2>4. CASE e >= m
    BY <2>1, <2>2, <2>3, <2>4
  <2>5. CASE e < m
    BY <1>2, <2>1, <2>2, <2>3, <2>5
  <2> QED  BY <2>3, <2>4, <2>5
<1> QED  BY <1>1, <1>3, <1>4

\* A rung is a number, whatever the clock did.
LEMMA RungsAreNumbers ==
  ASSUME NEW elapsed \in Int, NEW base \in Nat
  PROVE  Highest(elapsed, base) \in Nat /\ HighestNudge(elapsed, base) \in Nat
<1>1. CASE elapsed \in Nat
  <2>1. Highest(elapsed, base) \in 0..elapsed
    BY <1>1, HighestIs
  <2>2. HighestNudge(elapsed, base) \in Nat
    BY <1>1, NudgesGrow
  <2> QED  BY <2>1, <2>2
<1>2. CASE elapsed \notin Nat
  <2>1. 0..elapsed = {} /\ elapsed < 0 /\ elapsed < 4 * base
    BY <1>2
  <2>2. {0} \union {t \in 0..elapsed : \E k \in 0..elapsed : t = base * 2^k} = {0}
    BY <2>1
  <2>3. Highest(elapsed, base) = Max({0})
    BY <2>2 DEF Highest
  <2>4. Max({0}) \in {0}
    <3>1. {0} \in SUBSET Nat /\ {0} # {} /\ \A x \in {0} : x <= 0
      OBVIOUS
    <3> QED  BY <3>1, GreatestIs
  <2>5. HighestNudge(elapsed, base) = Highest(elapsed, base)
    BY <2>1 DEF HighestNudge
  <2> QED  BY <2>3, <2>4, <2>5
<1> QED  BY <1>1, <1>2

LEMMA AppendAdds ==
  ASSUME NEW S, NEW s \in Seq(S), NEW x \in S
  PROVE  Append(s, x) \in Seq(S) /\ ToSet(Append(s, x)) = ToSet(s) \union {x}
<1>1. /\ Append(s, x) \in Seq(S) /\ Len(Append(s, x)) = Len(s) + 1
      /\ \A i \in 1..Len(s) : Append(s, x)[i] = s[i]
      /\ Append(s, x)[Len(s) + 1] = x
  OBVIOUS
<1>2. DOMAIN s = 1..Len(s) /\ DOMAIN Append(s, x) = 1..(Len(s) + 1) /\ Len(s) \in Nat
  BY <1>1
<1> QED  BY <1>1, <1>2 DEF ToSet

LEMMA RemoveDrops ==
  ASSUME NEW S, NEW s \in Seq(S), NEW i \in DOMAIN s
  PROVE  /\ RemoveAt(s, i) \in Seq(S)
         /\ ToSet(RemoveAt(s, i)) \subseteq ToSet(s)
         /\ ToSet(s) \subseteq ToSet(RemoveAt(s, i)) \union {s[i]}
<1> DEFINE l == SubSeq(s, 1, i - 1)
           r == SubSeq(s, i + 1, Len(s))
           t == RemoveAt(s, i)
<1>1. Len(s) \in Nat /\ i \in 1..Len(s) /\ DOMAIN s = 1..Len(s) /\ \A j \in 1..Len(s) : s[j] \in S
  OBVIOUS
<1>2. /\ l \in Seq(S) /\ Len(l) = i - 1 /\ \A j \in 1..(i - 1) : l[j] = s[j]
      /\ r \in Seq(S) /\ Len(r) = Len(s) - i /\ \A j \in 1..(Len(s) - i) : r[j] = s[j + i]
  <2>1. \A j \in 1..(i - 1) : s[j] \in S  BY <1>1
  <2>2. \A j \in (i + 1)..Len(s) : s[j] \in S  BY <1>1
  <2>3. l \in Seq(S) /\ Len(l) = i - 1 /\ \A j \in 1..(i - 1) : l[j] = s[j]
    BY <1>1, <2>1, SubSeqProperties
  <2>4. r \in Seq(S) /\ Len(r) = Len(s) - i /\ \A j \in 1..(Len(s) - i) : r[j] = s[j + i]
    BY <1>1, <2>2, SubSeqProperties
  <2> QED  BY <2>3, <2>4
<1>3. t = l \o r
  BY DEF RemoveAt
<1> HIDE DEF l, r, t
<1>4. /\ t \in Seq(S) /\ Len(t) = Len(s) - 1 /\ DOMAIN t = 1..(Len(s) - 1)
      /\ \A j \in 1..(i - 1) : t[j] = s[j]
      /\ \A j \in i..(Len(s) - 1) : t[j] = s[j + 1]
  <2>1. /\ t \in Seq(S) /\ Len(t) = Len(l) + Len(r)
        /\ \A j \in 1..(Len(l) + Len(r)) : t[j] = IF j <= Len(l) THEN l[j] ELSE r[j - Len(l)]
    BY <1>2, <1>3, ConcatProperties
  <2>2. Len(t) = Len(s) - 1 /\ DOMAIN t = 1..(Len(s) - 1)
    BY <1>1, <1>2, <2>1
  <2>3. \A j \in 1..(i - 1) : t[j] = s[j]
    BY <1>1, <1>2, <2>1
  <2>4. \A j \in i..(Len(s) - 1) : t[j] = s[j + 1]
    <3> SUFFICES ASSUME NEW j \in i..(Len(s) - 1) PROVE t[j] = s[j + 1]
      OBVIOUS
    <3>1. j - (i - 1) \in 1..(Len(s) - i) /\ j - (i - 1) + i = j + 1
      BY <1>1
    <3>2. t[j] = r[j - (i - 1)]
      BY <1>1, <1>2, <2>1
    <3> QED  BY <1>2, <3>1, <3>2
  <2> QED  BY <2>1, <2>2, <2>3, <2>4
<1>5. \A j \in DOMAIN t : \E k \in DOMAIN s : t[j] = s[k]
  BY <1>1, <1>4
<1>6. \A k \in DOMAIN s \ {i} : \E j \in DOMAIN t : t[j] = s[k]
  <2> SUFFICES ASSUME NEW k \in DOMAIN s \ {i} PROVE \E j \in DOMAIN t : t[j] = s[k]
    OBVIOUS
  <2>1. CASE k < i
    BY <1>1, <1>4, <2>1
  <2>2. CASE k > i
    <3>1. k - 1 \in i..(Len(s) - 1) /\ k - 1 + 1 = k /\ k - 1 \in DOMAIN t
      BY <1>1, <1>4, <2>2
    <3> QED  BY <1>4, <3>1
  <2> QED  BY <1>1, <2>1, <2>2
<1> QED  BY <1>4, <1>5, <1>6 DEF ToSet, t

-----------------------------------------------------------------------------
(* What each step of a scan does *)

LEMMA ConstantsAre ==
  /\ {Processing, RateLimit, Question, Repage, NudgeRepeat, LaneBase} \subseteq Nat \ {0}
  /\ OrphanGrace \in Nat /\ IdleThreshold \in Nat /\ BusyDeadline \in Nat /\ Cadence \in Nat
  /\ Retry \in Nat /\ MaxHold \in Nat /\ LaneGap \in Nat /\ LaneCap \in Nat
  /\ MaxTime \in Nat /\ MaxEvents \in Nat /\ MaxMishaps \in Nat
  /\ None \notin Nat
  /\ Times \subseteq Nat /\ 0 \in Times /\ None \notin Times
BY WatchAssumption DEF Times

\* What of a scan a step does not touch: all but its place, the manager's
\* schedule and its last close.
SameNext(m, n) ==
    /\ n.seen = m.seen /\ n.nudgeSent = m.nudgeSent /\ n.nudged = m.nudged /\ n.sched = m.sched
    /\ n.tick = m.tick /\ n.buffer = m.buffer
SameScan(s, t) == t.was = s.was /\ t.blocked = s.blocked /\ t.why = s.why

LEMMA LevelIs ==
  ASSUME WatchTypeOK, NEW k \in Kinds, NEW id
  PROVE  /\ Level(k, id) \in Nat
         /\ Level(k, id) > 0 => OnRecord(k, id) /\ scan.was.pages[k].level = Level(k, id)
         /\ id \in Times => First(k, id) \in Times
         /\ OnRecord(k, id) => scan.was.pages[k] \in Entry
<1>1. scan.was \in Emitted /\ now \in Times
  BY DEF WatchTypeOK, Scans
<1>2. scan.was.pages[k] \in Entry \union {None}
  BY <1>1 DEF Emitted
<1>3. OnRecord(k, id) => scan.was.pages[k] \in Entry
  BY <1>2 DEF OnRecord
<1> QED  BY <1>1, <1>3 DEF Level, First, OnRecord, Entry

\* What the ledger is when a scan wrote its actions ahead of its pages.
Wrote(e, s) ==
    /\ e.pages = s.was.pages /\ e.seen = s.was.seen
    /\ e.nudgeSent = Newer(s.next.nudgeSent, s.was.nudgeSent)
    /\ e.tick = Newer(s.next.tick, s.was.tick) /\ e.buffer = Newer(s.next.buffer, s.was.buffer)

LEMMA ActionsAre ==
  ASSUME NEW s \in Scans
  PROVE  ActionsOnly(s) \in Emitted /\ Wrote(ActionsOnly(s), s)
<1> DEFINE w == s.was
           n == s.next
           nudgeSent == Newer(n.nudgeSent, w.nudgeSent)
           nudged == Newer(n.nudged, w.nudged)
           sched == Newer(n.sched, w.sched)
           mgrSched == Newer(n.mgrSched, w.mgrSched)
           lastClose == Newer(n.lastClose, w.lastClose)
           tick == Newer(n.tick, w.tick)
           buffer == Newer(n.buffer, w.buffer)
<1>1. w \in Emitted /\ n \in Emitted
  BY DEF Scans
<1>2. ActionsOnly(s) = [w EXCEPT !.nudgeSent = nudgeSent, !.nudged = nudged, !.sched = sched,
                                 !.mgrSched = mgrSched, !.lastClose = lastClose, !.tick = tick,
                                 !.buffer = buffer]
  BY <1>1 DEF ActionsOnly, Emitted
<1>3. /\ nudgeSent \in Times \union {None} /\ nudged \in Times \union {None}
      /\ sched \in [at : Nat, base : Times] \union {None}
      /\ mgrSched \in [at : Nat, base : Times] \union {None}
      /\ lastClose \in Times \union {None} /\ tick \in Times \union {None}
      /\ buffer \in Buffers \union {None}
  BY <1>1 DEF Newer, Emitted
<1> HIDE DEF w, nudgeSent, nudged, sched, mgrSched, lastClose, tick, buffer
<1>4. LET a == ActionsOnly(s) IN
      /\ a \in Emitted /\ a.pages = w.pages /\ a.seen = w.seen /\ a.nudgeSent = nudgeSent
      /\ a.tick = tick /\ a.buffer = buffer
  BY <1>1, <1>2, <1>3 DEF Emitted
<1> QED  BY <1>4 DEF Wrote, w, nudgeSent, tick, buffer

\* A write of the actions, or its failure.
LEMMA WriteIs ==
  ASSUME WatchTypeOK, NEW s \in Scans, WriteActions(s)
  PROVE  /\ emitted' \in Emitted /\ mishaps' \in Nat /\ mishaps' <= mishaps
         /\ \/ emitted' = emitted /\ mishaps' < mishaps
            \/ Wrote(emitted', s) /\ mishaps' = mishaps
BY ActionsAre DEF WriteActions, Mishap, WatchTypeOK

LEMMA NothingIs == Nothing \in Emitted /\ Off \in Scans
<1>1. Nothing \in Emitted
  BY DEF Nothing, Emitted
<1>2. <<>> \in Seq(Lines)
  OBVIOUS
<1> QED  BY <1>1, <1>2 DEF Off, Scans, Pcs, Whys

LEMMA StartIs ==
  ASSUME WatchTypeOK, ScanStart
  PROVE  /\ scan' \in Scans /\ scan'.pc \in {"manager", "worker"} /\ scan'.was = emitted
         /\ scan'.next.pages = [k \in Kinds |-> None] /\ ~scan'.next.seen /\ scan'.next.nudgeSent = None
         /\ scan'.next.tick = None /\ scan'.next.buffer = None /\ scan'.lines = <<>>
         /\ scan'.blocked = (since["question"] # None)
<1> DEFINE close == emitted.lastClose = None \/ now - emitted.lastClose >= Cadence
           pc == IF manager.limited THEN "manager" ELSE "worker"
           last == IF close THEN now ELSE emitted.lastClose
           blocked == since["question"] # None
           limited == manager.limited
<1>1. scan' = [Off EXCEPT !.pc = pc, !.was = emitted, !.close = close, !.next.lastClose = last,
                          !.blocked = blocked, !.limited = limited]
  BY DEF ScanStart
<1>2. /\ pc \in {"manager", "worker"} /\ emitted \in Emitted /\ last \in Times \union {None}
      /\ close \in BOOLEAN /\ blocked \in BOOLEAN /\ limited \in BOOLEAN
  BY DEF WatchTypeOK, Emitted
<1> HIDE DEF close, pc, last, blocked, limited
<1> DEFINE n == [Nothing EXCEPT !.lastClose = last]
<1>3. n \in Emitted /\ n.pages = [k \in Kinds |-> None] /\ ~n.seen /\ n.nudgeSent = None
      /\ n.tick = None /\ n.buffer = None
  BY <1>2, NothingIs DEF Nothing, Emitted
<1>4. scan' = [Off EXCEPT !.pc = pc, !.was = emitted, !.close = close, !.next = n,
                          !.blocked = blocked, !.limited = limited]
  BY <1>1 DEF Off
<1> HIDE DEF n
<1>5. /\ scan' \in Scans /\ scan'.pc = pc /\ scan'.was = emitted /\ scan'.next = n
      /\ scan'.lines = <<>> /\ scan'.blocked = blocked
  BY <1>2, <1>3, <1>4, NothingIs DEF Off, Scans, Pcs
<1> QED  BY <1>2, <1>3, <1>5 DEF blocked

\* The manager's own schedule is all that changes while it is woken.
LEMMA ScheduleIs ==
  ASSUME NEW s \in Scans, NEW x \in [at : Nat, base : Times] \union {None}, NEW pc \in Pcs
  PROVE  LET t == Goto([s EXCEPT !.next.mgrSched = x], pc) IN
         /\ t \in Scans /\ t.pc = pc /\ SameScan(s, t) /\ t.lines = s.lines
         /\ SameNext(s.next, t.next) /\ t.next.pages = s.next.pages
<1> DEFINE n == [s.next EXCEPT !.mgrSched = x]
           t == [s EXCEPT !.next = n, !.pc = pc]
<1>1. s.next \in Emitted
  BY DEF Scans
<1>2. n \in Emitted /\ SameNext(s.next, n) /\ n.pages = s.next.pages
  BY <1>1 DEF Emitted, SameNext
<1>3. Goto([s EXCEPT !.next.mgrSched = x], pc) = t
  BY DEF Goto, Scans
<1> HIDE DEF n
<1>4. t \in Scans /\ t.pc = pc /\ SameScan(s, t) /\ t.lines = s.lines /\ t.next = n
  BY <1>2 DEF Scans, SameScan
<1> QED  BY <1>2, <1>3, <1>4

LEMMA ManagerIs ==
  ASSUME WatchTypeOK, ScanManager
  PROVE  /\ scan' \in Scans /\ scan'.pc \in {"worker", "wakeManager"} /\ SameScan(scan, scan')
         /\ scan'.lines = scan.lines /\ SameNext(scan.next, scan'.next) /\ scan'.next.pages = scan.next.pages
         /\ emitted' \in Emitted /\ mishaps' \in Nat /\ mishaps' <= mishaps
         /\ emitted' = emitted \/ Wrote(emitted', scan')
<1> DEFINE sched == scan.was.mgrSched
           later == [at |-> now + Retry, base |-> manager.active]
           soon == [at |-> now, base |-> manager.active]
           ahead == [scan EXCEPT !.next.mgrSched = soon]
<1>1. scan \in Scans /\ scan.was \in Emitted /\ now \in Nat /\ manager.active \in Times
  BY ConstantsAre DEF WatchTypeOK, Scans
<1>2. later \in [at : Nat, base : Times] /\ soon \in [at : Nat, base : Times]
  BY <1>1, ConstantsAre
<1>3. sched \in [at : Nat, base : Times] \union {None}
  BY <1>1 DEF Emitted
<1>4. emitted \in Emitted /\ mishaps \in Nat /\ scan.pc = "manager"
  BY DEF WatchTypeOK, ScanManager
<1>5. \/ \E x \in {later, sched} : scan' = Goto([scan EXCEPT !.next.mgrSched = x], "worker")
                                   /\ UNCHANGED <<emitted, mishaps>>
      \/ scan' = Goto(ahead, "wakeManager") /\ WriteActions(ahead)
  BY DEF ScanManager
<1>6. CASE \E x \in {later, sched} : scan' = Goto([scan EXCEPT !.next.mgrSched = x], "worker")
                                     /\ UNCHANGED <<emitted, mishaps>>
  <2>1. PICK x \in {later, sched} : scan' = Goto([scan EXCEPT !.next.mgrSched = x], "worker")
                                    /\ UNCHANGED <<emitted, mishaps>>
    BY <1>6
  <2>2. x \in [at : Nat, base : Times] \union {None} /\ "worker" \in Pcs
    BY <1>2, <1>3 DEF Pcs
  <2> HIDE DEF later, sched
  <2> QED  BY <1>1, <1>4, <2>1, <2>2, ScheduleIs
<1>7. CASE scan' = Goto(ahead, "wakeManager") /\ WriteActions(ahead)
  <2>1. soon \in [at : Nat, base : Times] \union {None} /\ "wakeManager" \in Pcs /\ "manager" \in Pcs
    BY <1>2 DEF Pcs
  <2>2. ahead = Goto([scan EXCEPT !.next.mgrSched = soon], "manager") /\ scan' = Goto(ahead, "wakeManager")
    BY <1>1, <1>4, <1>7 DEF Goto, Scans
  <2> HIDE DEF soon
  <2>3. /\ scan' \in Scans /\ scan'.pc = "wakeManager" /\ SameScan(scan, scan') /\ scan'.lines = scan.lines
        /\ SameNext(scan.next, scan'.next) /\ scan'.next.pages = scan.next.pages
    BY <1>1, <1>7, <2>1, ScheduleIs
  <2>4. ahead \in Scans /\ SameScan(scan, ahead) /\ SameNext(scan.next, ahead.next)
    <3> DEFINE g == Goto([scan EXCEPT !.next.mgrSched = soon], "manager")
    <3>1. g \in Scans /\ SameScan(scan, g) /\ SameNext(scan.next, g.next)
      BY <1>1, <2>1, ScheduleIs
    <3>2. ahead = g
      BY <2>2
    <3> HIDE DEF g, ahead
    <3> QED  BY <3>1, <3>2
  <2> HIDE DEF ahead
  <2>5. /\ emitted' \in Emitted /\ mishaps' \in Nat /\ mishaps' <= mishaps
        /\ emitted' = emitted \/ Wrote(emitted', ahead)
    BY <1>7, <2>4, WriteIs
  <2>6. Wrote(emitted', ahead) => Wrote(emitted', scan')
    BY <2>3, <2>4 DEF Wrote, SameScan, SameNext
  <2> QED  BY <2>3, <2>5, <2>6
<1> QED  BY <1>5, <1>6, <1>7

LEMMA WakeIs ==
  ASSUME WatchTypeOK, WakeManager
  PROVE  /\ scan' \in Scans /\ scan'.pc = "worker" /\ SameScan(scan, scan') /\ scan'.lines = scan.lines
         /\ SameNext(scan.next, scan'.next) /\ scan'.next.pages = scan.next.pages
<1>1. scan \in Scans /\ now \in Nat /\ manager.active \in Times
  BY ConstantsAre DEF WatchTypeOK, Scans
<1>2. [at |-> now + Retry, base |-> manager.active] \in [at : Nat, base : Times] \union {None} /\ "worker" \in Pcs
  BY <1>1, ConstantsAre DEF Pcs
<1> QED  BY <1>1, <1>2, ScheduleIs DEF WakeManager

LEMMA ClimbIs ==
  ASSUME NEW s \in Scans, NEW k \in Kinds, NEW e \in Entry, NEW page \in BOOLEAN
  PROVE  LET t == Climb(s, k, e, page) IN
         /\ t \in Scans /\ t.pc = s.pc /\ SameScan(s, t) /\ SameNext(s.next, t.next)
         /\ t.limited = s.limited
         /\ t.next.pages[k] = e /\ \A j \in Kinds \ {k} : t.next.pages[j] = s.next.pages[j]
         /\ ToSet(t.lines) = ToSet(s.lines) \union (IF page THEN {Line(k, e.id, e.level)} ELSE {})
<1> DEFINE p == [s.next.pages EXCEPT ![k] = e]
           n == [s.next EXCEPT !.pages = p]
           l == IF page THEN Append(s.lines, Line(k, e.id, e.level)) ELSE s.lines
           t == [s EXCEPT !.next = n, !.lines = l]
<1>1. s.next \in Emitted /\ s.next.pages \in [Kinds -> Entry \union {None}] /\ s.lines \in Seq(Lines)
  BY DEF Scans, Emitted
<1>2. Climb(s, k, e, page) = t
  BY <1>1 DEF Climb, Scans, Emitted
<1>3. p \in [Kinds -> Entry \union {None}] /\ p[k] = e /\ \A j \in Kinds \ {k} : p[j] = s.next.pages[j]
  BY <1>1
<1>4. Line(k, e.id, e.level) \in Lines
  BY DEF Line, Lines, Entry
<1>5. l \in Seq(Lines) /\ ToSet(l) = ToSet(s.lines) \union (IF page THEN {Line(k, e.id, e.level)} ELSE {})
  BY <1>1, <1>4, AppendAdds
<1> HIDE DEF p, l
<1>6. n \in Emitted /\ n.pages = p /\ SameNext(s.next, n)
  BY <1>1, <1>3 DEF Emitted, SameNext
<1> HIDE DEF n
<1>7. t \in Scans /\ t.pc = s.pc /\ SameScan(s, t) /\ t.next = n /\ t.lines = l /\ t.limited = s.limited
  BY <1>5, <1>6 DEF Scans, SameScan
<1> QED  BY <1>2, <1>3, <1>5, <1>6, <1>7

LEMMA RungIs ==
  ASSUME WatchTypeOK, InTime
  PROVE  /\ Elapsed \in Nat /\ Rung \in Nat /\ Level("stalled", worker.mtime) \in Nat
         /\ ~scan.blocked /\ Elapsed >= Processing => Rung = HighestNudge(Elapsed, Processing)
<1>1. now \in Nat /\ worker.active \in Nat /\ worker.active <= now
  BY ConstantsAre DEF WatchTypeOK, InTime
<1>2. Elapsed \in Nat
  BY <1>1 DEF Elapsed
<1>3. Processing \in Nat
  BY ConstantsAre
<1>4. HighestNudge(Elapsed, Processing) \in Nat
  BY <1>2, <1>3, NudgesGrow
<1>5. Highest(Elapsed, Processing) \in Nat
  BY <1>2, <1>3, HighestIs
<1>6. Level("stalled", worker.mtime) \in Nat
  BY LevelIs DEF Kinds
<1> QED  BY <1>2, <1>3, <1>4, <1>5, <1>6 DEF Rung

\* The worker went on since the nudge that the ledger holds.
WentOn == scan.was.nudgeSent # None /\ worker.active > scan.was.nudgeSent
StillNudged == IF scan.was.nudged = worker.mtime THEN worker.mtime ELSE None
StillDue == IF Due THEN None ELSE scan.was.sched
StillSent == IF scan.was.nudgeSent # None /\ ~WentOn THEN scan.was.nudgeSent ELSE None
ResumedLine == IF WentOn THEN {Line("resumed", scan.was.nudgeSent, 0)} ELSE {}
StalledLine == IF Rung # 0 /\ scan.blocked /\ NewRung THEN {Line("stalled", worker.mtime, Rung)} ELSE {}

LEMMA LookedIs ==
  ASSUME WatchTypeOK, ScanKeeps, InTime, scan.pc = "worker"
  PROVE  LET l == Looked IN
         /\ l \in Scans /\ SameScan(scan, l)
         /\ l.next.seen = scan.next.seen /\ l.next.tick = scan.next.tick /\ l.next.buffer = scan.next.buffer
         /\ l.next.nudged = StillNudged /\ l.next.sched = StillDue /\ l.next.nudgeSent = StillSent
         /\ \A k \in Kinds \ {"stalled"} : l.next.pages[k] = scan.next.pages[k]
         /\ Rung = 0 => l.next.pages["stalled"] = None
         /\ Rung # 0 => /\ l.next.pages["stalled"] = NewEntry(worker.mtime, now, Rung)
                        /\ NewEntry(worker.mtime, now, Rung) \in Entry
         /\ ToSet(l.lines) = ResumedLine \union StalledLine
<1> DEFINE sent == scan.was.nudgeSent
           n == [scan.next EXCEPT !.nudged = StillNudged, !.sched = StillDue]
           kept == [scan EXCEPT !.next = n]
           resumed == IF sent = None THEN kept
                      ELSE IF worker.active > sent
                      THEN [kept EXCEPT !.lines = Append(@, Line("resumed", sent, 0))]
                      ELSE [kept EXCEPT !.next.nudgeSent = sent]
           entry == NewEntry(worker.mtime, now, Rung)
           page == scan.blocked /\ NewRung
<1>1. /\ scan \in Scans /\ scan.was \in Emitted /\ scan.next \in Emitted /\ worker.mtime \in Times
      /\ now \in Times /\ worker.active \in Times /\ scan.lines \in Seq(Lines) /\ scan.blocked \in BOOLEAN
  BY DEF WatchTypeOK, Scans
<1>2. /\ Queued = {} /\ scan.next.pages["stalled"] = None /\ scan.next.nudgeSent = None
  BY DEF ScanKeeps, Ahead
<1>3. sent \in Times \union {None} /\ StillNudged \in Times \union {None}
      /\ StillDue \in [at : Nat, base : Times] \union {None}
  BY <1>1 DEF Emitted, StillNudged, StillDue
<1>4. Looked = IF Rung = 0 THEN resumed ELSE Climb(resumed, "stalled", entry, page)
  <2> DEFINE looked == [scan EXCEPT
                          !.next.nudged = IF scan.was.nudged = worker.mtime THEN worker.mtime ELSE None,
                          !.next.sched = IF Due THEN None ELSE scan.was.sched]
             then(k) == IF sent = None THEN k
                        ELSE IF worker.active > sent
                        THEN [k EXCEPT !.lines = Append(@, Line("resumed", sent, 0))]
                        ELSE [k EXCEPT !.next.nudgeSent = sent]
  <2>1. looked = kept
    BY <1>1 DEF StillNudged, StillDue, Scans, Emitted
  <2>2. Looked = IF Rung = 0 THEN then(looked) ELSE Climb(then(looked), "stalled", entry, page)
    BY Zenon DEF Looked
  <2>3. resumed = then(kept)
    OBVIOUS
  <2> HIDE DEF looked, then, kept, resumed, entry, page
  <2> QED  BY <2>1, <2>2, <2>3
<1> HIDE DEF sent, entry, page
<1>5. /\ n \in Emitted /\ n.nudged = StillNudged /\ n.sched = StillDue /\ n.pages = scan.next.pages
      /\ n.seen = scan.next.seen /\ n.tick = scan.next.tick /\ n.buffer = scan.next.buffer
      /\ n.nudgeSent = scan.next.nudgeSent
  <2> DEFINE e == scan.next
             x == StillNudged
             y == StillDue
  <2>1. e \in Emitted /\ x \in Times \union {None} /\ y \in [at : Nat, base : Times] \union {None}
    BY <1>1, <1>3
  <2> HIDE DEF e, x, y
  <2> DEFINE m == [e EXCEPT !.nudged = x, !.sched = y]
  <2>2. /\ m \in Emitted /\ m.nudged = x /\ m.sched = y /\ m.pages = e.pages /\ m.seen = e.seen
        /\ m.tick = e.tick /\ m.buffer = e.buffer /\ m.nudgeSent = e.nudgeSent
    BY <2>1 DEF Emitted
  <2> QED  BY <2>2 DEF e, x, y
<1> HIDE DEF n
<1>6. kept \in Scans /\ SameScan(scan, kept) /\ kept.next = n /\ kept.lines = scan.lines
  BY <1>1, <1>5 DEF Scans, SameScan
<1>7. /\ resumed \in Scans /\ SameScan(scan, resumed) /\ resumed.next.pages = scan.next.pages
      /\ resumed.next.seen = scan.next.seen /\ resumed.next.tick = scan.next.tick
      /\ resumed.next.buffer = scan.next.buffer /\ resumed.next.nudged = StillNudged
      /\ resumed.next.sched = StillDue /\ resumed.next.nudgeSent = StillSent
      /\ ToSet(resumed.lines) = ResumedLine
  <2> HIDE DEF kept
  <2>1. CASE sent = None
    <3>1. StillSent = None /\ ResumedLine = {}
      BY <2>1 DEF StillSent, ResumedLine, WentOn, sent
    <3> QED  BY <1>2, <1>5, <1>6, <2>1, <3>1 DEF Queued
  <2>2. CASE sent # None /\ worker.active > sent
    <3>1. StillSent = None /\ ResumedLine = {Line("resumed", sent, 0)}
      BY <2>2 DEF StillSent, ResumedLine, WentOn, sent
    <3>2. sent \in Times /\ Line("resumed", sent, 0) \in Lines
      BY <1>3, <2>2 DEF Line, Lines
    <3> DEFINE ll == Append(kept.lines, Line("resumed", sent, 0))
    <3>3. ll \in Seq(Lines) /\ ToSet(ll) = {Line("resumed", sent, 0)}
      BY <1>1, <1>2, <1>6, <3>2, AppendAdds DEF Queued
    <3>4. resumed = [kept EXCEPT !.lines = ll]
      BY <2>2
    <3> HIDE DEF ll, resumed
    <3>5. resumed \in Scans /\ SameScan(kept, resumed) /\ resumed.next = kept.next /\ resumed.lines = ll
      BY <1>6, <3>3, <3>4 DEF Scans, SameScan
    <3> QED  BY <1>2, <1>5, <1>6, <3>1, <3>3, <3>5 DEF SameScan
  <2>3. CASE sent # None /\ ~(worker.active > sent)
    <3>1. StillSent = sent /\ ResumedLine = {}
      BY <2>3 DEF StillSent, ResumedLine, WentOn, sent
    <3> DEFINE m == [n EXCEPT !.nudgeSent = sent]
    <3>2. /\ m \in Emitted /\ m.nudged = StillNudged /\ m.sched = StillDue /\ m.pages = scan.next.pages
          /\ m.seen = scan.next.seen /\ m.tick = scan.next.tick /\ m.buffer = scan.next.buffer
          /\ m.nudgeSent = sent
      BY <1>3, <1>5 DEF Emitted
    <3> HIDE DEF m
    <3>3. resumed = [kept EXCEPT !.next = m]
      BY <1>6, <2>3 DEF Scans, m
    <3> HIDE DEF resumed
    <3>4. resumed \in Scans /\ SameScan(kept, resumed) /\ resumed.next = m /\ resumed.lines = kept.lines
      BY <1>6, <3>2, <3>3 DEF Scans, SameScan
    <3> QED  BY <1>2, <1>6, <3>1, <3>2, <3>4 DEF SameScan, Queued
  <2> QED  BY <2>1, <2>2, <2>3
<1> HIDE DEF resumed
<1>8. CASE Rung = 0
  BY <1>2, <1>4, <1>7, <1>8 DEF StalledLine
<1>9. CASE Rung # 0
  <2>1. Rung \in Nat /\ entry \in Entry /\ entry.id = worker.mtime /\ entry.level = Rung
    BY <1>1, RungIs DEF entry, NewEntry, Entry
  <2>2. page \in BOOLEAN /\ "stalled" \in Kinds
    BY <1>1 DEF page, Kinds, NewRung
  <2>3. Looked = Climb(resumed, "stalled", entry, page)
    BY <1>4, <1>9
  <2>4. /\ Looked \in Scans /\ SameScan(resumed, Looked) /\ SameNext(resumed.next, Looked.next)
        /\ Looked.next.pages["stalled"] = entry
        /\ \A j \in Kinds \ {"stalled"} : Looked.next.pages[j] = resumed.next.pages[j]
        /\ ToSet(Looked.lines) = ToSet(resumed.lines)
                                 \union (IF page THEN {Line("stalled", worker.mtime, Rung)} ELSE {})
    <3> HIDE DEF entry, page
    <3> DEFINE t == Climb(resumed, "stalled", entry, page)
    <3>1. /\ t \in Scans /\ SameScan(resumed, t) /\ SameNext(resumed.next, t.next)
          /\ t.next.pages["stalled"] = entry
          /\ \A j \in Kinds \ {"stalled"} : t.next.pages[j] = resumed.next.pages[j]
          /\ ToSet(t.lines) = ToSet(resumed.lines)
                              \union (IF page THEN {Line("stalled", entry.id, entry.level)} ELSE {})
      BY <1>7, <2>1, <2>2, ClimbIs
    <3> HIDE DEF t
    <3> QED  BY <2>1, <2>3, <3>1 DEF t
  <2>5. (IF page THEN {Line("stalled", worker.mtime, Rung)} ELSE {}) = StalledLine
    BY <1>9 DEF StalledLine, page
  <2> QED  BY <1>7, <1>9, <2>1, <2>4, <2>5 DEF SameScan, SameNext, entry
<1> QED  BY <1>8, <1>9

\* What a look at a busy worker leaves of the scan.
Passes(s) ==
    /\ s \in Scans /\ s.was = scan.was /\ s.blocked = scan.blocked
    /\ s.next.seen = scan.next.seen /\ s.next.tick = scan.next.tick /\ s.next.buffer = scan.next.buffer
    /\ \A k \in Kinds \ {"stalled"} : s.next.pages[k] = scan.next.pages[k]
\* It finds nothing to do:
PassedBy ==
    /\ scan'.pc = "pages" /\ scan.was.nudgeSent = None /\ ~Due /\ now - worker.mtime < ActivityGate
    /\ Queued' = {} /\ scan'.next.pages["stalled"] = None /\ scan'.next.nudgeSent = None
    /\ scan'.next.nudged = StillNudged /\ scan'.next.sched = scan.was.sched
    /\ emitted' = emitted /\ mishaps' = mishaps
\* it keeps the record of the worker up to date, and may page for it:
Recorded ==
    /\ IF Rung = 0 THEN scan'.next.pages["stalled"] = None
       ELSE /\ scan'.next.pages["stalled"] = NewEntry(worker.mtime, now, Rung)
            /\ NewEntry(worker.mtime, now, Rung) \in Entry
    /\ Queued' = ResumedLine \union StalledLine
    /\ scan'.next.sched = StillDue
Noticed ==
    /\ scan'.pc = "pages" /\ Recorded
    /\ scan.blocked \/ ~NewRung
    /\ scan'.next.nudgeSent = StillSent /\ scan'.next.nudged = StillNudged
    /\ emitted' = emitted /\ mishaps' = mishaps
\* or it is about to nudge.
Nudges ==
    /\ scan'.pc = "send" /\ Recorded /\ ~scan.blocked
    /\ scan'.next.nudgeSent = now /\ scan'.why \in Whys \ {"none"}
    /\ scan'.why = "limit" => scan.was.nudged # worker.mtime /\ scan'.next.nudged = worker.mtime
    /\ scan'.why = "reset" => Due
    /\ scan'.why = "rung" => NewRung
    /\ \/ emitted' = emitted /\ mishaps' < mishaps
       \/ Wrote(emitted', scan') /\ mishaps' = mishaps

LEMMA WhyIs ==
  /\ WhyNudge \in Whys
  /\ WhyNudge = "none" => scan.blocked \/ ~NewRung
  /\ WhyNudge # "none" => ~scan.blocked
  /\ WhyNudge = "limit" => scan.was.nudged # worker.mtime
  /\ WhyNudge = "reset" => Due
  /\ WhyNudge = "rung" => NewRung
BY DEF WhyNudge, Whys

LEMMA BusyIs ==
  ASSUME WatchTypeOK, ScanKeeps, InTime, ScanBusy
  PROVE  /\ Passes(scan') /\ emitted' \in Emitted /\ mishaps' \in Nat /\ mishaps' <= mishaps
         /\ PassedBy \/ Noticed \/ Nudges
<1>1. /\ scan \in Scans /\ scan.was \in Emitted /\ scan.next \in Emitted /\ worker.mtime \in Times
      /\ now \in Times /\ emitted \in Emitted /\ mishaps \in Nat /\ scan.pc = "worker"
  BY DEF WatchTypeOK, Scans, ScanBusy
<1>2. Queued = {} /\ scan.next.pages["stalled"] = None /\ scan.next.nudgeSent = None
  BY <1>1 DEF ScanKeeps, Ahead
<1>3. /\ "pages" \in Pcs /\ "send" \in Pcs /\ WhyNudge \in Whys
      /\ StillNudged \in Times \union {None}
  BY <1>1, WhyIs DEF Pcs, StillNudged
<1> DEFINE early == scan.was.nudgeSent = None /\ ~Due /\ now - worker.mtime < ActivityGate
           m == [scan.next EXCEPT !.nudged = StillNudged, !.sched = scan.was.sched]
           s == [scan EXCEPT !.next = m, !.pc = "pages"]
           noted == [Looked EXCEPT !.pc = "pages"]
           n == [Looked.next EXCEPT !.nudgeSent = now,
                                    !.nudged = IF WhyNudge = "limit" THEN worker.mtime ELSE @]
           a == [Looked EXCEPT !.next = n, !.why = WhyNudge]
           t == [a EXCEPT !.pc = "send"]
<1>4. CASE early
  <2>1. scan' = s /\ emitted' = emitted /\ mishaps' = mishaps
    BY <1>1, <1>4 DEF ScanBusy, Goto, StillNudged, Scans
  <2>2. /\ m \in Emitted /\ m.nudged = StillNudged /\ m.sched = scan.was.sched /\ m.pages = scan.next.pages
        /\ m.seen = scan.next.seen /\ m.tick = scan.next.tick /\ m.buffer = scan.next.buffer
        /\ m.nudgeSent = scan.next.nudgeSent
    <3> DEFINE e == scan.next
               y == scan.was.sched
    <3>1. e \in Emitted /\ y \in [at : Nat, base : Times] \union {None}
      BY <1>1 DEF Emitted
    <3> HIDE DEF e, y
    <3>2. LET k == [e EXCEPT !.nudged = StillNudged, !.sched = y] IN
          /\ k \in Emitted /\ k.nudged = StillNudged /\ k.sched = y /\ k.pages = e.pages
          /\ k.seen = e.seen /\ k.tick = e.tick /\ k.buffer = e.buffer /\ k.nudgeSent = e.nudgeSent
      BY <1>3, <3>1 DEF Emitted
    <3> QED  BY <3>2 DEF e, y
  <2> HIDE DEF m
  <2>3. s \in Scans /\ s.next = m /\ s.pc = "pages" /\ s.was = scan.was /\ s.blocked = scan.blocked /\ s.lines = scan.lines
    BY <1>1, <1>3, <2>2 DEF Scans
  <2>4. Passes(s)
    BY <2>2, <2>3 DEF Passes
  <2>5. Queued' = {}
    BY <1>2, <2>1, <2>3 DEF Queued
  <2> HIDE DEF s
  <2>6. PassedBy
    BY <1>2, <1>4, <2>1, <2>2, <2>3, <2>5 DEF PassedBy
  <2> QED  BY <1>1, <2>1, <2>4, <2>6
<1>5. CASE ~early
  <2> DEFINE l == Looked
  <2>1. /\ l \in Scans /\ SameScan(scan, l)
        /\ l.next.seen = scan.next.seen /\ l.next.tick = scan.next.tick /\ l.next.buffer = scan.next.buffer
        /\ l.next.nudged = StillNudged /\ l.next.sched = StillDue /\ l.next.nudgeSent = StillSent
        /\ \A k \in Kinds \ {"stalled"} : l.next.pages[k] = scan.next.pages[k]
        /\ Rung = 0 => l.next.pages["stalled"] = None
        /\ Rung # 0 => /\ l.next.pages["stalled"] = NewEntry(worker.mtime, now, Rung)
                       /\ NewEntry(worker.mtime, now, Rung) \in Entry
        /\ ToSet(l.lines) = ResumedLine \union StalledLine
    BY <1>1, LookedIs
  <2>2. l.next \in Emitted
    BY <2>1 DEF Scans
  <2>3. CASE WhyNudge = "none"
    <3>1. scan' = noted /\ emitted' = emitted /\ mishaps' = mishaps
      BY <1>5, <2>3 DEF ScanBusy, Goto
    <3> HIDE DEF l
    <3>2. scan' = [l EXCEPT !.pc = "pages"]
      BY <3>1 DEF l
    <3>3. /\ scan' \in Scans /\ scan'.next = l.next /\ scan'.pc = "pages" /\ scan'.lines = l.lines
          /\ scan'.was = scan.was /\ scan'.blocked = scan.blocked
      BY <1>3, <2>1, <3>2 DEF Scans, SameScan
    <3>4. Passes(scan')
      BY <2>1, <3>3 DEF Passes
    <3>5. Recorded
      BY <2>1, <3>3 DEF Recorded, Queued
    <3>6. scan.blocked \/ ~NewRung
      BY <2>3, WhyIs
    <3>7. Noticed
      BY <2>1, <3>1, <3>3, <3>5, <3>6 DEF Noticed
    <3> QED  BY <1>1, <3>1, <3>4, <3>7
  <2>4. CASE WhyNudge # "none"
    <3>1. scan' = t /\ WriteActions(a)
      <4>1. [Looked EXCEPT !.next.nudgeSent = now, !.why = WhyNudge,
                           !.next.nudged = IF WhyNudge = "limit" THEN worker.mtime ELSE @] = a
        BY <2>1, <2>2 DEF Scans, Emitted
      <4> QED  BY <1>5, <2>4, <4>1 DEF ScanBusy, Goto
    <3> DEFINE v == IF WhyNudge = "limit" THEN worker.mtime ELSE StillNudged
    <3>2. v \in Times \union {None}
      BY <1>1, <1>3
    <3> HIDE DEF l, v
    <3>3. n = [l.next EXCEPT !.nudgeSent = now, !.nudged = v]
      BY <2>1, <2>2 DEF l, v, Emitted
    <3>4. /\ n \in Emitted /\ n.nudgeSent = now /\ n.nudged = v /\ n.pages = l.next.pages
          /\ n.seen = l.next.seen /\ n.tick = l.next.tick /\ n.buffer = l.next.buffer
          /\ n.sched = l.next.sched
      <4> HIDE DEF n
      <4> QED  BY <1>1, <2>2, <3>2, <3>3 DEF Emitted
    <3> HIDE DEF n
    <3>5. a = [l EXCEPT !.next = n, !.why = WhyNudge]
      BY DEF l
    <3> HIDE DEF a
    <3>6. /\ a \in Scans /\ a.next = n /\ a.why = WhyNudge /\ a.was = scan.was /\ a.blocked = scan.blocked
          /\ a.lines = l.lines
      BY <1>3, <2>1, <3>4, <3>5 DEF Scans, SameScan
    <3>7. /\ t \in Scans /\ t.next = n /\ t.why = WhyNudge /\ t.was = scan.was /\ t.blocked = scan.blocked
          /\ t.lines = l.lines /\ t.pc = "send"
      BY <1>3, <3>6 DEF Scans
    <3> HIDE DEF t
    <3>8. Passes(scan')
      BY <2>1, <3>1, <3>4, <3>7 DEF Passes
    <3>9. Recorded
      BY <2>1, <3>1, <3>4, <3>7 DEF Recorded, Queued
    <3>10. /\ emitted' \in Emitted /\ mishaps' \in Nat /\ mishaps' <= mishaps
           /\ \/ emitted' = emitted /\ mishaps' < mishaps
              \/ Wrote(emitted', a) /\ mishaps' = mishaps
      BY <3>1, <3>6, WriteIs
    <3>11. Wrote(emitted', a) => Wrote(emitted', scan')
      BY <3>1, <3>6, <3>7 DEF Wrote
    <3>12. Nudges
      BY <2>4, <3>1, <3>4, <3>7, <3>9, <3>10, <3>11, WhyIs DEF Nudges, v
    <3> QED  BY <3>8, <3>10, <3>12
  <2> QED  BY <2>3, <2>4
<1> QED  BY <1>4, <1>5

LEMMA SendIs ==
  ASSUME WatchTypeOK, Send
  PROVE  LET e == scan.next.pages["stalled"] IN
         /\ scan' \in Scans /\ scan'.pc = "pages" /\ SameScan(scan, scan')
         /\ Queued' = Queued \union {Line("nudged", now, 0)}
         /\ scan'.next.pages = scan.next.pages /\ scan'.next.seen = scan.next.seen
         /\ scan'.next.nudgeSent = scan.next.nudgeSent /\ scan'.next.nudged = scan.next.nudged
         /\ scan'.next.tick = scan.next.tick /\ scan'.next.buffer = scan.next.buffer
         /\ scan.why # "limit" => scan'.next.sched = scan.next.sched
         /\ told' \in [Kinds -> [Times -> Nat]]
         /\ \A k \in Kinds, id \in Times : told'[k][id] >= told[k][id]
         /\ e # None => e \in Entry /\ told'["stalled"][e.id] >= e.level
<1> DEFINE e == scan.next.pages["stalled"]
           x == IF scan.why = "limit" /\ worker.banner = "reset"
                THEN [at |-> now + Retry, base |-> worker.active] ELSE scan.next.sched
           n == [scan.next EXCEPT !.sched = x]
           l == Append(scan.lines, Line("nudged", now, 0))
           s == [scan EXCEPT !.lines = l, !.next = n, !.pc = "pages"]
<1>1. /\ scan \in Scans /\ scan.next \in Emitted /\ worker.active \in Times /\ scan.lines \in Seq(Lines)
      /\ now \in Times /\ told \in [Kinds -> [Times -> Nat]] /\ "stalled" \in Kinds
      /\ scan.next.sched \in [at : Nat, base : Times] \union {None} /\ e \in Entry \union {None}
  BY DEF WatchTypeOK, Scans, Emitted, Kinds
<1>2. scan' = s
  BY <1>1 DEF Send, Goto, Scans, Emitted
<1>3. x \in [at : Nat, base : Times] \union {None}
  BY <1>1, ConstantsAre
<1>4. Line("nudged", now, 0) \in Lines
  BY <1>1 DEF Line, Lines
<1>5. l \in Seq(Lines) /\ ToSet(l) = Queued \union {Line("nudged", now, 0)}
  BY <1>1, <1>4, AppendAdds DEF Queued
<1>6. scan.why # "limit" => x = scan.next.sched
  OBVIOUS
<1> HIDE DEF x, l
<1>7. /\ n \in Emitted /\ n.pages = scan.next.pages /\ n.seen = scan.next.seen /\ n.sched = x
      /\ n.nudgeSent = scan.next.nudgeSent /\ n.nudged = scan.next.nudged
      /\ n.tick = scan.next.tick /\ n.buffer = scan.next.buffer
  BY <1>1, <1>3 DEF Emitted
<1> HIDE DEF n
<1>8. s \in Scans /\ s.pc = "pages" /\ SameScan(scan, s) /\ s.lines = l /\ s.next = n
  BY <1>1, <1>5, <1>7 DEF Scans, SameScan, Pcs
<1>9. Queued' = Queued \union {Line("nudged", now, 0)}
  BY <1>2, <1>5, <1>8 DEF Queued
<1>10. /\ told' \in [Kinds -> [Times -> Nat]]
       /\ \A k \in Kinds, id \in Times : told'[k][id] >= told[k][id]
       /\ e # None => e \in Entry /\ told'["stalled"][e.id] >= e.level
  <2>1. CASE e = None
    <3>1. told' = told
      BY <2>1 DEF Send
    <3> QED  BY <1>1, <2>1, <3>1
  <2>2. CASE e # None
    <3>1. told' = [told EXCEPT !["stalled"][e.id] = Max({@, e.level})]
      BY <2>2 DEF Send
    <3>2. e \in Entry /\ e.id \in Times /\ e.level \in Nat /\ told["stalled"][e.id] \in Nat
      BY <1>1, <2>2 DEF Entry
    <3> HIDE DEF e
    <3> DEFINE g == Max({told["stalled"][e.id], e.level})
    <3>3. g \in Nat /\ g >= told["stalled"][e.id] /\ g >= e.level
      BY <3>2, GreaterOfTwo
    <3>4. told' = [told EXCEPT !["stalled"][e.id] = g]
      BY <3>1
    <3> HIDE DEF g
    <3> QED  BY <1>1, <3>2, <3>3, <3>4
  <2> QED  BY <2>1, <2>2
<1> HIDE DEF s
<1> QED  BY <1>2, <1>6, <1>7, <1>8, <1>9, <1>10

LEMMA IdleIs ==
  ASSUME WatchTypeOK, ScanIdle
  PROVE  /\ scan' \in Scans /\ scan'.pc = "pages" /\ SameScan(scan, scan') /\ scan'.next = scan.next
         /\ \/ worker' = worker /\ closed' = closed /\ Queued' = Queued
            \/ /\ worker.st = "idle" /\ worker' = [worker EXCEPT !.st = "gone"]
               /\ closed' = "line" /\ Queued' = Queued \union {Line("autoclosed", now, 0)}
<1>1. scan \in Scans /\ scan.lines \in Seq(Lines) /\ now \in Times
  BY DEF WatchTypeOK, Scans
<1>2. CASE MayClose
  <2> DEFINE l == Append(scan.lines, Line("autoclosed", now, 0))
             s == [scan EXCEPT !.lines = l, !.pc = "pages"]
  <2>1. scan' = s /\ worker' = [worker EXCEPT !.st = "gone"] /\ closed' = "line" /\ worker.st = "idle"
    BY <1>2 DEF ScanIdle, Goto, MayClose
  <2>2. Line("autoclosed", now, 0) \in Lines
    BY <1>1 DEF Line, Lines
  <2>3. l \in Seq(Lines) /\ ToSet(l) = Queued \union {Line("autoclosed", now, 0)}
    BY <1>1, <2>2, AppendAdds DEF Queued
  <2> HIDE DEF l
  <2>4. s \in Scans /\ s.pc = "pages" /\ SameScan(scan, s) /\ s.lines = l /\ s.next = scan.next
    BY <1>1, <2>3 DEF Scans, SameScan, Pcs
  <2>5. Queued' = Queued \union {Line("autoclosed", now, 0)}
    BY <2>1, <2>3, <2>4 DEF Queued
  <2> HIDE DEF s
  <2> QED  BY <2>1, <2>4, <2>5
<1>3. CASE ~MayClose
  <2>1. scan' = [scan EXCEPT !.pc = "pages"] /\ worker' = worker /\ closed' = closed
    BY <1>3 DEF ScanIdle, Goto
  <2> QED  BY <1>1, <2>1 DEF Scans, SameScan, Pcs, Queued
<1> QED  BY <1>2, <1>3

-----------------------------------------------------------------------------
(* The pages of a scan *)

\* A rung that is not new was paged by the scan before; a new one has a line.
Heard(t, k) ==
    LET e == t.next.pages[k] IN
    e # None /\ e.level > 0 =>
       \/ \E line \in ToSet(t.lines) : line.kind = k /\ line.id = e.id /\ line.level >= e.level
       \/ OnRecord(k, e.id) /\ scan.was.pages[k].level >= e.level
\* The keys of one kind are written, and its line added.
PagesOf(k, s, t) ==
    /\ t \in Scans /\ t.pc = s.pc /\ t.was = s.was /\ t.blocked = s.blocked /\ t.limited = s.limited
    /\ t.next.nudgeSent = s.next.nudgeSent /\ t.next.nudged = s.next.nudged
    /\ t.next.sched = s.next.sched /\ t.next.tick = s.next.tick /\ t.next.buffer = s.next.buffer
    /\ \A j \in Kinds \ {k} : t.next.pages[j] = s.next.pages[j]
    /\ ToSet(s.lines) \subseteq ToSet(t.lines)
    /\ \A line \in ToSet(t.lines) \ ToSet(s.lines) : line.kind = k
    /\ t.next.pages[k] = s.next.pages[k] \/ Heard(t, k)

LEMMA NoPages ==
  ASSUME NEW k \in Kinds, NEW s \in Scans
  PROVE  PagesOf(k, s, s)
BY DEF PagesOf

LEMMA ClimbPages ==
  ASSUME NEW k \in Kinds, NEW s \in Scans, NEW e \in Entry, NEW page \in BOOLEAN,
         ~page /\ e.level > 0 => OnRecord(k, e.id) /\ scan.was.pages[k].level >= e.level
  PROVE  PagesOf(k, s, Climb(s, k, e, page)) /\ Climb(s, k, e, page).next.seen = s.next.seen
<1> DEFINE t == Climb(s, k, e, page)
<1>1. /\ t \in Scans /\ t.pc = s.pc /\ SameScan(s, t) /\ SameNext(s.next, t.next)
      /\ t.limited = s.limited
      /\ t.next.pages[k] = e /\ \A j \in Kinds \ {k} : t.next.pages[j] = s.next.pages[j]
      /\ ToSet(t.lines) = ToSet(s.lines) \union (IF page THEN {Line(k, e.id, e.level)} ELSE {})
  BY ClimbIs
<1> HIDE DEF t
<1>2. Line(k, e.id, e.level).kind = k /\ Line(k, e.id, e.level).id = e.id /\ Line(k, e.id, e.level).level = e.level
      /\ e.level \in Nat
  BY DEF Line, Entry
<1>3. Heard(t, k)
  <2>1. CASE page
    BY <1>1, <1>2, <2>1 DEF Heard
  <2>2. CASE ~page
    BY <1>1, <2>2 DEF Heard
  <2> QED  BY <2>1, <2>2
<1>4. PagesOf(k, s, t) /\ t.next.seen = s.next.seen
  BY <1>1, <1>2, <1>3 DEF PagesOf, SameScan, SameNext
<1> QED  BY <1>4 DEF t

LEMMA QuestionsAre ==
  ASSUME WatchTypeOK, NEW s \in Scans
  PROVE  PagesOf("question", s, Questions(s)) /\ Questions(s).next.seen = s.next.seen
<1> DEFINE asked == since["question"]
           level == IF asked # None /\ worker.st # "gone" /\ now - asked > Question
                    THEN Highest(now - asked, Question) ELSE 0
           e == NewEntry(asked, now, level)
           page == level > Level("question", asked)
<1>1. "question" \in Kinds /\ now \in Times /\ asked \in Times \union {None} /\ Question \in Nat /\ now \in Nat
  BY ConstantsAre DEF Kinds, WatchTypeOK
<1>2. CASE level = 0
  BY <1>1, <1>2, NoPages DEF Questions
<1>3. CASE level # 0
  <2>1. asked \in Times /\ asked \in Nat
    BY <1>1, <1>3, ConstantsAre
  <2>2. now - asked \in Int
    BY <1>1, <2>1
  <2>3. level \in Nat
    <3>1. Highest(now - asked, Question) \in Nat
      BY <1>1, <2>2, RungsAreNumbers
    <3> QED  BY <3>1
  <2>4. Questions(s) = Climb(s, "question", e, page)
    BY <1>3 DEF Questions
  <2> HIDE DEF level, asked
  <2>5. e \in Entry /\ e.id = asked /\ e.level = level
    BY <1>1, <2>1, <2>3 DEF NewEntry, Entry
  <2>6. Level("question", asked) \in Nat /\ (Level("question", asked) > 0 =>
           OnRecord("question", asked) /\ scan.was.pages["question"].level = Level("question", asked))
    BY <1>1, LevelIs
  <2>7. page \in BOOLEAN /\ (~page /\ e.level > 0 => OnRecord("question", e.id) /\ scan.was.pages["question"].level >= e.level)
    BY <2>3, <2>5, <2>6
  <2> HIDE DEF e, page
  <2> QED  BY <1>1, <2>4, <2>5, <2>7, ClimbPages
<1> QED  BY <1>2, <1>3

\* A page whose level is the higher of what is due and what was paged.
LEMMA HigherPages ==
  ASSUME WatchTypeOK, NEW k \in Kinds, NEW s \in Scans, NEW id \in Times, NEW rung \in Nat
  PROVE  LET t == Climb(s, k, NewEntry(id, First(k, id), Max({rung, Level(k, id)})), rung > Level(k, id)) IN
         PagesOf(k, s, t) /\ t.next.seen = s.next.seen
<1> DEFINE paged == Level(k, id)
           e == NewEntry(id, First(k, id), Max({rung, paged}))
           page == rung > paged
<1>1. paged \in Nat /\ (paged > 0 => OnRecord(k, id) /\ scan.was.pages[k].level = paged) /\ First(k, id) \in Times
  BY LevelIs
<1> HIDE DEF paged
<1>2. Max({rung, paged}) \in {rung, paged} /\ rung <= Max({rung, paged}) /\ paged <= Max({rung, paged})
  BY <1>1, GreaterOfTwo
<1>3. e \in Entry /\ e.id = id /\ e.level = Max({rung, paged})
  BY <1>1, <1>2 DEF NewEntry, Entry
<1>4. page \in BOOLEAN /\ (~page /\ e.level > 0 => OnRecord(k, e.id) /\ scan.was.pages[k].level >= e.level)
  BY <1>1, <1>2, <1>3
<1> HIDE DEF e, page
<1> QED  BY <1>3, <1>4, ClimbPages DEF e, page, paged

LEMMA OrphansAre ==
  ASSUME WatchTypeOK, NEW s \in Scans
  PROVE  PagesOf("orphan", s, Orphans(s)) /\ Orphans(s).next.seen = s.next.seen
<1> DEFINE id == since["orphan"]
           first == First("orphan", id)
           rung == IF now - first >= OrphanGrace THEN Highest(now - first, OrphanGrace) ELSE 0
<1>1. "orphan" \in Kinds /\ now \in Nat /\ id \in Times \union {None} /\ OrphanGrace \in Nat
  BY ConstantsAre DEF Kinds, WatchTypeOK
<1>2. CASE id = None
  BY <1>1, <1>2, NoPages DEF Orphans
<1>3. CASE id # None
  <2>1. id \in Times /\ first \in Nat
    BY <1>1, <1>3, LevelIs, ConstantsAre
  <2>2. rung \in Nat
    <3> HIDE DEF first
    <3>1. now - first \in Int
      BY <1>1, <2>1
    <3>2. Highest(now - first, OrphanGrace) \in Nat
      BY <1>1, <3>1, RungsAreNumbers
    <3> QED  BY <3>2
  <2>3. Orphans(s) = Climb(s, "orphan", NewEntry(id, First("orphan", id), Max({rung, Level("orphan", id)})),
                           rung > Level("orphan", id))
    BY <1>3 DEF Orphans
  <2> HIDE DEF id, rung
  <2> QED  BY <1>1, <2>1, <2>2, <2>3, HigherPages
<1> QED  BY <1>2, <1>3

LEMMA ApprovalsAre ==
  ASSUME WatchTypeOK, NEW s \in Scans
  PROVE  PagesOf("approval", s, Approvals(s)) /\ Approvals(s).next.seen = s.next.seen
<1> DEFINE id == since["approval"]
           first == First("approval", id)
           paged == Level("approval", id)
           rung == IF paged = 0 THEN 1 ELSE HighestNudge(now - first, Repage)
<1>1. "approval" \in Kinds /\ now \in Nat /\ id \in Times \union {None} /\ Repage \in Nat
  BY ConstantsAre DEF Kinds, WatchTypeOK
<1>2. CASE id = None
  BY <1>1, <1>2, NoPages DEF Approvals
<1>3. CASE id # None
  <2>1. id \in Times /\ first \in Nat
    BY <1>1, <1>3, LevelIs, ConstantsAre
  <2>2. rung \in Nat
    <3> HIDE DEF first
    <3>1. now - first \in Int
      BY <1>1, <2>1
    <3>2. HighestNudge(now - first, Repage) \in Nat
      BY <1>1, <3>1, RungsAreNumbers
    <3> QED  BY <3>2
  <2>3. Approvals(s) = Climb(s, "approval", NewEntry(id, First("approval", id), Max({rung, Level("approval", id)})),
                           rung > Level("approval", id))
    BY <1>3 DEF Approvals
  <2> HIDE DEF id, rung
  <2> QED  BY <1>1, <2>1, <2>2, <2>3, HigherPages
<1> QED  BY <1>2, <1>3

\* What becomes of the keys of the lane.
LaneKeys(s, t) ==
    /\ Judged /\ LaneIsLate(t.next) => now # beat \/ LaneIsLate(s.next)
    /\ ToSet(t.lines) # ToSet(s.lines) => Judged /\ now # beat /\ LaneIsLate(emitted)

LEMMA LaneIs ==
  ASSUME WatchTypeOK, ScanKeeps, InScan, NEW s \in Scans
  PROVE  PagesOf("lane", s, LaneSilence(s)) /\ LaneKeys(s, LaneSilence(s))
<1> DEFINE prior == scan.was.pages["lane"]
           level == IF prior = None THEN 0 ELSE prior.level
           silent == [s EXCEPT !.next.seen = TRUE]
           kept(k) == [k EXCEPT !.next.pages["lane"] = prior]
           paged == Climb(silent, "lane", NewEntry(beat, now, level + 1), TRUE)
           t == LaneSilence(s)
<1>1. /\ "lane" \in Kinds /\ scan.was \in Emitted /\ prior \in Entry \union {None} /\ beat \in Times /\ now \in Times
      /\ scan.was.pages = emitted.pages /\ scan.was.seen = emitted.seen
  BY DEF WatchTypeOK, Scans, Emitted, Kinds, ScanKeeps
<1>2. /\ silent \in Scans /\ PagesOf("lane", s, silent) /\ silent.lines = s.lines
      /\ silent.next.pages = s.next.pages
  <2> DEFINE n == [s.next EXCEPT !.seen = TRUE]
  <2>1. s.next \in Emitted
    BY DEF Scans
  <2>2. /\ n \in Emitted /\ n.pages = s.next.pages /\ n.nudgeSent = s.next.nudgeSent /\ n.nudged = s.next.nudged
        /\ n.sched = s.next.sched /\ n.tick = s.next.tick /\ n.buffer = s.next.buffer
    BY <2>1 DEF Emitted
  <2>3. silent = [s EXCEPT !.next = n]
    BY DEF Scans
  <2> HIDE DEF n, silent
  <2>4. /\ silent \in Scans /\ silent.pc = s.pc /\ silent.was = s.was /\ silent.blocked = s.blocked
        /\ silent.limited = s.limited /\ silent.lines = s.lines /\ silent.next = n
    BY <2>2, <2>3 DEF Scans
  <2> QED  BY <2>2, <2>4 DEF PagesOf
<1>3. ASSUME NEW k \in Scans
      PROVE  /\ kept(k) \in Scans /\ PagesOf("lane", k, kept(k)) /\ kept(k).lines = k.lines
             /\ kept(k).next.seen = k.next.seen /\ kept(k).next.pages["lane"] = prior
  <2> DEFINE p == [k.next.pages EXCEPT !["lane"] = prior]
             n == [k.next EXCEPT !.pages = p]
             w == [k EXCEPT !.next = n]
  <2>1. k.next \in Emitted /\ k.next.pages \in [Kinds -> Entry \union {None}]
    BY DEF Scans, Emitted
  <2>2. kept(k) = w
    BY <2>1 DEF Scans, Emitted
  <2>3. /\ p \in [Kinds -> Entry \union {None}] /\ p["lane"] = prior
        /\ \A j \in Kinds \ {"lane"} : p[j] = k.next.pages[j]
    BY <1>1, <2>1
  <2>4. OnRecord("lane", prior.id) \/ prior = None
    BY DEF OnRecord
  <2>5. prior # None => prior.level \in Nat
    BY <1>1 DEF Entry
  <2> HIDE DEF prior, p
  <2>6. /\ n \in Emitted /\ n.pages = p /\ n.nudgeSent = k.next.nudgeSent /\ n.nudged = k.next.nudged
        /\ n.sched = k.next.sched /\ n.tick = k.next.tick /\ n.buffer = k.next.buffer /\ n.seen = k.next.seen
    BY <2>1, <2>3 DEF Emitted
  <2> HIDE DEF n
  <2>7. /\ w \in Scans /\ w.pc = k.pc /\ w.was = k.was /\ w.blocked = k.blocked
        /\ w.limited = k.limited /\ w.lines = k.lines /\ w.next = n
    BY <2>6 DEF Scans
  <2> HIDE DEF w
  <2>8. Heard(w, "lane")
    BY <2>3, <2>4, <2>5, <2>6, <2>7 DEF Heard, prior
  <2>9. PagesOf("lane", k, w)
    BY <2>3, <2>6, <2>7, <2>8 DEF PagesOf
  <2> QED  BY <2>2, <2>3, <2>6, <2>7, <2>9
<1>4. PagesOf("lane", silent, paged)
  <2>1. level \in Nat
    BY <1>1 DEF Entry
  <2> HIDE DEF level, silent
  <2>2. NewEntry(beat, now, level + 1) \in Entry
    BY <1>1, <2>1 DEF NewEntry, Entry
  <2> QED  BY <1>1, <1>2, <2>2, ClimbPages
<1>5. ASSUME NEW v, PagesOf("lane", silent, v) PROVE PagesOf("lane", s, v)
  <2> HIDE DEF silent
  <2>1. \A x \in ToSet(v.lines) \ ToSet(s.lines) : x.kind = "lane"
    BY <1>2, <1>5 DEF PagesOf
  <2>2. v.next.pages["lane"] = s.next.pages["lane"] \/ Heard(v, "lane")
    BY <1>2, <1>5 DEF PagesOf, Heard
  <2> QED  BY <1>2, <1>5, <2>1, <2>2 DEF PagesOf
<1>6. LaneSilence(s) = IF ~Judged THEN kept(s)
                      ELSE IF now = beat THEN s
                      ELSE IF ~Confirmed THEN silent
                      ELSE IF prior # None /\ now - prior.first < LaneRung(level) THEN kept(silent)
                      ELSE paged
  BY DEF LaneSilence
<1>7. Confirmed <=> LaneIsLate(emitted)
  BY <1>1 DEF Confirmed, LaneIsLate
<1>8. PagesOf("lane", s, s)
  BY <1>1, NoPages
<1> HIDE DEF silent, kept, paged, prior, level
<1>9. CASE ~Judged
  <2>1. t = kept(s)
    BY <1>6, <1>9
  <2>2. PagesOf("lane", s, t) /\ t.lines = s.lines
    BY <1>3, <2>1
  <2> QED  BY <1>9, <2>2 DEF LaneKeys
<1>10. CASE Judged /\ now = beat
  <2>1. t = s
    BY <1>6, <1>10
  <2> QED  BY <1>8, <2>1 DEF LaneKeys
<1>11. CASE Judged /\ now # beat /\ ~Confirmed
  <2>1. t = silent
    BY <1>6, <1>11
  <2> QED  BY <1>2, <1>11, <2>1 DEF LaneKeys
<1>12. CASE Judged /\ now # beat /\ Confirmed
  <2>1. t = kept(silent) \/ t = paged
    BY <1>6, <1>12
  <2>2. PagesOf("lane", silent, kept(silent))
    BY <1>2, <1>3
  <2>3. PagesOf("lane", s, t)
    BY <1>4, <1>5, <2>1, <2>2
  <2> QED  BY <1>7, <1>12, <2>3 DEF LaneKeys
<1> QED  BY <1>9, <1>10, <1>11, <1>12

\* A scan that writes the pages of every kind, or of all but one.
LEMMA PagesAre ==
  ASSUME WatchTypeOK, ScanKeeps, ScanPages
  PROVE  /\ scan' \in Scans /\ scan'.pc \in {"hold", "rollup"} /\ scan'.was = scan.was
         /\ scan'.blocked = scan.blocked
         /\ scan'.next.nudgeSent = scan.next.nudgeSent /\ scan'.next.nudged = scan.next.nudged
         /\ scan'.next.sched = scan.next.sched /\ scan'.next.tick = now /\ scan'.next.buffer = scan.next.buffer
         /\ scan'.next.pages["stalled"] = scan.next.pages["stalled"]
         /\ \A k \in Kinds \ {"stalled"} : scan'.next.pages[k] = None \/ Heard(scan', k)
         /\ Queued \subseteq Queued' /\ \A line \in Queued' \ Queued : line.kind \in Kinds \ {"stalled"}
         /\ (\E line \in Queued' : line.kind = "lane") => Judged /\ now # beat /\ LaneIsLate(emitted)
         /\ Judged /\ LaneIsLate(scan'.next) => now # beat
         /\ mishaps' \in Nat /\ mishaps' <= mishaps
<1>1. /\ scan \in Scans /\ scan.pc = "pages" /\ InScan /\ now \in Times
      /\ mishaps' \in Nat /\ mishaps' <= mishaps
  BY DEF WatchTypeOK, ScanPages, InScan, Mishap
<1>2. /\ ~scan.next.seen /\ \A k \in Kinds \ {"stalled"} : scan.next.pages[k] = None
      /\ \A line \in Queued : line.kind \in {"stalled", "nudged", "resumed", "autoclosed"}
  BY <1>1 DEF ScanKeeps
<1>3. PICK o \in Scans, a \in Scans :
         /\ PagesOf("orphan", Questions(scan), o) /\ o.next.seen = Questions(scan).next.seen
         /\ PagesOf("approval", o, a) /\ a.next.seen = o.next.seen
         /\ scan' = Ticked(a)
  <2> DEFINE q == Questions(scan)
  <2>1. q \in Scans
    BY <1>1, QuestionsAre DEF PagesOf
  <2>2. PagesOf("orphan", q, Orphans(q)) /\ Orphans(q).next.seen = q.next.seen /\ Orphans(q) \in Scans
    BY <2>1, OrphansAre DEF PagesOf
  <2>3. \A o \in Scans : PagesOf("approval", o, Approvals(o)) /\ Approvals(o).next.seen = o.next.seen
                         /\ Approvals(o) \in Scans
    BY ApprovalsAre DEF PagesOf
  <2>4. \A o \in Scans, k \in Kinds : PagesOf(k, o, o)
    BY NoPages
  <2>5. "orphan" \in Kinds /\ "approval" \in Kinds
    BY DEF Kinds
  <2>6. \/ scan' = Ticked(Approvals(Orphans(q)))
        \/ scan' = Ticked(Approvals(q))
        \/ scan' = Ticked(Orphans(q))
    BY DEF ScanPages
  <2> HIDE DEF q
  <2> SUFFICES \E o \in Scans, a \in Scans :
                  /\ PagesOf("orphan", q, o) /\ o.next.seen = q.next.seen
                  /\ PagesOf("approval", o, a) /\ a.next.seen = o.next.seen
                  /\ scan' = Ticked(a)
    BY DEF q
  <2>7. CASE scan' = Ticked(Approvals(Orphans(q)))
    BY <2>2, <2>3, <2>7
  <2>8. CASE scan' = Ticked(Approvals(q))
    BY <2>1, <2>3, <2>4, <2>5, <2>8
  <2>9. CASE scan' = Ticked(Orphans(q))
    BY <2>2, <2>4, <2>5, <2>9
  <2> QED  BY <2>6, <2>7, <2>8, <2>9
<1> DEFINE q == Questions(scan)
           l == LaneSilence(a)
<1>4. PagesOf("question", scan, q) /\ q.next.seen = scan.next.seen
  BY <1>1, QuestionsAre
<1>5. PagesOf("lane", a, l) /\ LaneKeys(a, l)
  BY <1>1, LaneIs
<1>6. PagesOf("orphan", q, o) /\ PagesOf("approval", o, a) /\ a.next.seen = scan.next.seen
  BY <1>3, <1>4
<1> HIDE DEF q, l
<1>7. /\ scan' \in Scans /\ scan'.pc \in {"hold", "rollup"} /\ scan'.was = l.was /\ scan'.blocked = l.blocked
      /\ scan'.lines = l.lines /\ scan'.next.pages = l.next.pages /\ scan'.next.seen = l.next.seen
      /\ scan'.next.nudgeSent = l.next.nudgeSent /\ scan'.next.nudged = l.next.nudged
      /\ scan'.next.sched = l.next.sched /\ scan'.next.tick = now /\ scan'.next.buffer = l.next.buffer
  <2> DEFINE n == [l.next EXCEPT !.tick = now]
             pc == IF a.limited THEN "hold" ELSE "rollup"
  <2>1. l \in Scans /\ l.next \in Emitted
    BY <1>5 DEF PagesOf, Scans
  <2>2. /\ n \in Emitted /\ n.pages = l.next.pages /\ n.nudgeSent = l.next.nudgeSent /\ n.nudged = l.next.nudged
        /\ n.sched = l.next.sched /\ n.tick = now /\ n.buffer = l.next.buffer /\ n.seen = l.next.seen
    BY <1>1, <2>1 DEF Emitted
  <2>3. scan' = [l EXCEPT !.next = n, !.pc = pc]
    BY <1>3, <2>1 DEF Ticked, Goto, l, Scans
  <2>4. pc \in Pcs /\ pc \in {"hold", "rollup"}
    BY DEF Pcs
  <2> HIDE DEF n, pc
  <2>5. /\ scan' \in Scans /\ scan'.pc = pc /\ scan'.was = l.was /\ scan'.blocked = l.blocked
        /\ scan'.lines = l.lines /\ scan'.next = n
    BY <2>1, <2>2, <2>3, <2>4 DEF Scans
  <2> QED  BY <2>2, <2>4, <2>5
<1>8. Queued' = ToSet(l.lines)
  BY <1>7 DEF Queued
<1>9. /\ scan'.was = scan.was /\ scan'.blocked = scan.blocked
      /\ scan'.next.nudgeSent = scan.next.nudgeSent /\ scan'.next.nudged = scan.next.nudged
      /\ scan'.next.sched = scan.next.sched /\ scan'.next.buffer = scan.next.buffer
  BY <1>4, <1>5, <1>6, <1>7 DEF PagesOf
<1>10. ToSet(scan.lines) \subseteq ToSet(q.lines) /\ ToSet(q.lines) \subseteq ToSet(o.lines)
       /\ ToSet(o.lines) \subseteq ToSet(a.lines) /\ ToSet(a.lines) \subseteq ToSet(l.lines)
  BY <1>4, <1>5, <1>6 DEF PagesOf
<1>11. \A line \in ToSet(l.lines) :
          \/ line \in ToSet(scan.lines) \/ line.kind \in {"question", "orphan", "approval"}
          \/ line \in ToSet(l.lines) \ ToSet(a.lines) /\ line.kind = "lane"
  BY <1>4, <1>5, <1>6 DEF PagesOf
<1>12. /\ l.next.pages["stalled"] = scan.next.pages["stalled"]
       /\ l.next.pages["question"] = q.next.pages["question"]
       /\ l.next.pages["orphan"] = o.next.pages["orphan"]
       /\ l.next.pages["approval"] = a.next.pages["approval"]
       /\ a.next.pages["lane"] = scan.next.pages["lane"]
       /\ q.next.pages["question"] = scan.next.pages["question"] \/ Heard(q, "question")
       /\ o.next.pages["orphan"] = scan.next.pages["orphan"] \/ Heard(o, "orphan")
       /\ a.next.pages["approval"] = scan.next.pages["approval"] \/ Heard(a, "approval")
       /\ l.next.pages["lane"] = scan.next.pages["lane"] \/ Heard(l, "lane")
  BY <1>4, <1>5, <1>6 DEF PagesOf, Kinds
<1>13. ASSUME NEW k \in Kinds \ {"stalled"}
       PROVE  scan'.next.pages[k] = None \/ Heard(scan', k)
  <2>1. scan.next.pages[k] = None
    BY <1>2
  <2>2. \A t : Heard(t, k) /\ ToSet(t.lines) \subseteq ToSet(l.lines) /\ l.next.pages[k] = t.next.pages[k]
               => Heard(scan', k)
    BY <1>7 DEF Heard
  <2> QED  BY <1>7, <1>10, <1>12, <2>1, <2>2 DEF Kinds
<1>14. ASSUME NEW line \in Queued', line.kind = "lane"
       PROVE  Judged /\ now # beat /\ LaneIsLate(emitted)
  <2>1. line \notin ToSet(scan.lines)
    BY <1>2, <1>14 DEF Queued
  <2>2. line \in ToSet(l.lines) \ ToSet(a.lines)
    BY <1>8, <1>11, <1>14, <2>1
  <2> QED  BY <1>5, <2>2 DEF LaneKeys
<1>15. Judged /\ LaneIsLate(scan'.next) => now # beat
  <2>1. ~LaneIsLate(a.next)
    BY <1>2, <1>6, <1>12 DEF LaneIsLate, Kinds
  <2> QED  BY <1>5, <1>7, <2>1 DEF LaneKeys, LaneIsLate
<1>16. Queued \subseteq Queued' /\ \A line \in Queued' \ Queued : line.kind \in Kinds \ {"stalled"}
  BY <1>8, <1>10, <1>11 DEF Queued, Kinds
<1> QED  BY <1>1, <1>7, <1>9, <1>12, <1>13, <1>14, <1>15, <1>16

-----------------------------------------------------------------------------
(* The lines of a scan, and its end *)

LEMMA HoldIs ==
  ASSUME WatchTypeOK, Hold
  PROVE  /\ scan' \in Scans /\ scan'.pc = "commit" /\ scan'.was = scan.was /\ scan'.blocked = scan.blocked
         /\ Queued' = {}
         /\ scan'.next.buffer = [lines |-> Held \union Queued] /\ scan'.next.buffer # None /\ scan'.next.pages = scan.next.pages
         /\ scan'.next.seen = scan.next.seen /\ scan'.next.nudgeSent = scan.next.nudgeSent
         /\ scan'.next.nudged = scan.next.nudged /\ scan'.next.sched = scan.next.sched
         /\ scan'.next.tick = scan.next.tick
<1> DEFINE b == [lines |-> Held \union ToSet(scan.lines)]
           n == [scan.next EXCEPT !.buffer = b]
           s == [scan EXCEPT !.lines = <<>>, !.next = n, !.pc = "commit"]
<1>1. /\ scan \in Scans /\ scan.next \in Emitted /\ scan.was \in Emitted /\ scan.lines \in Seq(Lines)
      /\ scan.was.buffer \in Buffers \union {None}
  BY DEF WatchTypeOK, Scans, Emitted
<1>2. b \in Buffers /\ b = [lines |-> Held \union Queued] /\ b # None
  <2>1. Held \in SUBSET Lines
    BY <1>1 DEF Held, Buffers
  <2>2. ToSet(scan.lines) \in SUBSET Lines
    BY <1>1 DEF ToSet
  <2> QED  BY <2>1, <2>2, BuffersAssumption DEF Queued, Buffers
<1>3. scan' = s
  BY <1>1 DEF Hold, Goto, Scans, Emitted
<1> HIDE DEF b
<1>4. /\ n \in Emitted /\ n.buffer = b /\ n.pages = scan.next.pages /\ n.seen = scan.next.seen
      /\ n.nudgeSent = scan.next.nudgeSent /\ n.nudged = scan.next.nudged /\ n.sched = scan.next.sched
      /\ n.tick = scan.next.tick
  BY <1>1, <1>2 DEF Emitted
<1> HIDE DEF n
<1>5. <<>> \in Seq(Lines) /\ ToSet(<<>>) = {}
  BY DEF ToSet
<1>6. /\ s \in Scans /\ s.pc = "commit" /\ s.was = scan.was /\ s.blocked = scan.blocked /\ s.next = n
      /\ s.lines = <<>>
  BY <1>1, <1>4, <1>5 DEF Scans, Pcs
<1> HIDE DEF s
<1>7. Queued' = {}
  BY <1>3, <1>5, <1>6 DEF Queued
<1> QED  BY <1>2, <1>3, <1>4, <1>6, <1>7

\* What of the last nudge only another nudge changes.
SameNudge == nudge'.turn = nudge.turn /\ nudge'.at = nudge.at /\ nudge'.why = nudge.why /\ nudge'.left = nudge.left
NudgeTypeOK == nudge \in [turn : Times \union {None}, at : Times, why : Whys, rung : Nat, said : BOOLEAN, left : Nat]

\* A page that was held back is due anew; all else of the scan stays.
LEMMA RollupIs ==
  ASSUME WatchTypeOK, Rollup
  PROVE  /\ scan' \in Scans /\ scan'.pc = "print" /\ scan'.was = scan.was /\ scan'.blocked = scan.blocked
         /\ Queued' = Queued
         /\ scan'.next.buffer = scan.next.buffer
         /\ scan'.next.seen = scan.next.seen /\ scan'.next.nudgeSent = scan.next.nudgeSent
         /\ scan'.next.nudged = scan.next.nudged /\ scan'.next.sched = scan.next.sched
         /\ scan'.next.tick = scan.next.tick
         /\ \A k \in Kinds : LET e == scan.next.pages[k]
                                 d == scan'.next.pages[k] IN
               /\ ~Suppressed(k, e) => d = e
               /\ Suppressed(k, e) => d = None \/ d.level = 0
               /\ k \in {"question", "lane"} => d = e \/ d = None
         /\ NudgeTypeOK' /\ SameNudge
         /\ nudge'.rung = IF Suppressed("stalled", scan.next.pages["stalled"]) THEN 0 ELSE nudge.rung
         /\ nudge'.said <=> nudge.said \/ \E line \in Held : line.kind = "resumed" /\ line.id >= nudge.at
         /\ closed' = IF \E line \in Held : line.kind = "autoclosed" THEN "told" ELSE closed
         /\ flag' \in BOOLEAN
<1>1. /\ scan \in Scans /\ scan.next \in Emitted /\ scan.lines \in Seq(Lines)
      /\ scan.next.pages \in [Kinds -> Entry \union {None}] /\ NudgeTypeOK /\ flag \in BOOLEAN /\ "print" \in Pcs
  BY DEF WatchTypeOK, Scans, Emitted, NudgeTypeOK, Pcs
<1>2. CASE scan.was.buffer # None \/ flag
  <2> DEFINE p == Refire(scan.next.pages)
             n == [scan.next EXCEPT !.pages = p]
             s == [scan EXCEPT !.next = n, !.printed = TRUE, !.pc = "print"]
             said == nudge.said \/ \E line \in {line \in Held : line.kind \notin Kinds} :
                                      line.kind = "resumed" /\ line.id >= nudge.at
             rung == IF Suppressed("stalled", scan.next.pages["stalled"]) THEN 0 ELSE nudge.rung
  <2>1. scan' = s /\ nudge' = [nudge EXCEPT !.said = said, !.rung = rung] /\ flag' = FALSE
    BY <1>1, <1>2 DEF Rollup, Goto, Scans, Emitted, NudgeTypeOK
  <2>2. closed' = IF \E line \in Held : line.kind = "autoclosed" THEN "told" ELSE closed
    BY <1>2 DEF Rollup, Kinds
  <2>3. ASSUME NEW k \in Kinds
        PROVE  LET e == scan.next.pages[k] IN
               /\ p[k] \in Entry \union {None}
               /\ ~Suppressed(k, e) => p[k] = e
               /\ Suppressed(k, e) => p[k] = None \/ p[k].level = 0
               /\ k \in {"question", "lane"} => p[k] = e \/ p[k] = None
    <3> DEFINE e == scan.next.pages[k]
    <3>1. p[k] = IF ~Suppressed(k, e) THEN e
                 ELSE IF k \in {"orphan", "approval"} THEN [e EXCEPT !.level = 0] ELSE None
      BY DEF Refire
    <3>2. e \in Entry \union {None} /\ (Suppressed(k, e) => e # None)
      BY <1>1 DEF Suppressed
    <3>3. Suppressed(k, e) => [e EXCEPT !.level = 0] \in Entry /\ [e EXCEPT !.level = 0].level = 0
      BY <3>2 DEF Entry
    <3> HIDE DEF e, p
    <3>4. /\ p[k] \in Entry \union {None}
          /\ ~Suppressed(k, e) => p[k] = e
          /\ Suppressed(k, e) => p[k] = None \/ p[k].level = 0
          /\ k \in {"question", "lane"} => p[k] = e \/ p[k] = None
      BY <3>1, <3>2, <3>3
    <3> QED  BY <3>4 DEF e
  <2>4. p \in [Kinds -> Entry \union {None}]
    <3>1. p = [k \in Kinds |-> p[k]]
      BY DEF Refire
    <3> HIDE DEF p
    <3> QED  BY <2>3, <3>1
  <2> HIDE DEF p
  <2>5. /\ n \in Emitted /\ n.buffer = scan.next.buffer /\ n.pages = p /\ n.seen = scan.next.seen
        /\ n.nudgeSent = scan.next.nudgeSent /\ n.nudged = scan.next.nudged /\ n.sched = scan.next.sched
        /\ n.tick = scan.next.tick
    BY <1>1, <2>4 DEF Emitted
  <2> HIDE DEF n
  <2>6. /\ s \in Scans /\ s.pc = "print" /\ s.was = scan.was /\ s.blocked = scan.blocked /\ s.next = n
        /\ s.lines = scan.lines
    BY <1>1, <2>5 DEF Scans
  <2> HIDE DEF s
  <2>7. Queued' = Queued
    BY <2>1, <2>6 DEF Queued
  <2>8. /\ said \in BOOLEAN /\ rung \in Nat
        /\ said <=> nudge.said \/ \E line \in Held : line.kind = "resumed" /\ line.id >= nudge.at
    BY <1>1 DEF NudgeTypeOK, Kinds
  <2> HIDE DEF said, rung
  <2>9. NudgeTypeOK' /\ SameNudge /\ nudge'.said = said /\ nudge'.rung = rung
    BY <1>1, <2>1, <2>8 DEF NudgeTypeOK, SameNudge
  <2>10. flag' \in BOOLEAN
    BY <2>1
  <2>11. nudge'.rung = IF Suppressed("stalled", scan.next.pages["stalled"]) THEN 0 ELSE nudge.rung
    BY <2>9 DEF rung
  <2>12. \A k \in Kinds : LET e == scan.next.pages[k]
                              d == scan'.next.pages[k] IN
               /\ ~Suppressed(k, e) => d = e
               /\ Suppressed(k, e) => d = None \/ d.level = 0
               /\ k \in {"question", "lane"} => d = e \/ d = None
    BY <2>1, <2>3, <2>5, <2>6
  <2> QED  BY <2>1, <2>2, <2>5, <2>6, <2>7, <2>8, <2>9, <2>10, <2>11, <2>12
<1>3. CASE ~(scan.was.buffer # None \/ flag)
  <2>1. scan' = [scan EXCEPT !.pc = "print"] /\ flag' = flag /\ nudge' = nudge /\ closed' = closed /\ Held = {}
    BY <1>3 DEF Rollup, Goto, Held
  <2>2. /\ scan' \in Scans /\ scan'.pc = "print" /\ scan'.was = scan.was /\ scan'.blocked = scan.blocked
        /\ scan'.next = scan.next /\ scan'.lines = scan.lines
    BY <1>1, <2>1 DEF Scans
  <2>3. \A k, e : ~Suppressed(k, e)
    BY <2>1 DEF Suppressed
  <2>4. NudgeTypeOK' /\ SameNudge
    BY <1>1, <2>1 DEF NudgeTypeOK, SameNudge
  <2> QED  BY <1>1, <2>1, <2>2, <2>3, <2>4 DEF Queued
<1> QED  BY <1>2, <1>3

LEMMA TellIs ==
  ASSUME WatchTypeOK, NEW line \in Lines, Tell(line)
  PROVE  /\ told' \in [Kinds -> [Times -> Nat]]
         /\ \A k \in Kinds, id \in Times : told'[k][id] >= told[k][id]
         /\ line.kind \in Kinds => told'[line.kind][line.id] >= line.level
         /\ NudgeTypeOK' /\ SameNudge /\ nudge'.rung = nudge.rung
         /\ nudge'.said <=> nudge.said \/ (line.kind = "resumed" /\ line.id >= nudge.at)
         /\ closed' = IF line.kind = "autoclosed" THEN "told" ELSE closed
<1>1. told \in [Kinds -> [Times -> Nat]] /\ NudgeTypeOK /\ line.id \in Times /\ line.level \in Nat
  BY DEF WatchTypeOK, NudgeTypeOK, Lines
<1>2. /\ told' \in [Kinds -> [Times -> Nat]]
      /\ \A k \in Kinds, id \in Times : told'[k][id] >= told[k][id]
      /\ line.kind \in Kinds => told'[line.kind][line.id] >= line.level
  <2>1. CASE line.kind \notin Kinds
    BY <1>1, <2>1 DEF Tell
  <2>2. CASE line.kind \in Kinds
    <3> DEFINE k == line.kind
               i == line.id
               g == Max({told[k][i], line.level})
    <3>1. told' = [told EXCEPT ![k][i] = g]
      BY <2>2 DEF Tell
    <3>2. told[k][i] \in Nat
      BY <1>1, <2>2
    <3>3. g \in Nat /\ g >= told[k][i] /\ g >= line.level
      BY <1>1, <3>2, GreaterOfTwo
    <3>4. k \in Kinds /\ i \in Times
      BY <1>1, <2>2
    <3> HIDE DEF g, k, i
    <3>5. /\ told' \in [Kinds -> [Times -> Nat]] /\ told'[k][i] = g
          /\ \A j \in Kinds, id \in Times : told'[j][id] >= told[j][id]
      BY <1>1, <3>1, <3>2, <3>3, <3>4
    <3> QED  BY <1>1, <3>3, <3>5 DEF k, i
  <2> QED  BY <2>1, <2>2
<1>3. CASE line.kind = "resumed" /\ line.id >= nudge.at
  <2>1. nudge' = [nudge EXCEPT !.said = TRUE]
    BY <1>3 DEF Tell
  <2> QED  BY <1>1, <1>2, <1>3, <2>1 DEF NudgeTypeOK, SameNudge, Tell
<1>4. CASE ~(line.kind = "resumed" /\ line.id >= nudge.at)
  <2>1. nudge' = nudge
    BY <1>4 DEF Tell
  <2> QED  BY <1>1, <1>2, <1>4, <2>1 DEF NudgeTypeOK, SameNudge, Tell
<1> QED  BY <1>3, <1>4

\* A scan that prints, or that hands its last lines on, keeps its next state.
SameNextState == scan'.next = scan.next /\ scan'.was = scan.was /\ scan'.blocked = scan.blocked

LEMMA EmitIs ==
  ASSUME WatchTypeOK, Emit
  PROVE  /\ scan' \in Scans /\ scan'.pc = "print" /\ SameNextState
         /\ \E line \in Lines : Tell(line) /\ line.kind # "autoclosed"
                                /\ Queued' \subseteq Queued /\ Queued \subseteq Queued' \union {line}
<1> DEFINE i == Min(Direct)
           l == RemoveAt(scan.lines, i)
           s == [scan EXCEPT !.lines = l, !.printed = TRUE]
<1>1. scan \in Scans /\ scan.lines \in Seq(Lines) /\ scan.pc = "print" /\ Direct # {}
  BY DEF WatchTypeOK, Scans, Emit
<1>2. i \in Direct
  <2>1. Direct \in SUBSET Nat
    BY <1>1 DEF Direct
  <2> QED  BY <1>1, <2>1, LeastIs
<1>3. scan' = s /\ Tell(scan.lines[i])
  BY DEF Emit
<1> HIDE DEF i
<1>4. i \in DOMAIN scan.lines /\ scan.lines[i].kind # "autoclosed" /\ scan.lines[i] \in Lines
  BY <1>1, <1>2 DEF Direct
<1>5. l \in Seq(Lines) /\ ToSet(l) \subseteq Queued /\ Queued \subseteq ToSet(l) \union {scan.lines[i]}
  BY <1>1, <1>4, RemoveDrops DEF Queued
<1> HIDE DEF l
<1>6. /\ s \in Scans /\ s.pc = "print" /\ s.next = scan.next /\ s.was = scan.was /\ s.blocked = scan.blocked
      /\ s.lines = l
  BY <1>1, <1>5 DEF Scans
<1> HIDE DEF s
<1>7. Queued' = ToSet(l)
  BY <1>3, <1>6 DEF Queued
<1> QED  BY <1>3, <1>4, <1>5, <1>6, <1>7 DEF SameNextState

LEMMA DivertIs ==
  ASSUME WatchTypeOK, Divert
  PROVE  /\ scan' \in Scans /\ scan'.pc = "drain" /\ SameNextState /\ Queued' = {}
         /\ told' = told /\ nudge' = nudge /\ mishaps' \in Nat /\ mishaps' <= mishaps
         /\ \A line \in Queued : line.kind = "autoclosed"
         /\ \/ Queued = {} /\ outbox' = outbox /\ closed' = closed
            \/ outbox' = outbox \union {now} /\ closed' = "outbox"
            \/ outbox' = outbox /\ closed' = "told"
<1>1. scan \in Scans /\ scan.lines \in Seq(Lines) /\ Direct = {} /\ mishaps \in Nat
  BY DEF WatchTypeOK, Scans, Divert
<1>2. scan' = [scan EXCEPT !.lines = <<>>, !.pc = "drain"]
  BY DEF Divert, Goto
<1>3. <<>> \in Seq(Lines) /\ ToSet(<<>>) = {}
  BY DEF ToSet
<1>4. /\ scan' \in Scans /\ scan'.pc = "drain" /\ SameNextState /\ scan'.lines = <<>>
  BY <1>1, <1>2, <1>3 DEF Scans, SameNextState, Pcs
<1>5. Queued' = {}
  BY <1>3, <1>4 DEF Queued
<1>6. \A line \in Queued : line.kind = "autoclosed"
  BY <1>1 DEF Direct, Queued, ToSet
<1>7. CASE scan.lines = <<>>
  <2>1. Queued = {}
    BY <1>3, <1>7 DEF Queued
  <2> QED  BY <1>1, <1>4, <1>5, <1>6, <1>7, <2>1 DEF Divert
<1>8. CASE scan.lines # <<>>
  <2>1. Head(scan.lines) \in Queued
    BY <1>1, <1>8 DEF Queued, ToSet
  <2>2. Tell(Head(scan.lines)) => told' = told /\ nudge' = nudge /\ closed' = "told"
    BY <1>6, <2>1 DEF Tell, Kinds
  <2> QED  BY <1>1, <1>4, <1>5, <1>6, <1>8, <2>2 DEF Divert, Mishap
<1> QED  BY <1>7, <1>8

LEMMA DrainIs ==
  ASSUME WatchTypeOK, Drain
  PROVE  /\ scan' \in Scans /\ scan'.pc = "commit" /\ SameNextState /\ Queued' = Queued
         /\ \/ outbox' = {} /\ closed' = "told"
            \/ outbox' = outbox /\ closed' = closed
<1>1. scan \in Scans /\ scan' = [scan EXCEPT !.pc = "commit"]
  BY DEF WatchTypeOK, Drain, Goto
<1>2. scan' \in Scans /\ scan'.pc = "commit" /\ SameNextState /\ scan'.lines = scan.lines
  BY <1>1 DEF Scans, SameNextState, Pcs
<1>3. \/ outbox' = {} /\ closed' = "told"
      \/ outbox' = outbox /\ closed' = closed
  BY DEF Drain
<1> QED  BY <1>2, <1>3 DEF Queued

\* A scan that ends: it saved its next state, or something went wrong.
Lost == /\ mishaps' \in Nat /\ mishaps' < mishaps /\ steady' = FALSE
        /\ closed' = IF closed = "line" THEN "lost" ELSE closed
LEMMA EndIs ==
  ASSUME WatchTypeOK, Save \/ LaneDead \/ Dies
  PROVE  /\ scan' = Off /\ Off \in Scans /\ emitted' \in Emitted /\ InScan
         /\ \/ /\ scan.pc = "commit" /\ emitted' = scan.next /\ steady' = (alive /\ Judged)
               /\ closed' = closed /\ mishaps' = mishaps
            \/ Lost /\ emitted' = emitted
            \/ Lost /\ Wrote(emitted', scan) /\ scan.pc \in {"rollup", "print", "drain"}
<1>1. scan \in Scans /\ scan.next \in Emitted /\ emitted \in Emitted /\ mishaps \in Nat
  BY DEF WatchTypeOK, Scans
<1>2. CASE Save
  BY <1>1, <1>2, NothingIs DEF Save, Forget, Mishap, Lost, InScan
<1>3. CASE LaneDead
  <2>1. scan.pc \in {"rollup", "print", "drain"}
    BY <1>3 DEF LaneDead, Prints
  <2>2. Wrote(emitted', scan) /\ emitted' \in Emitted
    BY <1>1, <1>3, ActionsAre DEF LaneDead
  <2> QED  BY <1>1, <1>3, <2>1, <2>2, NothingIs DEF LaneDead, Forget, Mishap, Lost, InScan
<1>4. CASE Dies
  BY <1>1, <1>4, NothingIs DEF Dies, Forget, Mishap, Lost, InScan
<1> QED  BY <1>2, <1>3, <1>4

-----------------------------------------------------------------------------
(* Types *)

Ends == Save \/ LaneDead \/ Dies
Outside == \/ Prompt \/ Works \/ TurnEnds \/ AgentsEnd \/ Ask \/ Answered
           \/ Appears("orphan") \/ Appears("approval") \/ Limit \/ LaneEnds \/ Tick \/ Sleep

LEMMA StepsAre ==
  ASSUME [WatchNext]_watchVars
  PROVE  \/ ScanStart \/ ScanManager \/ WakeManager \/ ScanBusy \/ Send \/ ScanIdle \/ ScanPages
         \/ Hold \/ Rollup \/ Emit \/ Divert \/ Drain \/ Ends \/ Outside \/ UNCHANGED watchVars
BY DEF WatchNext, ScanStep, Ends, Outside

\* What only a scan changes.
OwnState == <<scan, emitted, flag, outbox, told, nudge, closed, mishaps>>
\* What it does not change.
OtherState == <<now, since, manager, beat, alive, rested, events>>

LEMMA OutsideIs ==
  ASSUME WatchTypeOK, Outside
  PROVE  /\ UNCHANGED OwnState /\ (scan.pc = "off" \/ Ask)
         /\ now' \in Times /\ now <= now' /\ (now' # now => Tick \/ Sleep)
         /\ worker' \in [st : {"idle", "busy", "gone"}, mtime : Times, active : Times,
                         banner : {"no", "plain", "reset"}, holds : {"no", "shell", "agents"}]
         /\ since' \in [{"question", "orphan", "approval"} -> Times \union {None}]
         /\ manager' \in [limited : BOOLEAN, active : Times]
         /\ beat' \in Times /\ alive' \in BOOLEAN /\ steady' \in BOOLEAN /\ rested' \in BOOLEAN
         /\ due' \in BOOLEAN /\ events' \in Nat
<1> USE DEF OwnState
<1>1. /\ now \in Times /\ now \in Nat /\ MaxTime \in Nat
      /\ worker \in [st : {"idle", "busy", "gone"}, mtime : Times, active : Times,
                     banner : {"no", "plain", "reset"}, holds : {"no", "shell", "agents"}]
      /\ since \in [{"question", "orphan", "approval"} -> Times \union {None}]
      /\ manager \in [limited : BOOLEAN, active : Times]
      /\ beat \in Times /\ alive \in BOOLEAN /\ steady \in BOOLEAN /\ rested \in BOOLEAN
      /\ due \in BOOLEAN /\ events \in Nat
  BY ConstantsAre DEF WatchTypeOK
<1>2. CASE Prompt
  BY <1>1, <1>2 DEF Prompt, Happens, Between, lvars, ovars
<1>3. CASE Works
  <2>1. PICK banner \in {"no", "plain", "reset"} : worker' = [worker EXCEPT !.active = now, !.banner = banner]
    BY <1>3 DEF Works
  <2>2. worker' \in [st : {"idle", "busy", "gone"}, mtime : Times, active : Times,
                     banner : {"no", "plain", "reset"}, holds : {"no", "shell", "agents"}]
    BY <1>1, <2>1
  <2> QED  BY <1>1, <1>3, <2>2 DEF Works, Happens, Between, lvars, ovars
<1>4. CASE TurnEnds
  BY <1>1, <1>4 DEF TurnEnds, Happens, Between, lvars, ovars
<1>5. CASE AgentsEnd
  BY <1>1, <1>5 DEF AgentsEnd, Happens, Between, lvars, ovars
<1>6. CASE Ask
  BY <1>1, <1>6 DEF Ask, Happens, lvars, ovars
<1>7. CASE Answered
  BY <1>1, <1>7 DEF Answered, Happens, Between, lvars, ovars
<1>8. CASE Appears("orphan") \/ Appears("approval")
  <2>1. PICK k \in {"orphan", "approval"} : Appears(k)
    BY <1>8
  <2>2. since' \in [{"question", "orphan", "approval"} -> Times \union {None}]
    BY <1>1, <2>1 DEF Appears
  <2> QED  BY <1>1, <2>1, <2>2 DEF Appears, Happens, Between, lvars, ovars
<1>9. CASE Limit
  BY <1>1, <1>9 DEF Limit, Happens, Between, lvars, ovars
<1>10. CASE LaneEnds
  <2>1. beat' \in Times
    BY <1>1, <1>10 DEF LaneEnds
  <2>2. alive' \in BOOLEAN /\ steady' \in BOOLEAN
    BY <1>10 DEF LaneEnds
  <2>3. UNCHANGED <<now, worker, since, manager, rested, emitted, flag, outbox, scan, due, told, nudge, closed, mishaps>>
        /\ scan.pc = "off" /\ events' \in Nat
    BY <1>1, <1>10 DEF LaneEnds, Happens, Between, wvars, ovars
  <2>4. now <= now'
    BY <1>1, <2>3
  <2> QED  BY <1>1, <2>1, <2>2, <2>3, <2>4
<1>11. CASE Tick
  BY <1>1, <1>11 DEF Tick, Between, wvars, ovars, Times
<1>12. CASE Sleep
  <2>1. now' \in Times /\ now <= now'
    BY <1>1, <1>12, ConstantsAre DEF Sleep, Times
  <2>2. /\ UNCHANGED <<worker, since, manager, beat, alive, steady, emitted, flag, outbox, scan, told, nudge, closed, mishaps>>
        /\ scan.pc = "off" /\ events' \in Nat /\ due' = TRUE /\ rested' = FALSE
    BY <1>1, <1>12 DEF Sleep, Happens, Between, wvars, ovars
  <2> QED  BY <1>1, <1>12, <2>1, <2>2
<1> QED  BY <1>2, <1>3, <1>4, <1>5, <1>6, <1>7, <1>8, <1>9, <1>10, <1>11, <1>12 DEF Outside

\* What each step of a scan leaves alone.
LEMMA ScansLeave ==
  /\ ScanStart => UNCHANGED OtherState /\ UNCHANGED <<worker, emitted, flag, outbox, told, nudge, closed, mishaps, steady>>
                  /\ due' = FALSE /\ due /\ scan.pc = "off"
  /\ ScanManager => UNCHANGED OtherState /\ UNCHANGED <<worker, flag, outbox, told, nudge, closed, due, steady>>
                    /\ scan.pc = "manager"
  /\ WakeManager => UNCHANGED OtherState /\ UNCHANGED <<worker, emitted, flag, outbox, told, nudge, closed, mishaps, due, steady>>
                    /\ scan.pc = "wakeManager"
  /\ ScanBusy => UNCHANGED OtherState /\ UNCHANGED <<worker, flag, outbox, told, nudge, closed, due, steady>>
                 /\ scan.pc = "worker" /\ worker.st = "busy"
  /\ Send => UNCHANGED OtherState /\ UNCHANGED <<worker, emitted, flag, outbox, closed, mishaps, due, steady>>
             /\ scan.pc = "send"
  /\ ScanIdle => UNCHANGED OtherState /\ UNCHANGED <<emitted, flag, outbox, told, nudge, mishaps, due, steady>>
                 /\ scan.pc = "worker" /\ worker.st # "busy"
  /\ ScanPages => UNCHANGED OtherState /\ UNCHANGED <<worker, emitted, flag, outbox, told, nudge, closed, due, steady>>
                  /\ scan.pc = "pages"
  /\ Hold => UNCHANGED OtherState /\ UNCHANGED <<worker, emitted, outbox, told, nudge, closed, mishaps, due, steady>>
             /\ scan.pc = "hold" /\ flag' = TRUE
  /\ Rollup => UNCHANGED OtherState /\ UNCHANGED <<worker, emitted, outbox, told, mishaps, due, steady>>
               /\ scan.pc = "rollup"
  /\ Emit => UNCHANGED OtherState /\ UNCHANGED <<worker, emitted, flag, outbox, mishaps, due, steady>>
             /\ scan.pc = "print"
  /\ Divert => UNCHANGED OtherState /\ UNCHANGED <<worker, emitted, flag, due, steady>>
               /\ scan.pc = "print"
  /\ Drain => UNCHANGED OtherState /\ UNCHANGED <<worker, emitted, flag, told, nudge, mishaps, due, steady>>
              /\ scan.pc = "drain"
  /\ Ends => UNCHANGED OtherState /\ UNCHANGED <<worker, flag, outbox, told, nudge, due>>
<1> USE DEF OtherState, Quiet, wvars, lvars, ovars
<1>1. ScanStart => UNCHANGED OtherState /\ UNCHANGED <<worker, emitted, flag, outbox, told, nudge, closed, mishaps, steady>>
                  /\ due' = FALSE /\ due /\ scan.pc = "off"
  BY DEF ScanStart
<1>2. ScanManager => UNCHANGED OtherState /\ UNCHANGED <<worker, flag, outbox, told, nudge, closed, due, steady>>
                    /\ scan.pc = "manager"
  BY DEF ScanManager
<1>3. WakeManager => UNCHANGED OtherState /\ UNCHANGED <<worker, emitted, flag, outbox, told, nudge, closed, mishaps, due, steady>>
                    /\ scan.pc = "wakeManager"
  BY DEF WakeManager
<1>4. ScanBusy => UNCHANGED OtherState /\ UNCHANGED <<worker, flag, outbox, told, nudge, closed, due, steady>>
                 /\ scan.pc = "worker" /\ worker.st = "busy"
  BY DEF ScanBusy
<1>5. Send => UNCHANGED OtherState /\ UNCHANGED <<worker, emitted, flag, outbox, closed, mishaps, due, steady>>
             /\ scan.pc = "send"
  BY DEF Send
<1>6. ScanIdle => UNCHANGED OtherState /\ UNCHANGED <<emitted, flag, outbox, told, nudge, mishaps, due, steady>>
                 /\ scan.pc = "worker" /\ worker.st # "busy"
  BY DEF ScanIdle
<1>7. ScanPages => UNCHANGED OtherState /\ UNCHANGED <<worker, emitted, flag, outbox, told, nudge, closed, due, steady>>
                  /\ scan.pc = "pages"
  BY DEF ScanPages
<1>8. Hold => UNCHANGED OtherState /\ UNCHANGED <<worker, emitted, outbox, told, nudge, closed, mishaps, due, steady>>
             /\ scan.pc = "hold" /\ flag' = TRUE
  BY DEF Hold
<1>9. Rollup => UNCHANGED OtherState /\ UNCHANGED <<worker, emitted, outbox, told, mishaps, due, steady>>
               /\ scan.pc = "rollup"
  BY DEF Rollup
<1>10. Emit => UNCHANGED OtherState /\ UNCHANGED <<worker, emitted, flag, outbox, mishaps, due, steady>>
             /\ scan.pc = "print"
  BY DEF Emit
<1>11. Divert => UNCHANGED OtherState /\ UNCHANGED <<worker, emitted, flag, due, steady>>
               /\ scan.pc = "print"
  BY DEF Divert
<1>12. Drain => UNCHANGED OtherState /\ UNCHANGED <<worker, emitted, flag, told, nudge, mishaps, due, steady>>
              /\ scan.pc = "drain"
  BY DEF Drain
<1>13. Ends => UNCHANGED OtherState /\ UNCHANGED <<worker, flag, outbox, told, nudge, due>>
  BY DEF Ends, Save, LaneDead, Dies
<1> QED  BY <1>1, <1>2, <1>3, <1>4, <1>5, <1>6, <1>7, <1>8, <1>9, <1>10, <1>11, <1>12, <1>13

LEMMA WatchInitTypes == WatchInit => WatchTypeOK
<1> SUFFICES ASSUME WatchInit PROVE WatchTypeOK
  OBVIOUS
<1>1. 0 \in Times /\ MaxEvents \in Nat /\ MaxMishaps \in Nat
  BY ConstantsAre
<1>2. Nothing \in Emitted /\ Off \in Scans
  BY NothingIs
<1>3. told \in [Kinds -> [Times -> Nat]]
  BY <1>1 DEF WatchInit
<1> QED  BY <1>1, <1>2, <1>3 DEF WatchInit, WatchTypeOK, Whys

\* Every step leaves every variable in its type.
LEMMA WatchTypes ==
  ASSUME WatchTypeOK, ScanKeeps, InTime, [WatchNext]_watchVars
  PROVE  WatchTypeOK'
<1> USE ScansLeave DEF OtherState
<1>1. CASE ScanStart
  BY <1>1, StartIs DEF WatchTypeOK
<1>2. CASE ScanManager
  BY <1>2, ManagerIs DEF WatchTypeOK
<1>3. CASE WakeManager
  BY <1>3, WakeIs DEF WatchTypeOK
<1>4. CASE ScanBusy
  BY <1>4, BusyIs DEF WatchTypeOK, Passes
<1>5. CASE Send
  <2>1. nudge' \in [turn : Times \union {None}, at : Times, why : Whys, rung : Nat,
                    said : BOOLEAN, left : Nat]
    <3> DEFINE e == scan.next.pages["stalled"]
               rung == IF e = None THEN 0 ELSE e.level
               said == emitted.nudgeSent # now
    <3>1. e \in Entry \union {None} /\ scan.why \in Whys /\ mishaps \in Nat /\ worker.mtime \in Times /\ now \in Times
      BY DEF WatchTypeOK, Scans, Emitted, Kinds
    <3>2. rung \in Nat /\ said \in BOOLEAN
      BY <3>1 DEF Entry
    <3>3. nudge' = [turn |-> worker.mtime, at |-> now, why |-> scan.why, rung |-> rung, said |-> said,
                    left |-> mishaps]
      BY <1>5 DEF Send
    <3> HIDE DEF rung, said
    <3> QED  BY <3>1, <3>2, <3>3
  <2> QED  BY <1>5, <2>1, SendIs DEF WatchTypeOK
<1>6. CASE ScanIdle
  <2>1. closed' \in {"no", "line", "outbox", "told", "lost"}
        /\ worker' \in [st : {"idle", "busy", "gone"}, mtime : Times, active : Times,
                        banner : {"no", "plain", "reset"}, holds : {"no", "shell", "agents"}]
    BY <1>6, IdleIs DEF WatchTypeOK
  <2> QED  BY <1>6, <2>1, IdleIs DEF WatchTypeOK
<1>7. CASE ScanPages
  BY <1>7, PagesAre DEF WatchTypeOK
<1>8. CASE Hold
  BY <1>8, HoldIs DEF WatchTypeOK
<1>9. CASE Rollup
  <2>1. closed' \in {"no", "line", "outbox", "told", "lost"}
    BY <1>9, RollupIs DEF WatchTypeOK
  <2>2. scan' \in Scans /\ NudgeTypeOK' /\ flag' \in BOOLEAN
    BY <1>9, RollupIs
  <2> QED  BY <1>9, <2>1, <2>2 DEF WatchTypeOK, NudgeTypeOK
<1>10. CASE Emit
  <2>1. scan' \in Scans
    BY <1>10, EmitIs
  <2>2. PICK line \in Lines : Tell(line)
    BY <1>10, EmitIs
  <2>3. /\ told' \in [Kinds -> [Times -> Nat]] /\ NudgeTypeOK'
        /\ closed' = IF line.kind = "autoclosed" THEN "told" ELSE closed
    BY <2>2, TellIs
  <2> QED  BY <1>10, <2>1, <2>3 DEF WatchTypeOK, NudgeTypeOK
<1>11. CASE Divert
  <2>1. outbox' \subseteq Times /\ closed' \in {"no", "line", "outbox", "told", "lost"}
    BY <1>11, DivertIs DEF WatchTypeOK
  <2>2. scan' \in Scans /\ told' = told /\ nudge' = nudge /\ mishaps' \in Nat
    BY <1>11, DivertIs
  <2> QED  BY <1>11, <2>1, <2>2 DEF WatchTypeOK
<1>12. CASE Drain
  <2>1. outbox' \subseteq Times /\ closed' \in {"no", "line", "outbox", "told", "lost"}
    BY <1>12, DrainIs DEF WatchTypeOK
  <2> QED  BY <1>12, <2>1, DrainIs DEF WatchTypeOK
<1>13. CASE Ends
  <2>1. closed' \in {"no", "line", "outbox", "told", "lost"} /\ steady' \in BOOLEAN /\ mishaps' \in Nat
    BY <1>13, EndIs DEF WatchTypeOK, Lost, Ends
  <2>2. emitted' \in Emitted /\ scan' \in Scans
    BY <1>13, EndIs DEF Ends
  <2> QED  BY <1>13, <2>1, <2>2 DEF WatchTypeOK
<1>14. CASE Outside
  BY <1>14, OutsideIs DEF WatchTypeOK, OwnState
<1>15. CASE UNCHANGED watchVars
  BY <1>15 DEF WatchTypeOK, watchVars, wvars, lvars, ovars
<1> QED  BY <1>1, <1>2, <1>3, <1>4, <1>5, <1>6, <1>7, <1>8, <1>9, <1>10, <1>11, <1>12, <1>13, <1>14,
            <1>15, StepsAre

-----------------------------------------------------------------------------
(* What is owed to the manager *)

WatchOK == WatchTypeOK /\ WatchInv

\* A step between scans, or of the worker during one, moves the clock forward and
\* leaves the worker's turn younger than its last activity.
LEMMA OutsideTimes ==
  ASSUME WatchTypeOK, InTime, Outside
  PROVE  /\ worker'.mtime <= worker'.active /\ worker'.active <= now'
         /\ now' # now => now < now' /\ scan.pc = "off" /\ worker' = worker
         /\ now' = now /\ scan.pc = "off" => due' = due
         /\ scan.pc # "off" => due' = due /\ now' = now
<1>1. /\ now \in Nat /\ worker.mtime \in Nat /\ worker.active \in Nat
      /\ worker.mtime <= worker.active /\ worker.active <= now
      /\ worker \in [st : {"idle", "busy", "gone"}, mtime : Times, active : Times,
                     banner : {"no", "plain", "reset"}, holds : {"no", "shell", "agents"}]
  BY ConstantsAre DEF WatchTypeOK, InTime
<1>2. now' \in Nat
  BY OutsideIs, ConstantsAre
<1>3. CASE Tick \/ Sleep
  <2>1. now < now'
    BY <1>1, <1>3, ConstantsAre DEF Tick, Sleep
  <2>2. worker' = worker /\ scan.pc = "off"
    BY <1>3 DEF Tick, Sleep, Between, wvars
  <2>3. worker'.mtime <= worker'.active /\ worker'.active <= now'
    BY <1>1, <1>2, <2>1, <2>2
  <2>4. now' # now
    BY <1>1, <2>1
  <2> QED  BY <2>1, <2>2, <2>3, <2>4
<1>4. CASE ~Tick /\ ~Sleep
  <2>1. now' = now /\ due' = due
    BY <1>4 DEF Outside, Prompt, Works, TurnEnds, AgentsEnd, Ask, Answered, Appears, Limit, LaneEnds
  <2>2. worker'.mtime \in {worker.mtime, now} /\ worker'.active \in {worker.active, now}
        /\ (worker'.mtime = now => worker'.active = now)
    <3>1. CASE Prompt
      BY <1>1, <3>1 DEF Prompt
    <3>2. CASE Works
      BY <1>1, <3>2 DEF Works
    <3>3. CASE TurnEnds
      BY <1>1, <3>3 DEF TurnEnds
    <3>4. CASE AgentsEnd
      BY <1>1, <3>4 DEF AgentsEnd
    <3>5. CASE Ask \/ Answered
      BY <1>1, <3>5 DEF Ask, Answered
    <3>6. CASE worker' = worker
      BY <1>1, <3>6
    <3> QED  BY <1>4, <3>1, <3>2, <3>3, <3>4, <3>5, <3>6
             DEF Outside, Appears, Limit, LaneEnds, wvars
  <2> QED  BY <1>1, <2>1, <2>2
<1> QED  BY <1>3, <1>4

\* The turn the worker is in after such a step began now, or it was in it before.
LEMMA OutsideTurns ==
  ASSUME WatchTypeOK, InTime, Outside
  PROVE  /\ worker'.st = "busy" /\ worker'.mtime # now => worker.st = "busy" /\ worker'.mtime = worker.mtime
         /\ worker'.active # now => /\ worker'.active = worker.active /\ worker'.mtime = worker.mtime
                                    /\ worker'.st = worker.st
                                    /\ since'["question"] = since["question"]
         /\ scan.pc # "off" => /\ worker'.mtime = worker.mtime /\ worker'.st = worker.st
                               /\ since'["question"] # None /\ worker'.active = now
         /\ since["question"] # None /\ since'["question"] = None => scan.pc = "off"
<1>1. /\ since \in [{"question", "orphan", "approval"} -> Times \union {None}] /\ now # None
      /\ worker \in [st : {"idle", "busy", "gone"}, mtime : Times, active : Times,
                     banner : {"no", "plain", "reset"}, holds : {"no", "shell", "agents"}]
  BY ConstantsAre DEF WatchTypeOK
<1>2. CASE Prompt
  BY <1>1, <1>2 DEF Prompt, Between
<1>3. CASE Works
  BY <1>1, <1>3 DEF Works, Between
<1>4. CASE TurnEnds
  BY <1>1, <1>4 DEF TurnEnds, Between
<1>5. CASE AgentsEnd
  BY <1>1, <1>5 DEF AgentsEnd, Between
<1>6. CASE Ask
  BY <1>1, <1>6 DEF Ask
<1>7. CASE Answered
  BY <1>1, <1>7 DEF Answered, Between
<1>8. CASE Appears("orphan") \/ Appears("approval")
  BY <1>1, <1>8 DEF Appears, Between
<1>9. CASE Limit \/ LaneEnds \/ Tick \/ Sleep
  BY <1>1, <1>9 DEF Limit, LaneEnds, Tick, Sleep, Between, wvars
<1> QED  BY <1>2, <1>3, <1>4, <1>5, <1>6, <1>7, <1>8, <1>9 DEF Outside

\* Every step but the last of a scan keeps what the scan was started with.
LEMMA WrittenAhead ==
  ASSUME NEW e, NEW s, Wrote(e, s), s.next.tick = None, s.next.buffer = None
  PROVE  e.pages = s.was.pages /\ e.seen = s.was.seen /\ e.tick = s.was.tick /\ e.buffer = s.was.buffer
BY DEF Wrote, Newer

LEMMA KeepsStep ==
  ASSUME WatchOK, [WatchNext]_watchVars
  PROVE  ScanKeeps'
<1> USE ScansLeave DEF OtherState, OwnState
<1>1. WatchTypeOK /\ ScanKeeps /\ InTime
  BY DEF WatchOK, WatchInv
<1> USE DEF ScanKeeps, InScan, Ahead
<1>2. CASE ScanStart
  <2>1. Queued' = {}
    BY <1>1, <1>2, StartIs DEF Queued, ToSet
  <2>2. emitted' = emitted /\ due' = FALSE
    BY <1>2
  <2> QED  BY <1>1, <1>2, <2>1, <2>2, StartIs DEF Kinds
<1>3. CASE ScanManager
  <2>1. Queued' = Queued
    BY <1>1, <1>3, ManagerIs DEF Queued
  <2>2. /\ scan'.pc \in {"worker", "wakeManager"} /\ scan'.was = scan.was
        /\ scan'.next.tick = None /\ scan'.next.buffer = None
        /\ scan'.next.seen = scan.next.seen /\ scan'.next.nudgeSent = None /\ scan'.next.pages = scan.next.pages
        /\ emitted' = emitted \/ Wrote(emitted', scan')
    BY <1>1, <1>3, ManagerIs DEF SameScan, SameNext
  <2>3. /\ emitted'.pages = emitted.pages /\ emitted'.seen = emitted.seen /\ emitted'.tick = emitted.tick
        /\ emitted'.buffer = emitted.buffer
    BY <1>1, <1>3, <2>2, WrittenAhead
  <2> QED  BY <1>1, <1>3, <2>1, <2>2, <2>3
<1>4. CASE WakeManager
  <2>1. Queued' = Queued
    BY <1>1, <1>4, WakeIs DEF Queued
  <2> QED  BY <1>1, <1>4, <2>1, WakeIs DEF SameScan, SameNext
<1>5. CASE ScanBusy
  <2>1. Passes(scan') /\ (PassedBy \/ Noticed \/ Nudges)
    BY <1>1, <1>5, BusyIs
  <2>2. scan'.pc \in {"pages", "send"} /\ (emitted' = emitted \/ Wrote(emitted', scan'))
    BY <2>1 DEF PassedBy, Noticed, Nudges
  <2>3. scan'.next.tick = None /\ scan'.next.buffer = None /\ ~scan'.next.seen /\ scan'.was = scan.was
        /\ \A k \in Kinds \ {"stalled"} : scan'.next.pages[k] = None
    BY <1>1, <1>5, <2>1 DEF Passes
  <2>4. \A line \in Queued' : line.kind \in {"stalled", "nudged", "resumed", "autoclosed"}
    BY <2>1 DEF PassedBy, Noticed, Nudges, Recorded, ResumedLine, StalledLine, Line
  <2>5. /\ emitted'.pages = emitted.pages /\ emitted'.seen = emitted.seen /\ emitted'.tick = emitted.tick
        /\ emitted'.buffer = emitted.buffer
    BY <1>1, <1>5, <2>2, <2>3, WrittenAhead
  <2> QED  BY <1>1, <1>5, <2>2, <2>3, <2>4, <2>5
<1>6. CASE Send
  <2>1. \A line \in Queued' : line.kind \in {"stalled", "nudged", "resumed", "autoclosed"}
    BY <1>1, <1>6, SendIs DEF Line
  <2> QED  BY <1>1, <1>6, <2>1, SendIs DEF SameScan
<1>7. CASE ScanIdle
  <2>1. \A line \in Queued' : line.kind \in {"stalled", "nudged", "resumed", "autoclosed"}
    BY <1>1, <1>7, IdleIs DEF Line
  <2> QED  BY <1>1, <1>7, <2>1, IdleIs DEF SameScan
<1>8. CASE ScanPages
  BY <1>1, <1>8, PagesAre
<1>9. CASE Hold
  BY <1>1, <1>9, HoldIs
<1>10. CASE Rollup
  BY <1>1, <1>10, RollupIs
<1>11. CASE Emit
  BY <1>1, <1>11, EmitIs DEF SameNextState
<1>12. CASE Divert
  BY <1>1, <1>12, DivertIs DEF SameNextState
<1>13. CASE Drain
  BY <1>1, <1>13, DrainIs DEF SameNextState
<1>14. CASE Ends
  <2>1. scan' = Off
    BY <1>1, <1>14, EndIs DEF Ends
  <2> QED  BY <2>1 DEF Off, Nothing
<1>15. CASE Outside
  BY <1>1, <1>15, OutsideIs, OutsideTimes DEF Queued
<1>16. CASE UNCHANGED watchVars
  BY <1>1, <1>16 DEF watchVars, Queued
<1> QED  BY <1>2, <1>3, <1>4, <1>5, <1>6, <1>7, <1>8, <1>9, <1>10, <1>11, <1>12, <1>13, <1>14, <1>15,
            <1>16, StepsAre

\* The steps of a scan but the nudge leave the last nudge as it is, or say that
\* it was answered.
LEMMA NudgesKept ==
  ASSUME WatchTypeOK, ScanKeeps, InTime, [WatchNext]_watchVars, ~Send
  PROVE  /\ SameNudge /\ NudgeTypeOK /\ NudgeTypeOK' /\ (nudge.said => nudge'.said)
         /\ ~Rollup => nudge'.rung = nudge.rung
         /\ ~Rollup /\ ~Emit => nudge' = nudge
<1>1. NudgeTypeOK
  BY DEF WatchTypeOK, NudgeTypeOK
<1>2. CASE Rollup
  <2>1. ~Emit
    BY <1>2 DEF Rollup, Emit
  <2> QED  BY <1>1, <1>2, <2>1, RollupIs
<1>3. CASE Emit
  <2>1. PICK line \in Lines : Tell(line)
    BY <1>3, EmitIs
  <2>2. ~Rollup
    BY <1>3 DEF Rollup, Emit
  <2> QED  BY <1>1, <1>3, <2>1, <2>2, TellIs
<1>4. CASE ~Rollup /\ ~Emit
  <2>1. nudge' = nudge
    BY <1>4, StepsAre, ScansLeave, DivertIs, OutsideIs DEF OwnState, watchVars, ovars
  <2> QED  BY <1>1, <1>4, <2>1 DEF SameNudge, NudgeTypeOK
<1> QED  BY <1>2, <1>3, <1>4

\* Nothing that went wrong is undone.
LEMMA MishapsFall ==
  ASSUME WatchTypeOK, ScanKeeps, InTime, [WatchNext]_watchVars
  PROVE  mishaps \in Nat /\ mishaps' \in Nat /\ mishaps' <= mishaps
<1>1. mishaps \in Nat /\ mishaps' \in Nat
  BY WatchTypes DEF WatchTypeOK
<1>2. ScanManager => mishaps' <= mishaps
  BY ManagerIs
<1>3. ScanBusy => mishaps' <= mishaps
  BY BusyIs
<1>4. ScanPages => mishaps' <= mishaps
  BY PagesAre
<1>5. Divert => mishaps' <= mishaps
  BY DivertIs
<1>6. ASSUME Ends PROVE mishaps' <= mishaps
  <2>1. mishaps' = mishaps \/ Lost
    BY <1>6, EndIs DEF Ends
  <2> QED  BY <1>1, <2>1 DEF Lost
<1>7. ~(ScanManager \/ ScanBusy \/ ScanPages \/ Divert \/ Ends) => mishaps' = mishaps
  BY StepsAre, ScansLeave, OutsideIs DEF OwnState, watchVars
<1> QED  BY <1>1, <1>2, <1>3, <1>4, <1>5, <1>6, <1>7

LEMMA TimesStep ==
  ASSUME WatchOK, [WatchNext]_watchVars
  PROVE  InTime'
<1>1. WatchTypeOK /\ ScanKeeps /\ InTime
  BY DEF WatchOK, WatchInv
<1>2. WatchTypeOK'
  BY <1>1, WatchTypes
<1>3. /\ now \in Nat /\ now' \in Nat /\ worker.mtime \in Nat /\ worker.active \in Nat /\ worker.mtime # None
      /\ worker'.mtime \in Nat /\ worker'.active \in Nat
      /\ nudge.turn \in Nat \union {None} /\ nudge.at \in Nat /\ nudge.left \in Nat
      /\ nudge'.turn \in Nat \union {None} /\ nudge'.at \in Nat /\ nudge'.left \in Nat /\ None \notin Nat
  BY <1>1, <1>2, ConstantsAre DEF WatchTypeOK
<1>4. mishaps \in Nat /\ mishaps' \in Nat /\ mishaps' <= mishaps
  BY <1>1, MishapsFall
<1>5. worker'.mtime <= worker'.active /\ worker'.active <= now'
  <2>1. CASE Outside
    BY <1>1, <2>1, OutsideTimes
  <2>2. CASE ScanIdle
    <3>1. now' = now /\ (worker' = worker \/ worker' = [worker EXCEPT !.st = "gone"])
      BY <1>1, <2>2, IdleIs, ScansLeave DEF OtherState
    <3>2. worker'.mtime = worker.mtime /\ worker'.active = worker.active
      BY <1>1, <3>1 DEF WatchTypeOK
    <3> QED  BY <1>1, <3>1, <3>2 DEF InTime
  <2>3. CASE ~Outside /\ ~ScanIdle
    <3>1. now' = now /\ worker' = worker
      BY <2>3, StepsAre, ScansLeave DEF OtherState, watchVars, wvars
    <3> QED  BY <1>1, <3>1 DEF InTime
  <2> QED  BY <2>1, <2>2, <2>3
<1>6. CASE Send
  <2>1. /\ nudge'.turn = worker.mtime /\ nudge'.at = now /\ nudge'.left = mishaps /\ now' = now
        /\ mishaps' = mishaps /\ due' = due /\ ~due /\ scan'.pc = "pages"
    BY <1>1, <1>6, SendIs, ScansLeave DEF Send, OtherState, ScanKeeps, InScan
  <2> QED  BY <1>1, <1>3, <1>4, <1>5, <2>1 DEF InTime, Ahead
<1>7. CASE ~Send
  <2>1. nudge'.turn = nudge.turn /\ nudge'.at = nudge.at /\ nudge'.left = nudge.left
    BY <1>1, <1>7, NudgesKept DEF SameNudge
  <2>2. nudge.turn # None => nudge.turn <= nudge.at /\ nudge.at <= now /\ now <= now'
    <3>1. now <= now'
      <4>1. CASE Outside
        BY <1>1, <4>1, OutsideIs
      <4>2. CASE ~Outside
        BY <1>3, <4>2, StepsAre, ScansLeave DEF OtherState, watchVars
      <4> QED  BY <4>1, <4>2
    <3> QED  BY <1>1, <3>1 DEF InTime
  <2>3. ASSUME nudge.turn # None, nudge.at = now'
        PROVE  ~due' /\ ~Ahead' /\ scan'.pc # "send"
    <3>1. now' = now /\ ~due /\ ~Ahead /\ scan.pc # "send"
      BY <1>1, <1>3, <2>2, <2>3 DEF InTime
    <3>2. CASE Outside
      BY <1>1, <3>1, <3>2, OutsideIs, OutsideTimes, <1>3 DEF OwnState, Ahead
    <3>3. CASE Ends
      <4>1. scan'.pc = "off" /\ due' = due
        BY <1>1, <3>3, EndIs, ScansLeave DEF Ends, Off
      <4> QED  BY <3>1, <4>1 DEF Ahead
    <3>4. CASE ScanPages \/ Hold \/ Rollup \/ Emit \/ Divert \/ Drain
      <4>1. due' = due /\ scan'.pc \in {"hold", "rollup", "commit", "print", "drain"}
        BY <1>1, <3>4, ScansLeave, PagesAre, HoldIs, RollupIs, EmitIs, DivertIs, DrainIs
      <4> QED  BY <3>1, <4>1 DEF Ahead
    <3>5. CASE UNCHANGED watchVars
      BY <3>1, <3>5 DEF watchVars, Ahead
    <3> QED  BY <1>7, <3>1, <3>2, <3>3, <3>4, <3>5, StepsAre, ScansLeave DEF Ahead
  <2>4. mishaps' <= nudge.left \/ nudge.turn = None
    BY <1>1, <1>3, <1>4 DEF InTime
  <2> QED  BY <1>3, <1>5, <2>1, <2>2, <2>3, <2>4 DEF InTime
<1> QED  BY <1>6, <1>7

\* The emitted state keeps its pages and its buffer until a scan is complete.
LEMMA LedgerIs ==
  ASSUME WatchOK, [WatchNext]_watchVars
  PROVE  \/ /\ emitted'.pages = emitted.pages /\ emitted'.buffer = emitted.buffer /\ emitted'.seen = emitted.seen
            /\ \/ emitted'.tick = emitted.tick
               \/ emitted'.tick = scan.next.tick /\ scan.pc \in {"rollup", "print", "drain"} /\ Ends /\ Lost
         \/ Ends /\ scan.pc = "commit" /\ emitted' = scan.next /\ closed' = closed /\ mishaps' = mishaps
            /\ steady' = (alive /\ Judged)
<1>1. WatchTypeOK /\ ScanKeeps /\ InTime
  BY DEF WatchOK, WatchInv
<1>2. CASE ScanManager
  <2>1. emitted' = emitted \/ Wrote(emitted', scan')
    BY <1>1, <1>2, ManagerIs
  <2>2. scan'.was = scan.was /\ scan'.next.tick = None /\ scan'.next.buffer = None
    BY <1>1, <1>2, ManagerIs, ScansLeave DEF SameScan, SameNext, ScanKeeps, Ahead
  <2>3. scan.was.pages = emitted.pages /\ scan.was.buffer = emitted.buffer
        /\ scan.was.tick = emitted.tick /\ scan.was.seen = emitted.seen
    BY <1>1, <1>2, ScansLeave DEF ScanKeeps, InScan
  <2> QED  BY <2>1, <2>2, <2>3, WrittenAhead
<1>3. CASE ScanBusy
  <2>1. Passes(scan') /\ (PassedBy \/ Noticed \/ Nudges)
    BY <1>1, <1>3, BusyIs
  <2>2. emitted' = emitted \/ Wrote(emitted', scan')
    BY <2>1 DEF PassedBy, Noticed, Nudges
  <2>3. scan'.was = scan.was /\ scan'.next.tick = None /\ scan'.next.buffer = None
    BY <1>1, <1>3, <2>1, ScansLeave DEF Passes, ScanKeeps, Ahead
  <2>4. scan.was.pages = emitted.pages /\ scan.was.buffer = emitted.buffer
        /\ scan.was.tick = emitted.tick /\ scan.was.seen = emitted.seen
    BY <1>1, <1>3, ScansLeave DEF ScanKeeps, InScan
  <2> QED  BY <2>2, <2>3, <2>4, WrittenAhead
<1>4. CASE Ends
  <2>1. \/ /\ scan.pc = "commit" /\ emitted' = scan.next /\ steady' = (alive /\ Judged)
           /\ closed' = closed /\ mishaps' = mishaps
        \/ emitted' = emitted
        \/ Lost /\ Wrote(emitted', scan) /\ scan.pc \in {"rollup", "print", "drain"}
    BY <1>1, <1>4, EndIs DEF Ends
  <2>2. CASE Lost /\ Wrote(emitted', scan) /\ scan.pc \in {"rollup", "print", "drain"}
    <3>1. scan.was.pages = emitted.pages /\ scan.was.buffer = emitted.buffer
          /\ scan.was.tick = emitted.tick /\ scan.was.seen = emitted.seen /\ scan.next.buffer = None
      BY <1>1, <2>2 DEF ScanKeeps, InScan
    <3> QED  BY <1>4, <2>2, <3>1 DEF Wrote, Newer
  <2> QED  BY <1>4, <2>1, <2>2
<1>5. CASE ~ScanManager /\ ~ScanBusy /\ ~Ends
  <2>1. emitted' = emitted
    BY <1>1, <1>5, StepsAre, ScansLeave, OutsideIs DEF OwnState, watchVars
  <2> QED  BY <2>1
<1> QED  BY <1>2, <1>3, <1>4, <1>5

LEMMA ToldGrows ==
  ASSUME WatchOK, [WatchNext]_watchVars
  PROVE  \A k \in Kinds, id \in Times :
            told[k][id] \in Nat /\ told'[k][id] \in Nat /\ told'[k][id] >= told[k][id]
<1>1. WatchTypeOK /\ ScanKeeps /\ InTime
  BY DEF WatchOK, WatchInv
<1>2. told \in [Kinds -> [Times -> Nat]] /\ told' \in [Kinds -> [Times -> Nat]]
  BY <1>1, WatchTypes DEF WatchTypeOK
<1>3. CASE Send
  BY <1>1, <1>2, <1>3, SendIs
<1>4. CASE Emit
  <2>1. PICK line \in Lines : Tell(line)
    BY <1>4, <1>1, EmitIs
  <2> QED  BY <1>1, <1>2, <2>1, TellIs
<1>5. CASE ~Send /\ ~Emit
  <2>1. told' = told
    BY <1>1, <1>5, StepsAre, ScansLeave, DivertIs, OutsideIs DEF OwnState, watchVars, ovars
  <2> QED  BY <1>2, <2>1
<1> QED  BY <1>3, <1>4, <1>5

\* What a scan has of a page it is going to write.
PageIsKept(k) ==
    LET e == scan.next.pages[k] IN
    e # None /\ e.level > 0 =>
       \/ PageIsTold(k, e)
       \/ \E line \in Queued : line.kind = k /\ line.id = e.id /\ line.level >= e.level
       \/ PageIsIn(HeldNow, k, e)
       \/ PageIsIn(Written, k, e)
       \/ k = "stalled" /\ scan.pc = "send"

\* A page that was on record before the scan is kept by it.
LEMMA PagesOnRecord ==
  ASSUME WatchOK, Holding, NEW k \in Kinds, NEW id \in Times, NEW level \in Nat, level > 0,
         OnRecord(k, id), scan.was.pages[k].level >= level
  PROVE  told[k][id] >= level \/ \E line \in Held : line.kind = k /\ line.id = id
<1>1. scan.was.pages = emitted.pages /\ scan.was.buffer = emitted.buffer
  BY DEF WatchOK, WatchInv, ScanKeeps, InScan, Holding
<1> DEFINE e == emitted.pages[k]
<1>2. e # None /\ e.id = id /\ e.level >= level
  BY <1>1 DEF OnRecord
<1>3. e \in Entry /\ told[k][id] \in Nat
  BY <1>2 DEF WatchOK, WatchTypeOK, Emitted
<1>4. told[k][id] >= e.level \/ \E line \in Buffered(emitted) : line.kind = k /\ line.id = id
  <2>1. e.level > 0
    BY <1>2, <1>3 DEF Entry
  <2> QED  BY <1>2, <2>1 DEF WatchOK, WatchInv, PagesOwed, PageIsTold, PageIsIn
<1>5. Buffered(emitted) = Held
  BY <1>1 DEF Buffered, Held
<1> HIDE DEF e
<1>6. CASE told[k][id] >= e.level
  BY <1>2, <1>3, <1>6 DEF Entry
<1> QED  BY <1>4, <1>5, <1>6

LEMMA PagesKept ==
  ASSUME WatchOK, [WatchNext]_watchVars, InScan', NEW k \in Kinds
  PROVE  PageIsKept(k)'
<1>1. WatchTypeOK /\ ScanKeeps /\ InTime /\ PagesOwed
  BY DEF WatchOK, WatchInv
<1>2. InScan => PageIsKept(k)
  BY <1>1 DEF PagesOwed, PageIsKept
<1>3. WatchTypeOK' /\ ScanKeeps'
  BY <1>1, WatchTypes, KeepsStep
<1> DEFINE e == scan.next.pages[k]
           d == scan'.next.pages[k]
<1>4. SUFFICES ASSUME d # None, d.level > 0
               PROVE  \/ told'[k][d.id] >= d.level
                      \/ \E line \in Queued' : line.kind = k /\ line.id = d.id /\ line.level >= d.level
                      \/ PageIsIn(HeldNow', k, d)
                      \/ PageIsIn(Written', k, d)
                      \/ k = "stalled" /\ scan'.pc = "send"
  BY DEF PageIsKept, PageIsTold
<1>5. d \in Entry /\ d.id \in Times /\ d.level \in Nat
  BY <1>3, <1>4 DEF WatchTypeOK, Scans, Emitted, Entry
<1>6. told[k][d.id] \in Nat /\ told'[k][d.id] \in Nat /\ told'[k][d.id] >= told[k][d.id]
  BY <1>5, ToldGrows
<1> USE ScansLeave DEF OtherState
<1>7. CASE ScanStart \/ ScanManager \/ WakeManager
  <2>1. Ahead'
    BY <1>1, <1>7, StartIs, ManagerIs, WakeIs DEF Ahead
  <2>2. d = None
    BY <1>3, <2>1 DEF ScanKeeps
  <2> QED  BY <1>4, <2>2
<1>8. CASE ScanBusy
  <2>1. Passes(scan') /\ (PassedBy \/ Noticed \/ Nudges) /\ scan.pc = "worker"
    BY <1>1, <1>8, BusyIs
  <2>2. k = "stalled"
    BY <1>1, <1>4, <2>1 DEF Passes, ScanKeeps, Ahead
  <2>3. CASE Nudges
    BY <2>2, <2>3 DEF Nudges
  <2>4. CASE Noticed
    <3>1. Rung # 0 /\ d = NewEntry(worker.mtime, now, Rung) /\ Queued' = ResumedLine \union StalledLine
      BY <1>4, <2>2, <2>4 DEF Noticed, Recorded
    <3>2. d.id = worker.mtime /\ d.level = Rung /\ scan'.pc = "pages" /\ (scan.blocked \/ ~NewRung)
      BY <2>4, <3>1 DEF Noticed, NewEntry
    <3>3. CASE NewRung
      <4>1. Line("stalled", worker.mtime, Rung) \in Queued'
        BY <3>1, <3>2, <3>3 DEF StalledLine
      <4>2. d.level >= d.level
        BY <1>5
      <4> QED  BY <2>2, <3>2, <4>1, <4>2 DEF Line
    <3>4. CASE ~NewRung
      <4>1. Level("stalled", d.id) \in Nat /\ Level("stalled", d.id) >= d.level
        BY <1>1, <1>5, <3>2, <3>4, RungIs DEF NewRung
      <4>2. Level("stalled", d.id) > 0
        BY <1>4, <1>5, <4>1
      <4>3. OnRecord(k, d.id) /\ scan.was.pages[k].level >= d.level
        BY <1>1, <2>2, <4>1, <4>2, LevelIs
      <4>4. Holding
        BY <2>1 DEF Holding
      <4>5. told[k][d.id] >= d.level \/ \E line \in Held : line.kind = k /\ line.id = d.id
        BY <1>4, <1>5, <4>3, <4>4, PagesOnRecord
      <4>6. HeldNow' = Held
        BY <2>1, <3>2 DEF Passes, HeldNow, Held, Holding
      <4>7. CASE told[k][d.id] >= d.level
        BY <1>5, <1>6, <4>7
      <4> QED  BY <4>5, <4>6, <4>7 DEF PageIsIn
    <3> QED  BY <3>3, <3>4
  <2>5. ~PassedBy
    BY <1>4, <2>2 DEF PassedBy
  <2> QED  BY <2>1, <2>3, <2>4, <2>5
<1>9. CASE Send
  <2>1. scan'.pc = "pages" /\ scan'.next.pages = scan.next.pages
    BY <1>1, <1>9, SendIs
  <2>2. k = "stalled"
    BY <1>3, <1>4, <2>1 DEF ScanKeeps
  <2> HIDE DEF d
  <2>3. scan.next.pages["stalled"] = d
    BY <2>1, <2>2 DEF d
  <2> QED  BY <1>1, <1>4, <1>9, <2>2, <2>3, SendIs
<1>10. CASE ScanIdle
  <2>1. scan.pc = "worker" /\ scan'.next = scan.next
    BY <1>1, <1>10, IdleIs
  <2>2. e = None
    BY <1>1, <2>1 DEF ScanKeeps, Ahead
  <2> QED  BY <1>4, <2>1, <2>2
<1>11. CASE ScanPages
  <2>1. /\ scan.pc = "pages" /\ scan'.pc \in {"hold", "rollup"} /\ scan'.was = scan.was
        /\ scan'.next.pages["stalled"] = scan.next.pages["stalled"]
        /\ \A j \in Kinds \ {"stalled"} : scan'.next.pages[j] = None \/ Heard(scan', j)
        /\ Queued \subseteq Queued'
    BY <1>1, <1>11, PagesAre
  <2>2. HeldNow = Held /\ HeldNow' = Held /\ Written = {} /\ Holding
    BY <2>1 DEF HeldNow, Held, Holding, Written
  <2>3. CASE k = "stalled"
    <3>1. e = d /\ PageIsKept(k)
      BY <1>2, <2>1, <2>3 DEF InScan
    <3>2. \/ told[k][d.id] >= d.level
          \/ \E line \in Queued : line.kind = k /\ line.id = d.id /\ line.level >= d.level
          \/ PageIsIn(HeldNow, k, d)
      BY <1>4, <2>1, <2>2, <3>1 DEF PageIsKept, PageIsTold, PageIsIn
    <3>3. CASE told[k][d.id] >= d.level
      BY <1>5, <1>6, <3>3
    <3> QED  BY <2>1, <2>2, <3>2, <3>3
  <2>4. CASE k # "stalled"
    <3>1. Heard(scan', k)
      BY <1>4, <2>1, <2>4
    <3>2. CASE \E line \in ToSet(scan'.lines) : line.kind = k /\ line.id = d.id /\ line.level >= d.level
      BY <3>2 DEF Queued
    <3>3. CASE OnRecord(k, d.id) /\ scan.was.pages[k].level >= d.level
      <4>1. told[k][d.id] >= d.level \/ \E line \in Held : line.kind = k /\ line.id = d.id
        BY <1>4, <1>5, <2>2, <3>3, PagesOnRecord
      <4>2. CASE told[k][d.id] >= d.level
        BY <1>5, <1>6, <4>2
      <4> QED  BY <2>2, <4>1, <4>2 DEF PageIsIn
    <3> QED  BY <1>4, <3>1, <3>2, <3>3 DEF Heard
  <2> QED  BY <2>3, <2>4
\* The other steps write no page.
<1>12. ASSUME InScan, d = e, scan.pc # "send"
       PROVE  \/ told[k][d.id] >= d.level
              \/ \E line \in Queued : line.kind = k /\ line.id = d.id /\ line.level >= d.level
              \/ PageIsIn(HeldNow, k, d)
              \/ PageIsIn(Written, k, d)
  BY <1>2, <1>4, <1>12 DEF PageIsKept, PageIsTold, PageIsIn
<1>13. told[k][d.id] >= d.level => told'[k][d.id] >= d.level
  BY <1>5, <1>6
<1>14. CASE Hold
  <2>1. /\ scan.pc = "hold" /\ scan'.pc = "commit" /\ d = e /\ scan'.next.buffer = [lines |-> Held \union Queued]
        /\ scan'.next.buffer # None
    BY <1>1, <1>14, HoldIs
  <2>2. Written' = Held \union Queued
    BY <2>1 DEF Written, Buffered
  <2> QED  BY <1>12, <1>13, <2>1, <2>2 DEF InScan, HeldNow, Holding, Written, PageIsIn
<1>15. CASE Rollup
  <2>1. /\ scan.pc = "rollup" /\ scan'.pc = "print" /\ Queued' = Queued
        /\ ~Suppressed(k, e) => d = e
        /\ Suppressed(k, e) => d = None \/ d.level = 0
    BY <1>1, <1>15, RollupIs
  <2>2. ~Suppressed(k, e) /\ d = e
    BY <1>4, <1>5, <2>1
  <2>3. ~PageIsIn(HeldNow, k, d) /\ ~PageIsIn(Written, k, d)
    BY <1>4, <2>1, <2>2 DEF Suppressed, HeldNow, Holding, Written, PageIsIn
  <2> QED  BY <1>12, <1>13, <2>1, <2>2, <2>3 DEF InScan
<1>16. CASE Emit
  <2>1. scan.pc = "print" /\ scan'.pc = "print" /\ d = e
    BY <1>1, <1>16, EmitIs DEF SameNextState
  <2>2. PICK line \in Lines : Tell(line) /\ Queued \subseteq Queued' \union {line}
    BY <1>1, <1>16, EmitIs
  <2>3. ~PageIsIn(HeldNow, k, d) /\ ~PageIsIn(Written, k, d)
    BY <2>1 DEF HeldNow, Holding, Written, PageIsIn
  <2>4. CASE told[k][d.id] >= d.level
    BY <1>13, <2>4
  <2>5. ASSUME NEW l \in Queued, l.kind = k, l.id = d.id, l.level >= d.level, l = line
        PROVE  told'[k][d.id] >= d.level
    <3>1. told'[k][d.id] >= line.level /\ line.level \in Nat
      BY <1>1, <2>2, <2>5, TellIs DEF Lines
    <3> QED  BY <1>5, <1>6, <2>5, <3>1
  <2> QED  BY <1>12, <2>1, <2>2, <2>3, <2>4, <2>5 DEF InScan
<1>17. CASE Divert
  <2>1. scan.pc = "print" /\ d = e /\ \A line \in Queued : line.kind = "autoclosed"
    BY <1>1, <1>17, DivertIs DEF SameNextState
  <2>2. ~PageIsIn(HeldNow, k, d) /\ ~PageIsIn(Written, k, d)
    BY <2>1 DEF HeldNow, Holding, Written, PageIsIn
  <2> QED  BY <1>12, <1>13, <2>1, <2>2 DEF InScan, Kinds
<1>18. CASE Drain
  <2>1. scan.pc = "drain" /\ d = e /\ Queued' = Queued
    BY <1>1, <1>18, DrainIs DEF SameNextState
  <2>2. ~PageIsIn(HeldNow, k, d) /\ ~PageIsIn(Written, k, d)
    BY <2>1 DEF HeldNow, Holding, Written, PageIsIn
  <2> QED  BY <1>12, <1>13, <2>1, <2>2 DEF InScan
<1>19. ~Ends
  BY <1>1, EndIs DEF Ends, Off, InScan
<1>20. CASE scan' = scan
  <2>1. InScan /\ d = e /\ Queued' = Queued /\ HeldNow' = HeldNow /\ Written' = Written
    BY <1>20 DEF InScan, Queued, HeldNow, Holding, Held, Written
  <2> QED  BY <1>2, <1>4, <1>13, <1>20, <2>1 DEF PageIsKept, PageIsTold, PageIsIn
<1>21. Outside \/ UNCHANGED watchVars => scan' = scan
  BY <1>1, OutsideIs DEF OwnState, watchVars
<1> QED  BY <1>7, <1>8, <1>9, <1>10, <1>11, <1>14, <1>15, <1>16, <1>17, <1>18, <1>19, <1>20, <1>21, StepsAre

LEMMA PagesStep ==
  ASSUME WatchOK, [WatchNext]_watchVars
  PROVE  PagesOwed'
<1>1. WatchTypeOK /\ ScanKeeps /\ InTime /\ PagesOwed
  BY DEF WatchOK, WatchInv
<1>2. ASSUME NEW k \in Kinds, emitted'.pages[k] # None, emitted'.pages[k].level > 0
      PROVE  LET d == emitted'.pages[k] IN
             told'[k][d.id] >= d.level \/ PageIsIn(Buffered(emitted'), k, d)
  <2> DEFINE d == emitted'.pages[k]
  <2>1. d.id \in Times /\ d.level \in Nat
    BY <1>1, <1>2, WatchTypes DEF WatchTypeOK, Emitted, Entry
  <2>2. told[k][d.id] >= d.level \/ PageIsIn(Buffered(emitted'), k, d)
    <3>1. CASE emitted'.pages = emitted.pages /\ emitted'.buffer = emitted.buffer
      BY <1>1, <1>2, <3>1 DEF PagesOwed, PageIsTold, PageIsIn, Buffered
    <3>2. CASE scan.pc = "commit" /\ emitted' = scan.next
      <4>1. Queued = {} /\ HeldNow = {} /\ Written = Buffered(emitted')
        BY <1>1, <3>2 DEF ScanKeeps, HeldNow, Holding, Written
      <4> QED  BY <1>1, <1>2, <3>2, <4>1 DEF PagesOwed, InScan, PageIsTold, PageIsIn
    <3> QED  BY <3>1, <3>2, LedgerIs
  <2>3. told[k][d.id] \in Nat /\ told'[k][d.id] \in Nat /\ told'[k][d.id] >= told[k][d.id]
    BY <2>1, ToldGrows
  <2> HIDE DEF d
  <2> QED  BY <2>1, <2>2, <2>3 DEF d
<1>3. InScan' => \A k \in Kinds : PageIsKept(k)'
  BY PagesKept
<1>4. PagesOwed <=> /\ \A k \in Kinds : LET e == emitted.pages[k] IN
                         e # None /\ e.level > 0 => PageIsTold(k, e) \/ PageIsIn(Buffered(emitted), k, e)
                    /\ InScan => \A k \in Kinds : PageIsKept(k)
  BY DEF PagesOwed, PageIsKept
<1> QED  BY <1>2, <1>3 DEF PagesOwed, PageIsKept, PageIsTold, PageIsIn, Buffered

-----------------------------------------------------------------------------
(* The answer to a nudge, and the close of a worker *)

\* No step but a nudge makes another answer owed.
LEMMA OwedKept ==
  ASSUME WatchOK, [WatchNext]_watchVars, ~Send, Owed'
  PROVE  /\ Owed /\ nudge'.at = nudge.at /\ nudge.at \in Nat /\ nudge.at <= now
         /\ (now' = now \/ ~InScan)
<1>1. WatchTypeOK /\ ScanKeeps /\ InTime
  BY DEF WatchOK, WatchInv
<1>2. SameNudge /\ NudgeTypeOK /\ (nudge.said => nudge'.said) /\ (nudge'.said \in BOOLEAN) /\ nudge.said \in BOOLEAN
  BY <1>1, NudgesKept DEF NudgeTypeOK
<1>3. ~nudge.said /\ nudge.turn # None /\ nudge.turn \in Nat /\ nudge.turn <= nudge.at /\ nudge.at <= now
      /\ nudge.at \in Nat /\ now \in Nat /\ now' \in Nat
  <2>1. now' \in Nat
    BY <1>1, WatchTypes, ConstantsAre DEF WatchTypeOK
  <2> QED  BY <1>1, <1>2, <2>1, ConstantsAre DEF Owed, SameNudge, NudgeTypeOK, InTime, WatchTypeOK
<1>4. now' = now \/ (now < now' /\ worker' = worker /\ ~InScan)
  <2>1. CASE Outside
    BY <1>1, <2>1, OutsideTimes DEF InScan
  <2>2. CASE ~Outside
    BY <2>2, StepsAre, ScansLeave DEF OtherState, watchVars
  <2> QED  BY <2>1, <2>2
<1>5. nudge.turn = now \/ (worker.st = "busy" /\ worker.mtime = nudge.turn)
  <2>1. nudge.turn = now' \/ (worker'.st = "busy" /\ worker'.mtime = nudge.turn)
    BY <1>2 DEF Owed, SameNudge
  <2>2. CASE now < now' /\ worker' = worker
    BY <1>3, <2>1, <2>2
  <2>3. CASE now' = now
    <3>1. CASE Outside
      BY <1>1, <2>1, <2>3, <3>1, OutsideTurns
    <3>2. CASE ScanIdle
      BY <1>1, <2>1, <2>3, <3>2, IdleIs DEF WatchTypeOK
    <3>3. CASE ~Outside /\ ~ScanIdle
      <4>1. worker' = worker
        BY <3>3, StepsAre, ScansLeave DEF watchVars, wvars
      <4> QED  BY <2>1, <2>3, <4>1
    <3> QED  BY <3>1, <3>2, <3>3
  <2> QED  BY <1>4, <2>2, <2>3
<1> QED  BY <1>2, <1>3, <1>4, <1>5 DEF Owed, SameNudge

\* What the ledger holds of an answer, and what the scan does.
OnRecordYet == OnLedger(scan.was) \/ scan.next.nudgeSent = now
InHand == SentSince(scan.next.nudgeSent) \/ AnswerIn(Queued) \/ AnswerIn(HeldNow) \/ AnswerIn(Written)

\* A scan holds on to a nudge that is not answered.
LEMMA AnswersKept ==
  ASSUME WatchOK, [WatchNext]_watchVars, ~Send, InScan, InScan', Owed'
  PROVE  /\ OnRecordYet'
         /\ ~Ahead' /\ scan'.pc # "send" => InHand'
<1>1. WatchTypeOK /\ ScanKeeps /\ InTime /\ AnswersOwed
  BY DEF WatchOK, WatchInv
<1>2. Owed /\ nudge'.at = nudge.at /\ nudge.at \in Nat /\ nudge.at <= now /\ now' = now /\ now \in Nat
  BY <1>1, OwedKept, ConstantsAre DEF WatchTypeOK
<1>3. OnRecordYet /\ (~Ahead /\ scan.pc # "send" => InHand)
  BY <1>1, <1>2 DEF AnswersOwed, OnRecordYet, InHand
<1>4. now # None
  BY <1>2, ConstantsAre
<1> USE ScansLeave DEF OtherState
<1>5. CASE ScanStart
  BY <1>5 DEF InScan
<1>6. CASE ScanManager \/ WakeManager
  <2>1. scan'.was = scan.was /\ scan'.next.nudgeSent = scan.next.nudgeSent /\ Ahead'
    BY <1>1, <1>6, ManagerIs, WakeIs DEF SameScan, SameNext, Ahead
  <2> QED  BY <1>2, <1>3, <2>1 DEF OnRecordYet, OnLedger, SentSince, AnswerIn, Buffered
<1>7. CASE ScanBusy
  <2>1. Passes(scan') /\ (PassedBy \/ Noticed \/ Nudges) /\ scan.pc = "worker"
    BY <1>1, <1>7, BusyIs
  <2>2. OnLedger(scan.was)
    BY <1>1, <1>3, <1>4, <2>1 DEF OnRecordYet, ScanKeeps, Ahead
  <2>3. scan'.was = scan.was
    BY <2>1 DEF Passes
  <2>4. CASE Nudges
    BY <1>2, <2>4 DEF Nudges, OnRecordYet
  <2>5. Buffered(scan.was) = Held
    BY DEF Buffered, Held
  <2>6. CASE PassedBy
    <3>1. AnswerIn(Held)
      BY <2>2, <2>5, <2>6 DEF PassedBy, OnLedger, SentSince
    <3>2. HeldNow' = Held
      BY <2>3, <2>6 DEF PassedBy, HeldNow, Holding, Held
    <3> QED  BY <1>2, <2>2, <2>3, <3>1, <3>2 DEF OnRecordYet, InHand, OnLedger, SentSince, AnswerIn, Buffered
  <2>7. CASE Noticed
    <3>1. HeldNow' = Held /\ scan'.next.nudgeSent = StillSent /\ ResumedLine \subseteq Queued'
      BY <2>3, <2>7 DEF Noticed, Recorded, HeldNow, Holding, Held
    <3>2. SentSince(scan.was.nudgeSent) => SentSince(scan'.next.nudgeSent) \/ AnswerIn(Queued')
      BY <3>1 DEF SentSince, AnswerIn, StillSent, ResumedLine, Line
    <3>3. SentSince(scan'.next.nudgeSent) \/ AnswerIn(Queued') \/ AnswerIn(Held)
      BY <2>2, <2>5, <3>2 DEF OnLedger
    <3> QED  BY <1>2, <2>2, <2>3, <3>1, <3>3 DEF OnRecordYet, InHand, OnLedger, SentSince, AnswerIn, Buffered
  <2> QED  BY <2>1, <2>4, <2>6, <2>7
<1>8. CASE ScanIdle
  <2>1. scan.pc = "worker" /\ worker.st # "busy" /\ nudge.turn # None
    BY <1>2, <1>8 DEF Owed
  <2>2. nudge.turn = now
    BY <1>2, <2>1 DEF Owed
  <2>3. nudge.at # now
    BY <1>1, <2>1 DEF InTime, Ahead
  <2> QED  BY <1>1, <1>2, <2>1, <2>2, <2>3 DEF InTime
<1>9. CASE ScanPages
  <2>1. /\ scan.pc = "pages" /\ scan'.pc \in {"hold", "rollup"} /\ scan'.was = scan.was
        /\ scan'.next.nudgeSent = scan.next.nudgeSent /\ Queued \subseteq Queued'
    BY <1>1, <1>9, PagesAre
  <2>2. HeldNow' = HeldNow /\ Written = {}
    BY <2>1 DEF HeldNow, Held, Holding, Written
  <2>3. InHand
    BY <1>3, <2>1 DEF Ahead
  <2>4. AnswerIn(Queued) => AnswerIn(Queued')
    BY <2>1 DEF AnswerIn
  <2> QED  BY <1>2, <1>3, <2>1, <2>2, <2>3, <2>4 DEF OnRecordYet, InHand, OnLedger, SentSince, AnswerIn, Buffered
<1>10. CASE Hold
  <2>1. /\ scan.pc = "hold" /\ scan'.pc = "commit" /\ scan'.was = scan.was
        /\ scan'.next.nudgeSent = scan.next.nudgeSent
        /\ scan'.next.buffer = [lines |-> Held \union Queued] /\ scan'.next.buffer # None
    BY <1>1, <1>10, HoldIs
  <2>2. Written' = HeldNow \union Queued /\ Written = {}
    BY <2>1 DEF Written, Buffered, HeldNow, Holding
  <2>3. InHand
    BY <1>3, <2>1 DEF Ahead
  <2> QED  BY <1>2, <1>3, <2>1, <2>2, <2>3 DEF OnRecordYet, InHand, OnLedger, SentSince, AnswerIn, Buffered
<1>11. CASE Rollup
  <2>1. /\ scan.pc = "rollup" /\ scan'.pc = "print" /\ scan'.was = scan.was /\ Queued' = Queued
        /\ scan'.next.nudgeSent = scan.next.nudgeSent
        /\ nudge'.said <=> nudge.said \/ \E line \in Held : line.kind = "resumed" /\ line.id >= nudge.at
    BY <1>1, <1>11, RollupIs
  <2>2. ~AnswerIn(Held) /\ Written = {} /\ HeldNow = Held
    BY <2>1 DEF Owed, AnswerIn, Written, HeldNow, Holding
  <2>3. InHand
    BY <1>3, <2>1 DEF Ahead
  <2>4. ~AnswerIn(Written)
    BY <2>2 DEF AnswerIn
  <2> QED  BY <1>2, <1>3, <2>1, <2>2, <2>3, <2>4 DEF OnRecordYet, InHand, OnLedger, SentSince, AnswerIn, Buffered
<1>12. CASE Emit
  <2>1. scan.pc = "print" /\ scan'.pc = "print" /\ scan'.next = scan.next /\ scan'.was = scan.was
    BY <1>1, <1>12, EmitIs DEF SameNextState
  <2>2. PICK line \in Lines : Tell(line) /\ Queued \subseteq Queued' \union {line}
    BY <1>1, <1>12, EmitIs
  <2>3. ~(line.kind = "resumed" /\ line.id >= nudge.at)
    BY <1>1, <2>2, TellIs DEF Owed
  <2>4. AnswerIn(Queued) => AnswerIn(Queued')
    BY <1>2, <2>2, <2>3 DEF AnswerIn
  <2>5. ~AnswerIn(Written) /\ ~AnswerIn(HeldNow)
    BY <2>1 DEF AnswerIn, Written, HeldNow, Holding
  <2>6. InHand
    BY <1>3, <2>1 DEF Ahead
  <2> QED  BY <1>2, <1>3, <2>1, <2>4, <2>5, <2>6 DEF OnRecordYet, InHand, OnLedger, SentSince, AnswerIn, Buffered
<1>13. CASE Divert
  <2>1. /\ scan.pc = "print" /\ scan'.next = scan.next /\ scan'.was = scan.was
        /\ \A line \in Queued : line.kind = "autoclosed"
    BY <1>1, <1>13, DivertIs DEF SameNextState
  <2>2. ~AnswerIn(Queued) /\ ~AnswerIn(Written) /\ ~AnswerIn(HeldNow)
    BY <2>1 DEF AnswerIn, Written, HeldNow, Holding
  <2>3. InHand
    BY <1>3, <2>1 DEF Ahead
  <2> QED  BY <1>2, <1>3, <2>1, <2>2, <2>3 DEF OnRecordYet, InHand, OnLedger, SentSince, AnswerIn, Buffered
<1>14. CASE Drain
  <2>1. scan.pc = "drain" /\ scan'.next = scan.next /\ scan'.was = scan.was /\ Queued' = Queued
    BY <1>1, <1>14, DrainIs DEF SameNextState
  <2>2. ~AnswerIn(Written) /\ ~AnswerIn(HeldNow)
    BY <2>1 DEF AnswerIn, Written, HeldNow, Holding
  <2>3. InHand
    BY <1>3, <2>1 DEF Ahead
  <2> QED  BY <1>2, <1>3, <2>1, <2>2, <2>3 DEF OnRecordYet, InHand, OnLedger, SentSince, AnswerIn, Buffered
<1>15. ~Ends
  BY <1>1, EndIs DEF Ends, Off, InScan
<1>16. CASE scan' = scan
  <2>1. Queued' = Queued /\ HeldNow' = HeldNow /\ Written' = Written /\ (Ahead' <=> Ahead)
    BY <1>16 DEF Queued, HeldNow, Holding, Held, Written, Ahead
  <2> QED  BY <1>2, <1>3, <1>16, <2>1 DEF OnRecordYet, InHand, OnLedger, SentSince, AnswerIn, Buffered
<1>17. Outside \/ UNCHANGED watchVars => scan' = scan
  BY <1>1, OutsideIs DEF OwnState, watchVars
<1> QED  BY <1>5, <1>6, <1>7, <1>8, <1>9, <1>10, <1>11, <1>12, <1>13, <1>14, <1>15, <1>16, <1>17, StepsAre

\* So does the emitted state, whatever happens to the scan.
LEMMA AnswersWritten ==
  ASSUME WatchOK, [WatchNext]_watchVars, ~Send, Owed'
  PROVE  OnLedger(emitted)'
<1>1. WatchTypeOK /\ ScanKeeps /\ InTime /\ AnswersOwed
  BY DEF WatchOK, WatchInv
<1>2. Owed /\ nudge'.at = nudge.at /\ nudge.at \in Nat /\ nudge.at <= now /\ now \in Nat /\ now # None
  BY <1>1, OwedKept, ConstantsAre DEF WatchTypeOK
<1>3. OnLedger(emitted) /\ (InScan => OnLedger(scan.was) \/ scan.next.nudgeSent = now)
      /\ (InScan /\ ~Ahead /\ scan.pc # "send" => InHand)
  BY <1>1, <1>2 DEF AnswersOwed, InHand
<1>4. SUFFICES SentSince(emitted'.nudgeSent) \/ AnswerIn(Buffered(emitted'))
  BY <1>2 DEF OnLedger, SentSince, AnswerIn, Buffered
<1>5. SentSince(now)
  BY <1>2 DEF SentSince
\* A state that a scan wrote ahead.
<1>6. ASSUME NEW s, Wrote(emitted', s), s.was = scan.was, s.next.buffer = None, InScan,
             s.next.nudgeSent \in {None, now, scan.was.nudgeSent},
             s.next.nudgeSent = now \/ OnLedger(scan.was)
      PROVE  SentSince(emitted'.nudgeSent) \/ AnswerIn(Buffered(emitted'))
  <2>1. emitted'.nudgeSent = (IF s.next.nudgeSent # None THEN s.next.nudgeSent ELSE scan.was.nudgeSent)
        /\ emitted'.buffer = scan.was.buffer
    BY <1>6 DEF Wrote, Newer
  <2>2. CASE s.next.nudgeSent = now
    BY <1>2, <1>5, <2>1, <2>2
  <2>3. CASE s.next.nudgeSent # now
    <3>1. emitted'.nudgeSent = scan.was.nudgeSent
      BY <1>6, <2>1, <2>3
    <3> QED  BY <1>6, <2>1, <2>3, <3>1 DEF OnLedger, Buffered
  <2> QED  BY <2>2, <2>3
<1> USE ScansLeave DEF OtherState
<1>7. CASE emitted' = emitted
  BY <1>3, <1>7 DEF OnLedger
<1>8. CASE ScanManager
  <2>1. /\ scan'.was = scan.was /\ scan'.next.buffer = None /\ scan'.next.nudgeSent = None /\ InScan
        /\ scan.next.nudgeSent = None
        /\ emitted' = emitted \/ Wrote(emitted', scan')
    BY <1>1, <1>8, ManagerIs DEF SameScan, SameNext, ScanKeeps, Ahead, InScan
  <2> QED  BY <1>2, <1>3, <1>6, <1>7, <2>1
<1>9. CASE ScanBusy
  <2>1. Passes(scan') /\ (PassedBy \/ Noticed \/ Nudges) /\ scan.pc = "worker"
    BY <1>1, <1>9, BusyIs
  <2>2. scan'.was = scan.was /\ scan'.next.buffer = None /\ InScan
    BY <1>1, <2>1 DEF Passes, ScanKeeps, InScan
  <2>3. emitted' = emitted \/ (Wrote(emitted', scan') /\ scan'.next.nudgeSent = now)
    BY <2>1 DEF PassedBy, Noticed, Nudges
  <2> QED  BY <1>6, <1>7, <2>2, <2>3
<1>10. CASE Ends
  <2>1. \/ scan.pc = "commit" /\ emitted' = scan.next
        \/ emitted' = emitted
        \/ Wrote(emitted', scan) /\ scan.pc \in {"rollup", "print", "drain"}
    BY <1>1, <1>10, EndIs DEF Ends
  <2>2. CASE scan.pc = "commit" /\ emitted' = scan.next
    <3>1. Queued = {} /\ HeldNow = {} /\ Written = Buffered(emitted') /\ InHand
      BY <1>1, <1>3, <2>2 DEF ScanKeeps, HeldNow, Holding, Written, InScan, Ahead
    <3> QED  BY <2>2, <3>1 DEF InHand, AnswerIn
  <2>3. CASE Wrote(emitted', scan) /\ scan.pc \in {"rollup", "print", "drain"}
    <3>1. scan.next.buffer = None /\ InScan /\ scan.next.nudgeSent \in {None, now, scan.was.nudgeSent}
      BY <1>1, <2>3 DEF ScanKeeps, InScan, AnswersOwed
    <3> QED  BY <1>3, <1>6, <2>3, <3>1
  <2> QED  BY <1>7, <2>1, <2>2, <2>3
<1> QED  BY <1>1, <1>7, <1>8, <1>9, <1>10, StepsAre, OutsideIs DEF OwnState, watchVars

LEMMA AnswersStep ==
  ASSUME WatchOK, [WatchNext]_watchVars
  PROVE  AnswersOwed'
<1>1. WatchTypeOK /\ ScanKeeps /\ InTime /\ AnswersOwed
  BY DEF WatchOK, WatchInv
<1>2. now \in Nat /\ now # None
  BY <1>1, ConstantsAre DEF WatchTypeOK
<1> USE ScansLeave DEF OtherState
<1>3. CASE Send
  <2>1. /\ scan.pc = "send" /\ scan'.pc = "pages" /\ scan'.was = scan.was /\ now' = now /\ emitted' = emitted
        /\ scan'.next.nudgeSent = scan.next.nudgeSent /\ scan.next.nudgeSent = now
    BY <1>1, <1>3, SendIs DEF SameScan, AnswersOwed
  <2>2. nudge'.at = now /\ nudge'.said = (emitted.nudgeSent # now)
    BY <1>3 DEF Send
  <2>3. Owed' => OnLedger(emitted)'
    <3>1. Owed' => emitted'.nudgeSent = now
      BY <2>1, <2>2 DEF Owed
    <3>2. emitted'.nudgeSent = now => SentSince(emitted.nudgeSent)'
      BY <1>2, <2>2 DEF SentSince
    <3> QED  BY <3>1, <3>2 DEF OnLedger
  <2>4. SentSince(scan.next.nudgeSent)'
    BY <1>2, <2>1, <2>2 DEF SentSince
  <2> QED  BY <2>1, <2>3, <2>4 DEF AnswersOwed
<1>4. CASE ~Send
  <2>1. Owed' => OnLedger(emitted)'
    BY <1>4, AnswersWritten
  <2>2. scan'.pc = "send" => scan'.next.nudgeSent = now'
    <3>1. CASE ScanBusy
      <4>1. PassedBy \/ Noticed \/ Nudges
        BY <1>1, <3>1, BusyIs
      <4> QED  BY <3>1, <4>1 DEF PassedBy, Noticed, Nudges
    <3>2. CASE scan' = scan /\ (Outside \/ UNCHANGED watchVars)
      BY <1>1, <3>2, OutsideIs, OutsideTimes DEF AnswersOwed, watchVars
    <3>3. CASE Ends
      BY <1>1, <3>3, EndIs DEF Ends, Off
    <3> QED  BY <1>1, <1>4, <3>1, <3>2, <3>3, StepsAre, StartIs, ManagerIs, WakeIs, IdleIs, PagesAre, HoldIs, RollupIs,
                EmitIs, DivertIs, DrainIs, OutsideIs DEF OwnState, watchVars
  <2>3. InScan' => scan'.next.nudgeSent \in {None, now', scan'.was.nudgeSent}
    <3>1. CASE ScanStart
      BY <1>1, <3>1, StartIs
    <3>2. CASE ScanManager \/ WakeManager
      BY <1>1, <3>2, ManagerIs, WakeIs DEF SameNext, ScanKeeps, Ahead
    <3>3. CASE ScanBusy
      <4>1. PassedBy \/ Noticed \/ Nudges
        BY <1>1, <3>3, BusyIs
      <4>2. scan'.was = scan.was
        BY <1>1, <3>3, BusyIs DEF Passes
      <4> QED  BY <3>3, <4>1, <4>2 DEF PassedBy, Noticed, Nudges, StillSent
    <3>4. CASE Ends
      BY <1>1, <3>4, EndIs DEF Ends, Off, InScan
    <3>5. CASE ScanIdle \/ ScanPages \/ Hold \/ Rollup \/ Emit \/ Divert \/ Drain
      <4>1. scan'.next.nudgeSent = scan.next.nudgeSent /\ scan'.was = scan.was /\ now' = now /\ InScan
        BY <1>1, <3>5, IdleIs, PagesAre, HoldIs, RollupIs, EmitIs, DivertIs, DrainIs
           DEF SameScan, SameNextState, InScan
      <4> QED  BY <1>1, <4>1 DEF AnswersOwed
    <3>6. CASE scan' = scan /\ (Outside \/ UNCHANGED watchVars)
      BY <1>1, <3>6, OutsideIs, OutsideTimes DEF AnswersOwed, watchVars, InScan
    <3> QED  BY <1>1, <1>4, <3>1, <3>2, <3>3, <3>4, <3>5, <3>6, StepsAre, OutsideIs DEF OwnState, watchVars
  <2>4. InScan' /\ Owed' => OnLedger(scan.was)' \/ scan'.next.nudgeSent = now'
    <3>1. CASE InScan
      BY <1>4, <3>1, AnswersKept DEF OnRecordYet
    <3>2. CASE ~InScan
      <4>1. ASSUME InScan' PROVE scan'.was = emitted'
        BY <1>1, <3>2, <4>1, StepsAre, StartIs, OutsideIs, EndIs DEF InScan, OwnState, watchVars, Ends
      <4> QED  BY <2>1, <4>1 DEF OnLedger
    <3> QED  BY <3>1, <3>2
  <2>5. InScan' /\ ~Ahead' /\ scan'.pc # "send" /\ Owed' => InHand'
    <3>1. CASE InScan
      BY <1>4, <3>1, AnswersKept
    <3>2. CASE ~InScan
      <4>1. InScan' => Ahead'
        BY <1>1, <3>2, StepsAre, StartIs, OutsideIs, EndIs DEF InScan, Ahead, OwnState, watchVars, Ends
      <4> QED  BY <4>1
    <3> QED  BY <3>1, <3>2
  <2> QED  BY <2>1, <2>2, <2>3, <2>4, <2>5 DEF AnswersOwed, InHand
<1> QED  BY <1>3, <1>4

\* The line of an auto-close stays in the scan until it is told or held back.
LEMMA ClosesStep ==
  ASSUME WatchOK, [WatchNext]_watchVars
  PROVE  CloseOwed'
<1>1. WatchTypeOK /\ ScanKeeps /\ InTime /\ CloseOwed
  BY DEF WatchOK, WatchInv
<1> USE ScansLeave DEF OtherState
<1> DEFINE Has == HasClose(Queued) \/ HasClose(HeldNow) \/ HasClose(Written)
<1>2. CASE ScanStart
  <2>1. scan.pc = "off" /\ closed' = closed /\ outbox' = outbox /\ scan'.was = emitted /\ scan'.pc \in {"manager", "worker"}
    BY <1>1, <1>2, StartIs
  <2>2. HeldNow' = Buffered(emitted)
    BY <2>1 DEF HeldNow, Holding, Held, Buffered
  <2> QED  BY <1>1, <2>1, <2>2 DEF CloseOwed, InScan, HasClose
\* Until the roll-up no line is lost.
<1>3. CASE ScanManager \/ WakeManager \/ ScanBusy \/ Send \/ ScanPages
  <2>1. /\ closed' = closed /\ outbox' = outbox /\ scan'.was = scan.was
        /\ scan.pc \in {"manager", "wakeManager", "worker", "send", "pages"}
        /\ scan'.pc \in {"wakeManager", "worker", "send", "pages", "hold", "rollup"}
    <3>1. CASE ScanBusy
      <4>1. Passes(scan') /\ (PassedBy \/ Noticed \/ Nudges)
        BY <1>1, <3>1, BusyIs
      <4> QED  BY <3>1, <4>1 DEF Passes, PassedBy, Noticed, Nudges
    <3> QED  BY <1>1, <1>3, <3>1, ManagerIs, WakeIs, SendIs, PagesAre DEF SameScan
  <2>2. HeldNow' = HeldNow /\ Written = {}
    BY <2>1 DEF HeldNow, Holding, Held, Written
  <2>3. Queued \subseteq Queued'
    <3>1. CASE ScanBusy
      BY <1>1, <3>1 DEF ScanKeeps, Ahead
    <3> QED  BY <1>1, <1>3, <3>1, ManagerIs, WakeIs, SendIs, PagesAre DEF Queued
  <2> QED  BY <1>1, <2>1, <2>2, <2>3 DEF CloseOwed, InScan, HasClose
<1>4. CASE ScanIdle
  <2>1. scan.pc = "worker" /\ scan'.pc = "pages" /\ scan'.was = scan.was /\ outbox' = outbox
        /\ \/ closed' = closed /\ Queued' = Queued
           \/ closed' = "line" /\ Queued' = Queued \union {Line("autoclosed", now, 0)}
    BY <1>1, <1>4, IdleIs DEF SameScan
  <2>2. HeldNow' = HeldNow /\ Written = {}
    BY <2>1 DEF HeldNow, Holding, Held, Written
  <2>3. Line("autoclosed", now, 0).kind = "autoclosed"
    BY DEF Line
  <2>4. CASE closed' = closed /\ Queued' = Queued
    BY <1>1, <2>1, <2>2, <2>4 DEF CloseOwed, InScan, HasClose
  <2>5. CASE closed' = "line" /\ Queued' = Queued \union {Line("autoclosed", now, 0)}
    BY <2>1, <2>3, <2>5 DEF CloseOwed, InScan, HasClose
  <2> QED  BY <2>1, <2>4, <2>5
<1>5. CASE Hold
  <2>1. /\ scan.pc = "hold" /\ scan'.pc = "commit" /\ closed' = closed /\ outbox' = outbox
        /\ scan'.next.buffer = [lines |-> Held \union Queued] /\ scan'.next.buffer # None
    BY <1>1, <1>5, HoldIs
  <2>2. Written' = HeldNow \union Queued /\ Written = {}
    BY <2>1 DEF Written, Buffered, HeldNow, Holding
  <2> QED  BY <1>1, <2>1, <2>2 DEF CloseOwed, InScan, HasClose
<1>6. CASE Rollup
  <2>1. /\ scan.pc = "rollup" /\ scan'.pc = "print" /\ Queued' = Queued /\ outbox' = outbox
        /\ closed' = IF \E line \in Held : line.kind = "autoclosed" THEN "told" ELSE closed
    BY <1>1, <1>6, RollupIs
  <2>2. HeldNow = Held /\ Written = {}
    BY <2>1 DEF HeldNow, Holding, Written
  <2> QED  BY <1>1, <2>1, <2>2 DEF CloseOwed, InScan, HasClose
<1>7. CASE Emit
  <2>1. scan.pc = "print" /\ scan'.pc = "print" /\ outbox' = outbox
    BY <1>1, <1>7, EmitIs
  <2>2. PICK line \in Lines : Tell(line) /\ line.kind # "autoclosed" /\ Queued \subseteq Queued' \union {line}
    BY <1>1, <1>7, EmitIs
  <2>3. closed' = closed
    BY <1>1, <2>2, TellIs
  <2>4. HeldNow = {} /\ Written = {}
    BY <2>1 DEF HeldNow, Holding, Written
  <2> QED  BY <1>1, <2>1, <2>2, <2>3, <2>4 DEF CloseOwed, InScan, HasClose
<1>8. CASE Divert
  <2>1. /\ scan.pc = "print" /\ scan'.pc = "drain"
        /\ \/ Queued = {} /\ outbox' = outbox /\ closed' = closed
           \/ outbox' = outbox \union {now} /\ closed' = "outbox"
           \/ outbox' = outbox /\ closed' = "told"
    BY <1>1, <1>8, DivertIs
  <2>2. HeldNow = {} /\ Written = {}
    BY <2>1 DEF HeldNow, Holding, Written
  <2> QED  BY <1>1, <2>1, <2>2 DEF CloseOwed, InScan, HasClose
<1>9. CASE Drain
  <2>1. /\ scan.pc = "drain" /\ scan'.pc = "commit" /\ Queued = {}
        /\ \/ outbox' = {} /\ closed' = "told"
           \/ outbox' = outbox /\ closed' = closed
    BY <1>1, <1>9, DrainIs DEF ScanKeeps
  <2>2. HeldNow = {} /\ Written = {}
    BY <2>1 DEF HeldNow, Holding, Written
  <2> QED  BY <1>1, <2>1, <2>2 DEF CloseOwed, InScan, HasClose
<1>10. CASE Ends
  <2>1. /\ scan' = Off /\ outbox' = outbox /\ InScan
        /\ \/ scan.pc = "commit" /\ emitted' = scan.next /\ closed' = closed
           \/ closed' = IF closed = "line" THEN "lost" ELSE closed
    BY <1>1, <1>10, EndIs DEF Ends, Lost
  <2>2. scan.pc = "commit" => Queued = {} /\ HeldNow = {} /\ Written = Buffered(scan.next)
    BY <1>1 DEF ScanKeeps, HeldNow, Holding, Written
  <2>3. CASE scan.pc = "commit" /\ emitted' = scan.next /\ closed' = closed
    <3>1. Written = Buffered(emitted')
      BY <2>2, <2>3
    <3> QED  BY <1>1, <2>1, <2>2, <2>3, <3>1 DEF CloseOwed, InScan, HasClose, Off, Buffered
  <2>4. CASE closed' = IF closed = "line" THEN "lost" ELSE closed
    BY <1>1, <2>1, <2>4 DEF CloseOwed
  <2> QED  BY <2>1, <2>3, <2>4
<1>11. CASE Outside \/ UNCHANGED watchVars
  <2>1. scan' = scan /\ emitted' = emitted /\ outbox' = outbox /\ closed' = closed
    BY <1>1, <1>11, OutsideIs DEF OwnState, watchVars, ovars
  <2>2. Queued' = Queued /\ HeldNow' = HeldNow /\ Written' = Written /\ Buffered(emitted)' = Buffered(emitted)
        /\ (InScan' <=> InScan)
    BY <2>1 DEF Queued, HeldNow, Holding, Held, Written, Buffered, InScan
  <2> QED  BY <1>1, <2>1, <2>2 DEF CloseOwed, HasClose
<1> QED  BY <1>2, <1>3, <1>4, <1>5, <1>6, <1>7, <1>8, <1>9, <1>10, <1>11, StepsAre

-----------------------------------------------------------------------------
(* The rungs a worker was nudged for *)

\* No step but a nudge makes a worker silent since its last nudge.
LEMMA SilentKept ==
  ASSUME WatchOK, [WatchNext]_watchVars, ~Send, Silent'
  PROVE  /\ Silent /\ mishaps' = mishaps
         /\ worker'.mtime = worker.mtime /\ worker'.active = worker.active /\ worker'.st = worker.st
         /\ since'["question"] = since["question"]
         /\ nudge'.why = nudge.why /\ (nudge'.rung = nudge.rung \/ Rollup)
<1>1. WatchTypeOK /\ ScanKeeps /\ InTime /\ RungsRemembered
  BY DEF WatchOK, WatchInv
<1>2. SameNudge /\ (nudge'.rung = nudge.rung \/ Rollup)
  BY <1>1, NudgesKept
<1>3. mishaps \in Nat /\ mishaps' \in Nat /\ mishaps' <= mishaps
  BY <1>1, MishapsFall
<1>4. /\ nudge.turn # None /\ nudge.turn = worker'.mtime /\ nudge.at > worker'.active
      /\ nudge.left = mishaps'
  BY <1>2 DEF Silent, SameNudge
<1>5. mishaps' = mishaps
  BY <1>1, <1>3, <1>4 DEF InTime
<1>6. nudge.at <= now /\ nudge.at \in Nat /\ now \in Nat
  BY <1>1, <1>4, ConstantsAre DEF InTime, WatchTypeOK
<1>7. /\ worker'.mtime = worker.mtime /\ worker'.active = worker.active
      /\ worker'.st = worker.st \/ ScanIdle
      /\ since'["question"] = since["question"]
  <2>1. CASE Outside
    <3>1. worker'.active # now
      BY <1>4, <1>6
    <3> QED  BY <1>1, <2>1, <3>1, OutsideTurns
  <2>2. CASE ScanIdle
    BY <1>1, <2>2, IdleIs, ScansLeave DEF WatchTypeOK, OtherState
  <2>3. CASE ~Outside /\ ~ScanIdle
    <3>1. worker' = worker /\ since' = since
      BY <2>3, StepsAre, ScansLeave DEF OtherState, watchVars, wvars
    <3> QED  BY <3>1
  <2> QED  BY <2>1, <2>2, <2>3
<1>8. Silent
  BY <1>4, <1>5, <1>7 DEF Silent
<1>9. ~ScanIdle
  BY <1>1, <1>8, ScansLeave DEF RungsRemembered
<1> QED  BY <1>2, <1>5, <1>7, <1>8, <1>9 DEF SameNudge

\* The rung that is due of a worker in its turn.
RungIsDue(s) ==
    LET e == s.next.pages["stalled"] IN
    /\ e # None /\ e.id = worker.mtime /\ e.level > Level("stalled", worker.mtime)
    /\ worker.active < now => Elapsed >= Processing /\ e.level = HighestNudge(Elapsed, Processing)

LEMMA NudgesAreDue ==
  ASSUME WatchOK, Nudges, Passes(scan'), ScanBusy
  PROVE  SendIsDue'
<1>1. WatchTypeOK /\ ScanKeeps /\ InTime
  BY DEF WatchOK, WatchInv
<1>2. worker' = worker /\ now' = now /\ scan'.was = scan.was
  BY ScansLeave DEF OtherState, Passes
<1>3. scan'.why # "none" /\ Recorded
  BY DEF Nudges
<1>4. scan'.why = "limit" => scan'.was.nudged # worker'.mtime /\ scan'.next.nudged = worker'.mtime
  BY <1>2 DEF Nudges
<1>5. scan'.why = "reset" => scan'.was.sched # None /\ scan'.next.sched = None
  BY <1>2 DEF Nudges, Recorded, StillDue, Due
<1>6. ASSUME NewRung PROVE RungIsDue(scan')
  <2>1. Elapsed \in Nat /\ Rung \in Nat /\ Level("stalled", worker.mtime) \in Nat
        /\ (Elapsed >= Processing => Rung = HighestNudge(Elapsed, Processing))
    BY <1>1, RungIs DEF Nudges
  <2>2. Rung # 0 /\ Rung > Level("stalled", worker.mtime)
    BY <1>6, <2>1 DEF NewRung
  <2>3. Elapsed >= Processing
    BY <2>1, <2>2, ConstantsAre DEF Rung
  <2>4. LET e == scan'.next.pages["stalled"] IN
        e = NewEntry(worker.mtime, now, Rung) /\ e \in Entry /\ e.id = worker.mtime /\ e.level = Rung
    BY <1>3, <2>2 DEF Recorded, NewEntry
  <2>5. scan'.next.pages["stalled"] # None
    <3>1. NewEntry(worker.mtime, now, Rung) # None
      BY EntriesAssumption, <2>4
    <3> QED  BY <2>4, <3>1
  <2> QED  BY <2>1, <2>2, <2>3, <2>4, <2>5 DEF RungIsDue
<1>7. scan'.why = "rung" => RungIsDue(scan')
  BY <1>6 DEF Nudges
<1>8. Level("stalled", worker.mtime)' = Level("stalled", worker.mtime) /\ Elapsed' = Elapsed
  BY <1>2 DEF Level, OnRecord, Elapsed
<1> QED  BY <1>2, <1>3, <1>4, <1>5, <1>7, <1>8 DEF SendIsDue, RungIsDue

LEMMA GateIs == ActivityGate \in Nat /\ ActivityGate <= Processing
<1>1. Processing \in Nat /\ RateLimit \in Nat
  BY ConstantsAre
<1>2. {Processing, RateLimit} \in SUBSET Nat /\ {Processing, RateLimit} # {}
  BY <1>1
<1>3. Min({Processing, RateLimit}) \in {Processing, RateLimit} /\ Min({Processing, RateLimit}) <= Processing
  BY <1>2, LeastIs
<1> QED  BY <1>1, <1>3 DEF ActivityGate

\* What the scan found of a silent worker keeps the rung it was nudged for.
LEMMA BusyRemembers ==
  ASSUME WatchOK, ScanBusy, Silent, PassedBy \/ Noticed, Passes(scan')
  PROVE  LET n == scan'.next IN
         /\ nudge.why = "limit" => n.nudged = worker.mtime
         /\ nudge.why = "reset" => n.sched = None
         /\ nudge.why = "rung" /\ nudge.rung # 0 =>
               LET e == n.pages["stalled"] IN e # None /\ e.id = worker.mtime /\ e.level >= nudge.rung
<1>1. WatchTypeOK /\ ScanKeeps /\ InTime /\ RungsRemembered
  BY DEF WatchOK, WatchInv
<1>2. scan.pc = "worker"
  BY ScansLeave
<1>3. Remembers(scan.was) /\ ~scan.blocked
  BY <1>1, <1>2 DEF RungsRemembered, Ahead, InScan
<1>4. scan'.next.nudged = StillNudged
  BY DEF PassedBy, Noticed
<1>5. nudge.why = "limit" => scan'.next.nudged = worker.mtime
  BY <1>3, <1>4 DEF Remembers, StillNudged
<1>6. nudge.why = "reset" => scan'.next.sched = None
  BY <1>3 DEF Remembers, PassedBy, Noticed, Recorded, StillDue
<1>7. ASSUME nudge.why = "rung", nudge.rung # 0
      PROVE  LET e == scan'.next.pages["stalled"] IN e # None /\ e.id = worker.mtime /\ e.level >= nudge.rung
  <2>1. Elapsed >= Processing /\ nudge.rung <= HighestNudge(Elapsed, Processing)
    BY <1>1, <1>7 DEF RungsRemembered
  <2>2. Elapsed \in Nat /\ Rung = HighestNudge(Elapsed, Processing) /\ Rung \in Nat /\ nudge.rung \in Nat
    BY <1>1, <1>3, <2>1, RungIs DEF WatchTypeOK
  <2>3. ~PassedBy
    <3>1. now \in Nat /\ worker.mtime \in Nat /\ worker.active \in Nat /\ worker.mtime <= worker.active
          /\ ActivityGate \in Nat /\ ActivityGate <= Processing /\ Processing \in Nat
      BY <1>1, ConstantsAre, GateIs DEF WatchTypeOK, InTime
    <3>2. now - worker.mtime >= ActivityGate
      BY <2>1, <3>1 DEF Elapsed
    <3> QED  BY <3>1, <3>2 DEF PassedBy
  <2>4. Rung # 0 /\ Rung >= nudge.rung
    BY <1>7, <2>1, <2>2
  <2>5. LET e == scan'.next.pages["stalled"] IN
        e = NewEntry(worker.mtime, now, Rung) /\ e \in Entry
    BY <2>3, <2>4 DEF Noticed, Recorded
  <2>6. NewEntry(worker.mtime, now, Rung) # None
    BY <2>5, EntriesAssumption
  <2> QED  BY <2>4, <2>5, <2>6 DEF NewEntry
<1> QED  BY <1>5, <1>6, <1>7

\* A nudge is remembered by the scan that sent it.
LEMMA SendRemembers ==
  ASSUME WatchOK, Send
  PROVE  Remembers(scan.next)'
<1>1. WatchTypeOK /\ RungsRemembered
  BY DEF WatchOK, WatchInv
<1>2. SendIsDue
  BY <1>1, ScansLeave DEF RungsRemembered
<1> DEFINE e == scan.next.pages["stalled"]
<1>3. /\ nudge'.why = scan.why /\ nudge'.rung = (IF e = None THEN 0 ELSE e.level)
  BY DEF Send
<1>4. /\ worker' = worker /\ scan'.next.pages = scan.next.pages /\ scan'.next.nudged = scan.next.nudged
      /\ scan.why # "limit" => scan'.next.sched = scan.next.sched
  BY <1>1, SendIs, ScansLeave
<1>5. e # None => e.level \in Nat
  BY <1>1 DEF WatchTypeOK, Scans, Emitted, Entry, Kinds
<1>6. scan.why = "limit" => scan'.next.nudged = worker'.mtime
  BY <1>2, <1>4 DEF SendIsDue
<1>7. scan.why = "reset" => scan'.next.sched = None
  BY <1>2, <1>4 DEF SendIsDue
<1>8. scan.why = "rung" => e # None /\ e.id = worker.mtime
  BY <1>2 DEF SendIsDue
<1> HIDE DEF e
<1>9. scan'.next.pages["stalled"] = e
  BY <1>4 DEF e
<1>10. e # None => e.level >= e.level
  BY <1>5
<1> QED  BY <1>3, <1>4, <1>6, <1>7, <1>8, <1>9, <1>10 DEF Remembers

LEMMA RungsStep ==
  ASSUME WatchOK, [WatchNext]_watchVars
  PROVE  RungsRemembered'
<1>1. WatchTypeOK /\ ScanKeeps /\ InTime /\ RungsRemembered
  BY DEF WatchOK, WatchInv
<1>2. WatchTypeOK' /\ InTime' /\ ScanKeeps'
  BY <1>1, WatchTypes, TimesStep, KeepsStep
<1> USE ScansLeave DEF OtherState
<1>3. Silent' => worker'.st = "busy" /\ since'["question"] = None
  <2>1. CASE Send
    <3>1. scan.pc = "send" /\ ~scan.blocked /\ worker.st = "busy" /\ worker' = worker /\ since' = since
      BY <1>1, <2>1 DEF RungsRemembered
    <3>2. Silent' => worker.active < now
      BY <1>1, <2>1, <3>1, ConstantsAre DEF Silent, Send, WatchTypeOK
    <3>3. since["question"] # None => worker.active = now
      BY <1>1, <3>1 DEF RungsRemembered
    <3>4. worker.active \in Nat /\ now \in Nat
      BY <1>1, ConstantsAre DEF WatchTypeOK
    <3> QED  BY <3>1, <3>2, <3>3, <3>4
  <2>2. CASE ~Send
    BY <1>1, <2>2, SilentKept DEF RungsRemembered
  <2> QED  BY <2>1, <2>2
<1>4. ASSUME Silent', nudge'.why = "rung", nudge'.rung # 0
      PROVE  Elapsed' >= Processing /\ nudge'.rung <= HighestNudge(Elapsed', Processing)
  <2>1. Elapsed' \in Nat /\ Processing \in Nat
    <3>1. now' \in Nat /\ worker'.active \in Nat /\ worker'.active <= now'
      BY <1>2, ConstantsAre DEF WatchTypeOK, InTime
    <3> QED  BY <3>1, ConstantsAre DEF Elapsed
  <2>2. CASE Send
    <3> DEFINE e == scan.next.pages["stalled"]
    <3>1. scan.why = "rung" /\ worker' = worker /\ now' = now /\ scan.pc = "send" /\ nudge'.at = now
          /\ nudge'.rung = (IF e = None THEN 0 ELSE e.level)
      BY <1>4, <2>2 DEF Send
    <3>2. worker.active < now
      BY <1>1, <1>4, <3>1, ConstantsAre DEF Silent, WatchTypeOK
    <3>3. SendIsDue
      BY <1>1, <3>1 DEF RungsRemembered
    <3>4. e # None /\ Elapsed >= Processing /\ e.level = HighestNudge(Elapsed, Processing)
      BY <3>1, <3>2, <3>3 DEF SendIsDue
    <3>5. Elapsed' = Elapsed
      BY <3>1 DEF Elapsed
    <3>6. HighestNudge(Elapsed, Processing) \in Nat
      BY <2>1, <3>5, RungsAreNumbers
    <3> HIDE DEF e
    <3>7. nudge'.rung = HighestNudge(Elapsed, Processing)
      BY <3>1, <3>4
    <3> QED  BY <3>4, <3>5, <3>6, <3>7
  <2>3. CASE ~Send
    <3>1. Silent /\ worker'.active = worker.active /\ nudge'.why = nudge.why
          /\ (nudge'.rung = nudge.rung \/ Rollup)
      BY <1>4, <2>3, SilentKept
    <3>2. nudge'.rung = nudge.rung
      <4>1. Rollup => nudge'.rung \in {0, nudge.rung}
        BY <1>1, RollupIs
      <4> QED  BY <1>4, <3>1, <4>1
    <3>3. Elapsed >= Processing /\ nudge.rung <= HighestNudge(Elapsed, Processing)
      BY <1>1, <1>4, <3>1, <3>2 DEF RungsRemembered
    <3>4. now <= now' /\ now \in Nat /\ now' \in Nat /\ worker.active \in Nat
      <4>1. CASE Outside
        BY <1>1, <1>2, <4>1, OutsideIs, ConstantsAre DEF WatchTypeOK
      <4>2. CASE ~Outside
        <5>1. now' = now
          BY <4>2, StepsAre DEF watchVars
        <5> QED  BY <1>1, <5>1, ConstantsAre DEF WatchTypeOK
      <4> QED  BY <4>1, <4>2
    <3>5. Elapsed \in Nat /\ Elapsed <= Elapsed'
      <4>1. Elapsed \in Nat
        BY <1>1, RungIs
      <4> QED  BY <3>1, <3>4, <4>1 DEF Elapsed
    <3>6. /\ HighestNudge(Elapsed, Processing) \in Nat /\ HighestNudge(Elapsed', Processing) \in Nat
          /\ HighestNudge(Elapsed, Processing) <= HighestNudge(Elapsed', Processing)
      BY <2>1, <3>5, NudgesGrow
    <3>7. nudge.rung \in Nat
      BY <1>1 DEF WatchTypeOK
    <3> DEFINE h == HighestNudge(Elapsed, Processing)
               i == HighestNudge(Elapsed', Processing)
    <3>8. h \in Nat /\ i \in Nat /\ h <= i /\ nudge.rung <= h
      BY <3>3, <3>6
    <3> HIDE DEF h, i
    <3>9. nudge'.rung <= i
      BY <3>2, <3>7, <3>8
    <3> QED  BY <2>1, <3>3, <3>5, <3>9 DEF i
  <2> QED  BY <2>2, <2>3
\* A scan that found a question takes the worker for blocked.
<1>5. /\ InScan' /\ scan'.blocked => since'["question"] # None
      /\ (Ahead \/ scan.pc = "send")' /\ ~scan'.blocked /\ since'["question"] # None => worker'.active = now'
  <2>1. CASE ScanStart
    BY <1>1, <2>1, StartIs
  <2>2. CASE ScanManager \/ WakeManager \/ ScanBusy
    <3>1. scan'.blocked = scan.blocked /\ InScan /\ Ahead /\ worker' = worker /\ since' = since /\ now' = now
      <4>1. CASE ScanBusy
        BY <1>1, <4>1, BusyIs DEF Passes, InScan, Ahead
      <4> QED  BY <1>1, <2>2, <4>1, ManagerIs, WakeIs DEF SameScan, InScan, Ahead
    <3> QED  BY <1>1, <3>1 DEF RungsRemembered
  <2>3. CASE Send \/ ScanIdle \/ ScanPages \/ Hold \/ Rollup \/ Emit \/ Divert \/ Drain
    <3>1. scan'.blocked = scan.blocked /\ InScan /\ since' = since
          /\ scan'.pc \in {"pages", "hold", "rollup", "print", "drain", "commit"}
      BY <1>1, <2>3, SendIs, IdleIs, PagesAre, HoldIs, RollupIs, EmitIs, DivertIs, DrainIs
         DEF SameScan, SameNextState, InScan
    <3> QED  BY <1>1, <3>1 DEF RungsRemembered, Ahead
  <2>4. CASE Ends
    BY <1>1, <2>4, EndIs DEF Ends, Off, InScan, Ahead
  <2>5. CASE Outside
    <3>1. scan' = scan
      BY <1>1, <2>5, OutsideIs DEF OwnState
    <3>2. CASE scan.pc = "off"
      BY <3>1, <3>2 DEF InScan, Ahead
    <3>3. CASE scan.pc # "off"
      BY <1>1, <2>5, <3>1, <3>3, OutsideTurns, OutsideTimes
    <3> QED  BY <3>2, <3>3
  <2>6. CASE UNCHANGED watchVars
    BY <1>1, <2>6 DEF watchVars, wvars, RungsRemembered, InScan, Ahead
  <2> QED  BY <2>1, <2>2, <2>3, <2>4, <2>5, <2>6, StepsAre
<1>6. scan'.pc = "send" => ~scan'.blocked /\ worker'.st = "busy" /\ SendIsDue'
  <2>1. CASE ScanBusy
    <3>1. Passes(scan') /\ (PassedBy \/ Noticed \/ Nudges)
      BY <1>1, <2>1, BusyIs
    <3>2. scan'.pc = "send" => Nudges
      BY <3>1 DEF PassedBy, Noticed
    <3>3. Nudges => SendIsDue' /\ ~scan.blocked
      BY <2>1, <3>1, NudgesAreDue DEF Nudges
    <3> QED  BY <2>1, <3>1, <3>2, <3>3 DEF Passes
  <2>2. CASE scan' = scan /\ (Outside \/ UNCHANGED watchVars)
    <3>1. SUFFICES ASSUME scan.pc = "send" PROVE ~scan'.blocked /\ worker'.st = "busy" /\ SendIsDue'
      BY <2>2
    <3>2. ~scan.blocked /\ worker.st = "busy" /\ SendIsDue
      BY <1>1, <3>1 DEF RungsRemembered
    <3>3. worker'.mtime = worker.mtime /\ worker'.st = worker.st /\ now' = now
          /\ (worker'.active = now \/ worker' = worker)
      BY <1>1, <2>2, <3>1, OutsideTurns, OutsideTimes DEF watchVars, wvars
    <3>4. Level("stalled", worker.mtime)' = Level("stalled", worker.mtime)
      BY <2>2, <3>3 DEF Level, OnRecord
    <3>5. CASE worker' = worker
      <4>1. Elapsed' = Elapsed
        BY <3>3, <3>5 DEF Elapsed
      <4> QED  BY <2>2, <3>2, <3>4, <3>5, <3>3, <4>1 DEF SendIsDue
    <3>6. CASE worker'.active = now
      <4>1. ~(worker'.active < now')
        BY <1>1, <3>3, <3>6, ConstantsAre DEF WatchTypeOK
      <4> QED  BY <2>2, <3>2, <3>3, <3>4, <4>1 DEF SendIsDue
    <3> QED  BY <3>3, <3>5, <3>6
  <2>3. CASE Ends
    BY <1>1, <2>3, EndIs DEF Ends, Off
  <2> QED  BY <1>1, <2>1, <2>2, <2>3, StepsAre, StartIs, ManagerIs, WakeIs, SendIs, IdleIs, PagesAre, HoldIs, RollupIs,
              EmitIs, DivertIs, DrainIs, OutsideIs DEF OwnState, watchVars
\* What the emitted state and the scan remember.
<1>7. ASSUME Silent', ~Send
      PROVE  /\ Silent /\ worker'.mtime = worker.mtime /\ nudge'.why = nudge.why /\ mishaps' = mishaps
             /\ nudge'.rung # 0 => nudge'.rung = nudge.rung
  <2>1. Rollup => nudge'.rung \in {0, nudge.rung}
    BY <1>1, RollupIs
  <2> QED  BY <1>7, <2>1, SilentKept
<1>8. ASSUME NEW em, Silent', ~Send, Remembers(em)
      PROVE  LET e == em.pages["stalled"] IN
             /\ nudge'.why = "limit" => em.nudged = worker'.mtime
             /\ nudge'.why = "reset" => em.sched = None
             /\ nudge'.why = "rung" /\ nudge'.rung # 0 => e # None /\ e.id = worker'.mtime /\ e.level >= nudge'.rung
  BY <1>7, <1>8 DEF Remembers
<1>9. Silent' /\ ~InScan' => Remembers(emitted)'
  <2>1. SUFFICES ASSUME Silent', ~InScan' PROVE Remembers(emitted)'
    OBVIOUS
  <2>2. ~Send
    BY <1>1, <2>1, SendIs DEF InScan
  <2>3. Remembers(emitted')
    <3>1. CASE InScan
      <4>1. Ends
        BY <1>1, <2>1, <3>1, StepsAre, StartIs, ManagerIs, WakeIs, BusyIs, SendIs, IdleIs, PagesAre, HoldIs, RollupIs,
           EmitIs, DivertIs, DrainIs, OutsideIs DEF OwnState, watchVars, InScan, PassedBy, Noticed, Nudges
      <4>2. ~Lost
        BY <1>7, <2>1, <2>2, <1>1, MishapsFall DEF Lost
      <4>3. scan.pc = "commit" /\ emitted' = scan.next
        BY <1>1, <4>1, <4>2, EndIs DEF Ends
      <4> QED  BY <1>1, <1>7, <2>1, <2>2, <4>3 DEF RungsRemembered, InScan, Ahead
    <3>2. CASE ~InScan
      <4>1. emitted' = emitted
        BY <1>1, <2>1, <3>2, StepsAre, StartIs, OutsideIs, EndIs DEF OwnState, watchVars, InScan, Ends
      <4> QED  BY <1>1, <1>7, <2>1, <2>2, <3>2, <4>1 DEF RungsRemembered
    <3> QED  BY <3>1, <3>2
  <2> QED  BY <1>8, <2>1, <2>2, <2>3 DEF Remembers
<1>10. Silent' /\ (Ahead \/ scan.pc = "send")' => Remembers(scan.was)'
  <2>1. SUFFICES ASSUME Silent', (Ahead \/ scan.pc = "send")' PROVE Remembers(scan.was)'
    OBVIOUS
  <2>2. ~Send
    BY <1>1, <2>1, SendIs DEF Ahead
  <2>3. Remembers(scan'.was)
    <3>1. CASE ScanStart
      <4>1. scan'.was = emitted /\ ~InScan
        BY <1>1, <3>1, StartIs DEF InScan
      <4> QED  BY <1>1, <1>7, <2>1, <2>2, <4>1 DEF RungsRemembered
    <3>2. CASE ScanManager \/ WakeManager \/ ScanBusy
      <4>1. scan'.was = scan.was /\ Ahead
        <5>1. CASE ScanBusy
          BY <1>1, <5>1, BusyIs DEF Passes, Ahead
        <5> QED  BY <1>1, <3>2, <5>1, ManagerIs, WakeIs DEF SameScan, Ahead
      <4> QED  BY <1>1, <1>7, <2>1, <2>2, <4>1 DEF RungsRemembered
    <3>3. CASE scan' = scan
      <4>1. Ahead \/ scan.pc = "send"
        BY <2>1, <3>3 DEF Ahead
      <4> QED  BY <1>1, <1>7, <2>1, <2>2, <3>3, <4>1 DEF RungsRemembered
    <3>4. ~Ends
      BY <1>1, <2>1, EndIs DEF Ends, Off, Ahead
    <3> QED  BY <1>1, <2>1, <2>2, <3>1, <3>2, <3>3, <3>4, StepsAre, IdleIs, PagesAre, HoldIs, RollupIs,
                EmitIs, DivertIs, DrainIs, OutsideIs DEF OwnState, watchVars, Ahead
  <2> QED  BY <1>8, <2>1, <2>2, <2>3 DEF Remembers
<1>11. Silent' /\ InScan' /\ ~Ahead' /\ scan'.pc # "send" => Remembers(scan.next)'
  <2>1. CASE Send
    BY <2>1, SendRemembers DEF WatchOK
  <2>2. SUFFICES ASSUME Silent', InScan', ~Ahead', scan'.pc # "send", ~Send PROVE Remembers(scan.next)'
    BY <2>1
  <2>3. Silent
    BY <1>7, <2>2
  <2>4. CASE ScanBusy
    <3>1. Passes(scan') /\ (PassedBy \/ Noticed)
      BY <1>1, <2>2, <2>4, BusyIs DEF Nudges
    <3>2. worker' = worker /\ nudge' = nudge
      BY <2>4
    <3> QED  BY <2>3, <2>4, <3>1, <3>2, BusyRemembers DEF Remembers
  <2>5. ~ScanIdle
    BY <1>1, <2>3 DEF RungsRemembered
  <2>6. CASE ScanPages \/ Hold \/ Emit \/ Divert \/ Drain
    <3>1. /\ scan'.next.nudged = scan.next.nudged /\ scan'.next.sched = scan.next.sched
          /\ scan'.next.pages["stalled"] = scan.next.pages["stalled"]
          /\ scan.pc \in {"pages", "hold", "print", "drain"}
      BY <1>1, <2>6, PagesAre, HoldIs, EmitIs, DivertIs, DrainIs DEF SameNextState
    <3>2. Remembers(scan.next)
      BY <1>1, <2>3, <3>1 DEF RungsRemembered, InScan, Ahead
    <3> QED  BY <1>8, <2>2, <3>1, <3>2 DEF Remembers
  <2>7. CASE Rollup
    <3> DEFINE e == scan.next.pages["stalled"]
               d == scan'.next.pages["stalled"]
    <3>1. /\ scan'.next.nudged = scan.next.nudged /\ scan'.next.sched = scan.next.sched
          /\ scan.pc = "rollup" /\ "stalled" \in Kinds
          /\ ~Suppressed("stalled", e) => d = e
          /\ nudge'.rung = IF Suppressed("stalled", e) THEN 0 ELSE nudge.rung
      BY <1>1, <2>7, RollupIs DEF Kinds
    <3>2. Remembers(scan.next)
      BY <1>1, <2>3, <3>1 DEF RungsRemembered, InScan, Ahead
    <3> QED  BY <1>8, <2>2, <3>1, <3>2 DEF Remembers
  <2>8. CASE scan' = scan
    <3>1. Remembers(scan.next)
      BY <1>1, <2>2, <2>3, <2>8 DEF RungsRemembered, InScan, Ahead
    <3> QED  BY <1>8, <2>2, <2>8, <3>1 DEF Remembers
  <2>9. ~Ends /\ ~ScanStart /\ ~ScanManager /\ ~WakeManager
    BY <1>1, <2>2, EndIs, StartIs, ManagerIs, WakeIs DEF Ends, Off, InScan, Ahead
  <2> QED  BY <1>1, <2>2, <2>4, <2>5, <2>6, <2>7, <2>8, <2>9, StepsAre, OutsideIs DEF OwnState, watchVars
<1> QED  BY <1>3, <1>4, <1>5, <1>6, <1>9, <1>10, <1>11 DEF RungsRemembered

-----------------------------------------------------------------------------
(* The other lane *)

\* What the environment does to the lane, and to what the scans know of it.
LEMMA OutsideLanes ==
  ASSUME WatchTypeOK, Outside
  PROVE  \/ /\ beat' = beat /\ alive' = alive /\ steady' = steady /\ rested' = rested
            /\ now' = now /\ due' = due
         \/ LaneEnds /\ ~steady' /\ (alive' => beat' = now') /\ now' = now /\ scan.pc = "off"
         \/ Tick /\ due' /\ alive' = alive /\ steady' = steady /\ (alive => beat' = now') /\ scan.pc = "off"
            /\ now <= now'
         \/ Sleep /\ due' /\ ~rested' /\ alive' = alive /\ beat' = beat /\ steady' = steady
            /\ scan.pc = "off" /\ now <= now' /\ (now' - now > LaneGap \/ (rested /\ ~due))
<1>1. now \in Nat
  BY ConstantsAre DEF WatchTypeOK
<1>2. CASE LaneEnds
  BY <1>2, <1>1 DEF LaneEnds, Between, WatchTypeOK
<1>3. CASE Tick
  <2>1. /\ now' = now + 1 /\ due' /\ alive' = alive /\ steady' = steady /\ scan.pc = "off"
        /\ alive => beat' = now + 1
    BY <1>3 DEF Tick, Between
  <2>2. now <= now'
    BY <1>1, <2>1
  <2> QED  BY <1>3, <2>1, <2>2, Zenon
<1>4. CASE Sleep
  <2>1. PICK d \in 1..(LaneGap + 1) : (d > LaneGap \/ (rested /\ ~due)) /\ now' = now + d
    BY <1>4 DEF Sleep
  <2>2. LaneGap \in Nat
    BY WatchAssumption
  <2>3. now <= now' /\ now' - now = d
    BY <1>1, <2>1, <2>2
  <2>4. /\ due' /\ ~rested' /\ alive' = alive /\ beat' = beat /\ steady' = steady /\ scan.pc = "off"
    BY <1>4 DEF Sleep, Between
  <2>5. now' - now > LaneGap \/ (rested /\ ~due)
    BY <2>1, <2>3
  <2> QED  BY <1>4, <2>3, <2>4, <2>5, Zenon
<1>5. CASE Prompt \/ Works \/ TurnEnds \/ AgentsEnd \/ Ask \/ Answered \/ Limit
  BY <1>5 DEF Prompt, Works, TurnEnds, AgentsEnd, Ask, Answered, Limit, lvars
<1>6. CASE Appears("orphan") \/ Appears("approval")
  BY <1>6 DEF Appears, lvars
<1> QED  BY <1>2, <1>3, <1>4, <1>5, <1>6 DEF Outside

LEMMA BusyGoes ==
  ASSUME WatchTypeOK, ScanKeeps, InTime, ScanBusy
  PROVE  scan'.pc \in {"pages", "send"} /\ scan'.was = scan.was
BY BusyIs DEF Passes, PassedBy, Noticed, Nudges

LEMMA GapsAdd ==
  ASSUME NEW t \in Nat, NEW m \in Nat, NEW n \in Nat, NEW g \in Nat, t <= m, m <= n
  PROVE  n - m > g \/ m - t > g => n - t > g
OBVIOUS

LEMMA LaneStep ==
  ASSUME WatchOK, [WatchNext]_watchVars
  PROVE  LaneRemembered'
<1>1. WatchTypeOK /\ ScanKeeps /\ InTime /\ LaneRemembered
  BY DEF WatchOK, WatchInv
<1> USE ScansLeave DEF OtherState
<1>2. now \in Nat /\ now' \in Nat /\ now # None /\ LaneGap \in Nat /\ now <= now'
  <2>1. WatchTypeOK'
    BY <1>1, WatchTypes
  <2>2. now \in Nat /\ now' \in Nat /\ now # None /\ LaneGap \in Nat
    BY <1>1, <2>1, WatchAssumption, ConstantsAre DEF WatchTypeOK
  <2>3. CASE Outside
    BY <1>1, <2>2, <2>3, OutsideIs
  <2>4. CASE ~Outside
    <3>1. now' = now
      BY <2>4, StepsAre DEF watchVars
    <3> QED  BY <2>2, <3>1
  <2> QED  BY <2>2, <2>3, <2>4
\* The lane and the clock in the steps of a scan.
<1>3. ~Outside => now' = now /\ beat' = beat /\ alive' = alive /\ rested' = rested
  BY StepsAre DEF watchVars, lvars
<1>4. ~Outside /\ ~Ends => steady' = steady
  BY StepsAre DEF watchVars, lvars
<1>5. alive' /\ rested' => beat' = now'
  <2>1. CASE Outside
    BY <1>1, <2>1, OutsideLanes DEF LaneRemembered, Tick
  <2>2. CASE ~Outside
    BY <1>1, <1>3, <2>2 DEF LaneRemembered
  <2> QED  BY <2>1, <2>2
<1>6. LaneIsLate(emitted') => emitted'.tick # None /\ emitted'.tick <= now'
  <2>1. LaneIsLate(emitted) => emitted.tick # None /\ emitted.tick <= now
    BY <1>1 DEF LaneRemembered
  <2>2. emitted.tick \in Times \union {None}
    BY <1>1 DEF WatchTypeOK, Emitted
  <2>3. emitted.tick # None => emitted.tick \in Nat
    BY <2>2, ConstantsAre
  <2>4. scan.pc \in {"rollup", "print", "drain", "commit"} => scan.next.tick = now
    BY <1>1 DEF LaneRemembered
  <2>5. emitted'.pages = emitted.pages /\ emitted'.seen = emitted.seen => (LaneIsLate(emitted') <=> LaneIsLate(emitted))
    BY DEF LaneIsLate
  <2>6. CASE emitted'.tick = now
    BY <1>2, <2>6
  <2>7. CASE emitted'.pages = emitted.pages /\ emitted'.seen = emitted.seen /\ emitted'.tick = emitted.tick
    BY <1>2, <2>1, <2>3, <2>5, <2>7
  <2> QED  BY <2>4, <2>6, <2>7, LedgerIs
\* What a completed scan leaves.
<1>7. ASSUME steady', alive', LaneIsLate(emitted'), ~InScan'
      PROVE  \/ emitted'.tick = now' /\ ~due' /\ ~rested'
             \/ beat' = now' /\ due'
             \/ emitted'.tick # None /\ now' - emitted'.tick > LaneGap
  <2>1. CASE Ends
    <3>1. scan.pc = "commit" /\ emitted' = scan.next /\ steady' = (alive /\ Judged) /\ InScan
      BY <1>1, <1>7, <2>1, EndIs DEF Ends, Lost
    <3>2. now' = now /\ rested' = rested /\ due' = due
      BY <2>1
    <3>3. ~due
      BY <1>1, <3>1 DEF ScanKeeps
    <3>4. scan.next.tick = now /\ ~rested
      BY <1>1, <1>7, <3>1 DEF LaneRemembered
    <3> QED  BY <3>1, <3>2, <3>3, <3>4
  <2>2. CASE ~InScan /\ (Outside \/ UNCHANGED watchVars)
    <3>1. emitted' = emitted
      BY <1>1, <2>2, OutsideIs DEF OwnState, watchVars
    <3>2. LaneIsLate(emitted)
      BY <1>7, <3>1
    <3>3. emitted.tick # None /\ emitted.tick <= now /\ emitted.tick \in Nat
      <4>1. emitted.tick \in Times \union {None}
        BY <1>1 DEF WatchTypeOK, Emitted
      <4> QED  BY <1>1, <3>2, <4>1, ConstantsAre DEF LaneRemembered
    <3> DEFINE t == emitted.tick
    <3>4. steady /\ alive => \/ t = now /\ ~due /\ ~rested
                             \/ beat = now /\ due
                             \/ t # None /\ now - t > LaneGap
      BY <1>1, <2>2, <3>2 DEF LaneRemembered
    <3>5. t # None /\ t <= now /\ t \in Nat /\ emitted'.tick = t
      BY <3>1, <3>3
    <3> HIDE DEF t
    <3>6. CASE beat' = beat /\ alive' = alive /\ steady' = steady /\ rested' = rested /\ now' = now /\ due' = due
      BY <1>7, <3>4, <3>5, <3>6
    <3>7. CASE due' /\ alive' = alive /\ (alive => beat' = now')
      BY <1>7, <3>7
    <3>8. CASE /\ alive' = alive /\ steady' = steady /\ now <= now'
               /\ (now' - now > LaneGap \/ (rested /\ ~due))
      <4>1. CASE now' - now > LaneGap
        <5>1. now' - t > LaneGap
          <6>1. now <= now' /\ now \in Nat /\ now' \in Nat /\ LaneGap \in Nat
            BY <1>2
          <6> QED  BY <3>5, <4>1, <6>1, GapsAdd
        <5> QED  BY <3>5, <5>1
      <4>2. CASE rested /\ ~due
        <5>1. now - t > LaneGap
          BY <1>7, <3>4, <3>8, <4>2
        <5>2. now' - t > LaneGap
          <6>1. now <= now' /\ now \in Nat /\ now' \in Nat /\ LaneGap \in Nat
            BY <1>2
          <6> QED  BY <3>5, <5>1, <6>1, GapsAdd
        <5> QED  BY <3>5, <5>2
      <4> QED  BY <3>8, <4>1, <4>2
    <3>9. CASE Outside
      BY <1>1, <1>7, <3>6, <3>7, <3>8, <3>9, OutsideLanes
    <3>10. CASE UNCHANGED watchVars
      BY <3>6, <3>10 DEF watchVars, lvars
    <3> QED  BY <2>2, <3>9, <3>10
  <2>3. /\ ~ScanStart /\ ~ScanManager /\ ~WakeManager /\ ~ScanBusy /\ ~Send /\ ~ScanIdle /\ ~ScanPages
        /\ ~Hold /\ ~Rollup /\ ~Emit /\ ~Divert /\ ~Drain
    BY <1>1, <1>7, StartIs, ManagerIs, WakeIs, BusyGoes, SendIs, IdleIs, PagesAre, HoldIs, RollupIs,
       EmitIs, DivertIs, DrainIs DEF InScan
  <2>4. scan' = scan => ~InScan
    BY <1>7 DEF InScan
  <2>5. Outside \/ UNCHANGED watchVars => scan' = scan
    BY <1>1, OutsideIs DEF OwnState, watchVars
  <2> QED  BY <2>1, <2>2, <2>3, <2>4, <2>5, StepsAre
<1>8. ASSUME steady', alive', LaneIsLate(emitted'), (Ahead \/ scan.pc \in {"send", "pages"})'
      PROVE  beat' = now' \/ ~Judged'
  <2>1. CASE ScanStart
    <3>1. scan'.was = emitted /\ ~InScan /\ due /\ emitted' = emitted
      BY <1>1, <2>1, StartIs DEF InScan
    <3>2. beat' = beat /\ alive' = alive /\ rested' = rested /\ now' = now /\ steady' = steady
      BY <2>1
    <3>3. beat = now \/ (emitted.tick # None /\ now - emitted.tick > LaneGap)
      BY <1>1, <1>8, <3>1, <3>2 DEF LaneRemembered
    <3>4. emitted.tick # None => emitted.tick \in Nat
      <4>1. emitted.tick \in Times \union {None}
        BY <1>1 DEF WatchTypeOK, Emitted
      <4> QED  BY <4>1, ConstantsAre
    <3>5. emitted.tick # None /\ now - emitted.tick > LaneGap => ~(now - emitted.tick <= LaneGap)
      BY <1>2, <3>4
    <3>6. Judged' <=> emitted.tick = None \/ now - emitted.tick <= LaneGap
      BY <3>1, <3>2 DEF Judged
    <3> QED  BY <3>2, <3>3, <3>5, <3>6
  <2>2. CASE ~ScanStart
    <3>0. ~Ends
      <4>1. scan'.pc # "off"
        BY <1>8 DEF Ahead
      <4> QED  BY <1>1, <4>1, EndIs DEF Ends, Off
    <3>1. scan'.was = scan.was /\ (Ahead \/ scan.pc \in {"send", "pages"})
      <4>1. CASE ScanBusy
        BY <1>1, <4>1, BusyGoes DEF Ahead
      <4>2. CASE ScanManager \/ WakeManager \/ Send \/ ScanIdle
        BY <1>1, <4>2, ManagerIs, WakeIs, SendIs, IdleIs DEF SameScan, Ahead
      <4>3. CASE scan' = scan
        BY <1>8, <4>3 DEF Ahead
      <4>4. ~Ends /\ ~ScanPages /\ ~Hold /\ ~Rollup /\ ~Emit /\ ~Divert /\ ~Drain
        BY <1>1, <1>8, <3>0, PagesAre, HoldIs, RollupIs, EmitIs, DivertIs, DrainIs DEF Ahead
      <4> QED  BY <1>1, <2>2, <4>1, <4>2, <4>3, <4>4, StepsAre, OutsideIs DEF OwnState, watchVars
    <3>2. LaneIsLate(emitted)
      BY <1>8, <3>0, <3>1, LedgerIs DEF LaneIsLate, Ends
    <3>3. beat' = beat /\ alive' = alive /\ steady' = steady /\ now' = now
      <4>1. CASE Outside
        BY <1>1, <3>1, <4>1, OutsideLanes DEF Ahead
      <4> QED  BY <1>3, <1>4, <3>0, <4>1
    <3>4. Judged' <=> Judged
      BY <3>1, <3>3 DEF Judged
    <3> QED  BY <1>1, <1>8, <3>1, <3>2, <3>3, <3>4 DEF LaneRemembered
  <2> QED  BY <2>1, <2>2
<1>9. ASSUME scan'.pc \in {"hold", "rollup", "print", "drain", "commit"}
      PROVE  scan'.next.tick = now' /\ (alive' /\ Judged' /\ LaneIsLate(scan'.next) => ~rested')
  <2>1. CASE ScanPages
    <3>1. /\ scan'.was = scan.was /\ scan'.next.tick = now
          /\ Judged /\ LaneIsLate(scan'.next) => now # beat
      BY <1>1, <2>1, PagesAre
    <3>2. beat' = beat /\ alive' = alive /\ rested' = rested /\ now' = now
      BY <2>1
    <3>3. Judged' <=> Judged
      BY <3>1, <3>2 DEF Judged
    <3> QED  BY <1>1, <3>1, <3>2, <3>3 DEF LaneRemembered
  <2>2. CASE ~ScanPages
    <3>0. ~Ends
      BY <1>1, <1>9, EndIs DEF Ends, Off
    <3>1. /\ scan'.was = scan.was /\ scan.pc \in {"hold", "rollup", "print", "drain", "commit"}
          /\ scan'.next.tick = scan.next.tick /\ scan'.next.seen = scan.next.seen
          /\ scan'.next.pages["lane"] \in {scan.next.pages["lane"], None}
      <4>1. CASE Hold
        BY <1>1, <4>1, HoldIs
      <4>2. CASE Rollup
        <5>1. "lane" \in Kinds
          BY DEF Kinds
        <5>2. scan'.next.pages["lane"] = scan.next.pages["lane"] \/ scan'.next.pages["lane"] = None
          BY <1>1, <4>2, <5>1, RollupIs
        <5> QED  BY <1>1, <4>2, <5>2, RollupIs
      <4>3. CASE Emit \/ Divert \/ Drain
        BY <1>1, <4>3, EmitIs, DivertIs, DrainIs DEF SameNextState
      <4>4. CASE scan' = scan
        BY <1>9, <4>4
      <4>5. ~Ends /\ ~ScanStart /\ ~ScanManager /\ ~WakeManager /\ ~ScanBusy /\ ~Send /\ ~ScanIdle
        BY <1>1, <1>9, <3>0, StartIs, ManagerIs, WakeIs, BusyGoes, SendIs, IdleIs
      <4> QED  BY <1>1, <2>2, <4>1, <4>2, <4>3, <4>4, <4>5, StepsAre, OutsideIs DEF OwnState, watchVars
    <3>2. beat' = beat /\ alive' = alive /\ rested' = rested /\ now' = now
      <4>1. CASE Outside
        BY <1>1, <3>1, <4>1, OutsideLanes
      <4> QED  BY <1>3, <4>1
    <3>3. Judged' <=> Judged
      BY <3>1, <3>2 DEF Judged
    <3>4. LaneIsLate(scan'.next) => LaneIsLate(scan.next)
      BY <3>1 DEF LaneIsLate
    <3> QED  BY <1>1, <3>1, <3>2, <3>3, <3>4 DEF LaneRemembered
  <2> QED  BY <2>1, <2>2
<1>10. LaneIsLate(emitted)' <=> LaneIsLate(emitted')
  BY DEF LaneIsLate
<1>11. LaneIsLate(scan.next)' <=> LaneIsLate(scan'.next)
  BY DEF LaneIsLate
<1> QED  BY <1>5, <1>6, <1>7, <1>8, <1>9, <1>10, <1>11 DEF LaneRemembered
-----------------------------------------------------------------------------
(* The theorems of the stale monitor *)

LEMMA WatchStarts == WatchInit => WatchOK
<1> SUFFICES ASSUME WatchInit PROVE WatchOK
  OBVIOUS
<1>1. WatchTypeOK
  BY WatchInitTypes
<1>2. /\ scan = Off /\ emitted = Nothing /\ nudge.turn = None /\ nudge.said = TRUE /\ closed = "no"
      /\ now = 0 /\ beat = 0 /\ worker.mtime = 0 /\ worker.active = 0
  BY DEF WatchInit
<1>3. /\ scan.pc = "off" /\ scan.next = Nothing /\ scan.lines = <<>> /\ ~scan.blocked
      /\ ~InScan /\ ~Ahead
  BY <1>2 DEF Off, InScan, Ahead
<1>4. /\ Nothing.buffer = None /\ ~Nothing.seen /\ \A k \in Kinds : Nothing.pages[k] = None
  BY DEF Nothing
<1>5. "lane" \in Kinds
  BY DEF Kinds
<1>6. ScanKeeps
  BY <1>3, <1>4 DEF ScanKeeps
<1>7. InTime
  BY <1>2 DEF InTime
<1>8. PagesOwed
  BY <1>2, <1>3, <1>4 DEF PagesOwed
<1>9. ~Owed /\ ~Silent
  BY <1>2 DEF Owed, Silent
<1>10. AnswersOwed
  BY <1>3, <1>9 DEF AnswersOwed
<1>11. CloseOwed
  BY <1>2 DEF CloseOwed
<1>12. RungsRemembered
  BY <1>3, <1>9 DEF RungsRemembered
<1>13. ~LaneIsLate(emitted)
  BY <1>2, <1>4, <1>5 DEF LaneIsLate
<1>14. LaneRemembered
  BY <1>2, <1>3, <1>13 DEF LaneRemembered
<1> QED  BY <1>1, <1>6, <1>7, <1>8, <1>10, <1>11, <1>12, <1>14 DEF WatchOK, WatchInv

LEMMA WatchSteps == WatchOK /\ [WatchNext]_watchVars => WatchOK'
<1> SUFFICES ASSUME WatchOK, [WatchNext]_watchVars PROVE WatchOK'
  OBVIOUS
<1>1. WatchTypeOK'
  BY WatchTypes DEF WatchOK, WatchInv
<1>2. WatchInv'
  BY KeepsStep, TimesStep, PagesStep, AnswersStep, ClosesStep, RungsStep, LaneStep DEF WatchInv
<1> QED  BY <1>1, <1>2 DEF WatchOK

\* The state of the monitor and of its scan has its type, and its records of
\* pages, nudges, closes and lanes agree with what was said, whatever dies.
THEOREM WatchIsSound == WatchSpec => [](WatchTypeOK /\ WatchInv)
<1>1. WatchSpec => []WatchOK
  BY WatchStarts, WatchSteps, PTL DEF WatchSpec
<1>2. WatchOK => WatchTypeOK /\ WatchInv
  BY DEF WatchOK
<1> QED  BY <1>1, <1>2, PTL

\* What the monitor owes the manager was said, or is still on its ledger, in
\* its buffer or in the outbox.
THEOREM OwedIsAlwaysSaid == WatchSpec => []OwedIsSaid
<1>1. WatchTypeOK /\ WatchInv => OwedIsSaid
  <2> SUFFICES ASSUME WatchTypeOK, WatchInv PROVE OwedIsSaid
    OBVIOUS
  <2>1. PagesReachOrWait
    <3>1. ASSUME NEW k \in Kinds, emitted.pages[k] # None, emitted.pages[k].level > 0
          PROVE  \/ told[k][emitted.pages[k].id] >= emitted.pages[k].level
                 \/ emitted.buffer # None
                    /\ \E line \in emitted.buffer.lines : line.kind = k /\ line.id = emitted.pages[k].id
      BY <3>1 DEF WatchInv, PagesOwed, PageIsTold, PageIsIn, Buffered
    <3> QED  BY <3>1 DEF PagesReachOrWait
  <2>2. ResumedIsSaid
    <3> SUFFICES ASSUME scan.pc = "off", ~nudge.said, worker.st = "busy", worker.mtime = nudge.turn
                 PROVE  \/ emitted.nudgeSent # None
                        \/ emitted.buffer # None
                           /\ \E line \in emitted.buffer.lines : line.kind = "resumed"
      BY DEF ResumedIsSaid
    <3>1. Owed
      <4>1. worker.mtime # None
        BY ConstantsAre DEF WatchTypeOK
      <4> QED  BY <4>1 DEF Owed
    <3> QED  BY <3>1 DEF WatchInv, AnswersOwed, OnLedger, SentSince, AnswerIn, Buffered
  <2>3. ClosedIsTold
    BY DEF ClosedIsTold, WatchInv, CloseOwed, HasClose, Buffered, InScan
  <2> QED  BY <2>1, <2>2, <2>3 DEF OwedIsSaid
<1> QED  BY <1>1, WatchIsSound, PTL

\* A silent worker is not nudged again for the rung or the limit it was last
\* nudged for, but after a mishap or a limit of the manager.
THEOREM RungsAreNudgedOnce == WatchSpec => NudgedOncePerRung
<1>1. ASSUME WatchOK, [WatchNext]_watchVars, scan.pc = "send", scan'.pc = "pages",
             nudge.turn = worker.mtime, nudge.at > worker.active, nudge.left = mishaps
      PROVE  ~(nudge'.why = nudge.why /\ nudge'.rung = nudge.rung)
  <2>1. WatchTypeOK /\ ScanKeeps /\ InTime /\ RungsRemembered
    BY <1>1 DEF WatchOK, WatchInv
  <2>2. Send
    <3>1. scan.pc # "off" /\ scan.pc # "worker" /\ scan' # scan
      BY <1>1
    <3>2. ~Outside /\ ~UNCHANGED watchVars
      BY <2>1, <3>1, OutsideIs DEF OwnState, watchVars
    <3>3. ~Ends
      BY <1>1, <2>1, EndIs DEF Ends, Off
    <3> QED  BY <1>1, <3>2, <3>3, StepsAre, ScansLeave
  <2>3. Silent
    <3>1. worker.mtime # None
      BY <2>1, ConstantsAre DEF WatchTypeOK
    <3> QED  BY <1>1, <3>1 DEF Silent
  <2>4. Remembers(scan.was) /\ SendIsDue
    BY <1>1, <2>1, <2>3 DEF RungsRemembered
  <2> DEFINE e == scan.next.pages["stalled"]
             was == scan.was.pages["stalled"]
  <2>5. nudge'.why = scan.why /\ nudge'.rung = (IF e = None THEN 0 ELSE e.level)
    BY <2>2 DEF Send
  <2>6. SUFFICES ASSUME nudge.why = scan.why, nudge'.rung = nudge.rung, scan.why = "rung" PROVE FALSE
    <3>1. scan.why \in Whys
      BY <2>1 DEF WatchTypeOK, Scans
    <3> QED  BY <2>4, <2>5, <3>1 DEF Remembers, SendIsDue, Whys
  <2>7. e # None /\ e.level > Level("stalled", worker.mtime) /\ nudge.rung = e.level
    BY <2>4, <2>5, <2>6 DEF SendIsDue
  <2>8. e.level \in Nat /\ Level("stalled", worker.mtime) \in Nat
    <3>1. InScan /\ "stalled" \in Kinds
      BY <1>1 DEF InScan, Kinds
    <3> QED  BY <2>1, <2>7, <3>1, LevelIs DEF WatchTypeOK, Scans, Emitted, Entry
  <2>9. nudge.rung # 0
    BY <2>7, <2>8
  <2>10. was # None /\ was.id = worker.mtime /\ was.level >= nudge.rung
    BY <2>4, <2>6, <2>9 DEF Remembers
  <2>11. Level("stalled", worker.mtime) = was.level
    BY <2>10 DEF Level, OnRecord
  <2> HIDE DEF e, was
  <2> QED  BY <2>7, <2>8, <2>10, <2>11
<1>2. WatchOK /\ [WatchNext]_watchVars =>
        (scan.pc = "send" /\ scan'.pc = "pages" /\ nudge.turn = worker.mtime
         /\ nudge.at > worker.active /\ nudge.left = mishaps =>
            ~(nudge'.why = nudge.why /\ nudge'.rung = nudge.rung))
  BY <1>1
<1>3. WatchTypeOK /\ WatchInv <=> WatchOK
  BY DEF WatchOK
<1> QED  BY <1>2, <1>3, WatchIsSound, PTL DEF WatchSpec, NudgedOncePerRung

\* A lane that lived since a completed scan that looked at it is not called
\* silent, however the machine slept.
THEOREM SilenceIsReal == WatchSpec => NoFalseSilence
<1>1. ASSUME WatchOK, [WatchNext]_watchVars, scan.pc = "pages", steady, alive, NEW i \in DOMAIN scan'.lines
      PROVE  scan'.lines[i].kind # "lane"
  <2>1. WatchTypeOK /\ ScanKeeps /\ InTime /\ LaneRemembered
    BY <1>1 DEF WatchOK, WatchInv
  <2>2. scan \in Scans
    BY <2>1 DEF WatchTypeOK
  <2>3. CASE ScanPages
    <3>1. scan'.lines[i] \in ToSet(scan'.lines)
      BY <2>1, <2>3, PagesAre DEF ToSet, Scans
    <3>2. (\E line \in Queued' : line.kind = "lane") => Judged /\ now # beat /\ LaneIsLate(emitted)
      BY <2>1, <2>3, PagesAre
    <3>3. ~(\E line \in Queued' : line.kind = "lane")
      BY <1>1, <2>1, <3>2 DEF LaneRemembered
    <3> QED  BY <3>1, <3>3 DEF Queued
  <2>4. CASE Ends
    BY <1>1, <2>1, <2>4, EndIs DEF Ends, Off
  <2>5. CASE scan' = scan
    <3>1. scan.lines[i] \in Queued
      BY <1>1, <2>5 DEF Queued, ToSet
    <3>2. scan.lines[i].kind \in {"stalled", "nudged", "resumed", "autoclosed"}
      BY <1>1, <2>1, <3>1 DEF ScanKeeps
    <3> QED  BY <2>5, <3>2
  <2>6. Outside => scan' = scan
    BY <2>1, OutsideIs DEF OwnState
  <2>7. UNCHANGED watchVars => scan' = scan
    BY DEF watchVars
  <2> QED  BY <1>1, <2>3, <2>4, <2>5, <2>6, <2>7, StepsAre, ScansLeave
<1>2. WatchOK /\ [WatchNext]_watchVars =>
        (scan.pc = "pages" /\ steady /\ alive => \A i \in DOMAIN scan'.lines : scan'.lines[i].kind # "lane")
  BY <1>1
<1>3. WatchTypeOK /\ WatchInv <=> WatchOK
  BY DEF WatchOK
<1> QED  BY <1>2, <1>3, WatchIsSound, PTL DEF WatchSpec, NoFalseSilence
=============================================================================
