------------------------------- MODULE Gardener -------------------------------
(***************************************************************************)
(* The gardener: findings are digested into proposals (Digest), and an     *)
(* accepted proposal is applied (Apply).  The two meet only in the         *)
(* proposal file, which apply reads whatever its status is; so an instance *)
(* follows one of them and lets the other rest.                            *)
(***************************************************************************)
EXTENDS Digest, Apply

VARIABLE side   \* which of the two this behaviour is about

vars == <<side, findVars, digestVars, applyVars>>

Init ==
    /\ side \in {"digest", "apply"}
    /\ FindingsInit /\ DigestInit /\ ApplyInit
    /\ side = "digest" => wellFormed /\ \A r \in Roots : disk[r].fit = "strict"

Next ==
    /\ UNCHANGED side
    /\ \/ /\ side = "digest" /\ UNCHANGED applyVars
          /\ \/ FindingsNext /\ UNCHANGED digestVars
             \/ DigestNext
       \/ /\ side = "apply" /\ UNCHANGED <<findVars, digestVars>>
          /\ ApplyNext

\* launchd calls the gate again and again; processes and sessions that are
\* not killed go on
Fairness ==
    /\ WF_vars(side = "digest" /\ Gate(TRUE) /\ UNCHANGED <<side, applyVars>>)
    /\ \A j \in Jobs : WF_vars(JobStep(j) /\ UNCHANGED <<side, digestVars, applyVars>>)
    /\ \A r \in Runs : /\ WF_vars(DigestStep(r) /\ UNCHANGED <<side, applyVars>>)
                       /\ WF_vars(AnalystStep(r) /\ UNCHANGED <<side, applyVars>>)

Spec == Init /\ [][Next]_vars /\ Fairness

-----------------------------------------------------------------------------
\* The marker that a good digest touches never hides a finding the digest has
\* not read: an unreviewed finding with content is newer than the marker, or
\* was read as it is now.  Retrospectives that run beside a digest, runs that
\* fail, time out or die, and analysts that go on after their run must not get
\* in between.  A stray text, which came while the lock kept nobody out, may be
\* hidden, but only until the next digest: that one reads what is parked.
NoFindingForgotten ==
    /\ FindingsTypeOK /\ DigestTypeOK /\ ApplyTypeOK
    /\ \A s \in Sessions :
          finding[s].content /\ ~finding[s].reviewed =>
              finding[s].fresh \/ s \in known.read \/ s \in known.stray

\* A proposal is decided on once, and one that was quarantined never: two
\* managers that decide at once, or one that decides while postrun judges the
\* file, leave no contradictory events in the ledger.
DecidedOnce ==
    \A p \in Proposals : /\ prop[p].decided <= 1
                         /\ prop[p].rejected => prop[p].decided = 0

\* A retrospective that was put off is tried again: a process is started for
\* it, or the one attempt to start it failed.  The gate serves the queue as long
\* as the loop is not stopped, no account stays limited, and the lock is not one
\* without a pid, which the gate takes for held until a contender steals it.
PutOffIsRetried ==
    \A s \in Sessions :
        s \in queue ~> \/ \E j \in Jobs : job[j].sid = s /\ job[j].attempt = 1
                       \/ s \in dropped
                       \/ stop \/ brick \/ lock = Bare
=============================================================================
