------------------------------ MODULE Questions ------------------------------
(***************************************************************************)
(* The question channel between a worker and its manager.                  *)
(*                                                                         *)
(* A worker's ask_manager call writes one file under questions/ and polls  *)
(* for one file under answers/.  The manager's answer_question reads the   *)
(* question, writes the answer and only then removes the question.  The    *)
(* session lifecycle (session_end, kill_worker, the pruner) removes the    *)
(* questions of a session that goes away.  Nothing locks: every file       *)
(* operation is a step of its own, and the three parties interleave.       *)
(***************************************************************************)
EXTENDS FiniteSets

CONSTANTS
    Workers,     \* claude_sids of worker sessions
    Calls,       \* ask_manager invocations that may be in flight
    Answerers,   \* answer_question invocations, each with a text of its own
    Qids,        \* uuid4 question ids
    Mortal,      \* bound: the workers whose sessions may end
    None

ASSUME NoneAssumption ==
    /\ None \notin Workers
    /\ None \notin Answerers
    /\ None \notin Qids

VARIABLES
    active,      \* workers with an ACTIVE/<sid>.json record
    live,        \* workers whose session process (and its MCP server) runs
    question,    \* questions/<qid>.json: the worker_sid in it, None if absent
    answer,      \* answers/<qid>.json: its text and stamp, NoAnswer if absent
    call,        \* what each ask_manager invocation is doing
    reply,       \* what each answer_question invocation is doing
    reap         \* per worker: the lifecycle handler dropping its questions

(***************************************************************************)
(* Observability variables: what happened to each question, and to each    *)
(* answer, so far.                                                         *)
(***************************************************************************)
VARIABLES
    asker,       \* who wrote the question, None while the id is unused
    dropped,     \* questions removed by the lifecycle, not by an answer
    answered,    \* questions whose answer file has been written
    exposed,     \* answers another answer_question overwrote, or that were
                 \* written between a call's read and its unlink
    taken        \* <<text, sid>>: a call of that session read and unlinked it

files == <<active, question, answer>>
history == <<asker, dropped, answered, exposed, taken>>
vars == <<active, live, question, answer, call, reply, reap,
          asker, dropped, answered, exposed, taken>>

(***************************************************************************)
(* Values                                                                  *)
(***************************************************************************)
OrNone(S) == S \union {None}

\* The JSON of an answer: "answer" and, when the question record could be
\* read, the "worker_sid" stamp.
Answer == [text : Answerers, stamp : OrNone(Workers)]
NoAnswer == [text |-> None, stamp |-> None]

\* The three places ask_manager_impl looks for an answer.
Sites == {"first", "again", "poll"}

\* A call returns the answer, or raises, and is free again; after "sentinel"
\* the worker still remembers the question id, and "missing" is the error
\* that says there is no such question.
CallPcs == {"free", "write", "look", "read", "take", "discard", "find",
            "sentinel", "missing"}

Call == [pc : CallPcs, sid : OrNone(Workers), qid : OrNone(Qids), site : Sites,
         data : Answer \union {NoAnswer}]
Reply == [pc : {"free", "exists", "write", "unlink", "ok"},
          qid : OrNone(Qids), stamp : OrNone(Workers)]
Reaper == [pc : {"free", "list", "drop", "close"}, kind : {"end", "kill"},
           todo : SUBSET Qids]

FreeCall == [pc |-> "free", sid |-> None, qid |-> None, site |-> "poll",
             data |-> NoAnswer]
FreeReap == [pc |-> "free", kind |-> "end", todo |-> {}]

\* The answer of this answer_question call was written; is there to be
\* read; was read by a call that then unlinked the file.  (A session that
\* dies before the call's reply reaches it takes the answer along.)
Written(a) == reply[a].pc \in {"unlink", "ok"}

OnDisk(a) == \E q \in Qids : answer[q].text = a

Read(a) == \E w \in Workers : <<a, w>> \in taken

\* Some call took an answer of q off the disk.
Taken(q) == \E a \in Answerers : reply[a].qid = q /\ Read(a)

TypeOK ==
    /\ active \subseteq Workers
    /\ live \subseteq Workers
    /\ question \in [Qids -> OrNone(Workers)]
    /\ answer \in [Qids -> Answer \union {NoAnswer}]
    /\ call \in [Calls -> Call]
    /\ reply \in [Answerers -> Reply]
    /\ reap \in [Workers -> Reaper]
    /\ asker \in [Qids -> OrNone(Workers)]
    /\ dropped \subseteq Qids
    /\ answered \subseteq Qids
    /\ exposed \subseteq Answerers
    /\ taken \subseteq Answerers \X Workers

Init ==
    /\ active = Workers
    /\ live = Workers
    /\ question = [q \in Qids |-> None]
    /\ answer = [q \in Qids |-> NoAnswer]
    /\ call = [c \in Calls |-> FreeCall]
    /\ reply = [a \in Answerers |-> [pc |-> "free", qid |-> None, stamp |-> None]]
    /\ reap = [w \in Workers |-> FreeReap]
    /\ asker = [q \in Qids |-> None]
    /\ dropped = {}
    /\ answered = {}
    /\ exposed = {}
    /\ taken = {}

(***************************************************************************)
(* ask_manager                                                             *)
(***************************************************************************)
CallGoes(c, pc, site) ==
    call' = [call EXCEPT ![c].pc = pc, ![c].site = site]

Return(c) == call' = [call EXCEPT ![c] = FreeCall]

CallsOnly == UNCHANGED <<active, live, question, answer, reply, reap, history>>

\* The ACTIVE record is read once, at the top; a later session_end is not
\* noticed.
AskNew(c, w) ==
    /\ call[c].pc = "free"
    /\ w \in live \cap active
    /\ \E q \in Qids : asker[q] = None    \* bound: an id is left to draw
    /\ call' = [call EXCEPT ![c] = [FreeCall EXCEPT !.pc = "write", !.sid = w]]
    /\ CallsOnly

\* resume_question_id is whatever the session passes: an id of its own, or
\* by mistake one of another session.
AskResume(c, w, q) ==
    /\ call[c].pc = "free"
    /\ w \in live \cap active
    /\ asker[q] # None
    /\ call' = [call EXCEPT ![c] = [FreeCall EXCEPT !.pc = "look", !.sid = w,
                                                    !.qid = q, !.site = "first"]]
    /\ CallsOnly

\* The worker follows the NO_ANSWER_YET sentinel: same question, same id.
AskAgain(c) ==
    /\ call[c].pc = "sentinel"
    /\ call[c].sid \in live \cap active
    /\ CallGoes(c, "look", "first")
    /\ CallsOnly

WriteQuestion(c) ==
    /\ call[c].pc = "write"
    /\ \E q \in Qids :
        /\ asker[q] = None
        /\ question' = [question EXCEPT ![q] = call[c].sid]
        /\ asker' = [asker EXCEPT ![q] = call[c].sid]
        /\ call' = [call EXCEPT ![c].pc = "look", ![c].qid = q, ![c].site = "poll"]
    /\ UNCHANGED <<active, live, answer, reply, reap, dropped, answered,
                   exposed, taken>>

\* What ask_manager_impl does after a look that found nothing.
AfterMiss(c) ==
    CASE call[c].site = "first" -> CallGoes(c, "find", "first")
      [] call[c].site = "again" -> CallGoes(c, "missing", "again")
      [] call[c].site = "poll"  -> CallGoes(c, "look", "poll")

\* Mutant: the answer is unlinked before it is read.
LookHitUnlinks(c) ==
    /\ call[c].pc = "look"
    /\ answer[call[c].qid] # NoAnswer
    /\ answer' = [answer EXCEPT ![call[c].qid] = NoAnswer]
    /\ CallGoes(c, "read", call[c].site)
    /\ UNCHANGED <<active, live, question, reply, reap, history>>

\* Mutant: an answer counts only once answer_question removed the question.
LookHitWhenClosed(c) ==
    /\ call[c].pc = "look"
    /\ answer[call[c].qid] # NoAnswer
    /\ question[call[c].qid] = None
    /\ CallGoes(c, "read", call[c].site)
    /\ CallsOnly

\* _try_consume_answer: exists() ...
LookHit(c) ==
    /\ call[c].pc = "look"
    /\ answer[call[c].qid] # NoAnswer
    /\ CallGoes(c, "read", call[c].site)
    /\ CallsOnly

LookMiss(c) ==
    /\ call[c].pc = "look"
    /\ answer[call[c].qid] = NoAnswer
    /\ AfterMiss(c)
    /\ CallsOnly

\* A miss in the poll loop after the deadline returns the sentinel.
LookTimeout(c) ==
    /\ call[c].pc = "look"
    /\ call[c].site = "poll"
    /\ answer[call[c].qid] = NoAnswer
    /\ CallGoes(c, "sentinel", "poll")
    /\ CallsOnly

\* Mutant: no stamp check.
ReadAnyAnswer(c) ==
    LET data == answer[call[c].qid] IN
    /\ call[c].pc = "read"
    /\ \/ /\ data = NoAnswer
          /\ CallGoes(c, "discard", call[c].site)
       \/ /\ data # NoAnswer
          /\ call' = [call EXCEPT ![c].pc = "take", ![c].site = "poll", ![c].data = data]
    /\ CallsOnly

\* ... read_json() and the stamp check.  Another call may have unlinked the
\* file since exists(); the code then goes on to unlink whatever is there.
ReadAnswer(c) ==
    LET data == answer[call[c].qid] IN
    /\ call[c].pc = "read"
    /\ \/ /\ data = NoAnswer
          /\ CallGoes(c, "discard", call[c].site)
       \/ /\ data # NoAnswer
          /\ data.stamp \notin {None, call[c].sid}
          /\ Return(c)
       \/ /\ data # NoAnswer
          /\ data.stamp \in {None, call[c].sid}
          /\ call' = [call EXCEPT ![c].pc = "take", ![c].site = "poll", ![c].data = data]
    /\ CallsOnly

\* ... unlink(missing_ok=True) of whatever is there by now, and the return
\* of the answer that was read.
TakeAnswer(c) ==
    /\ call[c].pc = "take"
    /\ answer' = [answer EXCEPT ![call[c].qid] = NoAnswer]
    /\ taken' = taken \union {<<call[c].data.text, call[c].sid>>}
    /\ Return(c)
    /\ UNCHANGED <<active, live, question, reply, reap, asker, dropped, answered,
                   exposed>>

DiscardAnswer(c) ==
    /\ call[c].pc = "discard"
    /\ answer' = [answer EXCEPT ![call[c].qid] = NoAnswer]
    /\ AfterMiss(c)
    /\ UNCHANGED <<active, live, question, reply, reap, history>>

\* Mutant: no second look at answers/ when the question is gone.
FindQuestionOnce(c) ==
    LET owner == question[call[c].qid] IN
    /\ call[c].pc = "find"
    /\ \/ owner = None        /\ CallGoes(c, "missing", "again")
       \/ owner = call[c].sid /\ CallGoes(c, "look", "poll")
       \/ owner \notin {None, call[c].sid} /\ Return(c)
    /\ CallsOnly

\* A resume that found no answer looks for the question itself.
FindQuestion(c) ==
    LET owner == question[call[c].qid] IN
    /\ call[c].pc = "find"
    /\ \/ owner = None        /\ CallGoes(c, "look", "again")
       \/ owner = call[c].sid /\ CallGoes(c, "look", "poll")
       \/ owner \notin {None, call[c].sid} /\ Return(c)
    /\ CallsOnly

\* The call has returned and the worker moves on, or it is cancelled at the
\* only await, the sleep of the poll loop.
Forget(c) ==
    /\ \/ call[c].pc \in {"sentinel", "missing"}
       \/ call[c].pc = "look" /\ call[c].site = "poll"
    /\ Return(c)
    /\ CallsOnly

(***************************************************************************)
(* answer_question: find the file, read it, write the answer, unlink.      *)
(***************************************************************************)
\* The texts are alike: a new answer gets some text that is left.
AnswerFind(a, q) ==
    /\ reply[a].pc = "free"
    /\ a = CHOOSE b \in Answerers : reply[b].pc = "free"
    /\ question[q] # None
    /\ reply' = [reply EXCEPT ![a] = [pc |-> "exists", qid |-> q, stamp |-> None]]
    /\ UNCHANGED <<files, live, call, reap, history>>

\* Mutant: the question is removed before the answer is written.
AnswerReadUnlinks(a) ==
    /\ reply[a].pc = "exists"
    /\ reply' = [reply EXCEPT ![a].pc = "write", ![a].stamp = question[reply[a].qid]]
    /\ question' = [question EXCEPT ![reply[a].qid] = None]
    /\ UNCHANGED <<active, live, answer, call, reap, history>>

AnswerRead(a) ==
    /\ reply[a].pc = "exists"
    /\ reply' = [reply EXCEPT ![a].pc = "write", ![a].stamp = question[reply[a].qid]]
    /\ UNCHANGED <<files, live, call, reap, history>>

\* The calls that have read, or missed, the file and are about to unlink it.
Unlinking(q) == {c \in Calls : call[c].pc \in {"take", "discard"} /\ call[c].qid = q}

AnswerWrite(a) ==
    LET q == reply[a].qid IN
    /\ reply[a].pc = "write"
    /\ answer' = [answer EXCEPT ![q] = [text |-> a, stamp |-> reply[a].stamp]]
    /\ answered' = answered \union {q}
    /\ exposed' = exposed \union {b \in Answerers : b = answer[q].text}
                          \union {b \in {a} : Unlinking(q) # {}}
    /\ reply' = [reply EXCEPT ![a].pc = "unlink", ![a].stamp = None]
    /\ UNCHANGED <<active, live, question, call, reap, asker, dropped, taken>>

AnswerUnlink(a) ==
    /\ reply[a].pc = "unlink"
    /\ question' = [question EXCEPT ![reply[a].qid] = None]
    /\ reply' = [reply EXCEPT ![a].pc = "ok"]
    /\ UNCHANGED <<active, live, answer, call, reap, history>>

(***************************************************************************)
(* The session lifecycle.                                                  *)
(***************************************************************************)
\* The MCP server dies with its session, and with it every call.
KillCalls(w) == call' = [c \in Calls |-> IF call[c].sid = w THEN FreeCall ELSE call[c]]

SessionDies(w) ==
    /\ w \in live \cap Mortal
    /\ live' = live \ {w}
    /\ KillCalls(w)
    /\ UNCHANGED <<files, reply, reap, history>>

\* claude --resume: session_start registers the same sid again.
SessionStart(w) ==
    /\ w \notin live
    /\ reap[w].pc = "free"
    /\ live' = live \union {w}
    /\ active' = active \union {w}
    /\ UNCHANGED <<question, answer, call, reply, reap, history>>

\* session_end of an exiting session, or the pruner on a dead one: the
\* ACTIVE record goes first, the questions after it.
EndSession(w) ==
    /\ reap[w].pc = "free"
    /\ w \in active \cap Mortal
    /\ active' = active \ {w}
    /\ reap' = [reap EXCEPT ![w] = [FreeReap EXCEPT !.pc = "list"]]
    /\ UNCHANGED <<live, question, answer, call, reply, history>>

\* kill_worker: the questions go first, then the window.
KillWorker(w) ==
    /\ reap[w].pc = "free"
    /\ w \in active \cap Mortal
    /\ reap' = [reap EXCEPT ![w] = [FreeReap EXCEPT !.pc = "list", !.kind = "kill"]]
    /\ UNCHANGED <<files, live, call, reply, history>>

\* When its questions are gone, session_end is done, and kill_worker goes on.
DropNext(w, todo) ==
    reap' = [reap EXCEPT ![w] =
               IF todo # {} THEN [@ EXCEPT !.pc = "drop", !.todo = todo]
               ELSE IF @.kind = "kill" THEN [@ EXCEPT !.pc = "close", !.todo = {}]
               ELSE FreeReap]

\* _drop_questions_for_worker lists the directory once ...
DropList(w) ==
    /\ reap[w].pc = "list"
    /\ DropNext(w, {q \in Qids : question[q] # None})
    /\ UNCHANGED <<files, live, call, reply, history>>

\* ... and reads and unlinks file by file.
DropOne(w) ==
    /\ reap[w].pc = "drop"
    /\ \E q \in reap[w].todo :
        /\ DropNext(w, reap[w].todo \ {q})
        /\ \/ /\ question[q] = w
              /\ question' = [question EXCEPT ![q] = None]
              /\ dropped' = dropped \union {q}
           \/ /\ question[q] # w
              /\ UNCHANGED <<question, dropped>>
    /\ UNCHANGED <<active, live, answer, call, reply, asker, answered, exposed, taken>>

\* kill_worker stops at a dead pid; otherwise it asks the terminal to close
\* the recorded window and ignores the outcome, so the session may live on.
KillClose(w) ==
    /\ reap[w].pc = "close"
    /\ reap' = [reap EXCEPT ![w] = FreeReap]
    /\ \/ /\ w \in live
          /\ live' = live \ {w}
          /\ KillCalls(w)
       \/ UNCHANGED <<live, call>>
    /\ UNCHANGED <<files, reply, history>>

(***************************************************************************)
(* Specification                                                           *)
(***************************************************************************)
CallStep(c) ==
    \/ WriteQuestion(c) \/ LookHit(c) \/ LookMiss(c)
    \/ ReadAnswer(c) \/ TakeAnswer(c) \/ DiscardAnswer(c) \/ FindQuestion(c)

WorkerStep(c) ==
    \/ \E w \in Workers : AskNew(c, w) \/ \E q \in Qids : AskResume(c, w, q)
    \/ AskAgain(c) \/ LookTimeout(c) \/ Forget(c)

AnswerStep(a) == AnswerRead(a) \/ AnswerWrite(a) \/ AnswerUnlink(a)

Reap(w) == DropList(w) \/ DropOne(w) \/ KillClose(w)

Lifecycle(w) == SessionDies(w) \/ SessionStart(w) \/ EndSession(w) \/ KillWorker(w)

Next ==
    \/ \E c \in Calls : CallStep(c) \/ WorkerStep(c)
    \/ \E a \in Answerers : AnswerStep(a) \/ \E q \in Qids : AnswerFind(a, q)
    \/ \E w \in Workers : Reap(w) \/ Lifecycle(w)

Spec == Init /\ [][Next]_vars

\* A running call keeps polling (asyncio gives every task its turn), and a
\* worker handed the sentinel calls again, as worker.core.md requires.
Fairness == \A c \in Calls : WF_vars(CallStep(c) \/ AskAgain(c))

FairSpec == Spec /\ Fairness

(***************************************************************************)
(* Properties                                                              *)
(***************************************************************************)
\* A question leaves the directory in two ways only: its answer is already
\* written, or the lifecycle dropped it.  (answer_question_impl writes the
\* answer before it unlinks the question.)
QuestionAccounted ==
    \A q \in Qids : asker[q] # None /\ question[q] = None
                        => q \in answered \union dropped

\* Every answer that was written is on disk or a call of ask_manager read
\* it.  The one way to lose it is a second answer_question at the same
\* question: the one overwrites the other, or it is written between a call's
\* read of the other and the unlink that follows (_try_consume_answer unlinks
\* by name); and then the other answer is on disk or read.
AnswerSurvives ==
    \A a \in Answerers : Written(a) =>
        \/ OnDisk(a) \/ Read(a)
        \/ /\ a \in exposed
           /\ \E b \in Answerers : /\ b # a /\ Written(b) /\ reply[b].qid = reply[a].qid
                                   /\ OnDisk(b) \/ Read(b)

\* "no pending question or answer with id" is raised only when there is
\* none: the second look at answers/ closes the window between the first
\* look and the look at questions/.
ResumeFindsAnswer ==
    \A c \in Calls : call[c].pc = "missing"
                        => call[c].qid \in dropped \/ Taken(call[c].qid)

\* An answer reaches a session that did not ask only when answer_question
\* lost the question record between exists() and read_json(), because the
\* lifecycle dropped it or another answer_question was at work on it.
ForeignOnlyIfUnstamped ==
    \A a \in Answerers, w \in Workers :
        (<<a, w>> \in taken /\ w # asker[reply[a].qid]) =>
            \/ reply[a].qid \in dropped
            \/ \E b \in Answerers : b # a /\ reply[b].qid = reply[a].qid

\* The asker of q is inside ask_manager, or holds its sentinel and may call.
WaitsFor(c, q) ==
    /\ call[c].qid = q
    /\ call[c].sid = asker[q]
    /\ \/ call[c].pc \in {"look", "read", "take", "discard", "find"}
       \/ call[c].pc = "sentinel" /\ call[c].sid \in live \cap active

\* A call that waits while its answer is on disk gets it, through any number
\* of sentinels, unless the call ends or another call took the answer.
WaitingCallIsAnswered ==
    \A c \in Calls, q \in Qids :
        (WaitsFor(c, q) /\ answer[q] # NoAnswer) ~> (Taken(q) \/ ~WaitsFor(c, q))
==============================================================================
