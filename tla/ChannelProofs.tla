----------------------------- MODULE ChannelProofs -----------------------------
(***************************************************************************)
(* What managers and workers tell each other: the question channel, and    *)
(* the tasks and the waits for their reports.                              *)
(*                                                                         *)
(* The question channel is proved about for any sets of workers, calls,    *)
(* answers and ids.  Its inductive invariant has five layers: the types;   *)
(* RefInv, that what calls and answers refer to has been asked; TextInv,   *)
(* that a text on disk, or in the hands of a call, was written to that     *)
(* question; AccountInv, that a question leaves the disk only after an     *)
(* answer was written, and each answer only into the hands of a call       *)
(* unless a second answer_question exposed it; and StampInv, that the      *)
(* hands are the asker's unless the question file was lost under an        *)
(* answer_question.                                                        *)
(*                                                                         *)
(* A wait that began while the worker's turn on the task ran returns no    *)
(* older report, because one of the two time stamps in the unlocked ACTIVE *)
(* record dates the task for as long as the turn runs; for any number of   *)
(* tasks, any grace and any clock.                                         *)
(***************************************************************************)
EXTENDS Questions, Retask, FiniteSetTheorems, TLAPS


\* Calls and answers in progress refer to questions that were asked.
RefInv ==
    /\ \A q \in Qids : question[q] # None => asker[q] # None
    /\ \A c \in Calls : call[c].pc \notin {"free", "write"}
                          => call[c].qid \in Qids /\ asker[call[c].qid] # None
    /\ \A c \in Calls : call[c].pc # "free" => call[c].sid \in Workers
    /\ \A c \in Calls : call[c].pc = "take" => call[c].data \in Answer
    /\ \A a \in Answerers : reply[a].pc # "free"
                          => reply[a].qid \in Qids /\ asker[reply[a].qid] # None

\* d is what an answer_question call wrote to the question q.
AnswerOf(q, d) == d \in Answer /\ Written(d.text) /\ reply[d.text].qid = q

TextInv ==
    /\ \A c \in Calls : call[c].pc = "take" => AnswerOf(call[c].qid, call[c].data)
    /\ \A q \in Qids : answer[q] # NoAnswer => AnswerOf(q, answer[q])
    /\ \A a \in Answerers : Read(a) => Written(a)

\* A call that saw an answer is on an answered question; one that then found
\* the file gone knows that somebody took it; one that looks again knows that
\* the question file is gone for good.  What a call is about to unlink is the
\* answer it read, or was written since and so is exposed.
CallOk(c) ==
    /\ call[c].pc \in {"read", "take"} => call[c].qid \in answered
    /\ call[c].pc = "discard" => Taken(call[c].qid)
    /\ call[c].pc = "missing" => call[c].qid \in dropped \/ Taken(call[c].qid)
    /\ call[c].site = "again" => /\ call[c].pc \notin {"free", "write"}
                                 /\ question[call[c].qid] = None

UnlinkOk(c) ==
    call[c].pc \in {"take", "discard"} /\ answer[call[c].qid] # NoAnswer =>
        \/ answer[call[c].qid].text \in exposed
        \/ call[c].pc = "take" /\ answer[call[c].qid].text = call[c].data.text

ReplyOk(a) == Written(a) => reply[a].qid \in answered

TextOk(a) == Written(a) => OnDisk(a) \/ Read(a) \/ a \in exposed

QuestionOk(q) == asker[q] # None /\ question[q] = None => q \in answered \union dropped

AnswerOk(q) ==
    /\ q \in answered => answer[q] # NoAnswer \/ Taken(q)
    /\ answer[q] # NoAnswer => q \in answered

AccountInv ==
    /\ \A c \in Calls : CallOk(c)
    /\ \A a \in Answerers : ReplyOk(a)
    /\ \A q \in Qids : QuestionOk(q) /\ AnswerOk(q)

\* What becomes of each answer.
EachInv ==
    /\ \A c \in Calls : UnlinkOk(c)
    /\ \A a \in Answerers : TextOk(a)

Inv == TypeOK /\ RefInv /\ TextInv /\ AccountInv /\ EachInv

(***************************************************************************)
(* Types                                                                   *)
(***************************************************************************)
LEMMA WrittenIsAnswer ==
    ASSUME NEW a \in Answerers, NEW s \in OrNone(Workers)
    PROVE  [text |-> a, stamp |-> s] \in Answer
           /\ [text |-> a, stamp |-> s] # NoAnswer
BY NoneAssumption DEF Answer, NoAnswer

\* Moving a call on changes its program counter and its site, nothing else.
LEMMA CallGoesFacts ==
    ASSUME call \in [Calls -> Call], NEW c \in Calls,
           NEW pc \in CallPcs, NEW site \in Sites, CallGoes(c, pc, site)
    PROVE  /\ call' \in [Calls -> Call]
           /\ call'[c].pc = pc /\ call'[c].site = site
           /\ call'[c].qid = call[c].qid /\ call'[c].sid = call[c].sid
           /\ call'[c].data = call[c].data
           /\ \A d \in Calls : d # c => call'[d] = call[d]
BY DEF Call, CallGoes

\* Starting, or forgetting, a call replaces its record by a new one.
LEMMA CallFresh ==
    ASSUME call \in [Calls -> Call], NEW c \in Calls, NEW r \in Call,
           call' = [call EXCEPT ![c] = r]
    PROVE  /\ call' \in [Calls -> Call]
           /\ call'[c] = r
           /\ \A d \in Calls : d # c => call'[d] = call[d]
OBVIOUS

LEMMA FreeCallIsCall == FreeCall \in Call
BY DEF FreeCall, Call, CallPcs, OrNone, Sites

LEMMA ReturnFacts ==
    ASSUME call \in [Calls -> Call], NEW c \in Calls, Return(c)
    PROVE  /\ call' \in [Calls -> Call]
           /\ call'[c] = FreeCall /\ call'[c].pc = "free" /\ call'[c].site = "poll"
           /\ \A d \in Calls : d # c => call'[d] = call[d]
<1>1. FreeCall.pc = "free" /\ FreeCall.site = "poll"
  BY DEF FreeCall
<1> QED BY <1>1, FreeCallIsCall, CallFresh DEF Return

\* What a call that got past the stamp check takes in hand.
LEMMA TakesFacts ==
    ASSUME call \in [Calls -> Call], NEW c \in Calls, NEW data \in Answer,
           call' = [call EXCEPT ![c].pc = "take", ![c].site = "poll", ![c].data = data]
    PROVE  /\ call' \in [Calls -> Call]
           /\ call'[c].pc = "take" /\ call'[c].site = "poll" /\ call'[c].data = data
           /\ call'[c].qid = call[c].qid /\ call'[c].sid = call[c].sid
           /\ \A d \in Calls : d # c => call'[d] = call[d]
<1> DEFINE r == [call[c] EXCEPT !.pc = "take", !.site = "poll", !.data = data]
<1>1. call' = [call EXCEPT ![c] = r]
  BY DEF Call
<1>2. /\ r \in Call /\ r.qid = call[c].qid /\ r.sid = call[c].sid
      /\ r.data = data /\ r.pc = "take" /\ r.site = "poll"
  BY DEF Call, CallPcs, Sites
<1> HIDE DEF r
<1> QED BY <1>1, <1>2, CallFresh

LEMMA AfterMissFacts ==
    ASSUME call \in [Calls -> Call], NEW c \in Calls, AfterMiss(c)
    PROVE  \E pc \in CallPcs, site \in Sites :
             /\ pc \in {"find", "missing", "look"} /\ CallGoes(c, pc, site)
             /\ call[c].site = "first" => pc = "find" /\ site = "first"
             /\ call[c].site = "again" => pc = "missing" /\ site = "again"
             /\ call[c].site = "poll" => pc = "look" /\ site = "poll"
<1>1. call[c].site \in {"first", "again", "poll"}
  BY DEF Call, Sites
<1> QED BY <1>1 DEF AfterMiss, CallPcs, Sites

\* A dying session forgets its own calls and no others.
LEMMA KillCallsFacts ==
    ASSUME TypeOK, NEW w \in Workers, KillCalls(w)
    PROVE  /\ call' \in [Calls -> Call]
           /\ \A c \in Calls : \/ call'[c] = call[c]
                               \/ /\ call'[c] = FreeCall
                                 /\ call'[c].pc = "free" /\ call'[c].site = "poll"
BY FreeCallIsCall DEF KillCalls, FreeCall, TypeOK

LEMMA DropNextType ==
    ASSUME reap \in [Workers -> Reaper], NEW w \in Workers, NEW todo \in SUBSET Qids,
           DropNext(w, todo)
    PROVE  reap' \in [Workers -> Reaper]
<1>1. reap[w] \in Reaper
  OBVIOUS
<1>2. /\ [reap[w] EXCEPT !.pc = "drop", !.todo = todo] \in Reaper
      /\ [reap[w] EXCEPT !.pc = "close", !.todo = {}] \in Reaper
      /\ FreeReap \in Reaper
  BY <1>1 DEF Reaper, FreeReap
<1>3. \E r \in Reaper : reap' = [reap EXCEPT ![w] = r]
  BY <1>2 DEF DropNext
<1> QED BY <1>3

\* Writing the answer moves the answer_question call on and lets the stamp go.
LEMMA ReplyFacts ==
    ASSUME reply \in [Answerers -> Reply], NEW a \in Answerers,
           reply' = [reply EXCEPT ![a].pc = "unlink", ![a].stamp = None]
    PROVE  /\ reply' \in [Answerers -> Reply]
           /\ reply'[a].pc = "unlink" /\ reply'[a].qid = reply[a].qid
           /\ \A b \in Answerers : b # a => reply'[b] = reply[b]
           /\ \A b \in Answerers : reply'[b].qid = reply[b].qid
BY DEF Reply, OrNone

\* Every step keeps the types and the references.
LEMMA TypeRefStep == TypeOK /\ RefInv /\ [Next]_vars => TypeOK' /\ RefInv'
<1> SUFFICES ASSUME TypeOK, RefInv, [Next]_vars PROVE TypeOK' /\ RefInv'
  OBVIOUS
<1> USE NoneAssumption DEF TypeOK, RefInv, files, history, CallsOnly
<1>1. ASSUME NEW c \in Calls, CallStep(c) PROVE TypeOK' /\ RefInv'
  <2>1. CASE WriteQuestion(c)
    <3>1. PICK q \in Qids :
            /\ asker[q] = None
            /\ question' = [question EXCEPT ![q] = call[c].sid]
            /\ asker' = [asker EXCEPT ![q] = call[c].sid]
            /\ call' = [call EXCEPT ![c].pc = "look", ![c].qid = q, ![c].site = "poll"]
      BY <2>1 DEF WriteQuestion
    <3>2. /\ call[c].pc = "write" /\ call[c].sid \in Workers
          /\ UNCHANGED <<active, live, answer, reply, reap, dropped, answered,
                         exposed, taken>>
      BY <2>1 DEF WriteQuestion
    <3> DEFINE r == [call[c] EXCEPT !.pc = "look", !.qid = q, !.site = "poll"]
    <3>a. r \in Call /\ r.qid = q /\ r.sid = call[c].sid /\ r.pc = "look"
      <4>1. call[c] \in Call
        OBVIOUS
      <4> QED BY <4>1 DEF Call, CallPcs, Sites, OrNone
    <3>b. call' = [call EXCEPT ![c] = r]
      BY <3>1 DEF Call
    <3> HIDE DEF r
    <3>3. /\ call' \in [Calls -> Call]
          /\ call'[c].qid = q /\ call'[c].sid = call[c].sid /\ call'[c].pc = "look"
          /\ \A d \in Calls : d # c => call'[d] = call[d]
      BY <3>a, <3>b, CallFresh
    <3>4. TypeOK'
      BY <3>1, <3>2, <3>3 DEF OrNone
    <3> QED BY <3>1, <3>2, <3>3, <3>4
  <2>2. CASE LookHit(c)
    <3>1. CallGoes(c, "read", call[c].site) /\ call[c].pc = "look"
      BY <2>2 DEF LookHit
    <3>2. call[c].site \in Sites /\ "read" \in CallPcs
      BY DEF Call, CallPcs
    <3> QED BY <2>2, <3>1, <3>2, CallGoesFacts DEF LookHit
  <2>3. CASE LookMiss(c)
    <3>1. PICK pc \in CallPcs, site \in Sites :
             pc \in {"find", "missing", "look"} /\ CallGoes(c, pc, site)
      BY <2>3, AfterMissFacts DEF LookMiss
    <3> QED BY <2>3, <3>1, CallGoesFacts DEF LookMiss
  <2>4. CASE ReadAnswer(c)
    <3>1. call[c].qid \in Qids /\ answer[call[c].qid] \in Answer \union {NoAnswer}
      BY <2>4 DEF ReadAnswer
    <3>2. CASE Return(c)
      BY <2>4, <3>2, ReturnFacts DEF ReadAnswer
    <3>3. CASE CallGoes(c, "discard", call[c].site)
      <4>1. call[c].site \in Sites /\ "discard" \in CallPcs
        BY DEF Call, CallPcs
      <4> QED BY <2>4, <3>3, <4>1, CallGoesFacts DEF ReadAnswer
    <3>4. CASE /\ answer[call[c].qid] # NoAnswer
               /\ call' = [call EXCEPT ![c].pc = "take", ![c].site = "poll",
                                       ![c].data = answer[call[c].qid]]
      <4>1. answer[call[c].qid] \in Answer
        BY <3>1, <3>4
      <4>2. /\ call' \in [Calls -> Call]
            /\ call'[c].pc = "take" /\ call'[c].data \in Answer
            /\ call'[c].qid = call[c].qid /\ call'[c].sid = call[c].sid
            /\ \A d \in Calls : d # c => call'[d] = call[d]
        BY <3>4, <4>1, TakesFacts
      <4> QED BY <2>4, <4>2 DEF ReadAnswer
    <3> QED BY <2>4, <3>2, <3>3, <3>4 DEF ReadAnswer
  <2>5. CASE TakeAnswer(c)
    <3>1. call[c].qid \in Qids /\ call[c].sid \in Workers /\ call[c].data.text \in Answerers
      BY <2>5 DEF TakeAnswer, Answer
    <3> QED BY <2>5, <3>1, ReturnFacts DEF TakeAnswer
  <2>6. CASE DiscardAnswer(c)
    <3>1. PICK pc \in CallPcs, site \in Sites :
             pc \in {"find", "missing", "look"} /\ CallGoes(c, pc, site)
      BY <2>6, AfterMissFacts DEF DiscardAnswer
    <3> QED BY <2>6, <3>1, CallGoesFacts DEF DiscardAnswer
  <2>7. CASE FindQuestion(c)
    <3>1. CASE Return(c)
      BY <2>7, <3>1, ReturnFacts DEF FindQuestion
    <3>2. CASE \E site \in Sites : CallGoes(c, "look", site)
      <4>1. PICK site \in Sites : CallGoes(c, "look", site)
        BY <3>2
      <4>2. "look" \in CallPcs
        BY DEF CallPcs
      <4> QED BY <2>7, <4>1, <4>2, CallGoesFacts DEF FindQuestion
    <3> QED BY <2>7, <3>1, <3>2 DEF FindQuestion, Sites
  <2> QED BY <1>1, <2>1, <2>2, <2>3, <2>4, <2>5, <2>6, <2>7 DEF CallStep
<1>2. ASSUME NEW c \in Calls, WorkerStep(c) PROVE TypeOK' /\ RefInv'
  <2>1. ASSUME NEW w \in Workers, AskNew(c, w) PROVE TypeOK' /\ RefInv'
    <3> DEFINE r == [FreeCall EXCEPT !.pc = "write", !.sid = w]
    <3>1. r \in Call /\ r.pc = "write" /\ r.sid = w
      BY DEF Call, FreeCall, CallPcs, OrNone, Sites
    <3>2. call' = [call EXCEPT ![c] = r]
      BY <2>1 DEF AskNew
    <3> HIDE DEF r
    <3> QED BY <2>1, <3>1, <3>2, CallFresh DEF AskNew
  <2>2. ASSUME NEW w \in Workers, NEW q \in Qids, AskResume(c, w, q)
        PROVE  TypeOK' /\ RefInv'
    <3> DEFINE r == [FreeCall EXCEPT !.pc = "look", !.sid = w, !.qid = q,
                                     !.site = "first"]
    <3>1. r \in Call /\ r.sid = w /\ r.qid = q
      BY DEF Call, FreeCall, CallPcs, OrNone, Sites
    <3>2. call' = [call EXCEPT ![c] = r] /\ asker[q] # None
      BY <2>2 DEF AskResume
    <3> HIDE DEF r
    <3> QED BY <2>2, <3>1, <3>2, CallFresh DEF AskResume
  <2>3. CASE AskAgain(c)
    <3>1. CallGoes(c, "look", "first") /\ call[c].pc = "sentinel"
      BY <2>3 DEF AskAgain
    <3>2. "first" \in Sites /\ "look" \in CallPcs
      BY DEF Sites, CallPcs
    <3> QED BY <2>3, <3>1, <3>2, CallGoesFacts DEF AskAgain
  <2>4. CASE LookTimeout(c)
    <3>1. CallGoes(c, "sentinel", "poll") /\ call[c].pc = "look"
      BY <2>4 DEF LookTimeout
    <3>2. "poll" \in Sites /\ "sentinel" \in CallPcs
      BY DEF Sites, CallPcs
    <3> QED BY <2>4, <3>1, <3>2, CallGoesFacts DEF LookTimeout
  <2>5. CASE Forget(c)
    BY <2>5, ReturnFacts DEF Forget
  <2> QED BY <1>2, <2>1, <2>2, <2>3, <2>4, <2>5 DEF WorkerStep
<1>3. ASSUME NEW a \in Answerers, AnswerStep(a) PROVE TypeOK' /\ RefInv'
  <2>1. CASE AnswerRead(a)
    <3>1. reply[a].qid \in Qids /\ question[reply[a].qid] \in OrNone(Workers)
      BY <2>1 DEF AnswerRead
    <3>2. reply' \in [Answerers -> Reply] /\ \A b \in Answerers : reply'[b].qid = reply[b].qid
      BY <2>1, <3>1 DEF AnswerRead, Reply
    <3> QED BY <2>1, <3>1, <3>2 DEF AnswerRead
  <2>2. CASE AnswerWrite(a)
    <3>1. reply[a].stamp \in OrNone(Workers) /\ reply[a].qid \in Qids
      BY <2>2 DEF AnswerWrite, Reply
    <3>2. reply' \in [Answerers -> Reply] /\ \A b \in Answerers : reply'[b].qid = reply[b].qid
      BY <2>2, ReplyFacts DEF AnswerWrite
    <3>a. exposed' \subseteq Answerers
      BY <2>2 DEF AnswerWrite
    <3>3. answer' \in [Qids -> Answer \union {NoAnswer}]
      BY <2>2, <3>1, WrittenIsAnswer DEF AnswerWrite
    <3> QED BY <2>2, <3>1, <3>2, <3>3, <3>a DEF AnswerWrite
  <2>3. CASE AnswerUnlink(a)
    BY <2>3 DEF AnswerUnlink, Reply, OrNone
  <2> QED BY <1>3, <2>1, <2>2, <2>3 DEF AnswerStep
<1>4. ASSUME NEW a \in Answerers, NEW q \in Qids, AnswerFind(a, q)
      PROVE  TypeOK' /\ RefInv'
  BY <1>4 DEF AnswerFind, Reply, OrNone
<1>5. ASSUME NEW w \in Workers, Reap(w) PROVE TypeOK' /\ RefInv'
  <2>1. CASE DropList(w)
    BY <2>1, DropNextType DEF DropList
  <2>2. CASE DropOne(w)
    <3>1. reap' \in [Workers -> Reaper]
      <4>1. reap[w].todo \subseteq Qids
        BY DEF Reaper
      <4> QED BY <2>2, <4>1, DropNextType DEF DropOne
    <3>2. PICK q \in reap[w].todo :
            \/ question' = [question EXCEPT ![q] = None] /\ dropped' = dropped \union {q}
            \/ UNCHANGED <<question, dropped>>
      BY <2>2 DEF DropOne
    <3>3. q \in Qids
      BY <3>2 DEF Reaper
    <3>4. UNCHANGED <<active, live, answer, call, reply, asker, answered, exposed, taken>>
      BY <2>2 DEF DropOne
    <3>5. question' \in [Qids -> OrNone(Workers)] /\ dropped' \subseteq Qids
      BY <3>2, <3>3 DEF OrNone
    <3> QED BY <3>1, <3>2, <3>3, <3>4, <3>5
  <2>3. CASE KillClose(w)
    <3>1. reap' \in [Workers -> Reaper]
      BY <2>3 DEF KillClose, FreeReap, Reaper
    <3>2. CASE UNCHANGED <<live, call>>
      BY <2>3, <3>1, <3>2 DEF KillClose
    <3>3. CASE live' = live \ {w} /\ KillCalls(w)
      BY <2>3, <3>1, <3>3, KillCallsFacts DEF KillClose
    <3> QED BY <2>3, <3>2, <3>3 DEF KillClose
  <2> QED BY <1>5, <2>1, <2>2, <2>3 DEF Reap
<1>6. ASSUME NEW w \in Workers, Lifecycle(w) PROVE TypeOK' /\ RefInv'
  <2>1. CASE SessionDies(w)
    BY <2>1, KillCallsFacts DEF SessionDies
  <2>2. CASE SessionStart(w)
    BY <2>2 DEF SessionStart
  <2>3. CASE EndSession(w)
    BY <2>3 DEF EndSession, FreeReap, Reaper
  <2>4. CASE KillWorker(w)
    BY <2>4 DEF KillWorker, FreeReap, Reaper
  <2> QED BY <1>6, <2>1, <2>2, <2>3, <2>4 DEF Lifecycle
<1>7. CASE UNCHANGED vars
  BY <1>7 DEF vars
<1> QED BY <1>1, <1>2, <1>3, <1>4, <1>5, <1>6, <1>7 DEF Next

LEMMA InitTypeRef == Init => TypeOK /\ RefInv
<1>1. Init => TypeOK
  BY DEF Init, TypeOK, FreeCall, FreeReap, NoAnswer, OrNone, Sites, CallPcs,
         Call, Reply, Reaper
<1>2. Init => RefInv
  BY DEF Init, RefInv, FreeCall
<1> QED BY <1>1, <1>2

\* The values of every variable stay in the sets the files and handlers use.
THEOREM TypeCorrect == Spec => []TypeOK
<1>1. Spec => [](TypeOK /\ RefInv)
  BY InitTypeRef, TypeRefStep, PTL DEF Spec
<1> QED BY <1>1, PTL

(***************************************************************************)
(* Where questions and answers go                                          *)
(***************************************************************************)
\* An answer_question call that wrote its answer has done so for good.
LEMMA WrittenStable ==
    ASSUME TypeOK, [Next]_vars, NEW a \in Answerers, Written(a)
    PROVE  Written(a)' /\ reply'[a].qid = reply[a].qid
<1> USE DEF TypeOK, files, history, CallsOnly
<1>1. CASE UNCHANGED reply
  BY <1>1 DEF Written
<1>2. ASSUME NEW b \in Answerers, AnswerStep(b)
      PROVE  Written(a)' /\ reply'[a].qid = reply[a].qid
  BY <1>2 DEF AnswerStep, AnswerRead, AnswerWrite, AnswerUnlink, Reply, Written
<1>3. ASSUME NEW b \in Answerers, NEW q \in Qids, AnswerFind(b, q)
      PROVE  Written(a)' /\ reply'[a].qid = reply[a].qid
  BY <1>3 DEF AnswerFind, Written
<1>4. ASSUME NEW c \in Calls, CallStep(c) \/ WorkerStep(c) PROVE UNCHANGED reply
  BY <1>4 DEF CallStep, WriteQuestion, LookHit, LookMiss, ReadAnswer, TakeAnswer,
              DiscardAnswer, FindQuestion, WorkerStep, AskNew, AskResume, AskAgain,
              LookTimeout, Forget
<1>5. ASSUME NEW w \in Workers, Reap(w) \/ Lifecycle(w) PROVE UNCHANGED reply
  BY <1>5 DEF Reap, DropList, DropOne, KillClose, Lifecycle, SessionDies, SessionStart,
              EndSession, KillWorker
<1>6. CASE UNCHANGED vars
  BY <1>1, <1>6 DEF vars
<1> QED BY <1>1, <1>2, <1>3, <1>4, <1>5, <1>6 DEF Next

\* What a step makes of the texts: a call takes in hand what is on disk; an
\* answer comes to the disk from an answer_question, and leaves it into the
\* hands of a call, or exposed.
Fate ==
    /\ taken \subseteq taken' /\ exposed \subseteq exposed'
    /\ \A c \in Calls : \/ call'[c] = call[c]
                        \/ call'[c].pc \notin {"take", "discard"}
                        \/ /\ call'[c].pc = "discard" /\ call'[c].qid \in Qids
                          /\ answer'[call'[c].qid] = NoAnswer
                       \/ /\ call'[c].pc = "take" /\ call'[c].qid \in Qids
                          /\ answer[call'[c].qid] # NoAnswer
                          /\ answer'[call'[c].qid] = answer[call'[c].qid]
                          /\ call'[c].data = answer[call'[c].qid]
    /\ \A q \in Qids :
         \/ answer'[q] = answer[q]
         \/ /\ answer'[q] = NoAnswer
            /\ \E c \in Calls : /\ call[c].pc \in {"take", "discard"} /\ call[c].qid = q
                                /\ call[c].pc = "take" =>
                                   \E w \in Workers : <<call[c].data.text, w>> \in taken'
         \/ \E a \in Answerers :
              /\ Written(a)' /\ reply'[a].qid = q
              /\ answer'[q] \in Answer /\ answer'[q].text = a
              /\ answer[q] # NoAnswer /\ answer[q] \in Answer => answer[q].text \in exposed'
              /\ (\E c \in Calls : call[c].pc \in {"take", "discard"} /\ call[c].qid = q)
                   => a \in exposed'
    /\ \A a \in Answerers : Read(a)' =>
         Read(a) \/ \E c \in Calls : call[c].pc = "take" /\ call[c].data.text = a
    /\ \A a \in Answerers : Written(a)' => Written(a) \/ OnDisk(a)'

LEMMA FateStep == TypeOK /\ RefInv /\ [Next]_vars => Fate
<1> SUFFICES ASSUME TypeOK, RefInv, [Next]_vars PROVE Fate
  OBVIOUS
<1> DEFINE Others(c) == \A d \in Calls : d # c => call'[d] = call[d]
           Still == UNCHANGED <<answer, taken, exposed>>
           NoneWritten == \A a \in Answerers : Written(a)' => Written(a)
           Idle(c) == call'[c].pc \notin {"take", "discard"} \/ call'[c] = call[c]
<1> USE DEF files, history, CallsOnly
<1>1. ASSUME \A c \in Calls : Idle(c), Still, NoneWritten PROVE Fate
  BY <1>1 DEF Fate, Read
<1>2. ASSUME NEW c \in Calls, CallStep(c) PROVE Fate
  <2>0. reply' = reply /\ NoneWritten
    BY <1>2 DEF CallStep, WriteQuestion, LookHit, LookMiss, ReadAnswer, TakeAnswer,
                DiscardAnswer, FindQuestion, Written
  <2>1. CASE WriteQuestion(c)
    <3>1. call'[c].pc = "look" /\ Others(c)
      BY <2>1 DEF WriteQuestion, TypeOK, Call
    <3> QED BY <1>1, <2>0, <2>1, <3>1 DEF WriteQuestion
  <2>2. CASE LookHit(c)
    <3>1. call[c].site \in Sites /\ "read" \in CallPcs
      BY DEF TypeOK, Call, CallPcs
    <3>2. call'[c].pc = "read" /\ Others(c)
      BY <2>2, <3>1, CallGoesFacts DEF LookHit, TypeOK
    <3> QED BY <1>1, <2>0, <2>2, <3>2 DEF LookHit
  <2>3. CASE LookMiss(c)
    <3>1. call'[c].pc \in {"find", "missing", "look"} /\ Others(c)
      BY <2>3, AfterMissFacts, CallGoesFacts DEF LookMiss, TypeOK
    <3> QED BY <1>1, <2>0, <2>3, <3>1 DEF LookMiss
  <2>4. CASE FindQuestion(c)
    <3>1. call'[c].pc \in {"free", "look"} /\ Others(c)
      <4>1. CASE Return(c)
        BY <4>1, ReturnFacts DEF TypeOK
      <4>2. CASE \E site \in Sites : CallGoes(c, "look", site)
        BY <4>2, CallGoesFacts DEF TypeOK, CallPcs
      <4> QED BY <2>4, <4>1, <4>2 DEF FindQuestion, Sites
    <3> QED BY <1>1, <2>0, <2>4, <3>1 DEF FindQuestion
  <2>5. CASE ReadAnswer(c)
    <3>0. call[c].qid \in Qids /\ Still
      BY <2>5 DEF ReadAnswer, RefInv
    <3>1. CASE Return(c)
      BY <1>1, <2>0, <3>0, <3>1, ReturnFacts DEF TypeOK
    <3>2. CASE answer[call[c].qid] = NoAnswer /\ CallGoes(c, "discard", call[c].site)
      <4>1. call[c].site \in Sites /\ "discard" \in CallPcs
        BY DEF TypeOK, Call, CallPcs
      <4>2. call'[c].pc = "discard" /\ call'[c].qid = call[c].qid /\ Others(c)
        BY <3>2, <4>1, CallGoesFacts DEF TypeOK
      <4> QED BY <2>0, <3>0, <3>2, <4>2 DEF Fate, Read
    <3>3. CASE /\ answer[call[c].qid] # NoAnswer
               /\ call' = [call EXCEPT ![c].pc = "take", ![c].site = "poll",
                                       ![c].data = answer[call[c].qid]]
      <4>1. answer[call[c].qid] \in Answer
        BY <3>0, <3>3 DEF TypeOK
      <4>2. /\ call'[c].pc = "take" /\ call'[c].data = answer[call[c].qid]
            /\ call'[c].qid = call[c].qid /\ Others(c)
        BY <3>3, <4>1, TakesFacts DEF TypeOK
      <4> QED BY <2>0, <3>0, <3>3, <4>2 DEF Fate, Read
    <3> QED BY <2>5, <3>1, <3>2, <3>3 DEF ReadAnswer
  <2>6. CASE TakeAnswer(c)
    <3>1. /\ call[c].pc = "take" /\ call[c].qid \in Qids
          /\ call[c].sid \in Workers
          /\ answer' = [answer EXCEPT ![call[c].qid] = NoAnswer]
          /\ taken' = taken \union {<<call[c].data.text, call[c].sid>>}
          /\ exposed' = exposed
      BY <2>6 DEF TakeAnswer, RefInv
    <3>2. call'[c].pc = "free" /\ Others(c)
      BY <2>6, ReturnFacts DEF TakeAnswer, TypeOK
    <3>3. \E w \in Workers : <<call[c].data.text, w>> \in taken'
      BY <3>1
    <3>4. \A q \in Qids : q # call[c].qid => answer'[q] = answer[q]
      BY <3>1 DEF TypeOK
    <3>5. answer'[call[c].qid] = NoAnswer
      BY <3>1 DEF TypeOK
    <3>6. \A a \in Answerers : Read(a)' => Read(a) \/ call[c].data.text = a
      <4> DEFINE t == call[c].data.text
                 v == call[c].sid
      <4>1. taken' = taken \union {<<t, v>>}
        BY <3>1
      <4> HIDE DEF t, v
      <4>2. \A a \in Answerers : Read(a)' => Read(a) \/ t = a
        BY <4>1 DEF Read
      <4> QED BY <4>2 DEF t
    <3> QED BY <2>0, <3>1, <3>2, <3>3, <3>4, <3>5, <3>6 DEF Fate
  <2>7. CASE DiscardAnswer(c)
    <3>1. /\ call[c].pc = "discard" /\ call[c].qid \in Qids
          /\ answer' = [answer EXCEPT ![call[c].qid] = NoAnswer]
          /\ UNCHANGED <<taken, exposed>>
      BY <2>7 DEF DiscardAnswer, RefInv
    <3>2. call'[c].pc \in {"find", "missing", "look"} /\ Others(c)
      BY <2>7, AfterMissFacts, CallGoesFacts DEF DiscardAnswer, TypeOK
    <3>3. \A q \in Qids : q # call[c].qid => answer'[q] = answer[q]
      BY <3>1 DEF TypeOK
    <3>4. answer'[call[c].qid] = NoAnswer
      BY <3>1 DEF TypeOK
    <3> QED BY <2>0, <3>1, <3>2, <3>3, <3>4 DEF Fate, Read
  <2> QED BY <1>2, <2>1, <2>2, <2>3, <2>4, <2>5, <2>6, <2>7 DEF CallStep
<1>3. ASSUME NEW c \in Calls, WorkerStep(c) PROVE Fate
  <2>1. Still /\ reply' = reply /\ NoneWritten
    BY <1>3 DEF WorkerStep, AskNew, AskResume, AskAgain, LookTimeout, Forget, Written
  <2>2. CASE AskAgain(c) \/ LookTimeout(c)
    <3>1. \E site \in Sites, pc \in {"look", "sentinel"} : CallGoes(c, pc, site)
      BY <2>2 DEF AskAgain, LookTimeout, Sites
    <3>2. Others(c) /\ call'[c].pc \in {"look", "sentinel"}
      BY <3>1, CallGoesFacts DEF TypeOK, CallPcs
    <3> QED BY <1>1, <2>1, <3>2
  <2>3. CASE ~(AskAgain(c) \/ LookTimeout(c))
    <3>1. PICK r : call' = [call EXCEPT ![c] = r] /\ r.pc \in {"write", "look", "free"}
      BY <1>3, <2>3 DEF WorkerStep, AskNew, AskResume, Forget, Return, FreeCall
    <3>2. Others(c) /\ call'[c] = r
      BY <3>1 DEF TypeOK
    <3> QED BY <1>1, <2>1, <3>1, <3>2
  <2> QED BY <2>2, <2>3
<1>4. ASSUME NEW a \in Answerers, AnswerStep(a) PROVE Fate
  <2>0. call' = call /\ taken' = taken
    BY <1>4 DEF AnswerStep, AnswerRead, AnswerWrite, AnswerUnlink
  <2>1. CASE AnswerWrite(a)
    <3> DEFINE q == reply[a].qid
    <3>1. /\ reply[a].stamp \in OrNone(Workers) /\ q \in Qids
          /\ answer' = [answer EXCEPT ![q] = [text |-> a, stamp |-> reply[a].stamp]]
          /\ exposed' = exposed \union {b \in Answerers : b = answer[q].text}
                                \union {b \in {a} : Unlinking(q) # {}}
          /\ reply' = [reply EXCEPT ![a].pc = "unlink", ![a].stamp = None]
      BY <2>1 DEF AnswerWrite, TypeOK, RefInv, Reply
    <3>2. /\ reply'[a].pc = "unlink" /\ reply'[a].qid = q
          /\ \A b \in Answerers : b # a => reply'[b] = reply[b]
      BY <3>1, ReplyFacts DEF TypeOK
    <3>3. /\ answer'[q] = [text |-> a, stamp |-> reply[a].stamp]
          /\ \A p \in Qids : p # q => answer'[p] = answer[p]
      BY <3>1 DEF TypeOK
    <3>4. answer'[q] \in Answer /\ answer'[q].text = a
      BY <3>1, <3>3, WrittenIsAnswer
    <3>5. answer[q] # NoAnswer /\ answer[q] \in Answer => answer[q].text \in exposed'
      BY <3>1 DEF Answer
    <3>6. (\E c \in Calls : call[c].pc \in {"take", "discard"} /\ call[c].qid = q)
            => a \in exposed'
      BY <3>1 DEF Unlinking
    <3>7. \A b \in Answerers : Written(b)' => Written(b) \/ OnDisk(b)'
      BY <3>1, <3>2, <3>4 DEF Written, OnDisk
    <3>8. Written(a)'
      BY <3>2 DEF Written
    <3>9. exposed \subseteq exposed'
      BY <3>1
    <3> HIDE DEF q
    <3> QED BY <2>0, <3>1, <3>2, <3>3, <3>4, <3>5, <3>6, <3>7, <3>8, <3>9 DEF Fate, Read
  <2>2. CASE AnswerRead(a) \/ AnswerUnlink(a)
    <3>1. Still /\ NoneWritten
      BY <2>2 DEF AnswerRead, AnswerUnlink, TypeOK, Reply, Written
    <3> QED BY <1>1, <2>0, <3>1
  <2> QED BY <1>4, <2>1, <2>2 DEF AnswerStep
<1>5. ASSUME NEW a \in Answerers, NEW q \in Qids, AnswerFind(a, q) PROVE Fate
  <2>1. Still /\ call' = call /\ NoneWritten
    BY <1>5 DEF AnswerFind, TypeOK, Reply, Written
  <2> QED BY <1>1, <2>1
<1>6. ASSUME NEW w \in Workers, Reap(w) \/ Lifecycle(w) PROVE Fate
  <2>1. Still /\ reply' = reply /\ NoneWritten
    BY <1>6 DEF Reap, DropList, DropOne, KillClose, Lifecycle, SessionDies, SessionStart,
                EndSession, KillWorker, Written
  <2>2. CASE KillCalls(w)
    BY <1>1, <2>1, <2>2, KillCallsFacts
  <2>3. CASE UNCHANGED call
    BY <1>1, <2>1, <2>3
  <2>4. KillCalls(w) \/ UNCHANGED call
    BY <1>6 DEF Reap, DropList, DropOne, KillClose, Lifecycle, SessionDies, SessionStart,
                EndSession, KillWorker
  <2> QED BY <2>2, <2>3, <2>4
<1>7. CASE UNCHANGED vars
  <2>1. Still /\ call' = call /\ NoneWritten
    BY <1>7 DEF vars, Written
  <2> QED BY <1>1, <2>1
<1> QED BY <1>2, <1>3, <1>4, <1>5, <1>6, <1>7 DEF Next

\* Every step keeps what is written to what it was written to.
LEMMA TextStep == TypeOK /\ RefInv /\ TextInv /\ [Next]_vars => TextInv'
<1> SUFFICES ASSUME TypeOK, RefInv, TextInv, [Next]_vars PROVE TextInv'
  OBVIOUS
<1>0. Fate
  BY FateStep
<1>1. ASSUME NEW q, NEW d, AnswerOf(q, d) PROVE AnswerOf(q, d)'
  <2>1. d.text \in Answerers
    BY <1>1 DEF AnswerOf, Answer
  <2> QED BY <1>1, <2>1, WrittenStable DEF AnswerOf
<1>2. ASSUME NEW c \in Calls, call'[c].pc = "take" PROVE AnswerOf(call[c].qid, call[c].data)'
  <2>1. CASE call'[c] = call[c]
    BY <1>1, <1>2, <2>1 DEF TextInv, AnswerOf
  <2>2. CASE /\ call'[c].qid \in Qids /\ answer[call'[c].qid] # NoAnswer
             /\ call'[c].data = answer[call'[c].qid]
    <3>1. AnswerOf(call'[c].qid, answer[call'[c].qid])
      BY <2>2 DEF TextInv
    <3>2. /\ call'[c].data \in Answer /\ call'[c].data.text \in Answerers
          /\ Written(call'[c].data.text) /\ reply[call'[c].data.text].qid = call'[c].qid
      BY <2>2, <3>1 DEF AnswerOf, Answer
    <3>3. /\ reply'[call'[c].data.text].pc \in {"unlink", "ok"}
          /\ reply'[call'[c].data.text].qid = call'[c].qid
      <4> DEFINE a == call'[c].data.text
      <4>1. a \in Answerers /\ Written(a) /\ reply[a].qid = call'[c].qid
        BY <3>2
      <4> HIDE DEF a
      <4>2. reply'[a].pc \in {"unlink", "ok"} /\ reply'[a].qid = call'[c].qid
        BY <4>1, WrittenStable DEF Written
      <4> QED BY <4>2 DEF a
    <3> QED BY <3>2, <3>3 DEF AnswerOf, Written
  <2> QED BY <1>0, <1>2, <2>1, <2>2 DEF Fate
<1>3. ASSUME NEW q \in Qids, answer'[q] # NoAnswer PROVE AnswerOf(q, answer[q])'
  <2>1. CASE answer'[q] = answer[q]
    <3>1. AnswerOf(q, answer[q])
      BY <1>3, <2>1 DEF TextInv
    <3>2. answer[q].text \in Answerers
      BY <3>1 DEF AnswerOf, Answer
    <3>3. reply'[answer[q].text].pc \in {"unlink", "ok"} /\ reply'[answer[q].text].qid = q
      BY <3>1, <3>2, WrittenStable DEF AnswerOf, Written
    <3> QED BY <2>1, <3>1, <3>3 DEF AnswerOf, Written
  <2>2. CASE \E a \in Answerers : /\ Written(a)' /\ reply'[a].qid = q
                                  /\ answer'[q] \in Answer /\ answer'[q].text = a
    BY <2>2 DEF AnswerOf, Written
  <2> QED BY <1>0, <1>3, <2>1, <2>2 DEF Fate
<1>4. ASSUME NEW a \in Answerers, Read(a)' PROVE Written(a)'
  <2>1. Written(a)
    BY <1>0, <1>4 DEF Fate, TextInv, AnswerOf
  <2> QED BY <2>1, WrittenStable
<1> QED BY <1>2, <1>3, <1>4 DEF TextInv

\* Every step accounts for each answer: an answer that leaves the disk unread
\* was overwritten, or was written between a call's read and its unlink.
LEMMA EachStep == TypeOK /\ RefInv /\ TextInv /\ EachInv /\ [Next]_vars => EachInv'
<1> SUFFICES ASSUME TypeOK, RefInv, TextInv, EachInv, [Next]_vars PROVE EachInv'
  OBVIOUS
<1>0. Fate
  BY FateStep
<1>1. ASSUME NEW c \in Calls, call'[c].pc \in {"take", "discard"},
             answer'[call'[c].qid] # NoAnswer
      PROVE  \/ answer'[call'[c].qid].text \in exposed'
             \/ call'[c].pc = "take" /\ answer'[call'[c].qid].text = call'[c].data.text
  <2>1. CASE call'[c] = call[c]
    <3> DEFINE q == call[c].qid
    <3>0. q \in Qids /\ call[c].pc \in {"take", "discard"}
      BY <1>1, <2>1 DEF RefInv
    <3>1. CASE answer'[q] = answer[q]
      <4>1. UnlinkOk(c) /\ exposed \subseteq exposed'
        BY <1>0 DEF EachInv, Fate
      <4> QED BY <1>1, <2>1, <3>1, <4>1 DEF UnlinkOk
    <3>2. CASE answer'[q] # answer[q]
      <4>1. PICK a \in Answerers :
              /\ answer'[q].text = a
              /\ (\E d \in Calls : call[d].pc \in {"take", "discard"} /\ call[d].qid = q)
                   => a \in exposed'
        BY <1>0, <1>1, <2>1, <3>0, <3>2 DEF Fate
      <4> QED BY <2>1, <3>0, <4>1
    <3> QED BY <3>1, <3>2
  <2>2. CASE call'[c] # call[c]
    BY <1>0, <1>1, <2>2 DEF Fate
  <2> QED BY <2>1, <2>2
<1>2. ASSUME NEW a \in Answerers, Written(a)', ~OnDisk(a)', ~Read(a)' PROVE a \in exposed'
  <2>1. Written(a) /\ ~Read(a)
    BY <1>0, <1>2 DEF Fate, Read
  <2>2. CASE a \in exposed
    BY <1>0, <2>2 DEF Fate
  <2>3. CASE OnDisk(a)
    <3>1. PICK q \in Qids : answer[q].text = a
      BY <2>3 DEF OnDisk
    <3>2. /\ answer'[q] # answer[q]
          /\ answer[q] # NoAnswer
      BY <1>2, <3>1, NoneAssumption DEF OnDisk, NoAnswer
    <3>3. answer[q] \in Answer
      BY <3>2 DEF TypeOK
    <3>4. CASE \E c \in Calls : /\ call[c].pc \in {"take", "discard"} /\ call[c].qid = q
                                /\ call[c].pc = "take" =>
                                   \E w \in Workers : <<call[c].data.text, w>> \in taken'
      <4>1. PICK c \in Calls : /\ call[c].pc \in {"take", "discard"} /\ call[c].qid = q
                               /\ call[c].pc = "take" =>
                                   \E w \in Workers : <<call[c].data.text, w>> \in taken'
        BY <3>4
      <4>2. a \in exposed \/ (call[c].pc = "take" /\ call[c].data.text = a)
        BY <3>1, <3>2, <4>1 DEF EachInv, UnlinkOk
      <4>3. ~(call[c].pc = "take" /\ call[c].data.text = a)
        <5> DEFINE t == call[c].data.text
        <5>1. call[c].pc = "take" => \E w \in Workers : <<t, w>> \in taken'
          BY <4>1
        <5> HIDE DEF t
        <5>2. t = a => \A w \in Workers : <<t, w>> \notin taken'
          BY <1>2 DEF Read
        <5> QED BY <5>1, <5>2 DEF t
      <4> QED BY <1>0, <4>2, <4>3 DEF Fate
    <3>5. CASE answer[q] # NoAnswer /\ answer[q] \in Answer => answer[q].text \in exposed'
      BY <3>1, <3>2, <3>3, <3>5
    <3> QED BY <1>0, <3>2, <3>4, <3>5 DEF Fate
  <2> QED BY <2>1, <2>2, <2>3 DEF EachInv, TextOk
<1>3. ASSUME NEW c \in Calls PROVE UnlinkOk(c)'
  BY <1>1 DEF UnlinkOk
<1>4. ASSUME NEW a \in Answerers PROVE TextOk(a)'
  BY <1>2 DEF TextOk
<1> QED BY <1>3, <1>4 DEF EachInv

\* An answer, once read and taken off the disk, stays accounted for.
LEMMA TakenStable ==
    ASSUME TypeOK, RefInv, TextInv, [Next]_vars, NEW q \in Qids, Taken(q)
    PROVE  Taken(q)'
<1>1. PICK a \in Answerers : reply[a].qid = q /\ Read(a)
  BY DEF Taken
<1>2. reply'[a].qid = q
  BY <1>1, WrittenStable DEF TextInv
<1>3. Read(a)'
  BY <1>1, FateStep DEF Fate, Read
<1> QED BY <1>2, <1>3 DEF Taken

\* What no step undoes.
Monotone ==
    /\ answered \subseteq answered' /\ dropped \subseteq dropped'
    /\ \A q \in Qids : Taken(q) => Taken(q)'
    /\ \A q \in Qids : asker[q] # None => asker'[q] # None
    /\ \A q \in Qids : asker[q] # None /\ question[q] = None => question'[q] = None

LEMMA MonotoneStep == TypeOK /\ RefInv /\ TextInv /\ [Next]_vars => Monotone
<1> SUFFICES ASSUME TypeOK, RefInv, TextInv, [Next]_vars PROVE Monotone
  OBVIOUS
<1> DEFINE Same == UNCHANGED <<asker, question, answered, dropped>>
<1> USE DEF files, history, CallsOnly
<1>1. \A q \in Qids : Taken(q) => Taken(q)'
  BY TakenStable
<1>0. Same => Monotone
  BY <1>1 DEF Monotone
<1>2. ASSUME NEW c \in Calls, CallStep(c) PROVE Monotone
  <2>1. CASE WriteQuestion(c)
    <3>1. call[c].sid \in Workers
      BY <2>1 DEF WriteQuestion, RefInv
    <3> QED BY <1>1, <2>1, <3>1, NoneAssumption DEF WriteQuestion, Monotone, TypeOK
  <2>2. CASE ~WriteQuestion(c)
    <3>1. Same
      BY <1>2, <2>2 DEF CallStep, LookHit, LookMiss, ReadAnswer, TakeAnswer,
                        DiscardAnswer, FindQuestion
    <3> QED BY <3>1, <1>0
  <2> QED BY <2>1, <2>2
<1>3. ASSUME NEW c \in Calls, WorkerStep(c) PROVE Monotone
  <2>1. Same
    BY <1>3 DEF WorkerStep, AskNew, AskResume, AskAgain, LookTimeout, Forget
  <2> QED BY <2>1, <1>0
<1>4. ASSUME NEW a \in Answerers, AnswerStep(a) \/ \E q \in Qids : AnswerFind(a, q)
      PROVE  Monotone
  BY <1>1, <1>4 DEF AnswerStep, AnswerFind, AnswerRead, AnswerWrite, AnswerUnlink,
                    Monotone, TypeOK
<1>5. ASSUME NEW w \in Workers, Reap(w) \/ Lifecycle(w) PROVE Monotone
  <2>1. CASE DropOne(w)
    BY <1>1, <2>1 DEF DropOne, Monotone, TypeOK
  <2>2. CASE Same
    BY <2>2, <1>0
  <2>3. CASE Reap(w)
    BY <2>1, <2>2, <2>3 DEF Reap, DropList, KillClose, KillCalls
  <2>4. CASE Lifecycle(w)
    BY <2>2, <2>4 DEF Lifecycle, SessionDies, SessionStart, EndSession, KillWorker, KillCalls
  <2> QED BY <1>5, <2>3, <2>4
<1>6. CASE UNCHANGED vars
  BY <1>6, <1>0 DEF vars
<1> QED BY <1>2, <1>3, <1>4, <1>5, <1>6 DEF Next

\* What a step leaves alone keeps its part of the account.
LEMMA Kept ==
    ASSUME TypeOK, RefInv, AccountInv, Monotone
    PROVE  /\ \A c \in Calls : call'[c] = call[c] => CallOk(c)'
           /\ \A c \in Calls : call'[c].pc = "free" /\ call'[c].site = "poll" => CallOk(c)'
           /\ \A a \in Answerers : reply'[a] = reply[a] => ReplyOk(a)'
           /\ \A q \in Qids : asker'[q] = asker[q] /\ question'[q] = question[q]
                                => QuestionOk(q)'
           /\ \A q \in Qids : answered' = answered /\ answer'[q] = answer[q] => AnswerOk(q)'
<1> USE DEF TypeOK, RefInv, AccountInv, Monotone
<1>1. \A c \in Calls : call'[c] = call[c] => CallOk(c)'
  BY DEF CallOk
<1>2. \A c \in Calls : call'[c].pc = "free" /\ call'[c].site = "poll" => CallOk(c)'
  BY DEF CallOk
<1>3. \A a \in Answerers : reply'[a] = reply[a] => ReplyOk(a)'
  BY DEF ReplyOk, Written
<1>4. \A q \in Qids : asker'[q] = asker[q] /\ question'[q] = question[q] => QuestionOk(q)'
  BY DEF QuestionOk
<1>5. \A q \in Qids : answered' = answered /\ answer'[q] = answer[q] => AnswerOk(q)'
  BY DEF AnswerOk
<1> QED BY <1>1, <1>2, <1>3, <1>4, <1>5

\* Every step keeps the account of questions and answers.
LEMMA AccountStep == Inv /\ [Next]_vars => AccountInv'
<1> SUFFICES ASSUME TypeOK, RefInv, TextInv, AccountInv, [Next]_vars PROVE AccountInv'
  BY DEF Inv
<1>0. Monotone
  BY MonotoneStep
<1>1. TypeOK' /\ RefInv'
  BY TypeRefStep
<1> DEFINE Others(c) == \A d \in Calls : d # c => call'[d] = call[d]
           QuestionsStay == UNCHANGED <<asker, question>>
           AnswersStay == UNCHANGED <<answered, answer>>
           Parts == /\ \A c \in Calls : CallOk(c)'
                    /\ \A a \in Answerers : ReplyOk(a)'
                    /\ \A q \in Qids : QuestionOk(q)'
                    /\ \A q \in Qids : AnswerOk(q)'
<1>2. Parts => AccountInv'
  BY DEF AccountInv
<1>3. ASSUME NEW c \in Calls, Others(c), CallOk(c)', UNCHANGED reply,
             QuestionsStay, AnswersStay
      PROVE  Parts
  BY <1>0, <1>3, Kept
<1> USE DEF files, history, CallsOnly
<1>4. ASSUME NEW c \in Calls, CallStep(c) PROVE Parts
  <2>0. CallOk(c) /\ RefInv /\ (call[c].pc # "free" /\ call[c].pc # "write" => call[c].qid \in Qids)
    BY DEF AccountInv, RefInv
  <2>a. ASSUME AfterMiss(c), call[c].pc \in {"look", "discard"},
               call[c].site = "again" => call[c].qid \in dropped \/ Taken(call[c].qid)
        PROVE  Others(c) /\ CallOk(c)'
    <3>1. PICK pc \in CallPcs, site \in Sites :
             /\ CallGoes(c, pc, site) /\ pc \in {"find", "missing", "look"}
             /\ call[c].site = "first" => pc = "find" /\ site = "first"
             /\ call[c].site = "again" => pc = "missing" /\ site = "again"
             /\ call[c].site = "poll" => pc = "look" /\ site = "poll"
      BY <2>a, AfterMissFacts DEF TypeOK
    <3>2. /\ call'[c].pc = pc /\ call'[c].site = site /\ call'[c].qid = call[c].qid
          /\ Others(c)
      BY <3>1, CallGoesFacts DEF TypeOK
    <3>3. call[c].site \in {"first", "again", "poll"}
      BY DEF TypeOK, Call, Sites
    <3>4. call[c].qid \in Qids /\ asker[call[c].qid] # None
      BY <2>a DEF RefInv
    <3> QED BY <1>0, <2>0, <2>a, <3>1, <3>2, <3>3, <3>4 DEF CallOk, Monotone
  <2>1. CASE WriteQuestion(c)
    <3>1. PICK q \in Qids :
            /\ asker[q] = None
            /\ question' = [question EXCEPT ![q] = call[c].sid]
            /\ asker' = [asker EXCEPT ![q] = call[c].sid]
            /\ call' = [call EXCEPT ![c].pc = "look", ![c].qid = q, ![c].site = "poll"]
      BY <2>1 DEF WriteQuestion
    <3>2. call[c].sid \in Workers /\ UNCHANGED <<answer, reply, answered>>
      BY <2>1 DEF WriteQuestion, RefInv
    <3>3. Others(c) /\ call'[c].pc = "look" /\ call'[c].site = "poll"
      BY <3>1 DEF TypeOK, Call
    <3>4. CallOk(c)'
      BY <3>3 DEF CallOk
    <3>5. ASSUME NEW p \in Qids PROVE QuestionOk(p)'
      <4>1. CASE p = q
        BY <3>1, <3>2, <4>1, NoneAssumption DEF QuestionOk, TypeOK
      <4>2. CASE p # q
        <5>1. asker'[p] = asker[p] /\ question'[p] = question[p]
          BY <3>1, <4>2 DEF TypeOK
        <5> QED BY <5>1, <1>0, Kept
      <4> QED BY <4>1, <4>2
    <3> QED BY <1>0, <3>2, <3>3, <3>4, <3>5, Kept
  <2>2. CASE LookHit(c)
    <3>1. CallGoes(c, "read", call[c].site) /\ call[c].pc = "look"
      BY <2>2 DEF LookHit
    <3>2. call[c].site \in Sites /\ "read" \in CallPcs
      BY DEF TypeOK, Call, CallPcs
    <3>3. Others(c) /\ call'[c].pc = "read" /\ call'[c].qid = call[c].qid
          /\ call'[c].site = call[c].site
      BY <3>1, <3>2, CallGoesFacts DEF TypeOK
    <3>4. call[c].qid \in answered
      BY <2>0, <2>2 DEF LookHit, AccountInv, AnswerOk
    <3>5. CallOk(c)'
      BY <1>0, <2>0, <3>1, <3>3, <3>4 DEF CallOk, Monotone, RefInv
    <3> QED BY <1>3, <2>2, <3>3, <3>5 DEF LookHit
  <2>3. CASE LookMiss(c)
    <3>1. AfterMiss(c) /\ call[c].pc = "look" /\ answer[call[c].qid] = NoAnswer
      BY <2>3 DEF LookMiss
    <3>2. call[c].qid \in Qids /\ asker[call[c].qid] # None
      BY <3>1 DEF RefInv
    <3>3. call[c].site = "again" => call[c].qid \in dropped \/ Taken(call[c].qid)
      BY <2>0, <3>1, <3>2 DEF CallOk, AccountInv, QuestionOk, AnswerOk
    <3> QED BY <1>3, <2>3, <2>a, <3>1, <3>3 DEF LookMiss
  <2>4. CASE ReadAnswer(c)
    <3>1. /\ call[c].pc = "read" /\ call[c].qid \in Qids
          /\ call[c].qid \in answered
      BY <2>0, <2>4 DEF ReadAnswer, CallOk
    <3>2. answer[call[c].qid] = NoAnswer => Taken(call[c].qid)
      BY <3>1 DEF AccountInv, AnswerOk
    <3>3. CASE Return(c)
      BY <1>3, <2>4, <3>3, ReturnFacts DEF ReadAnswer, TypeOK, CallOk
    <3>4. CASE answer[call[c].qid] = NoAnswer /\ CallGoes(c, "discard", call[c].site)
      <4>1. call[c].site \in Sites /\ "discard" \in CallPcs
        BY DEF TypeOK, Call, CallPcs
      <4>2. /\ Others(c) /\ call'[c].pc = "discard"
            /\ call'[c].qid = call[c].qid /\ call'[c].site = call[c].site
        BY <3>4, <4>1, CallGoesFacts DEF TypeOK
      <4>3. CallOk(c)'
        BY <1>0, <2>0, <3>1, <3>2, <3>4, <4>2 DEF CallOk, Monotone, RefInv
      <4> QED BY <1>3, <2>4, <4>2, <4>3 DEF ReadAnswer
    <3>5. CASE /\ answer[call[c].qid] # NoAnswer
               /\ call' = [call EXCEPT ![c].pc = "take", ![c].site = "poll",
                                       ![c].data = answer[call[c].qid]]
      <4>1. answer[call[c].qid] \in Answer
        BY <3>1, <3>5 DEF TypeOK
      <4>2. /\ Others(c) /\ call'[c].pc = "take"
            /\ call'[c].qid = call[c].qid /\ call'[c].site = "poll"
        BY <3>5, <4>1, TakesFacts DEF TypeOK
      <4>3. CallOk(c)'
        BY <1>0, <3>1, <4>2 DEF CallOk, Monotone
      <4> QED BY <1>3, <2>4, <4>2, <4>3 DEF ReadAnswer
    <3> QED BY <2>4, <3>3, <3>4, <3>5 DEF ReadAnswer
  <2>5. CASE TakeAnswer(c)
    <3>1. /\ call[c].pc = "take" /\ call[c].qid \in Qids /\ call[c].sid \in Workers
          /\ AnswerOf(call[c].qid, call[c].data)
          /\ answer' = [answer EXCEPT ![call[c].qid] = NoAnswer]
          /\ taken' = taken \union {<<call[c].data.text, call[c].sid>>}
          /\ UNCHANGED <<question, reply, asker, answered>>
      BY <2>5 DEF TakeAnswer, RefInv, TextInv
    <3>2. Others(c) /\ call'[c].pc = "free" /\ call'[c].site = "poll"
      BY <2>5, ReturnFacts DEF TakeAnswer, TypeOK
    <3>4. CallOk(c)'
      BY <3>2 DEF CallOk
    <3>5. ASSUME NEW q \in Qids, q = call[c].qid PROVE Taken(q)'
      <4>1. PICK a \in Answerers : a = call[c].data.text /\ reply[a].qid = q
        BY <3>1, <3>5 DEF AnswerOf, Answer
      <4>2. <<a, call[c].sid>> \in taken'
        BY <3>1, <4>1
      <4>3. Read(a)'
        BY <3>1, <4>2 DEF Read
      <4> QED BY <3>1, <4>1, <4>3 DEF Taken
    <3>6. ASSUME NEW q \in Qids PROVE AnswerOk(q)'
      <4>1. CASE q = call[c].qid
        BY <3>1, <3>5, <4>1 DEF AnswerOk, TypeOK
      <4>2. CASE q # call[c].qid
        BY <1>0, <3>1, <4>2, Kept DEF TypeOK
      <4> QED BY <4>1, <4>2
    <3> QED BY <1>0, <3>1, <3>2, <3>4, <3>6, Kept
  <2>6. CASE DiscardAnswer(c)
    <3>1. /\ AfterMiss(c) /\ call[c].pc = "discard" /\ call[c].qid \in Qids
          /\ answer' = [answer EXCEPT ![call[c].qid] = NoAnswer]
          /\ UNCHANGED <<question, reply, asker, answered>>
      BY <2>0, <2>6 DEF DiscardAnswer
    <3>2. Taken(call[c].qid) /\ \A q \in Qids : q = call[c].qid => Taken(q)'
      BY <1>0, <2>0, <3>1 DEF CallOk, Monotone
    <3>3. Others(c) /\ CallOk(c)'
      BY <2>a, <3>1, <3>2
    <3>4. ASSUME NEW q \in Qids PROVE AnswerOk(q)'
      <4>1. CASE q = call[c].qid
        BY <3>1, <3>2, <4>1 DEF AnswerOk, TypeOK
      <4>2. CASE q # call[c].qid
        BY <1>0, <3>1, <4>2, Kept DEF TypeOK
      <4> QED BY <4>1, <4>2
    <3> QED BY <1>0, <3>1, <3>3, <3>4, Kept
  <2>7. CASE FindQuestion(c)
    <3>1. CASE Return(c)
      BY <1>3, <2>7, <3>1, ReturnFacts DEF FindQuestion, TypeOK, CallOk
    <3>2. CASE \E site \in Sites : /\ CallGoes(c, "look", site)
                                   /\ site = "again" => question[call[c].qid] = None
      <4>1. PICK site \in Sites : /\ CallGoes(c, "look", site)
                                  /\ site = "again" => question[call[c].qid] = None
        BY <3>2
      <4>2. call[c].pc = "find" /\ "look" \in CallPcs
        BY <2>7 DEF FindQuestion, CallPcs
      <4>3. Others(c) /\ call'[c].pc = "look" /\ call'[c].qid = call[c].qid
            /\ call'[c].site = site
        BY <4>1, <4>2, CallGoesFacts DEF TypeOK
      <4>4. CallOk(c)'
        BY <1>0, <2>0, <4>1, <4>2, <4>3 DEF CallOk, Monotone, RefInv
      <4> QED BY <1>3, <2>7, <4>3, <4>4 DEF FindQuestion
    <3> QED BY <2>7, <3>1, <3>2 DEF FindQuestion, Sites
  <2> QED BY <1>4, <2>1, <2>2, <2>3, <2>4, <2>5, <2>6, <2>7 DEF CallStep
<1>5. ASSUME NEW c \in Calls, WorkerStep(c) PROVE Parts
  <2>1. ASSUME NEW w \in Workers, AskNew(c, w) PROVE Others(c) /\ CallOk(c)'
    BY <2>1 DEF AskNew, TypeOK, CallOk, FreeCall
  <2>2. ASSUME NEW w \in Workers, NEW q \in Qids, AskResume(c, w, q)
        PROVE  Others(c) /\ CallOk(c)'
    BY <2>2 DEF AskResume, TypeOK, CallOk, FreeCall
  <2>3. ASSUME AskAgain(c) PROVE Others(c) /\ CallOk(c)'
    BY <2>3 DEF AskAgain, CallGoes, TypeOK, Call, CallOk
  <2>4. ASSUME LookTimeout(c) PROVE Others(c) /\ CallOk(c)'
    BY <2>4 DEF LookTimeout, CallGoes, TypeOK, Call, CallOk
  <2>5. ASSUME Forget(c) PROVE Others(c) /\ CallOk(c)'
    BY <2>5, ReturnFacts DEF Forget, TypeOK, CallOk
  <2>6. Others(c) /\ CallOk(c)'
    BY <1>5, <2>1, <2>2, <2>3, <2>4, <2>5 DEF WorkerStep
  <2>7. UNCHANGED <<reply, asker, question, answered, answer>>
    BY <1>5 DEF WorkerStep, AskNew, AskResume, AskAgain, LookTimeout, Forget
  <2> QED BY <1>3, <2>6, <2>7
<1>6. ASSUME NEW a \in Answerers, AnswerStep(a) PROVE Parts
  <2>0. call' = call
    BY <1>6 DEF AnswerStep, AnswerRead, AnswerWrite, AnswerUnlink
  <2>1. CASE AnswerRead(a)
    <3>1. UNCHANGED <<asker, question, answered, answer>>
      BY <2>1 DEF AnswerRead
    <3>2. \A b \in Answerers : ReplyOk(b)'
      BY <2>1, <3>1 DEF AnswerRead, ReplyOk, Written, TypeOK, Reply, AccountInv
    <3> QED BY <1>0, <2>0, <3>1, <3>2, Kept
  <2>2. CASE AnswerWrite(a)
    <3>1. reply[a].stamp \in OrNone(Workers) /\ reply[a].qid \in Qids
      BY <2>2 DEF AnswerWrite, TypeOK, RefInv, Reply
    <3>2. /\ answer' = [answer EXCEPT ![reply[a].qid] =
                                  [text |-> a, stamp |-> reply[a].stamp]]
          /\ answered' = answered \union {reply[a].qid}
          /\ UNCHANGED <<asker, question>>
      BY <2>2 DEF AnswerWrite
    <3>3. \A b \in Answerers : ReplyOk(b)'
      <4>1. /\ reply'[a].qid = reply[a].qid
            /\ \A b \in Answerers : b # a => reply'[b] = reply[b]
        BY <2>2, ReplyFacts DEF AnswerWrite, TypeOK
      <4> QED BY <3>1, <3>2, <4>1 DEF ReplyOk, Written, AccountInv
    <3>4. ASSUME NEW q \in Qids PROVE AnswerOk(q)'
      <4>1. CASE q = reply[a].qid
        BY <3>1, <3>2, <4>1, WrittenIsAnswer DEF AnswerOk, TypeOK
      <4>2. CASE q # reply[a].qid
        BY <1>0, <3>2, <4>2 DEF AnswerOk, TypeOK, AccountInv, Monotone
      <4> QED BY <4>1, <4>2
    <3> QED BY <1>0, <2>0, <3>2, <3>3, <3>4, Kept
  <2>3. CASE AnswerUnlink(a)
    <3>1. /\ question' = [question EXCEPT ![reply[a].qid] = None]
          /\ reply[a].qid \in answered
          /\ UNCHANGED <<asker, answered, answer>>
      BY <2>3 DEF AnswerUnlink, AccountInv, ReplyOk, Written
    <3>2. \A b \in Answerers : ReplyOk(b)'
      BY <2>3, <3>1 DEF AnswerUnlink, ReplyOk, Written, TypeOK, Reply, AccountInv
    <3>3. \A q \in Qids : QuestionOk(q)'
      BY <1>0, <3>1 DEF QuestionOk, TypeOK, AccountInv, Monotone
    <3> QED BY <1>0, <2>0, <3>1, <3>2, <3>3, Kept
  <2> QED BY <1>6, <2>1, <2>2, <2>3 DEF AnswerStep
<1>7. ASSUME NEW a \in Answerers, NEW q \in Qids, AnswerFind(a, q) PROVE Parts
  <2>1. UNCHANGED <<call, asker, question, answered, answer>>
    BY <1>7 DEF AnswerFind
  <2>2. \A b \in Answerers : ReplyOk(b)'
    BY <1>7, <2>1 DEF AnswerFind, ReplyOk, Written, TypeOK, Reply, AccountInv
  <2> QED BY <1>0, <2>1, <2>2, Kept
<1>8. ASSUME NEW w \in Workers, KillCalls(w), UNCHANGED <<question, answer, reply, asker, answered>>
      PROVE  Parts
  <2>1. \A c \in Calls : call'[c] = call[c] \/ (call'[c].pc = "free" /\ call'[c].site = "poll")
    BY <1>8, KillCallsFacts
  <2> QED BY <1>0, <1>8, <2>1, Kept
<1>9. ASSUME UNCHANGED <<call, question, answer, reply, asker, answered>> PROVE Parts
  BY <1>0, <1>9, Kept
<1>10. ASSUME NEW w \in Workers, Reap(w) PROVE Parts
  <2>1. CASE DropOne(w)
    <3>1. UNCHANGED <<call, answer, reply, asker, answered>>
      BY <2>1 DEF DropOne
    <3>2. \A q \in Qids : \/ question'[q] = question[q]
                          \/ q \in dropped'
      BY <2>1 DEF DropOne, TypeOK
    <3>3. \A q \in Qids : QuestionOk(q)'
      BY <1>0, <3>1, <3>2, Kept DEF QuestionOk
    <3> QED BY <1>0, <3>1, <3>3, Kept
  <2>2. CASE KillClose(w)
    BY <1>8, <1>9, <2>2 DEF KillClose
  <2>3. CASE DropList(w)
    BY <1>9, <2>3 DEF DropList
  <2> QED BY <1>10, <2>1, <2>2, <2>3 DEF Reap
<1>11. ASSUME NEW w \in Workers, Lifecycle(w) PROVE Parts
  <2>1. CASE SessionDies(w)
    BY <1>8, <2>1 DEF SessionDies
  <2>2. CASE ~SessionDies(w)
    BY <1>9, <1>11, <2>2 DEF Lifecycle, SessionStart, EndSession, KillWorker
  <2> QED BY <2>1, <2>2
<1>12. CASE UNCHANGED vars
  BY <1>2, <1>9, <1>12 DEF vars
<1> QED BY <1>2, <1>4, <1>5, <1>6, <1>7, <1>10, <1>11, <1>12 DEF Next

LEMMA InvCorrect == Spec => []Inv
<1>1. Init => AccountInv
  BY DEF Init, AccountInv, CallOk, ReplyOk, Written, QuestionOk, AnswerOk, FreeCall
<1>a. Init => TextInv
  BY DEF Init, TextInv, Read, FreeCall
<1>b. Init => EachInv
  BY DEF Init, EachInv, UnlinkOk, TextOk, Written, FreeCall
<1>2. Inv /\ [Next]_vars => Inv'
  BY AccountStep, TypeRefStep, TextStep, EachStep DEF Inv
<1>3. Init => TypeOK /\ RefInv
  BY InitTypeRef
<1>4. Init => Inv
  BY <1>1, <1>a, <1>b, <1>3 DEF Inv
<1> QED BY <1>2, <1>4, PTL DEF Spec

\* However calls, answers and lifecycle handlers interleave, a question is
\* removed only after its answer was written or by the lifecycle.
THEOREM QuestionsAccounted == Spec => []QuestionAccounted
<1>1. Inv => QuestionAccounted
  BY DEF Inv, AccountInv, QuestionOk, QuestionAccounted
<1> QED BY <1>1, InvCorrect, PTL

\* Each written answer is on disk or was read by a call, unless a second
\* answer to the same question exposed it, by overwriting it or by being read
\* just before it was written; and then another answer is on disk or was
\* read: for any number of concurrent answers and calls.
THEOREM AnswersSurvive == Spec => []AnswerSurvives
<1>1. Inv => AnswerSurvives
  <2> SUFFICES ASSUME Inv, NEW a \in Answerers, Written(a), ~OnDisk(a), ~Read(a)
               PROVE  /\ a \in exposed
                      /\ \E b \in Answerers : /\ b # a /\ Written(b)
                                              /\ reply[b].qid = reply[a].qid
                                              /\ OnDisk(b) \/ Read(b)
    BY DEF AnswerSurvives
  <2> USE DEF Inv
  <2>1. a \in exposed
    BY DEF EachInv, TextOk
  <2> DEFINE q == reply[a].qid
  <2>2. q \in Qids /\ q \in answered
    BY DEF RefInv, AccountInv, ReplyOk, Written
  <2>3. CASE answer[q] # NoAnswer
    <3>1. AnswerOf(q, answer[q])
      BY <2>2, <2>3 DEF TextInv
    <3>2. PICK b \in Answerers : b = answer[q].text
      BY <3>1 DEF AnswerOf, Answer
    <3>3. OnDisk(b)
      BY <2>2, <3>2 DEF OnDisk
    <3> QED BY <2>1, <3>1, <3>2, <3>3 DEF AnswerOf
  <2>4. CASE Taken(q)
    BY <2>1, <2>4 DEF Taken, TextInv
  <2> QED BY <2>2, <2>3, <2>4 DEF AccountInv, AnswerOk
<1> QED BY <1>1, InvCorrect, PTL

\* ask_manager never reports a question missing while its answer is waiting.
THEOREM ResumesFindAnswers == Spec => []ResumeFindsAnswer
<1>1. Inv => ResumeFindsAnswer
  BY DEF Inv, AccountInv, CallOk, ResumeFindsAnswer
<1> QED BY <1>1, InvCorrect, PTL

(***************************************************************************)
(* Whose hands an answer reaches                                           *)
(***************************************************************************)
\* The question file of q may go between exists() and read_json().
Loose(q) ==
    \/ q \in dropped
    \/ \E a, b \in Answerers : a # b /\ reply[a].qid = q /\ reply[b].qid = q

\* A call past the stamp check is its asker's, unless the answer is loose.
CallStamp(c) == call[c].pc = "take"
                  => call[c].sid = asker[call[c].qid] \/ Loose(call[c].qid)

\* An answer_question that saw the question file reads it, unless it is loose.
ReplyStamp(a) ==
    /\ reply[a].pc = "free" => reply[a].qid = None
    /\ reply[a].pc = "exists" => question[reply[a].qid] # None \/ Loose(reply[a].qid)
    /\ reply[a].pc = "write"
         => reply[a].stamp = asker[reply[a].qid] \/ Loose(reply[a].qid)

\* The files carry the asker's sid.
FileStamp(q) ==
    /\ question[q] \in {None, asker[q]}
    /\ answer[q] # NoAnswer => asker[q] # None /\ (answer[q].stamp = asker[q] \/ Loose(q))

\* Who took an answer is its question's asker.
TakerStamp(a) ==
    \A w \in Workers : <<a, w>> \in taken =>
        w = asker[reply[a].qid] \/ Loose(reply[a].qid)

StampInv ==
    /\ \A c \in Calls : CallStamp(c)
    /\ \A a \in Answerers : ReplyStamp(a) /\ TakerStamp(a)
    /\ \A q \in Qids : FileStamp(q)

Inv2 == Inv /\ StampInv

\* What is loose stays loose: no handler gives up its question id.
LEMMA LooseStable ==
    ASSUME TypeOK, RefInv, StampInv, [Next]_vars, NEW q \in Qids, Loose(q)
    PROVE  Loose(q)'
<1>1. dropped \subseteq dropped'
  <2> USE DEF TypeOK, files, history, CallsOnly
  <2>1. ASSUME NEW c \in Calls, CallStep(c) \/ WorkerStep(c) PROVE dropped' = dropped
    BY <2>1 DEF CallStep, WriteQuestion, LookHit, LookMiss, ReadAnswer, TakeAnswer,
                DiscardAnswer, FindQuestion, WorkerStep, AskNew, AskResume, AskAgain,
                LookTimeout, Forget
  <2>2. ASSUME NEW a \in Answerers, AnswerStep(a) \/ \E p \in Qids : AnswerFind(a, p)
        PROVE  dropped' = dropped
    BY <2>2 DEF AnswerStep, AnswerFind, AnswerRead, AnswerWrite, AnswerUnlink
  <2>3. ASSUME NEW w \in Workers, Reap(w) \/ Lifecycle(w) PROVE dropped \subseteq dropped'
    BY <2>3 DEF Reap, DropList, DropOne, KillClose, Lifecycle, SessionDies,
                SessionStart, EndSession, KillWorker
  <2> QED BY <2>1, <2>2, <2>3 DEF Next, vars
<1>2. \A a \in Answerers : reply[a].qid = q => reply'[a].qid = q
  <2> USE DEF TypeOK, files, history, CallsOnly
  <2>1. CASE UNCHANGED reply
    BY <2>1
  <2>2. ASSUME NEW a \in Answerers, AnswerStep(a)
        PROVE  \A b \in Answerers : reply'[b].qid = reply[b].qid
    BY <2>2 DEF AnswerStep, AnswerRead, AnswerWrite, AnswerUnlink, Reply
  <2>3. ASSUME NEW a \in Answerers, NEW p \in Qids, AnswerFind(a, p)
        PROVE  \A b \in Answerers : reply[b].qid = q => reply'[b].qid = q
    BY <2>3, NoneAssumption DEF AnswerFind, StampInv, ReplyStamp
  <2>4. ASSUME NEW c \in Calls, CallStep(c) \/ WorkerStep(c) PROVE UNCHANGED reply
    BY <2>4 DEF CallStep, WriteQuestion, LookHit, LookMiss, ReadAnswer, TakeAnswer,
                DiscardAnswer, FindQuestion, WorkerStep, AskNew, AskResume,
                AskAgain, LookTimeout, Forget
  <2>5. ASSUME NEW w \in Workers, Reap(w) \/ Lifecycle(w) PROVE UNCHANGED reply
    BY <2>5 DEF Reap, DropList, DropOne, KillClose, Lifecycle, SessionDies,
                SessionStart, EndSession, KillWorker
  <2>6. CASE UNCHANGED vars
    BY <2>1, <2>6 DEF vars
  <2> QED BY <2>1, <2>2, <2>3, <2>4, <2>5, <2>6 DEF Next
<1> QED BY <1>1, <1>2 DEF Loose

\* The asker of a question that was asked never changes.
LEMMA AskerStable ==
    ASSUME TypeOK, RefInv, [Next]_vars, NEW q \in Qids, asker[q] # None
    PROVE  asker'[q] = asker[q]
<1> USE DEF TypeOK, files, history, CallsOnly
<1>1. ASSUME NEW c \in Calls, CallStep(c) PROVE asker'[q] = asker[q]
  BY <1>1 DEF CallStep, WriteQuestion, LookHit, LookMiss, ReadAnswer, TakeAnswer,
              DiscardAnswer, FindQuestion
<1>2. ASSUME NEW c \in Calls, WorkerStep(c) PROVE asker'[q] = asker[q]
  BY <1>2 DEF WorkerStep, AskNew, AskResume, AskAgain, LookTimeout, Forget
<1>3. ASSUME NEW a \in Answerers, AnswerStep(a) \/ \E p \in Qids : AnswerFind(a, p)
      PROVE  asker'[q] = asker[q]
  BY <1>3 DEF AnswerStep, AnswerFind, AnswerRead, AnswerWrite, AnswerUnlink
<1>4. ASSUME NEW w \in Workers, Reap(w) \/ Lifecycle(w) PROVE asker'[q] = asker[q]
  BY <1>4 DEF Reap, DropList, DropOne, KillClose, KillCalls, Lifecycle,
              SessionDies, SessionStart, EndSession, KillWorker
<1>5. CASE UNCHANGED vars
  BY <1>5 DEF vars
<1> QED BY <1>1, <1>2, <1>3, <1>4, <1>5 DEF Next

\* What a step leaves alone keeps its stamps.
LEMMA StampKept ==
    ASSUME TypeOK, RefInv, StampInv, [Next]_vars
    PROVE  /\ \A c \in Calls : call'[c] = call[c] => CallStamp(c)'
           /\ \A c \in Calls : call'[c].pc # "take" => CallStamp(c)'
           /\ \A a \in Answerers : UNCHANGED <<question, reply>> => ReplyStamp(a)'
           /\ \A q \in Qids : question'[q] = question[q] /\ answer'[q] = answer[q]
                              /\ asker' = asker
                                => FileStamp(q)'
<1>1. /\ \A q \in Qids : Loose(q) => Loose(q)'
      /\ \A q \in Qids : asker[q] # None => asker'[q] = asker[q]
  BY LooseStable, AskerStable
<1>2. ASSUME NEW c \in Calls, call'[c] = call[c] PROVE CallStamp(c)'
  <2>1. call[c].pc = "take"
          => call[c].qid \in Qids /\ asker[call[c].qid] # None
    BY DEF RefInv
  <2> QED BY <1>1, <1>2, <2>1 DEF CallStamp, StampInv
<1>3. \A c \in Calls : call'[c].pc # "take" => CallStamp(c)'
  BY DEF CallStamp
<1>4. ASSUME NEW a \in Answerers, UNCHANGED <<question, reply>> PROVE ReplyStamp(a)'
  <2>1. reply[a].pc # "free" => reply[a].qid \in Qids /\ asker[reply[a].qid] # None
    BY DEF RefInv
  <2> QED BY <1>1, <1>4, <2>1 DEF ReplyStamp, StampInv
<1>5. ASSUME NEW q \in Qids, question'[q] = question[q], answer'[q] = answer[q],
             asker' = asker
      PROVE  FileStamp(q)'
  BY <1>1, <1>5 DEF FileStamp, StampInv
<1> QED BY <1>2, <1>3, <1>4, <1>5

\* Only a call past the stamp check takes an answer.
LEMMA TakerStep ==
    ASSUME TypeOK, RefInv, TextInv, StampInv, [Next]_vars, NEW a \in Answerers
    PROVE  TakerStamp(a)'
<1> USE DEF files, history, CallsOnly
<1>1. ASSUME NEW w \in Workers, <<a, w>> \in taken', <<a, w>> \notin taken
      PROVE  \E c \in Calls : call[c].pc = "take" /\ call[c].data.text = a /\ call[c].sid = w
  <2>1. PICK c \in Calls : TakeAnswer(c)
    <3>1. ASSUME NEW c \in Calls, CallStep(c) \/ WorkerStep(c), ~TakeAnswer(c)
          PROVE  taken' = taken
      BY <3>1 DEF CallStep, WriteQuestion, LookHit, LookMiss, ReadAnswer, DiscardAnswer,
                  FindQuestion, WorkerStep, AskNew, AskResume, AskAgain, LookTimeout, Forget
    <3>2. ASSUME NEW b \in Answerers, AnswerStep(b) \/ \E p \in Qids : AnswerFind(b, p)
          PROVE  taken' = taken
      BY <3>2 DEF AnswerStep, AnswerFind, AnswerRead, AnswerWrite, AnswerUnlink
    <3>3. ASSUME NEW v \in Workers, Reap(v) \/ Lifecycle(v) PROVE taken' = taken
      BY <3>3 DEF Reap, DropList, DropOne, KillClose, Lifecycle, SessionDies,
                  SessionStart, EndSession, KillWorker
    <3> QED BY <1>1, <3>1, <3>2, <3>3 DEF Next, vars
  <2> DEFINE t == call[c].data.text
             v == call[c].sid
  <2>2. taken' = taken \union {<<t, v>>} /\ call[c].pc = "take"
    BY <2>1 DEF TakeAnswer
  <2> HIDE DEF t, v
  <2>3. t = a /\ v = w
    BY <1>1, <2>2
  <2> QED BY <2>2, <2>3 DEF t, v
<1>2. ASSUME NEW w \in Workers, <<a, w>> \in taken'
      PROVE  w = asker'[reply'[a].qid] \/ Loose(reply[a].qid)'
  <2> DEFINE q == reply[a].qid
  <2>1. w = asker[q] \/ Loose(q)
    <3>1. CASE <<a, w>> \in taken
      BY <3>1 DEF StampInv, TakerStamp
    <3>2. CASE <<a, w>> \notin taken
      <4>1. PICK c \in Calls : call[c].pc = "take" /\ call[c].data.text = a /\ call[c].sid = w
        BY <1>1, <1>2, <3>2
      <4>2. call[c].qid = q
        BY <4>1 DEF TextInv, AnswerOf
      <4> QED BY <4>1, <4>2 DEF StampInv, CallStamp
    <3> QED BY <3>1, <3>2
  <2>2. Written(a)
    <3>1. CASE <<a, w>> \in taken
      BY <3>1 DEF TextInv, Read
    <3>2. CASE <<a, w>> \notin taken
      BY <1>1, <1>2, <3>2 DEF TextInv, AnswerOf
    <3> QED BY <3>1, <3>2
  <2>3. reply'[a].qid = q /\ q \in Qids /\ asker[q] # None
    BY <2>2, WrittenStable DEF RefInv, Written
  <2>4. asker'[q] = asker[q] /\ (Loose(q) => Loose(q)')
    BY <2>3, AskerStable, LooseStable
  <2> QED BY <2>1, <2>3, <2>4
<1> QED BY <1>2 DEF TakerStamp, Loose

\* Every step keeps the stamps.
LEMMA StampStep == Inv2 /\ [Next]_vars => StampInv'
<1> SUFFICES ASSUME TypeOK, RefInv, TextInv, AccountInv, StampInv, [Next]_vars PROVE StampInv'
  BY DEF Inv2, Inv
<1>0. /\ \A q \in Qids : Loose(q) => Loose(q)'
      /\ \A q \in Qids : asker[q] # None => asker'[q] = asker[q]
  BY LooseStable, AskerStable
<1> DEFINE Others(c) == \A d \in Calls : d # c => call'[d] = call[d]
           CallsOk == \A c \in Calls : CallStamp(c)'
           RepliesOk == \A a \in Answerers : ReplyStamp(a)'
           FilesOk == \A q \in Qids : FileStamp(q)'
<1>1. CallsOk /\ RepliesOk /\ FilesOk => StampInv'
  BY TakerStep DEF StampInv
<1>2. /\ UNCHANGED call => CallsOk
      /\ UNCHANGED <<question, reply>> => RepliesOk
      /\ UNCHANGED <<question, answer, asker>> => FilesOk
      /\ \A c \in Calls : Others(c) /\ CallStamp(c)' => CallsOk
      /\ \A c \in Calls : call'[c].pc # "take" => CallStamp(c)'
  BY StampKept
<1> USE DEF files, history, CallsOnly
<1>3. ASSUME NEW c \in Calls, CallStep(c) PROVE CallsOk /\ RepliesOk /\ FilesOk
  <2>0. /\ call[c] \in Call /\ call[c].site \in Sites
        /\ call[c].pc \notin {"free", "write"}
             => call[c].qid \in Qids /\ asker[call[c].qid] # None
        /\ call[c].pc # "free" => call[c].sid \in Workers
    BY DEF TypeOK, Call, RefInv
  <2>1. CASE WriteQuestion(c)
    <3>1. PICK q \in Qids :
            /\ asker[q] = None
            /\ question' = [question EXCEPT ![q] = call[c].sid]
            /\ asker' = [asker EXCEPT ![q] = call[c].sid]
            /\ call' = [call EXCEPT ![c].pc = "look", ![c].qid = q, ![c].site = "poll"]
            /\ UNCHANGED <<answer, reply, dropped>>
      BY <2>1 DEF WriteQuestion
    <3>2. call[c].sid \in Workers /\ call[c].sid # None
      BY <2>0, <2>1, NoneAssumption DEF WriteQuestion
    <3>3. Others(c) /\ call'[c].pc = "look"
      BY <3>1 DEF TypeOK, Call
    <3>4. RepliesOk
      <4>1. \A p \in Qids : question[p] # None => question'[p] # None
        BY <3>1, <3>2 DEF TypeOK
      <4>2. \A a \in Answerers : reply[a].pc # "free"
                => reply[a].qid \in Qids /\ asker[reply[a].qid] # None
        BY DEF RefInv
      <4> QED BY <1>0, <3>1, <4>1, <4>2 DEF StampInv, ReplyStamp
    <3>5. FilesOk
      <4>1. \A p \in Qids : question'[p] \in {None, asker'[p]}
        BY <3>1 DEF StampInv, FileStamp, TypeOK
      <4> QED BY <1>0, <3>1, <4>1 DEF StampInv, FileStamp
    <3> QED BY <1>2, <3>3, <3>4, <3>5
  <2>2. CASE ReadAnswer(c)
    <3>1. /\ call[c].pc = "read" /\ call[c].qid \in Qids
          /\ UNCHANGED <<question, answer, reply, asker, dropped>>
      BY <2>0, <2>2 DEF ReadAnswer
    <3>2. Others(c)
      BY <2>2 DEF ReadAnswer, CallGoes, Return, TypeOK
    <3>3. CASE answer[call[c].qid] # NoAnswer /\ answer[call[c].qid].stamp \in {None, call[c].sid}
               /\ call' = [call EXCEPT ![c].pc = "take", ![c].site = "poll",
                                       ![c].data = answer[call[c].qid]]
      <4>0. answer[call[c].qid] \in Answer
        BY <3>1, <3>3 DEF TypeOK
      <4>1. /\ call'[c].sid = call[c].sid /\ call'[c].qid = call[c].qid
            /\ call'[c].pc = "take"
        BY <3>3, <4>0, TakesFacts DEF TypeOK
      <4>2. /\ asker[call[c].qid] # None
            /\ answer[call[c].qid].stamp = asker[call[c].qid] \/ Loose(call[c].qid)
        BY <2>0, <3>1, <3>3 DEF StampInv, FileStamp
      <4>3. CallStamp(c)'
        BY <1>0, <3>1, <3>3, <4>1, <4>2 DEF CallStamp
      <4> QED BY <1>2, <3>1, <3>2, <4>3
    <3>4. CASE CallGoes(c, "discard", call[c].site) \/ Return(c)
      <4>1. call'[c].pc \in {"discard", "free"}
        BY <3>4 DEF CallGoes, Return, FreeCall, TypeOK, Call
      <4> QED BY <1>2, <3>1, <3>2, <4>1
    <3> QED BY <2>2, <3>3, <3>4 DEF ReadAnswer
  <2>3. CASE TakeAnswer(c)
    <3>1. /\ answer' = [answer EXCEPT ![call[c].qid] = NoAnswer]
          /\ UNCHANGED <<question, reply, asker, dropped>>
      BY <2>3 DEF TakeAnswer
    <3>2. Others(c) /\ call'[c].pc = "free"
      BY <2>3, ReturnFacts DEF TakeAnswer, TypeOK
    <3>3. FilesOk
      BY <1>0, <3>1 DEF StampInv, FileStamp, TypeOK
    <3> QED BY <1>2, <3>1, <3>2, <3>3
  <2>4. CASE DiscardAnswer(c)
    <3>1. PICK pc \in CallPcs, site \in Sites :
             CallGoes(c, pc, site) /\ pc \in {"find", "missing", "look"}
      BY <2>0, <2>4, AfterMissFacts DEF DiscardAnswer, TypeOK, Sites
    <3>2. Others(c) /\ call'[c].pc = pc
      BY <3>1, CallGoesFacts DEF TypeOK
    <3>3. /\ answer' = [answer EXCEPT ![call[c].qid] = NoAnswer]
          /\ UNCHANGED <<question, reply, asker, dropped>>
      BY <2>4 DEF DiscardAnswer
    <3>4. FilesOk
      BY <1>0, <3>3 DEF StampInv, FileStamp, TypeOK
    <3> QED BY <1>2, <3>1, <3>2, <3>3, <3>4
  <2>5. CASE LookHit(c) \/ LookMiss(c) \/ FindQuestion(c)
    <3>1. UNCHANGED <<question, answer, reply, asker, dropped>>
      BY <2>5 DEF LookHit, LookMiss, FindQuestion
    <3>2. CASE Return(c)
      BY <1>2, <3>1, <3>2, ReturnFacts DEF TypeOK
    <3>3. CASE \E pc \in CallPcs, site \in Sites :
             CallGoes(c, pc, site) /\ pc \in {"read", "find", "missing", "look"}
      BY <1>2, <3>1, <3>3, CallGoesFacts DEF TypeOK
    <3>4. CASE LookHit(c)
      BY <2>0, <3>3, <3>4 DEF LookHit, CallPcs
    <3>5. CASE LookMiss(c)
      BY <2>0, <3>3, <3>5, AfterMissFacts DEF LookMiss, TypeOK, Sites
    <3>6. CASE FindQuestion(c)
      BY <3>2, <3>3, <3>6 DEF FindQuestion, CallPcs, Sites
    <3> QED BY <2>5, <3>4, <3>5, <3>6
  <2> QED BY <1>3, <2>1, <2>2, <2>3, <2>4, <2>5 DEF CallStep
<1>4. ASSUME NEW c \in Calls, WorkerStep(c) PROVE CallsOk /\ RepliesOk /\ FilesOk
  <2>1. UNCHANGED <<question, answer, reply, asker>>
    BY <1>4 DEF WorkerStep, AskNew, AskResume, AskAgain, LookTimeout, Forget
  <2>2. CASE AskAgain(c) \/ LookTimeout(c)
    <3>1. \E site \in Sites, pc \in {"look", "sentinel"} : CallGoes(c, pc, site)
      BY <2>2 DEF AskAgain, LookTimeout, Sites
    <3>2. Others(c) /\ call'[c].pc \in {"look", "sentinel"}
      BY <3>1, CallGoesFacts DEF TypeOK, CallPcs
    <3> QED BY <1>2, <2>1, <3>2
  <2>3. CASE ~(AskAgain(c) \/ LookTimeout(c))
    <3>1. PICK r : call' = [call EXCEPT ![c] = r] /\ r.pc \in {"write", "look", "free"}
      BY <1>4, <2>3 DEF WorkerStep, AskNew, AskResume, Forget, Return, FreeCall
    <3>2. Others(c) /\ call'[c] = r
      BY <3>1 DEF TypeOK
    <3> QED BY <1>2, <2>1, <3>1, <3>2
  <2> QED BY <2>2, <2>3
<1>5. ASSUME NEW a \in Answerers, AnswerStep(a) PROVE CallsOk /\ RepliesOk /\ FilesOk
  <2>0. /\ \A b \in Answerers : b # a => reply'[b] = reply[b]
        /\ \A b \in Answerers : reply'[b].qid = reply[b].qid
        /\ \A b \in Answerers : reply[b].pc # "free"
              => reply[b].qid \in Qids /\ asker[reply[b].qid] # None
        /\ UNCHANGED <<call, asker, dropped>>
    BY <1>5 DEF AnswerStep, AnswerRead, AnswerWrite, AnswerUnlink, TypeOK, Reply, RefInv
  <2>1. CASE AnswerRead(a)
    <3>1. /\ reply[a].pc = "exists" /\ UNCHANGED <<question, answer>>
          /\ reply'[a].pc = "write" /\ reply'[a].stamp = question[reply[a].qid]
      BY <2>1 DEF AnswerRead, TypeOK, Reply
    <3>2. \/ reply'[a].stamp = asker[reply[a].qid]
          \/ Loose(reply[a].qid)
      BY <2>0, <3>1 DEF StampInv, ReplyStamp, FileStamp
    <3>3. RepliesOk
      BY <1>0, <2>0, <3>1, <3>2 DEF StampInv, ReplyStamp
    <3> QED BY <1>2, <2>0, <3>1, <3>3
  <2>2. CASE AnswerWrite(a)
    <3>1. /\ reply[a].pc = "write" /\ reply'[a].pc = "unlink"
          /\ UNCHANGED question
          /\ answer' = [answer EXCEPT ![reply[a].qid] = [text |-> a, stamp |-> reply[a].stamp]]
      BY <2>2 DEF AnswerWrite, TypeOK, Reply
    <3>2. RepliesOk
      BY <1>0, <2>0, <3>1 DEF StampInv, ReplyStamp
    <3>3. FilesOk
      BY <1>0, <2>0, <3>1 DEF StampInv, ReplyStamp, FileStamp, TypeOK
    <3> QED BY <1>2, <2>0, <3>2, <3>3
  <2>3. CASE AnswerUnlink(a)
    <3>1. /\ reply[a].pc = "unlink" /\ reply'[a].pc = "ok"
          /\ UNCHANGED answer
          /\ question' = [question EXCEPT ![reply[a].qid] = None]
      BY <2>3 DEF AnswerUnlink, TypeOK, Reply
    <3>2. \A b \in Answerers : b # a /\ reply[b].qid = reply[a].qid => Loose(reply[b].qid)'
      BY <2>0 DEF Loose
    <3>3. \A b \in Answerers : reply[b].pc = "exists" /\ reply[b].qid # reply[a].qid
                => question'[reply[b].qid] = question[reply[b].qid]
      BY <2>0, <3>1 DEF TypeOK
    <3>4. RepliesOk
      <4>1. ReplyStamp(a)'
        BY <1>0, <2>0, <3>1 DEF StampInv, ReplyStamp
      <4>2. ASSUME NEW b \in Answerers, b # a PROVE ReplyStamp(b)'
        BY <1>0, <2>0, <3>1, <3>2, <3>3, <4>2 DEF StampInv, ReplyStamp
      <4> QED BY <4>1, <4>2
    <3>5. FilesOk
      BY <1>0, <2>0, <3>1 DEF StampInv, FileStamp, TypeOK
    <3> QED BY <1>2, <2>0, <3>4, <3>5
  <2> QED BY <1>5, <2>1, <2>2, <2>3 DEF AnswerStep
<1>6. ASSUME NEW a \in Answerers, NEW q \in Qids, AnswerFind(a, q)
      PROVE  CallsOk /\ RepliesOk /\ FilesOk
  <2>1. /\ UNCHANGED <<call, question, answer, asker>>
        /\ \A b \in Answerers : b # a => reply'[b] = reply[b]
        /\ reply'[a].pc = "exists" /\ reply'[a].qid = q /\ question[q] # None
    BY <1>6 DEF AnswerFind, TypeOK
  <2>2. \A b \in Answerers : reply[b].pc # "free"
              => reply[b].qid \in Qids /\ asker[reply[b].qid] # None
    BY DEF RefInv
  <2>3. RepliesOk
    BY <1>0, <2>1, <2>2 DEF StampInv, ReplyStamp
  <2> QED BY <1>2, <2>1, <2>3
<1>7. ASSUME NEW w \in Workers, KillCalls(w), UNCHANGED <<question, answer, reply, asker>>
      PROVE  CallsOk /\ RepliesOk /\ FilesOk
  <2>1. \A c \in Calls : call'[c] = call[c] \/ call'[c].pc = "free"
    BY <1>7, KillCallsFacts
  <2>2. CallsOk
    BY <2>1, StampKept
  <2> QED BY <1>2, <1>7, <2>2
<1>8. ASSUME NEW w \in Workers, Reap(w) PROVE CallsOk /\ RepliesOk /\ FilesOk
  <2>1. CASE DropOne(w)
    <3>1. /\ UNCHANGED <<call, answer, reply, asker>>
          /\ \A q \in Qids : \/ question'[q] = question[q]
                             \/ question'[q] = None /\ q \in dropped'
      BY <2>1 DEF DropOne, TypeOK
    <3>2. \A b \in Answerers : reply[b].pc # "free"
              => reply[b].qid \in Qids /\ asker[reply[b].qid] # None
      BY DEF RefInv
    <3>3. RepliesOk
      <4>1. \A q \in Qids : question[q] # None => question'[q] # None \/ Loose(q)'
        BY <3>1 DEF Loose
      <4> QED BY <1>0, <3>1, <3>2, <4>1 DEF StampInv, ReplyStamp
    <3>4. FilesOk
      BY <1>0, <3>1 DEF StampInv, FileStamp
    <3> QED BY <1>2, <3>1, <3>3, <3>4
  <2>2. CASE KillClose(w)
    BY <1>2, <1>7, <2>2 DEF KillClose
  <2>3. CASE DropList(w)
    BY <1>2, <2>3 DEF DropList
  <2> QED BY <1>8, <2>1, <2>2, <2>3 DEF Reap
<1>9. ASSUME NEW w \in Workers, Lifecycle(w) PROVE CallsOk /\ RepliesOk /\ FilesOk
  <2>1. CASE SessionDies(w)
    BY <1>7, <2>1 DEF SessionDies
  <2>2. CASE ~SessionDies(w)
    BY <1>2, <1>9, <2>2 DEF Lifecycle, SessionStart, EndSession, KillWorker
  <2> QED BY <2>1, <2>2
<1>10. CASE UNCHANGED vars
  BY <1>1, <1>2, <1>10 DEF vars
<1> QED BY <1>1, <1>3, <1>4, <1>5, <1>6, <1>8, <1>9, <1>10 DEF Next

\* An answer is handed to a session that did not ask only where the question
\* file was lost under an answer_question, for any number of parties.
THEOREM ForeignAnswersAreUnstamped == Spec => []ForeignOnlyIfUnstamped
<1>1. Init => StampInv
  BY DEF Init, StampInv, CallStamp, ReplyStamp, TakerStamp, FileStamp, FreeCall
<1>2. StampInv /\ Inv /\ [Next]_vars => StampInv'
  BY StampStep DEF Inv2
<1>3. StampInv /\ Inv => ForeignOnlyIfUnstamped
  <2> SUFFICES ASSUME StampInv, Inv, NEW a \in Answerers, NEW w \in Workers,
                      <<a, w>> \in taken, w # asker[reply[a].qid],
                      reply[a].qid \notin dropped
               PROVE  \E b \in Answerers : b # a /\ reply[b].qid = reply[a].qid
    BY DEF ForeignOnlyIfUnstamped
  <2>1. Loose(reply[a].qid)
    BY DEF StampInv, TakerStamp
  <2> QED BY <2>1 DEF Loose
<1> QED BY <1>1, <1>2, <1>3, InvCorrect, PTL DEF Spec

(***************************************************************************)
(* Tasks and waits: the inductive invariant.                               *)
(***************************************************************************)
\* The tasks whose send has returned, and those that were typed.
Returned == IF sender.pc = "free" THEN sender.task ELSE sender.task - 1
Typed == IF sender.pc \in {"read", "resolved"} THEN sender.task - 1 ELSE sender.task

\* Tasks are sent in order, each is stamped once, and never in the future.
SentInOrder ==
    \A k \in Tasks : IF k <= Returned THEN sentAt[k] \in Times /\ sentAt[k] <= now
                     ELSE sentAt[k] = Never

\* A send or a Stop hook that writes a record back has one to write.
CopiesHold ==
    /\ sender.pc # "free" => sender.task \in Tasks /\ sender.copy \in Records
    /\ session.pc = "stop" => session.copy \in Records
    /\ session.pc \in {"prompt", "turn", "stop"} => session.task \in Tasks
    /\ Len(pane) <= Typed

\* What min_completed_at is computed from is not older than the send of k.
Dates(k) ==
    \/ record.tasked >= sentAt[k]
    \/ record.state = "processing" /\ record.since >= sentAt[k]

\* While a turn on a task runs, or is about to begin without a record to
\* stamp, the record dates the task; a send in flight will stamp it again.
TurnIsDated ==
    /\ session.pc = "turn" \/ (session.pc = "prompt" /\ session.copy = NoRecord)
    /\ Registered
    /\ sender.pc = "free"
    /\ sentAt[session.task] # Never
    => Dates(session.task)

\* The bound of a wait that began in such a turn holds for as long as it polls.
WaitIsBound ==
    waiter.pc # "free" =>
        /\ waiter.task \in Tasks /\ waiter.task <= Returned
        /\ waiter.busy /\ waiter.gated => waiter.bound + Grace >= sentAt[waiter.task]
        /\ waiter.pc = "done" => waiter.gotAt >= waiter.bound

RetaskInv == RetaskTypeOK /\ SentInOrder /\ CopiesHold /\ TurnIsDated /\ WaitIsBound

(***************************************************************************)
(* The operators.                                                          *)
(***************************************************************************)
\* Tasks are numbered.
LEMMA TasksAreNumbers == Tasks \subseteq 0..NTasks
BY RetaskAssumption DEF Tasks

\* What Max returns of one or two numbers.
LEMMA MaxOfTwo ==
    ASSUME NEW a \in Nat, NEW b \in Nat
    PROVE  Max({a, b}) \in {a, b} /\ Max({a, b}) >= a /\ Max({a, b}) >= b
<1>1. \E x \in {a, b} : \A y \in {a, b} : x >= y
    <2>1. CASE a >= b
        BY <2>1
    <2>2. CASE ~(a >= b)
        BY <2>2
    <2> QED BY <2>1, <2>2
<1> QED BY <1>1 DEF Max

\* The lower bound of a wait lies within the grace of every time stamp that
\* the record offers.
LEMMA MinBound ==
    ASSUME record \in MaybeRecord
    PROVE  /\ MinCompletedAt \in Times
           /\ \A t \in Nat : record.tasked >= t
                               \/ (record.state = "processing" /\ record.since >= t)
                             => MinCompletedAt + Grace >= t
<1> DEFINE dates == {record.tasked} \union
                      IF record.state = "processing" THEN {record.since} ELSE {}
           newest == Max(dates)
<1>1. record.tasked \in Times /\ record.since \in Times /\ Times \subseteq Nat /\ Grace \in Nat
    BY RetaskAssumption DEF MaybeRecord, Records, NoRecord, Times
<1>2. /\ newest \in Times /\ newest >= record.tasked
      /\ record.state = "processing" => newest >= record.since
    <2>1. CASE record.state = "processing"
        <3>1. dates = {record.tasked, record.since}
            BY <2>1
        <3>2. record.tasked \in Nat /\ record.since \in Nat
            BY <1>1
        <3>3. /\ newest \in {record.tasked, record.since}
              /\ newest >= record.tasked /\ newest >= record.since
            BY <3>1, <3>2, MaxOfTwo
        <3> HIDE DEF newest
        <3> QED BY <1>1, <3>3
    <2>2. CASE record.state # "processing"
        <3>1. dates = {record.tasked, record.tasked}
            BY <2>2
        <3>2. record.tasked \in Nat
            BY <1>1
        <3>3. newest \in {record.tasked, record.tasked} /\ newest >= record.tasked
            BY <3>1, <3>2, MaxOfTwo
        <3> HIDE DEF newest
        <3> QED BY <1>1, <2>2, <3>3
    <2> QED BY <2>1, <2>2
<1>3. MinCompletedAt = Minus(newest, Grace)
    BY DEF MinCompletedAt
<1> HIDE DEF newest
<1>4. /\ Minus(newest, Grace) \in Times
      /\ Minus(newest, Grace) + Grace >= newest
    BY <1>1, <1>2, RetaskAssumption DEF Minus, Times
<1>5. ASSUME NEW t \in Nat,
             record.tasked >= t \/ (record.state = "processing" /\ record.since >= t)
      PROVE  MinCompletedAt + Grace >= t
    <2>1. newest >= t
        <3>1. newest \in Nat /\ record.tasked \in Nat /\ record.since \in Nat
            BY <1>1, <1>2
        <3> QED BY <1>2, <1>5, <3>1
    <2>2. newest \in Nat /\ Minus(newest, Grace) \in Nat
        BY <1>1, <1>2, <1>4
    <2> QED BY <1>1, <1>3, <1>4, <2>1, <2>2
<1> QED BY <1>3, <1>4, <1>5

\* When no send is in flight, the last task sent is the sender's.
LEMMA LastSentIsSenders ==
    ASSUME RetaskTypeOK, SentInOrder, sender.pc = "free"
    PROVE  LastSent = sender.task
<1>1. sender.task \in 0..NTasks /\ NTasks \in Nat
    BY RetaskAssumption DEF RetaskTypeOK
<1>2. {k \in Tasks : sentAt[k] # Never} = 1..sender.task
    BY <1>1, RetaskAssumption DEF SentInOrder, Returned, Tasks, Times, Never
<1>3. Cardinality(1..sender.task) = sender.task
    BY <1>1, FS_Interval
<1> QED BY <1>2, <1>3 DEF LastSent

(***************************************************************************)
(* The invariant holds at first and is preserved by every step.            *)
(***************************************************************************)
\* The invariant holds before anything was sent.
LEMMA InvInit == RetaskInit => RetaskInv
<1> SUFFICES ASSUME RetaskInit PROVE RetaskInv
    OBVIOUS
<1>1. RetaskTypeOK
    BY RetaskAssumption DEF RetaskInit, RetaskTypeOK, Times, Tasks, MaybeRecord, Records, NoRecord,
       FreeWaiter, Never
<1>2. SentInOrder /\ CopiesHold /\ TurnIsDated /\ WaitIsBound
    BY RetaskAssumption DEF RetaskInit, SentInOrder, Returned, CopiesHold, Typed, TurnIsDated,
       WaitIsBound, FreeWaiter, Tasks
<1> QED BY <1>1, <1>2 DEF RetaskInv

\* A step that leaves the clock, the sends and their stamps alone.
LEMMA SentFrame ==
    ASSUME SentInOrder, UNCHANGED <<now, sender, sentAt>>
    PROVE  SentInOrder'
BY DEF SentInOrder, Returned

\* A step that leaves the wait, the sends and their stamps alone.
LEMMA WaitFrame ==
    ASSUME WaitIsBound, UNCHANGED <<waiter, sender, sentAt>>
    PROVE  WaitIsBound'
BY DEF WaitIsBound, Returned

\* The session's own steps.
LEMMA SessionStep ==
    ASSUME RetaskInv, Turn \/ WorkerDone \/ SessionEnd \/ Crash
    PROVE  RetaskInv'
<1> USE RetaskAssumption DEF RetaskInv
<1>1. CASE SubmitPrompt
    <2> USE <1>1 DEF SubmitPrompt
    <2>1. Head(pane) \in Tasks /\ Tail(pane) \in Seq(Tasks) /\ Len(Tail(pane)) = Len(pane) - 1
        BY DEF RetaskTypeOK
    <2>2. RetaskTypeOK'
        <3>1. Head(pane) \in 0..NTasks /\ Len(pane') <= NTasks
            BY <2>1 DEF RetaskTypeOK, Tasks
        <3>2. session' \in [pc : {"idle", "prompt", "turn", "stop", "gone"},
                            task : 0..NTasks, reported : BOOLEAN, copy : MaybeRecord]
            BY <3>1 DEF RetaskTypeOK
        <3> QED BY <2>1, <3>1, <3>2 DEF RetaskTypeOK
    <2>3. CopiesHold'
        BY <2>1 DEF CopiesHold, Typed, RetaskTypeOK, Tasks
    <2>4. TurnIsDated'
        BY DEF TurnIsDated, RetaskTypeOK, Registered
    <2> QED BY <2>2, <2>3, <2>4, SentFrame, WaitFrame
<1>2. CASE StampProcessing
    <2> USE <1>2 DEF StampProcessing, SessionOnly
    <2>1. record' = record \/ (record' \in Records /\ record'.state = "processing"
                                 /\ record'.since = now)
        BY DEF RetaskTypeOK, MaybeRecord, Records
    <2>2. RetaskTypeOK'
        BY ZenonT(40), <2>1 DEF RetaskTypeOK, MaybeRecord
    <2>3. CopiesHold'
        BY DEF CopiesHold, Typed, RetaskTypeOK
    <2>4. TurnIsDated'
        <3>1. session'.task = session.task /\ session.task \in Tasks
            BY DEF RetaskTypeOK, CopiesHold
        <3>2. sentAt[session.task] # Never => sentAt[session.task] <= now
            BY <3>1 DEF SentInOrder
        <3>3. CASE session.copy = NoRecord
            BY <3>1, <3>3 DEF TurnIsDated, Registered, Dates
        <3>4. CASE session.copy # NoRecord
            <4>1. record'.state = "processing" /\ record'.since = now
                BY <3>4 DEF RetaskTypeOK, MaybeRecord, Records
            <4> QED BY <3>1, <3>2, <4>1 DEF TurnIsDated, Dates, RetaskTypeOK, Times, Never
        <3> QED BY <3>3, <3>4
    <2> QED BY <2>2, <2>3, <2>4, SentFrame, WaitFrame
<1>3. CASE StopRead
    <2> USE <1>3 DEF StopRead, SessionOnly
    <2>1. RetaskTypeOK'
        BY DEF RetaskTypeOK
    <2>2. CopiesHold'
        BY DEF CopiesHold, Typed, RetaskTypeOK, MaybeRecord, Registered
    <2>3. TurnIsDated'
        BY DEF TurnIsDated, RetaskTypeOK
    <2> QED BY <2>1, <2>2, <2>3, SentFrame, WaitFrame
<1>4. CASE StopWrite
    <2> USE <1>4 DEF StopWrite, SessionOnly
    <2>1. record' \in Records
        BY DEF CopiesHold, Records
    <2>2. RetaskTypeOK'
        BY <2>1 DEF RetaskTypeOK, MaybeRecord
    <2>3. CopiesHold'
        BY DEF CopiesHold, Typed, RetaskTypeOK
    <2>4. TurnIsDated'
        BY DEF TurnIsDated, RetaskTypeOK
    <2> QED BY <2>2, <2>3, <2>4, SentFrame, WaitFrame
<1>5. CASE WorkerDone
    <2> USE <1>5 DEF WorkerDone
    <2>1. session.task \in Tasks
        BY DEF CopiesHold
    <2>2. RetaskTypeOK'
        <3>1. done' \subseteq [task : Tasks, at : Times]
            BY <2>1 DEF RetaskTypeOK
        <3>2. session' \in [pc : {"idle", "prompt", "turn", "stop", "gone"},
                            task : 0..NTasks, reported : BOOLEAN, copy : MaybeRecord]
            BY DEF RetaskTypeOK
        <3> QED BY <3>1, <3>2 DEF RetaskTypeOK
    <2>3. CopiesHold'
        BY DEF CopiesHold, Typed, RetaskTypeOK
    <2>4. TurnIsDated'
        BY DEF TurnIsDated, RetaskTypeOK, Registered, Dates
    <2> QED BY <2>2, <2>3, <2>4, SentFrame, WaitFrame
<1>6. CASE SessionEnd \/ Crash
    <2> USE <1>6 DEF SessionEnd, Crash, SessionOnly
    <2>1. RetaskTypeOK'
        BY DEF RetaskTypeOK, MaybeRecord
    <2>2. CopiesHold'
        BY DEF CopiesHold, Typed, RetaskTypeOK
    <2>3. TurnIsDated'
        BY DEF TurnIsDated, RetaskTypeOK
    <2> QED BY <2>1, <2>2, <2>3, SentFrame, WaitFrame
<1> QED BY <1>1, <1>2, <1>3, <1>4, <1>5, <1>6 DEF Turn

\* The steps of a send.
LEMMA SendStep ==
    ASSUME RetaskInv, SendRead \/ Send
    PROVE  RetaskInv'
<1> USE RetaskAssumption DEF RetaskInv
<1>1. CASE SendRead
    <2> USE <1>1 DEF SendRead
    <2>1. record \in Records
        BY DEF RetaskTypeOK, MaybeRecord, Registered
    <2>2. RetaskTypeOK'
        BY DEF RetaskTypeOK, MaybeRecord
    <2>3. SentInOrder'
        BY DEF SentInOrder, Returned, RetaskTypeOK
    <2>4. CopiesHold'
        BY <2>1 DEF CopiesHold, Typed, RetaskTypeOK, Tasks
    <2>5. TurnIsDated'
        BY DEF TurnIsDated
    <2>6. WaitIsBound'
        BY DEF WaitIsBound, Returned, RetaskTypeOK
    <2> QED BY <2>2, <2>3, <2>4, <2>5, <2>6
<1>2. CASE SendResolve
    <2> USE <1>2 DEF SendResolve
    <2>1. RetaskTypeOK'
        BY DEF RetaskTypeOK
    <2>2. SentInOrder'
        BY DEF SentInOrder, Returned, RetaskTypeOK
    <2>3. CopiesHold'
        BY DEF CopiesHold, Typed, RetaskTypeOK
    <2>4. TurnIsDated'
        BY DEF TurnIsDated, RetaskTypeOK
    <2>5. WaitIsBound'
        BY DEF WaitIsBound, Returned, RetaskTypeOK
    <2> QED BY <2>1, <2>2, <2>3, <2>4, <2>5
<1>3. CASE SendText
    <2> USE <1>3 DEF SendText
    <2>1. sender.task \in Tasks /\ sender.copy \in Records
        BY DEF CopiesHold
    <2>2. pane' \in Seq(Tasks) /\ Len(pane') <= sender.task
        <3>1. pane \in Seq(Tasks) /\ Len(pane) <= sender.task - 1 /\ Len(pane) \in Nat
            BY <2>1 DEF RetaskTypeOK, CopiesHold, Typed
        <3>2. sender.task \in Nat
            BY <2>1 DEF Tasks
        <3>3. CASE pane' = Append(pane, sender.task)
            BY <2>1, <3>1, <3>2, <3>3
        <3>4. CASE pane' = pane
            BY <3>1, <3>2, <3>4
        <3> QED BY <3>3, <3>4
    <2>3. RetaskTypeOK'
        <3>1. Len(pane') <= NTasks
            BY <2>1, <2>2 DEF Tasks
        <3>2. sender' \in [pc : {"free", "read", "resolved", "typed"}, task : 0..NTasks,
                           copy : MaybeRecord]
            BY DEF RetaskTypeOK
        <3> QED BY <2>2, <3>1, <3>2 DEF RetaskTypeOK
    <2>4. SentInOrder'
        BY DEF SentInOrder, Returned, RetaskTypeOK
    <2>5. CopiesHold'
        BY <2>2 DEF CopiesHold, Typed, RetaskTypeOK
    <2>6. TurnIsDated'
        BY DEF TurnIsDated, RetaskTypeOK
    <2>7. WaitIsBound'
        BY DEF WaitIsBound, Returned, RetaskTypeOK
    <2> QED BY <2>3, <2>4, <2>5, <2>6, <2>7
<1>4. CASE SendStamp
    <2> USE <1>4 DEF SendStamp
    <2>1. sender.task \in Tasks /\ sender.copy \in Records /\ now \in Times
        BY DEF CopiesHold, RetaskTypeOK
    <2>2. record' \in Records /\ record'.tasked = now
        BY <2>1 DEF Records
    <2>3. RetaskTypeOK'
        <3>1. record' \in MaybeRecord /\ NoRecord \in MaybeRecord
            BY <2>2 DEF MaybeRecord
        <3>2. sender' \in [pc : {"free", "read", "resolved", "typed"}, task : 0..NTasks,
                           copy : MaybeRecord]
            BY <3>1 DEF RetaskTypeOK
        <3>3. sentAt' \in [Tasks -> 0..Never]
            BY <2>1 DEF RetaskTypeOK, Times, Never
        <3> QED BY <3>1, <3>2, <3>3 DEF RetaskTypeOK
    <2>4. SentInOrder'
        BY <2>1 DEF SentInOrder, Returned, RetaskTypeOK, Tasks, Times
    <2>5. CopiesHold'
        BY DEF CopiesHold, Typed, RetaskTypeOK
    <2>6. TurnIsDated'
        <3>1. session.pc \in {"turn", "prompt"} /\ sentAt'[session.task] # Never
                => sentAt'[session.task] <= now
            BY <2>1, <2>4 DEF CopiesHold, SentInOrder
        <3>2. session.pc \in {"turn", "prompt"} /\ sentAt'[session.task] # Never
                => sentAt'[session.task] \in Nat
            BY <2>1, <2>4 DEF CopiesHold, SentInOrder, Times
        <3> QED BY <2>1, <2>2, <3>1, <3>2 DEF TurnIsDated, Dates, Times
    <2>7. WaitIsBound'
        <3>1. waiter.pc # "free" => waiter.task \in Tasks /\ waiter.task < sender.task
            BY <2>1 DEF WaitIsBound, Returned, Tasks
        <3>2. waiter.pc # "free" => sentAt'[waiter.task] = sentAt[waiter.task]
            BY <3>1, <2>1 DEF RetaskTypeOK, Tasks
        <3> QED BY <2>1, <3>1, <3>2 DEF WaitIsBound, Returned, RetaskTypeOK, Tasks
    <2> QED BY <2>3, <2>4, <2>5, <2>6, <2>7
<1>5. CASE SendFails
    <2> USE <1>5 DEF SendFails
    <2>1. sender.task \in Tasks
        BY DEF CopiesHold
    <2>2. RetaskTypeOK'
        <3>1. sender.task - 1 \in 0..NTasks /\ NoRecord \in MaybeRecord
            BY <2>1 DEF Tasks, MaybeRecord
        <3>2. sender' \in [pc : {"free", "read", "resolved", "typed"}, task : 0..NTasks,
                           copy : MaybeRecord]
            BY <3>1 DEF RetaskTypeOK
        <3> QED BY <3>2 DEF RetaskTypeOK
    <2>3. SentInOrder'
        BY <2>1 DEF SentInOrder, Returned, RetaskTypeOK, Tasks
    <2>4. CopiesHold'
        BY <2>1 DEF CopiesHold, Typed, RetaskTypeOK, Tasks
    <2>5. TurnIsDated'
        BY DEF TurnIsDated, RetaskTypeOK, Alive
    <2>6. WaitIsBound'
        BY <2>1 DEF WaitIsBound, Returned, RetaskTypeOK, Tasks
    <2> QED BY <2>2, <2>3, <2>4, <2>5, <2>6
<1> QED BY <1>1, <1>2, <1>3, <1>4, <1>5 DEF Send

\* The steps of a wait.
LEMMA WaitStep ==
    ASSUME RetaskInv, WaitStart \/ Wait \/ WaitReturn
    PROVE  RetaskInv'
<1> USE RetaskAssumption DEF RetaskInv
<1> DEFINE Waiters == [pc : {"free", "first", "look", "check", "done", "exited"},
                       task : 0..NTasks, busy : BOOLEAN, gated : BOOLEAN,
                       bound : Times, got : 0..NTasks, gotAt : Times]
<1>1. ASSUME waiter' \in Waiters,
             UNCHANGED <<now, record, session, pane, done, sender, closer, sentAt>>
      PROVE  RetaskTypeOK' /\ SentInOrder' /\ CopiesHold' /\ TurnIsDated'
    BY <1>1, SentFrame DEF RetaskTypeOK, CopiesHold, Typed, TurnIsDated, Registered, Dates
<1>2. CASE WaitStart
    <2> USE <1>2 DEF WaitStart
    <2>1. LastSent = sender.task /\ sender.task \in Tasks
        BY LastSentIsSenders DEF RetaskTypeOK, Tasks
    <2>2. /\ MinCompletedAt \in Times
          /\ \A t \in Nat : record.tasked >= t
                              \/ (record.state = "processing" /\ record.since >= t)
                            => MinCompletedAt + Grace >= t
        BY MinBound DEF RetaskTypeOK
    <2> DEFINE busy == session.pc = "turn" /\ session.task = sender.task
    <2>3. waiter' = [pc |-> "first", task |-> sender.task, busy |-> busy, gated |-> Registered,
                     bound |-> MinCompletedAt, got |-> 0, gotAt |-> 0]
        BY <2>1
    <2>4. waiter' \in Waiters
        <3>1. busy \in BOOLEAN /\ Registered \in BOOLEAN
            BY DEF Registered
        <3>2. sender.task \in 0..NTasks /\ 0 \in 0..NTasks /\ 0 \in Times
            BY <2>1 DEF Tasks, Times
        <3> HIDE DEF busy
        <3> QED BY <2>2, <2>3, <3>1, <3>2
    <2>5. WaitIsBound'
        <3>2. sentAt[sender.task] \in Nat /\ sentAt[sender.task] # Never
            BY <2>1 DEF SentInOrder, Returned, Tasks, Times, Never
        <3>3. ASSUME busy, Registered
              PROVE  MinCompletedAt + Grace >= sentAt[sender.task]
            <4>1. Dates(sender.task)
                BY <3>2, <3>3 DEF TurnIsDated
            <4> QED BY <2>2, <3>2, <4>1 DEF Dates
        <3>4. /\ waiter'.busy = busy /\ waiter'.gated = Registered
              /\ waiter'.pc = "first" /\ waiter'.task = sender.task
              /\ waiter'.bound = MinCompletedAt
            BY <2>3
        <3> HIDE DEF busy
        <3>5. sender' = sender /\ sentAt' = sentAt /\ sender.task <= sender.task
            BY <2>1 DEF Tasks
        <3> QED BY <2>1, <3>3, <3>4, <3>5 DEF WaitIsBound, Returned
    <2> QED BY <1>1, <2>4, <2>5
<1>3. CASE WaitLook
    <2> USE <1>3 DEF WaitLook
    <2>1. CASE \E e \in Admitted :
                  waiter' = [waiter EXCEPT !.pc = "done", !.got = e.task, !.gotAt = e.at]
        <3>1. PICK e \in Admitted :
                  waiter' = [waiter EXCEPT !.pc = "done", !.got = e.task, !.gotAt = e.at]
            BY <2>1
        <3>2. e.task \in 0..NTasks /\ e.at \in Times /\ e.at >= waiter.bound
            <4>1. e \in done /\ e.at >= waiter.bound
                BY <3>1 DEF Admitted
            <4>2. e \in [task : Tasks, at : Times]
                BY <4>1 DEF RetaskTypeOK
            <4>3. e.task \in Tasks /\ e.at \in Times
                BY <4>2
            <4> QED BY <4>1, <4>3, TasksAreNumbers, Zenon
        <3>3. waiter' \in Waiters
            BY <3>1, <3>2 DEF RetaskTypeOK
        <3>4. WaitIsBound'
            BY <3>1, <3>2 DEF WaitIsBound, Returned, RetaskTypeOK
        <3> QED BY <1>1, <3>3, <3>4
    <2>2. CASE \E pc \in {"look", "check", "exited"} : waiter' = [waiter EXCEPT !.pc = pc]
        <3>1. waiter' \in Waiters
            BY <2>2 DEF RetaskTypeOK
        <3>2. WaitIsBound'
            BY <2>2 DEF WaitIsBound, Returned, RetaskTypeOK
        <3> QED BY <1>1, <3>1, <3>2
    <2> QED BY <2>1, <2>2
<1>4. CASE WaitCheck
    <2> USE <1>4 DEF WaitCheck
    <2>1. waiter' \in Waiters
        BY DEF RetaskTypeOK
    <2>2. WaitIsBound'
        BY DEF WaitIsBound, Returned, RetaskTypeOK
    <2> QED BY <1>1, <2>1, <2>2
<1>5. CASE WaitReturn
    <2> USE <1>5 DEF WaitReturn
    <2>1. waiter' \in Waiters /\ waiter'.pc = "free"
        BY DEF FreeWaiter, Times
    <2> QED BY <1>1, <2>1 DEF WaitIsBound
<1> QED BY <1>2, <1>3, <1>4, <1>5 DEF Wait

\* Time, the auto-close and the pruner.
LEMMA OtherStep ==
    ASSUME RetaskInv, Tick \/ Close \/ Prune
    PROVE  RetaskInv'
<1> USE RetaskAssumption DEF RetaskInv
<1>1. CASE Tick
    <2> USE <1>1 DEF Tick
    <2>1. RetaskTypeOK'
        BY DEF RetaskTypeOK, Times
    <2>2. SentInOrder'
        BY DEF SentInOrder, Returned, RetaskTypeOK, Times
    <2>3. CopiesHold' /\ TurnIsDated'
        BY DEF CopiesHold, Typed, TurnIsDated, Registered, Dates
    <2> QED BY <2>1, <2>2, <2>3, WaitFrame
<1>2. CASE CloseJudge \/ CloseAbandon
    <2> USE <1>2 DEF CloseJudge, CloseAbandon
    <2>1. RetaskTypeOK'
        BY DEF RetaskTypeOK
    <2>2. CopiesHold' /\ TurnIsDated'
        BY DEF CopiesHold, Typed, TurnIsDated, Registered, Dates
    <2> QED BY <2>1, <2>2, SentFrame, WaitFrame
<1>3. CASE CloseUnlink \/ Prune
    <2> USE <1>3 DEF CloseUnlink, Prune
    <2>1. RetaskTypeOK'
        BY DEF RetaskTypeOK, MaybeRecord
    <2>2. CopiesHold' /\ TurnIsDated'
        BY DEF CopiesHold, Typed, TurnIsDated, Registered
    <2> QED BY <2>1, <2>2, SentFrame, WaitFrame
<1>4. CASE CloseWindow
    <2> USE <1>4 DEF CloseWindow
    <2>1. RetaskTypeOK'
        BY DEF RetaskTypeOK
    <2>2. CopiesHold' /\ TurnIsDated'
        BY DEF CopiesHold, Typed, TurnIsDated, Registered, Dates, RetaskTypeOK
    <2> QED BY <2>1, <2>2, SentFrame, WaitFrame
<1> QED BY <1>1, <1>2, <1>3, <1>4 DEF Close

\* Every step preserves the invariant.
LEMMA InvStep == RetaskInv /\ [RetaskNext]_retaskVars => RetaskInv'
<1> SUFFICES ASSUME RetaskInv, [RetaskNext]_retaskVars PROVE RetaskInv'
    OBVIOUS
<1>1. CASE RetaskNext
    BY <1>1, SessionStep, SendStep, WaitStep, OtherStep DEF RetaskNext
<1>2. CASE UNCHANGED retaskVars
    BY <1>2 DEF retaskVars, RetaskInv, RetaskTypeOK, SentInOrder, Returned, CopiesHold, Typed, TurnIsDated,
       Registered, Dates, WaitIsBound
<1> QED BY <1>1, <1>2

\* What the theorems below rest on holds in every behaviour of the record.
THEOREM Invariance == RetaskSpec => []RetaskInv
<1> QED BY InvInit, InvStep, PTL DEF RetaskSpec

(***************************************************************************)
(* What follows.                                                           *)
(***************************************************************************)
\* However the hooks, a send, the auto-close and the pruner overwrite each
\* other's record, while a turn runs one of its two time stamps is not older
\* than the task the turn is about; and the types.
THEOREM EpisodesAreCurrent == RetaskSpec => []EpisodeIsCurrent
<1>1. RetaskInv => EpisodeIsCurrent
    <2> SUFFICES ASSUME RetaskInv PROVE EpisodeIsCurrent
        OBVIOUS
    <2>1. ASSUME session.pc = "turn", Registered, sender.pc = "free",
                 sentAt[session.task] # Never
          PROVE  Max({record.tasked, record.since}) >= sentAt[session.task]
        <3>1. record.tasked \in Nat /\ record.since \in Nat
            BY SMTT(20), RetaskAssumption DEF RetaskInv, RetaskTypeOK, MaybeRecord, Records, NoRecord, Times
        <3>2. sentAt[session.task] \in Nat
            BY <2>1, RetaskAssumption DEF RetaskInv, RetaskTypeOK, CopiesHold, Never
        <3>3. record.tasked >= sentAt[session.task] \/ record.since >= sentAt[session.task]
            BY <2>1 DEF RetaskInv, TurnIsDated, Dates
        <3> DEFINE newest == Max({record.tasked, record.since})
        <3>4. newest \in Nat /\ newest >= record.tasked /\ newest >= record.since
            BY <3>1, MaxOfTwo
        <3> HIDE DEF newest
        <3>5. newest >= sentAt[session.task]
            BY <3>1, <3>2, <3>3, <3>4
        <3> QED BY <3>5 DEF newest
    <2> QED BY <2>1 DEF RetaskInv, EpisodeIsCurrent
<1> QED BY <1>1, Invariance, PTL

\* A wait that begins in the worker's turn on the task never returns the
\* report of an earlier task that was made before this one was sent.
THEOREM BusyWaitsAreFresh == RetaskSpec => []BusyWaitIsFresh
<1>1. RetaskInv => BusyWaitIsFresh
    <2> SUFFICES ASSUME RetaskInv, waiter.busy, waiter.gated, Stale PROVE FALSE
        BY DEF BusyWaitIsFresh
    <2>1. /\ waiter.bound \in Nat /\ waiter.gotAt \in Nat /\ Grace \in Nat
          /\ waiter.task \in Tasks /\ sentAt[waiter.task] \in Nat
        BY RetaskAssumption DEF RetaskInv, RetaskTypeOK, Stale, WaitIsBound, Times, Never
    <2>2. waiter.bound + Grace >= sentAt[waiter.task] /\ waiter.gotAt >= waiter.bound
        BY DEF RetaskInv, Stale, WaitIsBound
    <2> QED BY <2>1, <2>2 DEF Stale
<1> QED BY <1>1, Invariance, PTL
===============================================================================
