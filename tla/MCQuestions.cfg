SPECIFICATION FairSpec
CONSTANTS
    Workers = {w1, w2}
    Calls = {c1, c2}
    Answerers = {a1, a2}
    Qids = {q1}
    Mortal = {w1}
    None = None
INVARIANTS
    ForeignOnlyIfUnstamped
    QuestionAccounted
    AnswerSurvives
    ResumeFindsAnswer
PROPERTIES
    WaitingCallIsAnswered
CHECK_DEADLOCK FALSE
