SPECIFICATION FairSpec
CONSTANTS
    Callers = {c1, c2}
    Requester = requester
    None = None
INVARIANTS
    TypeOK
    AnswersFounded
    AnswersAgree
    FileReadable
PROPERTY RequesterEnds
CHECK_DEADLOCK FALSE
