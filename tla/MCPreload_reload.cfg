SPECIFICATION FairSpec
CONSTANTS
    Workers = {w1}
    Classes = {"route", "route-set"}
    Operations = {"lose", "managerConnection", "workerConnection", "fail"}
    MaxEvents = 2
    None = None
INVARIANTS ReloadPending
PROPERTIES AnswersAdvance AnswersCatchUp
CHECK_DEADLOCK FALSE
