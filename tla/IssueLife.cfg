CONSTANTS
  App = TRUE
  PageSize = 30
  MaxComments = 5
  Jobs = {"cron"}
  Patient = TRUE
  OthersPost = {"text", "clarification"}
  MaxAborts = 2
SPECIFICATION Spec
INVARIANTS TypeOK TriageDoesNotRepeat ResumeIsAnswered
  ReviewIsAnnounced RejectionIsExplained
PROPERTIES PlanGateHolds AnswerIsTaken
CHECK_DEADLOCK FALSE
