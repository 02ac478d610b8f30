SPECIFICATION MCSpec
CONSTANTS
    UserIds = {"x"}
    Objects <- MCObjects
    MaxId = 2
    MaxBuffer = 1
INVARIANTS AnsweredButStreams
PROPERTIES UpdateReplaces
