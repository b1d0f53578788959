SPECIFICATION FairLoading
CONSTANTS
  Requests = {r1, r2}
  NumTiers = 2
  NumChunks = 2
  ShortTiers = {1, 2}
  RaisingTiers = {2}
  Serializers = {"single", "multi"}
  MaxComputed = 1
  Loads <- LoadTasks
  Budget = 2
INVARIANTS AnswerIsLoadedPrefix ReferencesCover OversizedExclusive WithinBudget
PROPERTY AnsweredUnlessBroken
CHECK_DEADLOCK FALSE
