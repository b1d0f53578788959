SPECIFICATION FairLoading
CONSTANTS
  Requests = {r1, r2}
  NumTiers = 2
  NumChunks = 2
  ShortTiers = {1, 2}
  RaisingTiers = {}
  Serializers = {"single"}
  MaxComputed = 0
  Loads <- LoadTasks
  Budget = 2
PROPERTY EveryLookupAnswered
CHECK_DEADLOCK FALSE
