CONSTANTS
  None = None
  Callers = {c1, c2}
  Asks <- MCAsks
  Mixes <- MCMixes
  Files <- MCFiles
  Endpoints = {"e", "f"}
  Tools <- MCTools
  RawAnswers <- MCRaw
  Scores <- MCScores
  FALLBACK_WORKERS <- MCFallback
  DEFAULT_POLICY <- MCPolicy
  TTL = 1
  LIVE_TTL = 1
  CACHE_MAX = 1
  max_retries = 1
  MaxTime = 1
  MaxChanges = 2
SPECIFICATION Spec
INVARIANTS TypeOK AnswersFitTheAsk FallbacksAreFirstHand ChatsAreCleared
PROPERTIES EveryAskIsAnswered
