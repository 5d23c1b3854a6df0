SPECIFICATION Spec
CONSTANTS
  w1 = w1
  w2 = w2
  Null = Null
  Workers = {w1, w2}
  TicksPerSecond = 2
  USER_SESSION_TTL_SECONDS = 2
  STAFF_SESSION_TTL_SECONDS = 1
  MaxTokens = 1
  MaxTime = 6
INVARIANTS TypeOK NewSessionWorks
PROPERTIES SignOutWorks RevivedOnlyByOverlap SessionsEnd
