SPECIFICATION FairSpec
CONSTANTS
  q1 = q1
  q2 = q2
  m1 = m1
  s1 = s1
  guild = guild
  dm = dm
  room = room
  None = None
  Requests <- AllRequests
  Slash <- Commands
  Slack = {s1}
  Channels = {guild, room}
  Channel <- Where
INVARIANTS
  OneAnswerPerPlaceholder
  AnswerInPlace
PROPERTIES
  WatchedIsReported
  ServedOnceListening
