SPECIFICATION FairSpec
CONSTANTS
  q1 = q1
  q2 = q2
  m1 = m1
  s1 = s1
  guild = guild
  dm = dm
  room = room
  None = None
  Requests <- OneRequest
  Slash <- NoCommand
  Slack = {}
  Channels = {dm}
  Channel <- WhereOne
PROPERTIES
  EndedIsReported
