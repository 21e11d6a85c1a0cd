CONSTANTS
  Screens = {s1, s2}
  None = None
  MaxChanges = 2
  MaxOut = 3
SPECIFICATION FairSpec
PROPERTIES ViewSettles PollsDoNotQueue
