CONSTANTS
  Day = 3
  Week = 2
  Month = 1
  Hour = 1
  Minute = 1
  Templates = {1, 2}
  Schedule <- DayAndNight
  Mode <- BothModes
  Limit = 2
  Horizon = 2
  MaxRuns = 2
  Users = {}
  Asked = {1}
  Caps = {"daily-limit"}
SPECIFICATION FairSpec
PROPERTIES LimitStops HoursEnd
