SPECIFICATION FairSpec
CONSTANTS
  m1 = m1
  m2 = m2
  m3 = m3
  paused = paused
  Messages = {m1, m2, m3}
  Settings = {paused}
  SettingOf <- TwoOfOneSetting
  NoSetting = NoSetting
  NoMessage = NoMessage
  Limit = 2
  Faults = {"enqueue", "list", "refused", "expiry", "crash"}
  MaxFaults = 2
INVARIANTS
  TypeOK
  NotForgotten
  NewestCommandWins
  AnsweredOrLogged
PROPERTY
  AllHandled
