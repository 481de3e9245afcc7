SPECIFICATION FairSpec
CONSTANTS
  c1 = c1
  c2 = c2
  web1 = web1
  web2 = web2
  Categories = {c1, c2}
  Web = {web1, web2}
  NoForm = NoForm
  Faults = {"tags", "token", "refused", "form", "command", "expiry", "crash"}
  MaxTokens = 4
  MaxAsked = 1
  MaxFaults = 2
INVARIANTS
  TypeOK
  NoLateForm
PROPERTIES
  ChoiceKept
  WelcomeArrives
