SPECIFICATION FairSpec
CONSTANTS
  NoSize = NoSize
  Callback = {job}
  Job = {job}
  Size = {small, large}
  FirstSize = small
  MaxResources = 1
  MaxReloads = 1
INVARIANTS WindowIsTrue
PROPERTIES ErrorStopsScript WindowProgresses
