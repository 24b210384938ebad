CONSTANTS
  Disp = disp
  None = none
  Apps = {main, other}
  Watches = {w1, w2}
  Handlers = {h1, h2}
  Events = {x1, x2}
  Emitters = {e1, e2}
  MaxPuts = 2
  MaxOps = 4
  Names = {p, q}
  MaxChanges = 2
SPECIFICATION MCSpec
INVARIANTS HandlerFollows
PROPERTIES CallsOnlyRegistered NoEventForgotten 
CHECK_DEADLOCK FALSE
