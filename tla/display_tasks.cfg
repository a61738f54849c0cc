SPECIFICATION Spec
CONSTANTS
  Tasks <- BothTasks
  Regions = {all}
  Marks = {a}
  Blank = Blank
  Wrong = Wrong
  Budget = 1
  MaxFailures = 0
  MaxPartials = 3
INVARIANTS
  CountBounded
