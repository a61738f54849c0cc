SPECIFICATION Spec
CONSTANTS
  Tasks <- BothTasks
  Regions = {left, right}
  Marks = {a}
  Blank = Blank
  Wrong = Wrong
  Budget = 1
  MaxFailures = 0
  MaxPartials = 3
SYMMETRY RegionSymmetry
INVARIANTS
  OneRefreshAtATime
