SPECIFICATION Spec
CONSTANTS
  Tasks <- ToolOnly
  Regions = {left, right}
  Marks = {a}
  Blank = Blank
  Wrong = Wrong
  Budget = 1
  MaxFailures = 1
  MaxPartials = 4
SYMMETRY RegionSymmetry
INVARIANTS
  FullRefreshRecovers
