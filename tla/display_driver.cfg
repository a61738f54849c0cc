SPECIFICATION Spec
CONSTANTS
  Tasks <- ToolOnly
  Regions = {left, right}
  Marks = {a}
  Blank = Blank
  Wrong = Wrong
  Budget = 1
  MaxFailures = 2
  MaxPartials = 4
VIEW ToolView
SYMMETRY RegionSymmetry
INVARIANTS
  TypeOK
  BeliefHolds
  RefreshShowsFramebuffer
  OldPlaneIsShown
  GhostingBounded
  BusyHasWaiter
