SPECIFICATION FairSpec
CONSTANTS
  Tasks <- MainOnly
  Regions = {left, right}
  Marks = {a, b}
  Blank = Blank
  Wrong = Wrong
  Budget = 1
  MaxFailures = 2
  MaxPartials = 3
PROPERTIES
  StatusScreenConverges
