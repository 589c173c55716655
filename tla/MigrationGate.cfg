SPECIFICATION Spec
CONSTANTS
  Worktrees = {wt1, wt2}
  Base = base
  Changes = {a, b, c}
  Merges = {m}
  Broken = {c}
  MaxSteps = 4
SYMMETRY Symmetry
PROPERTIES
  GreenStaysGreen
  GreenMeansLookedAt
  BlamesTheRightSide

