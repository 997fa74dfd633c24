SPECIFICATION Spec
CONSTANTS
  Agents = {a1}
  Kinds = {tinker}
  Budgets = {b1}
  MaxPosts = 1
INVARIANTS TypeOK ListIsAccurate

