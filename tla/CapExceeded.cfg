CONSTANTS
  r1 = r1
  r2 = r2
  i1 = i1
  i2 = i2
  p1 = p1
  Pollers = {q1}
  Repos <- TwoRepos
  Issues = {i1, i2}
  Pulls = {}
  Listing <- IssueEach
  Limit = 1
  PageSize = 30
  Standing = {}
  Failures = FALSE
SPECIFICATION Spec
INVARIANT CapHolds
