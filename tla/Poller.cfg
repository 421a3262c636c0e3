CONSTANTS
  r1 = r1
  r2 = r2
  i1 = i1
  i2 = i2
  p1 = p1
  Pollers = {q1, q2}
  Repos <- TwoRepos
  Issues = {i1, i2, p1}
  Pulls = {p1}
  Listing <- IssuesAndPull
  Limit = 1
  PageSize = 30
  Standing = {i2, p1}
  Failures = TRUE
SPECIFICATION FairSpec
INVARIANT TypeOK
PROPERTIES CapHoldsForKnown DeferredIssueIsServed
