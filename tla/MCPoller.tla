------------------------------- MODULE MCPoller -------------------------------
(* Two repositories: one lists two issues and the other a labelled pull    *)
(* request, or each lists one issue.                                       *)
EXTENDS GitHubPoller, TLC

CONSTANTS r1, r2, i1, i2, p1

TwoRepos == <<r1, r2>>
IssuesAndPull == (r1 :> <<i1, i2>>) @@ (r2 :> <<p1>>)
IssueEach == (r1 :> <<i1>>) @@ (r2 :> <<i2>>)
=============================================================================
