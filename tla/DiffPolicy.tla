------------------------------- MODULE DiffPolicy -------------------------------
(***************************************************************************)
(* evaluateDiff (diff_policy.go), file by file, next to the policy as      *)
(* ARCHITECTURE.md words it.  A path is the sequence of its segments; a    *)
(* glob is a record of one of the forms globMatch tells apart, a segment   *)
(* with "*" standing for the set of names it matches.                      *)
(***************************************************************************)
EXTENDS Naturals, Sequences, SequencesExt

CONSTANTS
    MaxFiles, MaxLines,  \* the caps, after loadDiffPolicy's overrides
    Paths,               \* names the files of a pull request may have
    Renamed,             \* names some of them may have had before
    Sizes,               \* additions plus deletions of one file
    MaxLen,              \* bound: files in a pull request
    Bodies               \* issue bodies: sets of lines, each with or without the marker

ASSUME CapsAssumption == MaxFiles \in Nat \ {0} /\ MaxLines \in Nat \ {0}
ASSUME FilesAssumption == /\ Paths \subseteq Seq(STRING) \ {<<>>}
                          /\ Sizes \subseteq Nat /\ MaxLen \in Nat

VARIABLES files, body,   \* the pull request's files, the issue's body
          next,          \* the file the loop looks at
          totalLines, violations
vars == <<files, body, next, totalLines, violations>>

\* A file as the listing gives it; previous is <<>> when it was not renamed.
Files == [path: Paths, previous: Renamed \cup {<<>>}, lines: Sizes]

-----------------------------------------------------------------------------
Exact(p) == [form |-> "exact", path |-> p]
Under(p) == [form |-> "under", path |-> p]         \* p/**
Anywhere(p) == [form |-> "anywhere", path |-> p]   \* **/p
AnyName(S) == [form |-> "anyname", names |-> S]    \* **/s with "*" in s
Star(S) == [form |-> "star", names |-> S]          \* s with "*", one segment

globMatch(pat, p) ==
    \/ pat.form = "under" /\ IsPrefix(pat.path, p)
    \/ pat.form = "anywhere" /\ IsSuffix(pat.path, p)
    \/ pat.form = "anyname" /\ Last(p) \in pat.names
    \/ pat.form = "star" /\ Len(p) = 1 /\ Last(p) \in pat.names
    \/ pat.form = "exact" /\ p = pat.path

matchedByAny(patterns, p) == \E pat \in patterns : globMatch(pat, p)

RestrictedPaths ==
    {Under(<<d>>) : d \in {".github", ".devcontainer", "operator", "deploy"}}
        \cup {Exact(<<"Dockerfile">>), Exact(<<".mcp.json">>)}

Manifests == {"package.json", "package-lock.json", "yarn.lock", "pnpm-lock.yaml", "Makefile",
              "pyproject.toml", "setup.py", "Gemfile", "Cargo.toml", "go.mod"}
RiskyPaths == {Exact(<<f>>) : f \in Manifests}
                  \cup {Anywhere(<<f>>) : f \in Manifests \cup {"Dockerfile"}}

\* Only lines that carry the approve-risky-paths: marker contribute globs.
parseApprovedGlobs(b) == UNION {line.globs : line \in {l \in b : l.marker}}

-----------------------------------------------------------------------------
\* Variant with a bug: an approved risky path is let through wherever it is.
CheckRiskyFirst(p) ==
    IF matchedByAny(RiskyPaths, p)
    THEN IF matchedByAny(parseApprovedGlobs(body), p) THEN <<>>
         ELSE <<[reason |-> "risky-path", path |-> p]>>
    ELSE IF matchedByAny(RestrictedPaths, p)
    THEN <<[reason |-> "restricted-path", path |-> p]>>
    ELSE <<>>

\* The check of one file, by the name it has now: a restricted path is never looked at as a risky one.
Check(p) ==
    IF matchedByAny(RestrictedPaths, p) THEN <<[reason |-> "restricted-path", path |-> p]>>
    ELSE IF matchedByAny(RiskyPaths, p) /\ ~matchedByAny(parseApprovedGlobs(body), p)
    THEN <<[reason |-> "risky-path", path |-> p]>>
    ELSE <<>>

Init ==
    /\ files \in BoundedSeq(Files, MaxLen)
    /\ body \in Bodies
    /\ next = 1
    /\ totalLines = 0
    /\ violations = <<>>

CheckFile ==
    /\ next <= Len(files)
    /\ totalLines' = totalLines + files[next].lines
    /\ violations' = violations \o Check(files[next].path)
    /\ next' = next + 1
    /\ UNCHANGED <<files, body>>

\* Variant with a bug: the cap itself is too long.
TooLongAtCap == IF totalLines >= MaxLines THEN <<[reason |-> "too-many-lines", path |-> <<>>]>> ELSE <<>>

\* After the loop, the caps: the count of files, then the lines.
TooMany == IF Len(files) > MaxFiles THEN <<[reason |-> "too-many-files", path |-> <<>>]>> ELSE <<>>
TooLong == IF totalLines > MaxLines THEN <<[reason |-> "too-many-lines", path |-> <<>>]>> ELSE <<>>

CheckSize ==
    /\ next = Len(files) + 1
    /\ violations' = violations \o TooMany \o TooLong
    /\ next' = next + 1
    /\ UNCHANGED <<files, body, totalLines>>

Done == next = Len(files) + 2
Finished == Done /\ UNCHANGED vars

Next == CheckFile \/ CheckSize \/ Finished

Spec == Init /\ [][Next]_vars

-----------------------------------------------------------------------------
(* The policy in the words of ARCHITECTURE.md                              *)

Restricted(p) == p[1] \in {".github", ".devcontainer", "operator", "deploy"}
                     \/ p \in {<<"Dockerfile">>, <<".mcp.json">>}
Risky(p) == Last(p) \in Manifests \cup {"Dockerfile"}
Approved(p) == \E line \in body : line.marker /\ \E g \in line.globs : globMatch(g, p)
Named == {files[i].path : i \in DOMAIN files}
\* The lines add up to no more than the cap: all running totals stay within it.
Sums(t, k) == t[0] = 0 /\ \A i \in 1 .. k : t[i] = t[i - 1] + files[i].lines
LinesFit == \E t \in [0 .. Len(files) -> 0 .. MaxLines] : Sums(t, Len(files))

\* evaluateDiff lets a pull request through exactly when no name its files have is
\* restricted, every build manifest among them at any depth is approved in the
\* issue, and it is within both caps, of which the caps themselves are; no
\* approval opens a restricted path.  The names are those after the change:
\* evaluateDiff does not ask where a renamed file was before.
PolicyIsEnforced ==
    Done => (violations = <<>> <=>
                /\ \A p \in Named : ~Restricted(p) /\ (Risky(p) => Approved(p))
                /\ Len(files) <= MaxFiles
                /\ LinesFit)

\* The violations that the rejection comment lists name every offending path and
\* no other: restricted paths as restricted, the other offenders as risky.
EveryOffenderIsNamed ==
    Done => /\ {v.path : v \in {w \in ToSet(violations) : w.reason = "restricted-path"}}
                 = {p \in Named : Restricted(p)}
            /\ {v.path : v \in {w \in ToSet(violations) : w.reason = "risky-path"}}
                 = {p \in Named : ~Restricted(p) /\ Risky(p) /\ ~Approved(p)}
=============================================================================
