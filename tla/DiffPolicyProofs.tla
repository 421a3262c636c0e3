---------------------------- MODULE DiffPolicyProofs ----------------------------
(***************************************************************************)
(* evaluateDiff decides and reports the documented policy: for every list  *)
(* of files and every issue body, and for any caps.                        *)
(***************************************************************************)
EXTENDS DiffPolicy, TLAPS

USE CapsAssumption, FilesAssumption

-----------------------------------------------------------------------------
(* Globs                                                                   *)

LEMMA FirstsEqual ==
  ASSUME NEW S, NEW T, NEW s \in Seq(S), NEW t \in Seq(T), Len(s) = 1, Len(t) >= 1
  PROVE  IsPrefix(s, t) <=> t[1] = s[1]
<1> DEFINE a == SubSeq(s, 1, 1)
           b == SubSeq(t, 1, 1)
<1>1. a \in Seq(S) /\ b \in Seq(T) /\ Len(a) = 1 /\ Len(b) = 1 /\ a[1] = s[1] /\ b[1] = t[1]
  OBVIOUS
<1> HIDE DEF a, b
<1>2. a \in [1 .. Len(a) -> S] /\ b \in [1 .. Len(b) -> T]
  BY <1>1
<1>3. a \in [{1} -> S] /\ b \in [{1} -> T]
  BY <1>1, <1>2
<1>4. a = b <=> a[1] = b[1]
  BY <1>3
<1> QED
  BY <1>1, <1>4 DEF IsPrefix, a, b

\* A glob d/** matches what begins with d, **/f what ends with f.
LEMMA OneSegment ==
  ASSUME NEW S, NEW p \in Seq(S), p # <<>>, NEW d
  PROVE  (IsPrefix(<<d>>, p) <=> p[1] = d) /\ (IsSuffix(<<d>>, p) <=> Last(p) = d)
<1> DEFINE q == Reverse(p)
           f == <<d>>
           e == Reverse(f)
<1>0. Len(p) \in Nat \ {0}
  OBVIOUS
<1>1. f \in Seq({d}) /\ Len(f) = 1 /\ f[1] = d
  OBVIOUS
<1> HIDE DEF f
<1>2. q \in Seq(S) /\ Len(q) >= 1 /\ q[1] = Last(p)
  BY <1>0 DEF Reverse, Last
<1>3. e \in Seq({d}) /\ Len(e) = 1 /\ e[1] = d
  <2>1. ASSUME NEW r \in Seq({d}), Len(r) = 1, r[1] = d
        PROVE  Reverse(r) \in Seq({d}) /\ Len(Reverse(r)) = 1 /\ Reverse(r)[1] = d
    BY <2>1 DEF Reverse
  <2> QED
    BY <1>1, <2>1
<1>4. IsPrefix(f, p) <=> p[1] = d
  BY <1>0, <1>1, FirstsEqual
<1> HIDE DEF q, e
<1>5. IsPrefix(e, q) <=> q[1] = d
  BY <1>2, <1>3, FirstsEqual
<1> QED
  BY <1>2, <1>4, <1>5 DEF IsSuffix, q, e, f

LEMMA Forms ==
  ASSUME NEW p, NEW g
  PROVE  /\ globMatch(Under(g), p) <=> IsPrefix(g, p)
         /\ globMatch(Anywhere(g), p) <=> IsSuffix(g, p)
         /\ globMatch(Exact(g), p) <=> p = g
  BY DEF globMatch, Under, Anywhere, Exact

\* The pattern lists mean what the documentation says.
LEMMA RestrictedMeans ==
  ASSUME NEW p \in Paths
  PROVE  matchedByAny(RestrictedPaths, p) <=> Restricted(p)
<1> DEFINE Dirs == {".github", ".devcontainer", "operator", "deploy"}
<1>1. p \in Seq(STRING) /\ p # <<>>
  OBVIOUS
<1>2. \A d \in Dirs : globMatch(Under(<<d>>), p) <=> p[1] = d
  BY <1>1, OneSegment, Forms
<1>3. \A g : globMatch(Exact(g), p) <=> p = g
  BY Forms
<1>4. matchedByAny(RestrictedPaths, p) <=>
        \/ \E d \in Dirs : globMatch(Under(<<d>>), p)
        \/ globMatch(Exact(<<"Dockerfile">>), p) \/ globMatch(Exact(<<".mcp.json">>), p)
  BY Zenon DEF matchedByAny, RestrictedPaths
<1> QED
  BY <1>2, <1>3, <1>4 DEF Restricted

LEMMA RiskyMeans ==
  ASSUME NEW p \in Paths
  PROVE  matchedByAny(RiskyPaths, p) <=> Risky(p)
<1>1. p \in Seq(STRING) /\ p # <<>>
  OBVIOUS
<1>2. \A f \in Manifests \cup {"Dockerfile"} : globMatch(Anywhere(<<f>>), p) <=> Last(p) = f
  BY <1>1, OneSegment, Forms
<1>3. \A f \in Manifests : globMatch(Exact(<<f>>), p) => Last(p) = f
  BY <1>1, Forms DEF Last
<1>4. matchedByAny(RiskyPaths, p) <=>
        \/ \E f \in Manifests : globMatch(Exact(<<f>>), p)
        \/ \E f \in Manifests \cup {"Dockerfile"} : globMatch(Anywhere(<<f>>), p)
  BY Zenon DEF matchedByAny, RiskyPaths
<1> QED
  BY <1>2, <1>3, <1>4, Zenon DEF Risky

LEMMA ApprovedMeans ==
  ASSUME NEW p
  PROVE  matchedByAny(parseApprovedGlobs(body), p) <=> Approved(p)
  BY Zenon DEF matchedByAny, parseApprovedGlobs, Approved

\* What evaluateDiff reports of one file.
Offence(p) == Restricted(p) \/ (Risky(p) /\ ~Approved(p))

LEMMA CheckMeans ==
  ASSUME NEW p \in Paths
  PROVE  Check(p) = IF Restricted(p) THEN <<[reason |-> "restricted-path", path |-> p]>>
                    ELSE IF Risky(p) /\ ~Approved(p) THEN <<[reason |-> "risky-path", path |-> p]>>
                    ELSE <<>>
  BY RestrictedMeans, RiskyMeans, ApprovedMeans, Zenon DEF Check

-----------------------------------------------------------------------------
(* The loop                                                                *)

Violation == [reason: {"restricted-path", "risky-path", "too-many-files", "too-many-lines"},
              path: Paths \cup {<<>>}]

\* How many files the loop has looked at.
Checked == IF next <= Len(files) THEN next - 1 ELSE Len(files)

\* The paths that a list of violations gives for a reason.
Reported(r, vs) == {v.path : v \in {w \in ToSet(vs) : w.reason = r}}

\* The offending paths among the files looked at.
RiskyOffence(p) == ~Restricted(p) /\ Risky(p) /\ ~Approved(p)
RestrictedOnes == {files[i].path : i \in {k \in 1 .. Checked : Restricted(files[k].path)}}
RiskyOnes == {files[i].path : i \in {k \in 1 .. Checked : RiskyOffence(files[k].path)}}

LoopOK ==
    /\ files \in Seq(Files)
    /\ next \in 1 .. Len(files) + 2
    /\ totalLines \in Nat
    /\ violations \in Seq(Violation)

LEMMA ReportedJoins ==
  ASSUME NEW s \in Seq(Violation), NEW t \in Seq(Violation), NEW r
  PROVE  Reported(r, s \o t) = Reported(r, s) \cup Reported(r, t)
<1>1. ToSet(s \o t) = ToSet(s) \cup ToSet(t)
  <2> DEFINE u == s \o t
             m == Len(s)
             n == Len(t)
  <2>1. /\ m \in Nat /\ n \in Nat /\ DOMAIN s = 1 .. m /\ DOMAIN t = 1 .. n /\ DOMAIN u = 1 .. m + n
        /\ (\A i \in 1 .. m : u[i] = s[i]) /\ (\A i \in 1 .. n : u[m + i] = t[i])
    OBVIOUS
  <2> HIDE DEF u, m, n
  <2>2. ASSUME NEW i \in DOMAIN u PROVE u[i] \in ToSet(s) \cup ToSet(t)
    <3>1. CASE i <= m
      BY <2>1, <3>1 DEF ToSet
    <3>2. CASE i > m
      <4>1. i - m \in 1 .. n /\ i = m + (i - m)
        BY <2>1, <3>2
      <4> QED
        BY <2>1, <4>1 DEF ToSet
    <3> QED
      BY <2>1, <3>1, <3>2
  <2>3. ASSUME NEW i \in DOMAIN s PROVE s[i] \in ToSet(u)
    <3>1. i \in DOMAIN u /\ u[i] = s[i]
      BY <2>1
    <3> QED
      BY <3>1 DEF ToSet
  <2>4. ASSUME NEW i \in DOMAIN t PROVE t[i] \in ToSet(u)
    <3>1. m + i \in DOMAIN u /\ u[m + i] = t[i]
      BY <2>1
    <3> QED
      BY <3>1 DEF ToSet
  <2> QED
    BY <2>2, <2>3, <2>4 DEF ToSet, u
<1> QED
  BY <1>1, Zenon DEF Reported

LEMMA ReportedOne ==
  ASSUME NEW v, NEW r
  PROVE  /\ Reported(r, <<>>) = {}
         /\ Reported(r, <<v>>) = IF v.reason = r THEN {v.path} ELSE {}
<1>1. ToSet(<<>>) = {} /\ ToSet(<<v>>) = {v}
  BY DEF ToSet
<1> QED
  BY <1>1, Zenon DEF Reported

LEMMA LoopInit == Init => LoopOK
<1> SUFFICES ASSUME Init PROVE LoopOK
  OBVIOUS
<1>1. PICK m \in 0 .. MaxLen : files \in [1 .. m -> Files]
  BY DEF Init, BoundedSeq, SeqOf, Files
<1>2. files \in Seq(Files) /\ Len(files) \in Nat
  BY <1>1
<1> QED
  BY <1>2 DEF Init, LoopOK

LEMMA CheckTyped ==
  ASSUME NEW p \in Paths
  PROVE  Check(p) \in Seq(Violation)
<1>1. [reason |-> "restricted-path", path |-> p] \in Violation /\ [reason |-> "risky-path", path |-> p] \in Violation
  BY DEF Violation
<1> QED
  BY <1>1 DEF Check

LEMMA CapsTyped == TooMany \in Seq(Violation) /\ TooLong \in Seq(Violation)
<1>1. /\ [reason |-> "too-many-files", path |-> <<>>] \in Violation
      /\ [reason |-> "too-many-lines", path |-> <<>>] \in Violation
  BY DEF Violation
<1> QED
  BY <1>1 DEF TooMany, TooLong

\* The file that CheckFile looks at.
LEMMA FileRead ==
  ASSUME LoopOK, CheckFile
  PROVE  /\ Len(files) \in Nat /\ next \in 1 .. Len(files)
         /\ files[next].path \in Paths /\ files[next].lines \in Nat
         /\ Checked = next - 1 /\ Checked' = next
<1>1. Len(files) \in Nat /\ next \in 1 .. Len(files) /\ next' = next + 1 /\ files' = files
  BY DEF LoopOK, CheckFile
<1>2. files[next] \in Files
  BY <1>1 DEF LoopOK
<1>3. files[next].path \in Paths /\ files[next].lines \in Nat
  BY <1>2 DEF Files
<1>4. Checked = next - 1 /\ Checked' = next
  BY <1>1 DEF Checked
<1> QED
  BY <1>1, <1>3, <1>4

LEMMA LoopStep == LoopOK /\ [Next]_vars => LoopOK'
<1> SUFFICES ASSUME LoopOK, [Next]_vars PROVE LoopOK'
  OBVIOUS
<1>0. violations \in Seq(Violation) /\ totalLines \in Nat /\ files \in Seq(Files) /\ Len(files) \in Nat
  BY DEF LoopOK
<1>1. CASE CheckFile
  <2> DEFINE p == files[next].path
             c == Check(p)
  <2>1. p \in Paths /\ files[next].lines \in Nat /\ next \in 1 .. Len(files)
    BY <1>1, FileRead
  <2>2. c \in Seq(Violation)
    BY <2>1, CheckTyped
  <2>3. /\ violations' = violations \o c /\ totalLines' = totalLines + files[next].lines
        /\ next' = next + 1 /\ files' = files
    BY <1>1 DEF CheckFile
  <2> HIDE DEF c
  <2>4. violations' \in Seq(Violation)
    BY <1>0, <2>2, <2>3
  <2>5. next' \in 1 .. Len(files) + 2
    BY <1>0, <2>1, <2>3
  <2>6. totalLines' \in Nat
    BY <1>0, <2>1, <2>3
  <2> QED
    BY <1>0, <2>3, <2>4, <2>5, <2>6 DEF LoopOK
<1>2. CASE CheckSize
  <2>1. violations' \in Seq(Violation)
    BY <1>0, <1>2, CapsTyped DEF CheckSize
  <2> QED
    BY <1>0, <1>2, <2>1 DEF LoopOK, CheckSize
<1>3. CASE UNCHANGED vars
  BY <1>3 DEF LoopOK, vars
<1> QED
  BY <1>1, <1>2, <1>3 DEF Next, Finished

\* The checks of the caps, like the end, come when the loop has seen every file.
LEMMA AllChecked ==
  ASSUME LoopOK, CheckSize \/ Done
  PROVE  Checked = Len(files) /\ Len(files) \in Nat /\ DOMAIN files = 1 .. Len(files)
<1>1. Len(files) \in Nat /\ DOMAIN files = 1 .. Len(files) /\ next \in Nat
  BY DEF LoopOK
<1> QED
  BY <1>1 DEF CheckSize, Done, Checked

-----------------------------------------------------------------------------
(* The offenders that are named                                            *)

NameInv ==
    /\ Reported("restricted-path", violations) = RestrictedOnes
    /\ Reported("risky-path", violations) = RiskyOnes

LEMMA NameFile ==
  ASSUME LoopOK, NameInv, CheckFile
  PROVE  NameInv'
<1> DEFINE p == files[next].path
           c == Check(p)
<1>1. /\ Len(files) \in Nat /\ next \in 1 .. Len(files) /\ p \in Paths
      /\ Checked = next - 1 /\ Checked' = next /\ c \in Seq(Violation)
  BY FileRead, CheckTyped
<1>2. violations \in Seq(Violation) /\ violations' = violations \o c /\ files' = files /\ body' = body
  BY DEF LoopOK, CheckFile
<1>3. 1 .. next = (1 .. next - 1) \cup {next}
  BY <1>1
<1>4. Reported("restricted-path", c) = (IF Restricted(p) THEN {p} ELSE {})
  BY <1>1, CheckMeans, ReportedOne
<1>5. Reported("risky-path", c) = (IF RiskyOffence(p) THEN {p} ELSE {})
  BY <1>1, CheckMeans, ReportedOne DEF RiskyOffence
<1>6. RestrictedOnes' = RestrictedOnes \cup (IF Restricted(p) THEN {p} ELSE {})
  BY <1>1, <1>2, <1>3 DEF RestrictedOnes
<1>7. RiskyOnes' = RiskyOnes \cup (IF RiskyOffence(p) THEN {p} ELSE {})
  BY <1>1, <1>2, <1>3 DEF RiskyOnes, RiskyOffence, Approved
<1> HIDE DEF c
<1>8. \A r : Reported(r, violations') = Reported(r, violations) \cup Reported(r, c)
  BY <1>1, <1>2, ReportedJoins
<1> QED
  BY <1>4, <1>5, <1>6, <1>7, <1>8 DEF NameInv

\* The caps are reported with reasons of their own.
LEMMA NameCaps ==
  ASSUME LoopOK, NameInv, CheckSize
  PROVE  NameInv'
<1>1. /\ Len(files) \in Nat /\ Checked = Len(files) /\ Checked' = Len(files)
      /\ files' = files /\ body' = body /\ violations \in Seq(Violation)
      /\ violations' = violations \o TooMany \o TooLong
  <2>1. Checked = Len(files) /\ Len(files) \in Nat
    BY AllChecked
  <2>2. /\ files' = files /\ body' = body /\ violations \in Seq(Violation) /\ next' = Len(files) + 2
        /\ violations' = violations \o TooMany \o TooLong
    BY <2>1 DEF LoopOK, CheckSize
  <2> QED
    BY <2>1, <2>2 DEF Checked
<1>2. RestrictedOnes' = RestrictedOnes /\ RiskyOnes' = RiskyOnes
  BY <1>1 DEF RestrictedOnes, RiskyOnes, RiskyOffence, Approved
<1>3. TooMany \in Seq(Violation) /\ TooLong \in Seq(Violation) /\ violations \o TooMany \in Seq(Violation)
  BY <1>1, CapsTyped
<1>4. ASSUME NEW r \in {"restricted-path", "risky-path"}
      PROVE  Reported(r, TooMany) = {} /\ Reported(r, TooLong) = {}
  BY ReportedOne DEF TooMany, TooLong
<1>5. ASSUME NEW r
      PROVE  Reported(r, violations') = (Reported(r, violations) \cup Reported(r, TooMany)) \cup Reported(r, TooLong)
  <2> DEFINE w == violations \o TooMany
  <2>1. Reported(r, w) = Reported(r, violations) \cup Reported(r, TooMany)
    BY <1>1, <1>3, ReportedJoins
  <2>2. w \in Seq(Violation) /\ violations' = w \o TooLong
    BY <1>1, <1>3
  <2> HIDE DEF w
  <2>3. Reported(r, w \o TooLong) = Reported(r, w) \cup Reported(r, TooLong)
    BY <1>3, <2>2, ReportedJoins
  <2> QED
    BY <2>1, <2>2, <2>3
<1> QED
  BY <1>2, <1>4, <1>5 DEF NameInv

\* The rejection names every offending path with its reason, and no other: for
\* every list of files and every issue body.
THEOREM OffendersNamed == Spec => []EveryOffenderIsNamed
<1>1. Init => LoopOK /\ NameInv
  <2> SUFFICES ASSUME Init PROVE NameInv
    BY LoopInit
  <2>1. Len(files) \in Nat /\ next = 1 /\ violations = <<>>
    BY LoopInit DEF Init, LoopOK
  <2>2. Checked = 0 /\ 1 .. 0 = {}
    BY <2>1 DEF Checked
  <2>3. RestrictedOnes = {} /\ RiskyOnes = {}
    BY <2>2 DEF RestrictedOnes, RiskyOnes
  <2> QED
    BY <2>1, <2>3, ReportedOne DEF NameInv
<1>2. LoopOK /\ NameInv /\ [Next]_vars => (LoopOK /\ NameInv)'
  <2> SUFFICES ASSUME LoopOK, NameInv, [Next]_vars PROVE NameInv'
    BY LoopStep
  <2>1. CASE UNCHANGED vars
    BY <2>1 DEF NameInv, Reported, RestrictedOnes, RiskyOnes, RiskyOffence, Approved, Checked, vars
  <2> QED
    BY <2>1, NameFile, NameCaps DEF Next, Finished
<1>3. LoopOK /\ NameInv => EveryOffenderIsNamed
  <2> SUFFICES ASSUME LoopOK, NameInv, Done PROVE EveryOffenderIsNamed
    BY DEF EveryOffenderIsNamed
  <2>1. DOMAIN files = 1 .. Checked
    BY AllChecked
  <2>2. RestrictedOnes = {p \in Named : Restricted(p)}
    BY <2>1, Zenon DEF RestrictedOnes, Named
  <2>3. RiskyOnes = {p \in Named : ~Restricted(p) /\ Risky(p) /\ ~Approved(p)}
    BY <2>1, Zenon DEF RiskyOnes, RiskyOffence, Named
  <2> QED
    BY <2>2, <2>3, Zenon DEF EveryOffenderIsNamed, NameInv, Reported
<1> QED
  BY <1>1, <1>2, <1>3, PTL DEF Spec

-----------------------------------------------------------------------------
(* The verdict                                                             *)

\* The total is the sum of the files looked at: running totals exist that lead
\* to it, and any others lead to it as well.
TotalInv ==
    /\ \E t \in [0 .. Checked -> Nat] :
         Sums(t, Checked) /\ t[Checked] = totalLines /\ \A i \in 0 .. Checked : t[i] <= totalLines
    /\ \A t \in [0 .. Len(files) -> Nat] : Sums(t, Len(files)) => t[Checked] = totalLines

LEMMA TotalFile ==
  ASSUME LoopOK, TotalInv, CheckFile
  PROVE  TotalInv'
<1> DEFINE n == next
           l == files[next].lines
<1>1. /\ Len(files) \in Nat /\ n \in 1 .. Len(files) /\ l \in Nat /\ totalLines \in Nat
      /\ Checked = n - 1 /\ Checked' = n /\ files' = files /\ totalLines' = totalLines + l
  BY FileRead DEF LoopOK, CheckFile
<1> HIDE DEF n
<1>2. \E t \in [0 .. n -> Nat] : /\ t[0] = 0 /\ \A i \in 1 .. n : t[i] = t[i - 1] + files[i].lines
                                 /\ t[n] = totalLines + l /\ \A i \in 0 .. n : t[i] <= totalLines + l
  <2>1. PICK t \in [0 .. n - 1 -> Nat] :
          /\ t[0] = 0 /\ \A i \in 1 .. n - 1 : t[i] = t[i - 1] + files[i].lines
          /\ t[n - 1] = totalLines /\ \A i \in 0 .. n - 1 : t[i] <= totalLines
    BY <1>1 DEF TotalInv, Sums
  <2> DEFINE u == [i \in 0 .. n |-> IF i = n THEN totalLines + l ELSE t[i]]
  <2>2. u \in [0 .. n -> Nat]
    BY <1>1
  <2>3. u[n] = totalLines + l /\ \A i \in 0 .. n - 1 : u[i] = t[i]
    BY <1>1
  <2> HIDE DEF u
  <2>4. u[0] = 0 /\ \A i \in 0 .. n : u[i] <= totalLines + l
    <3>1. 0 \in 0 .. n - 1 /\ n \in Nat /\ \A i \in 0 .. n : i = n \/ i \in 0 .. n - 1
      BY <1>1
    <3>2. \A i \in 0 .. n - 1 : t[i] \in Nat
      BY <1>1
    <3> HIDE DEF l
    <3> QED
      BY <1>1, <2>1, <2>3, <3>1, <3>2
  <2>5. ASSUME NEW i \in 1 .. n PROVE u[i] = u[i - 1] + files[i].lines
    <3>1. CASE i = n
      BY <1>1, <2>1, <2>3, <3>1 DEF n
    <3>2. CASE i \in 1 .. n - 1
      BY <1>1, <2>1, <2>3, <3>2
    <3> QED
      BY <1>1, <3>1, <3>2
  <2> QED
    BY <2>2, <2>3, <2>4, <2>5
<1>3. ASSUME NEW t \in [0 .. Len(files) -> Nat], Sums(t, Len(files))
      PROVE  t[n] = totalLines + l
  BY <1>1, <1>3 DEF TotalInv, Sums, n
<1>4. \E t \in [0 .. n -> Nat] :
        Sums(t, Checked)' /\ t[n] = totalLines' /\ \A i \in 0 .. n : t[i] <= totalLines'
  <2>1. PICK t \in [0 .. n -> Nat] : /\ t[0] = 0 /\ \A i \in 1 .. n : t[i] = t[i - 1] + files[i].lines
                                     /\ t[n] = totalLines + l /\ \A i \in 0 .. n : t[i] <= totalLines + l
    BY <1>2
  <2>2. Sums(t, Checked)'
    BY <1>1, <2>1 DEF Sums
  <2> QED
    BY <1>1, <2>1, <2>2
<1>5. \A t \in [0 .. Len(files') -> Nat] : Sums(t, Len(files))' => t[n] = totalLines'
  BY <1>1, <1>3 DEF Sums
<1> QED
  BY <1>1, <1>4, <1>5 DEF TotalInv

\* Nothing is reported as long as no file looked at offends and, at the end,
\* both caps hold.
ClearInv ==
    violations = <<>> <=> /\ \A i \in 1 .. Checked : ~Offence(files[i].path)
                          /\ Done => Len(files) <= MaxFiles /\ totalLines <= MaxLines

LEMMA JoinEmpty ==
  ASSUME NEW S, NEW s \in Seq(S), NEW t \in Seq(S)
  PROVE  s \o t = <<>> <=> s = <<>> /\ t = <<>>
<1>1. Len(s \o t) = Len(s) + Len(t) /\ Len(s) \in Nat /\ Len(t) \in Nat /\ s \o t \in Seq(S)
  OBVIOUS
<1>2. ASSUME NEW u \in Seq(S) PROVE u = <<>> <=> Len(u) = 0
  OBVIOUS
<1> QED
  BY <1>1, <1>2

LEMMA ClearFile ==
  ASSUME LoopOK, ClearInv, CheckFile
  PROVE  ClearInv'
<1> DEFINE p == files[next].path
           c == Check(p)
<1>1. /\ Len(files) \in Nat /\ next \in 1 .. Len(files) /\ p \in Paths
      /\ Checked = next - 1 /\ Checked' = next /\ c \in Seq(Violation)
  BY FileRead, CheckTyped
<1>2. /\ violations \in Seq(Violation) /\ violations' = violations \o c
      /\ files' = files /\ body' = body /\ next' = next + 1
  BY DEF LoopOK, CheckFile
<1>3. c = <<>> <=> ~Offence(p)
  <2>1. \A v : <<v>> # <<>>
    OBVIOUS
  <2> QED
    BY <1>1, <2>1, CheckMeans, Zenon DEF Offence
<1>4. ~Done /\ ~Done'
  BY <1>1, <1>2 DEF Done
<1>5. 1 .. next = (1 .. next - 1) \cup {next}
  BY <1>1
<1>6. (\A i \in 1 .. next : ~Offence(files[i].path)') <=> (\A i \in 1 .. next - 1 : ~Offence(files[i].path)) /\ ~Offence(p)
  BY <1>2, <1>5 DEF Offence, Approved
<1> HIDE DEF c
<1>7. violations' = <<>> <=> violations = <<>> /\ c = <<>>
  BY <1>1, <1>2, JoinEmpty
<1>8. violations = <<>> <=> \A i \in 1 .. next - 1 : ~Offence(files[i].path)
  BY <1>1, <1>4 DEF ClearInv
<1>9. violations' = <<>> <=> \A i \in 1 .. Checked' : ~Offence(files[i].path)'
  BY <1>1, <1>3, <1>6, <1>7, <1>8
<1> QED
  BY <1>4, <1>9 DEF ClearInv

LEMMA ClearCaps ==
  ASSUME LoopOK, ClearInv, CheckSize
  PROVE  ClearInv'
<1>1. Checked = Len(files) /\ Len(files) \in Nat
  BY AllChecked
<1>2. /\ files' = files /\ body' = body /\ violations \in Seq(Violation) /\ next' = Len(files) + 2
      /\ totalLines' = totalLines /\ violations' = violations \o TooMany \o TooLong /\ totalLines \in Nat
      /\ next = Len(files) + 1
  BY <1>1 DEF LoopOK, CheckSize
<1>3. Checked' = Len(files) /\ ~Done /\ Done'
  <2>0. next' = Len(files) + 2 /\ files' = files
    BY <1>2
  <2>1. Checked' = Len(files)
    BY <1>1, <2>0 DEF Checked
  <2>2. ~Done
    BY <1>1, <1>2 DEF Done
  <2>3. Done'
    BY <1>1, <1>2 DEF Done
  <2> QED
    BY <2>1, <2>2, <2>3
<1>4. TooMany \in Seq(Violation) /\ TooLong \in Seq(Violation) /\ violations \o TooMany \in Seq(Violation)
  BY <1>2, CapsTyped
<1>5. violations' = <<>> <=> violations = <<>> /\ TooMany = <<>> /\ TooLong = <<>>
  BY <1>2, <1>4, JoinEmpty
<1>6. (TooMany = <<>> <=> Len(files) <= MaxFiles) /\ (TooLong = <<>> <=> totalLines <= MaxLines)
  BY <1>1, <1>2 DEF TooMany, TooLong
<1>7. \A i \in 1 .. Len(files) : Offence(files[i].path)' <=> Offence(files[i].path)
  BY <1>2 DEF Offence, Approved
<1>8. violations' = <<>> <=> /\ \A i \in 1 .. Checked' : ~Offence(files[i].path)'
                             /\ Len(files') <= MaxFiles /\ totalLines' <= MaxLines
  BY <1>1, <1>2, <1>3, <1>5, <1>6, <1>7 DEF ClearInv
<1> QED
  BY <1>3, <1>8 DEF ClearInv

\* A pull request passes exactly when the documented policy lets it: for every
\* list of files, every issue body and any caps.
THEOREM PolicyEnforced == Spec => []PolicyIsEnforced
<1> DEFINE I == LoopOK /\ TotalInv /\ ClearInv
<1>1. Init => I
  <2> SUFFICES ASSUME Init PROVE TotalInv /\ ClearInv
    BY LoopInit
  <2>1. Len(files) \in Nat /\ next = 1 /\ violations = <<>> /\ totalLines = 0
    BY LoopInit DEF Init, LoopOK
  <2>2. Checked = 0 /\ 1 .. 0 = {} /\ 0 .. 0 = {0} /\ ~Done
    BY <2>1 DEF Checked, Done
  <2>3. ClearInv
    BY <2>1, <2>2 DEF ClearInv
  <2>4. \E t \in [0 .. 0 -> Nat] : Sums(t, 0) /\ t[0] = 0 /\ \A i \in 0 .. 0 : t[i] <= 0
    <3> DEFINE z == [i \in 0 .. 0 |-> 0]
    <3>1. z \in [0 .. 0 -> Nat] /\ z[0] = 0 /\ \A i \in 0 .. 0 : z[i] <= 0
      OBVIOUS
    <3> HIDE DEF z
    <3>2. Sums(z, 0)
      BY <2>2, <3>1 DEF Sums
    <3> QED
      BY <3>1, <3>2
  <2> QED
    BY <2>1, <2>2, <2>3, <2>4 DEF TotalInv, Sums
<1>2. I /\ [Next]_vars => I'
  <2> SUFFICES ASSUME LoopOK, TotalInv, ClearInv, [Next]_vars PROVE TotalInv' /\ ClearInv'
    BY LoopStep
  <2>1. CASE CheckFile
    BY <2>1, TotalFile, ClearFile
  <2>2. CASE CheckSize
    <3>1. Checked = Len(files) /\ Len(files) \in Nat
      BY <2>2, AllChecked
    <3>2. files' = files /\ totalLines' = totalLines /\ next' = Len(files) + 2
      BY <2>2, <3>1 DEF CheckSize
    <3>3. Checked' = Checked
      BY <3>1, <3>2 DEF Checked
    <3>4. TotalInv'
      BY <3>2, <3>3 DEF TotalInv, Sums
    <3> QED
      BY <2>2, <3>4, ClearCaps
  <2>3. CASE UNCHANGED vars
    BY <2>3 DEF TotalInv, ClearInv, Sums, Offence, Approved, Checked, Done, vars
  <2> QED
    BY <2>1, <2>2, <2>3 DEF Next, Finished
<1>3. I => PolicyIsEnforced
  <2> SUFFICES ASSUME LoopOK, TotalInv, ClearInv, Done PROVE PolicyIsEnforced
    BY DEF PolicyIsEnforced
  <2>1. Checked = Len(files) /\ DOMAIN files = 1 .. Checked /\ Len(files) \in Nat /\ totalLines \in Nat
    BY AllChecked DEF LoopOK
  <2>2. (\A i \in 1 .. Checked : ~Offence(files[i].path))
          <=> \A p \in Named : ~Restricted(p) /\ (Risky(p) => Approved(p))
    BY <2>1, Zenon DEF Offence, Named
  <2>3. ASSUME totalLines <= MaxLines PROVE LinesFit
    <3>1. PICK t \in [0 .. Len(files) -> Nat] :
            Sums(t, Len(files)) /\ \A i \in 0 .. Len(files) : t[i] <= totalLines
      BY <2>1 DEF TotalInv
    <3>2. t \in [0 .. Len(files) -> 0 .. MaxLines]
      BY <2>1, <2>3, <3>1
    <3> QED
      BY <3>1, <3>2 DEF LinesFit
  <2>4. ASSUME LinesFit PROVE totalLines <= MaxLines
    <3>1. PICK t \in [0 .. Len(files) -> 0 .. MaxLines] : Sums(t, Len(files))
      BY <2>4 DEF LinesFit
    <3>2. t \in [0 .. Len(files) -> Nat] /\ t[Len(files)] \in 0 .. MaxLines
      BY <2>1, <3>1
    <3>3. t[Len(files)] = totalLines
      BY <2>1, <3>1, <3>2 DEF TotalInv
    <3> QED
      BY <3>2, <3>3
  <2> QED
    BY <2>2, <2>3, <2>4 DEF PolicyIsEnforced, ClearInv
<1> QED
  BY <1>1, <1>2, <1>3, PTL DEF Spec
=============================================================================
