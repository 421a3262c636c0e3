----------------------- MODULE InstallationTokensProofs -----------------------
(***************************************************************************)
(* The token guarantees, for every lifetime, expiry margin and refresh     *)
(* period.                                                                 *)
(***************************************************************************)
EXTENDS InstallationTokens, TLAPS

USE TTLAssumption, PeriodAssumption

\* What the transport hands out is a token with more than the margin to live.
LEMMA MintedInTime ==
  ASSUME cached \in 0 .. TTL
  PROVE  installationToken \in 0 .. TTL /\ installationToken > Skew
  BY DEF installationToken

LEMMA TransportTyped ==
  ASSUME TypeOK, githubAppToken
  PROVE  /\ cached' \in 0 .. TTL /\ cached' > Skew
         /\ transport' \in {"none", "current", "replaced", "revoked"}
  BY MintedInTime DEF TypeOK, githubAppToken, StoreTransport

LEMMA FailureTyped ==
  ASSUME TypeOK, githubAppTokenFails
  PROVE  cached' = cached /\ transport' \in {"none", "current", "replaced", "revoked"}
  BY DEF TypeOK, githubAppTokenFails, StoreTransport

\* A refresh that begins has a token in hand, which the transport caches.
LEMMA RefreshTyped ==
  ASSUME TypeOK, refresh
  PROVE  /\ cached' \in 0 .. TTL
         /\ transport' \in {"none", "current", "replaced", "revoked"}
         /\ missed' \in BOOLEAN
         /\ step' \in {step, "get"}
         /\ step' = "get" => step = "get" \/ cached' > Skew
<1>1. CASE githubAppToken /\ step' = "get" /\ UNCHANGED missed
  BY <1>1, TransportTyped DEF TypeOK
<1>2. CASE UNCHANGED <<transportVars, step, missed>>
  BY <1>2 DEF TypeOK, transportVars
<1>3. CASE githubAppTokenFails /\ missed' = TRUE /\ UNCHANGED step
  BY <1>3, FailureTyped DEF TypeOK
<1> QED
  BY <1>1, <1>2, <1>3 DEF refresh

LEMMA TypeStep == TypeOK /\ [Next]_vars => TypeOK'
<1> SUFFICES ASSUME TypeOK, [Next]_vars PROVE TypeOK'
  OBVIOUS
<1> USE DEF triageVars, transportVars
<1>1. CASE StartupRefresh
  BY <1>1, RefreshTyped DEF StartupRefresh, TypeOK
<1>2. CASE TickerFires
  BY <1>2, RefreshTyped DEF TickerFires, TypeOK
<1>3. CASE readPipelineCredentials
  BY <1>3, TransportTyped, FailureTyped DEF readPipelineCredentials, TypeOK
<1>4. CASE Minute
  BY <1>4 DEF Minute, Before, TypeOK
<1>5. CASE \E newKey \in {"none", "usable", "incomplete"} : MakeSecrets(newKey)
  BY <1>5 DEF MakeSecrets, TypeOK
<1>6. CASE Restart \/ DeleteOldKey
  <2>1. CASE Restart
    BY <2>1 DEF Restart, TypeOK
  <2>2. CASE DeleteOldKey
    BY <2>2 DEF DeleteOldKey, TypeOK
  <2> QED
    BY <1>6, <2>1, <2>2
<1>7. CASE getSecret \/ RefreshFails
  BY <1>7 DEF getSecret, RefreshFails, TypeOK
<1>8. CASE upsertTriageGithubToken
  <2>1. missed' \in BOOLEAN
    BY <1>8 DEF upsertTriageGithubToken, Conflicts
  <2>2. claude' \in BOOLEAN
    BY <1>8 DEF upsertTriageGithubToken, write, TypeOK
  <2> QED
    BY <1>8, <2>1, <2>2 DEF upsertTriageGithubToken, write, TypeOK
<1>9. CASE UNCHANGED vars
  BY <1>9 DEF vars, TypeOK
<1> QED
  BY <1>1, <1>2, <1>3, <1>4, <1>5, <1>6, <1>7, <1>8, <1>9 DEF Next

\* Type correctness: in particular the validities stay within a lifetime.
THEOREM TokensTyped == Spec => []TypeOK
<1>1. Init => TypeOK
  <2> SUFFICES ASSUME Init PROVE TypeOK
    OBVIOUS
  <2>1. booting \in BOOLEAN /\ missed \in BOOLEAN /\ claude \in BOOLEAN
    BY DEF Init
  <2>2. cached \in 0 .. TTL /\ left \in 0 .. TTL /\ dark \in 0 .. Period /\ timer \in 0 .. Period
    BY DEF Init
  <2> QED
    BY <2>1, <2>2 DEF Init, TypeOK
<1> QED
  BY <1>1, TypeStep, PTL DEF Spec

\* However a refresh and `make secrets` overlap, the Claude token written last
\* stays: an update made from an older version is refused.
THEOREM ConfigPreserved == Spec => []ConfigIsPreserved
<1>1. Init => ConfigIsPreserved
  BY DEF Init, ConfigIsPreserved
<1>2. ConfigIsPreserved /\ [Next]_vars => ConfigIsPreserved'
  <2> SUFFICES ASSUME ConfigIsPreserved, [Next]_vars PROVE ConfigIsPreserved'
    OBVIOUS
  <2> USE DEF ConfigIsPreserved
  <2>1. CASE upsertTriageGithubToken
    BY <2>1 DEF upsertTriageGithubToken, write, Conflicts, triageVars
  <2>2. CASE \E newKey \in {"none", "usable", "incomplete"} : MakeSecrets(newKey)
    BY <2>2 DEF MakeSecrets
  <2>3. CASE claude' = claude
    BY <2>3
  <2> QED
    BY <2>1, <2>2, <2>3 DEF Next, StartupRefresh, TickerFires, readPipelineCredentials,
       Minute, Restart, DeleteOldKey, getSecret, RefreshFails, triageVars, vars
<1> QED
  BY <1>1, <1>2, PTL DEF Spec

\* The minutes the token still has and the minutes since the tick that wrote it
\* add up: the outage so far is what the tick was late by, less the margin.
OutageInv ==
    /\ OutageIsBounded
    /\ triage # "app" => dark = 0
    /\ left > 0 => dark = 0
    /\ booting => timer = 0 /\ step = "idle"
    /\ timer > 0 => step = "idle"
    /\ step # "idle" => cached > Skew
    /\ key = "absent" => triage # "app" /\ step = "idle"
    /\ triage = "app" /\ ~booting /\ step = "idle" /\ ~missed => left + timer > Skew + dark

LEMMA OutageStep ==
  ASSUME TypeOK, OutageInv, [Next]_vars
  PROVE  OutageInv'
<1>0. installationToken \in 0 .. TTL /\ installationToken > Skew
  BY MintedInTime DEF TypeOK
<1> USE DEF OutageInv, OutageIsBounded, TypeOK, triageVars, transportVars
<1>1. CASE StartupRefresh
  BY <1>0, <1>1 DEF StartupRefresh, refresh, githubAppToken, Mints, githubAppTokenFails
<1>2. CASE TickerFires
  BY <1>0, <1>2 DEF TickerFires, refresh, githubAppToken, Mints, githubAppTokenFails
<1>3. CASE Minute
  BY <1>3 DEF Minute, Before
<1>4. CASE readPipelineCredentials
  BY <1>0, <1>4 DEF readPipelineCredentials, githubAppToken, githubAppTokenFails
<1>5. CASE Restart \/ DeleteOldKey \/ UNCHANGED vars
  BY <1>5 DEF Restart, DeleteOldKey, vars
<1>6. CASE \E newKey \in {"none", "usable", "incomplete"} : MakeSecrets(newKey)
  BY <1>6 DEF MakeSecrets
<1>7. CASE getSecret \/ RefreshFails
  BY <1>7 DEF getSecret, RefreshFails
<1>8. CASE upsertTriageGithubToken
  <2>1. step' = "idle" /\ step # "idle" /\ UNCHANGED <<key, cached, timer, booting>>
    BY <1>8 DEF upsertTriageGithubToken
  <2>2. CASE Conflicts
    <3>1. missed' /\ UNCHANGED triageVars
      BY <1>8, <2>2 DEF upsertTriageGithubToken
    <3> QED
      BY <2>1, <3>1
  <2>3. CASE ~Conflicts
    <3>1. write /\ key # "absent"
      BY <1>8, <2>1, <2>3 DEF upsertTriageGithubToken
    <3>2. left' = cached /\ dark' = 0 /\ triage' = "app"
      BY <3>1 DEF write
    <3> QED
      BY <2>1, <3>1, <3>2
  <2> QED
    BY <2>2, <2>3
<1> QED
  BY <1>1, <1>2, <1>3, <1>4, <1>5, <1>6, <1>7, <1>8 DEF Next

\* After a refresh that succeeded, and until one fails, the triage namespace is
\* without a valid token for less than a refresh period at a time.
THEOREM OutageBounded == Spec => []OutageIsBounded
<1>1. Init => OutageInv
  BY DEF Init, OutageInv, OutageIsBounded
<1>2. TypeOK /\ OutageInv /\ [Next]_vars => OutageInv'
  BY OutageStep
<1>3. OutageInv => OutageIsBounded
  BY DEF OutageInv
<1> QED
  BY <1>1, <1>2, <1>3, TokensTyped, PTL DEF Spec
=============================================================================
