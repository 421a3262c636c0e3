--------------------------- MODULE InstallationTokens ---------------------------
(***************************************************************************)
(* GitHub App installation tokens, minute by minute: the one token the     *)
(* operator's transport caches (github_app.go), the refresher that writes  *)
(* it into the triage namespace every 45 minutes (triage_token.go), the    *)
(* poller and the reconciler, which ask for it too (secrets.go), and `make *)
(* secrets`, which may change the App key or the triage Secret meanwhile.  *)
(* The calls of one refresh are steps of their own; they, and a restart,   *)
(* take less than a minute together.                                       *)
(***************************************************************************)
EXTENDS Integers

CONSTANTS
    TTL,       \* lifetime of an installation token, in minutes
    Skew,      \* the transport mints a new token this long before expiry
    Period     \* triageTokenRefreshEvery

ASSUME TTLAssumption == TTL \in Nat /\ Skew \in Nat /\ Skew < TTL
ASSUME PeriodAssumption == Period \in Nat /\ Skew < Period

VARIABLES
    key,        \* the pipeline-app-key Secret
    transport,  \* the key in the cached transport: the Secret's, one replaced
                \* there since, or one deleted from GitHub since
    cached,     \* minutes the transport's token is still valid (0: expired, or none)
    triage,     \* the github-token of the triage namespace's pipeline-creds
    left,       \* minutes that token is still valid, when it is an installation token
    claude,     \* that Secret holds the Claude token `make secrets` last wrote
    step,       \* the refresh in progress: about to read the Secret, or to update
                \* the version it has read
    dark,       \* history: minutes for which it has been expired, counted up to Period
    timer,      \* minutes since the refresher's ticker last fired
    booting,    \* the refresh at startup is still to come
    missed      \* history: the last refresh failed

transportVars == <<transport, cached>>
triageVars == <<triage, left, claude, dark>>
vars == <<key, transportVars, triageVars, step, timer, booting, missed>>

\* Validities never exceed a token's lifetime, and the ticker never misses.
TypeOK ==
    /\ key \in {"absent", "incomplete", "usable"}
    /\ transport \in {"none", "current", "replaced", "revoked"}
    /\ cached \in 0 .. TTL
    /\ triage \in {"absent", "pat", "app"}
    /\ left \in 0 .. TTL
    /\ claude \in BOOLEAN
    /\ step \in {"idle", "get", "newest", "outdated"}
    /\ dark \in 0 .. Period
    /\ timer \in 0 .. Period
    /\ booting \in BOOLEAN
    /\ missed \in BOOLEAN

Init ==
    /\ key \in {"absent", "usable"}
    /\ transport = "none"
    /\ cached = 0
    /\ triage \in {"absent", "pat"}
    /\ left = 0
    /\ claude = TRUE
    /\ step = "idle"
    /\ dark = 0
    /\ timer = 0
    /\ booting = TRUE
    /\ missed = FALSE

-----------------------------------------------------------------------------
Before(n) == IF n = 0 THEN 0 ELSE n - 1

\* Variant with a bug: the token is used to its last minute.
tokenUntilExpiry == IF cached = 0 THEN TTL ELSE cached

\* Transport.Token: the cached token until shortly before it expires.
installationToken == IF cached <= Skew THEN TTL ELSE cached

\* githubAppToken gives a token: minting one takes a key GitHub still knows, and
\* the transport keeps the key it was made with.
Mints == key = "usable" /\ (cached > Skew \/ transport # "revoked")

StoreTransport == transport' = IF transport = "none" THEN "current" ELSE transport

githubAppToken ==
    /\ Mints
    /\ cached' = installationToken
    /\ StoreTransport

\* githubAppToken returns an error: reading the key failed, the key is incomplete,
\* or GitHub gave no token to the transport, which is stored already.
githubAppTokenFails ==
    /\ UNCHANGED transport \/ (key = "usable" /\ StoreTransport)
    /\ UNCHANGED cached

\* Variant with a bug: after a failure the refresher gives up.
refreshGivesUp ==
    IF missed \/ key = "absent" THEN UNCHANGED <<transportVars, step, missed>>
    ELSE \/ githubAppToken /\ step' = "get" /\ UNCHANGED missed
         \/ githubAppTokenFails /\ missed' = TRUE /\ UNCHANGED step

\* The refresh begins.  Without an App key there is nothing to rotate; an
\* incomplete key, a refused one or a failing call is logged, and the next tick
\* tries again.
refresh ==
    \/ /\ githubAppToken
       /\ step' = "get"
       /\ UNCHANGED missed
    \/ /\ key = "absent"
       /\ UNCHANGED <<transportVars, step, missed>>
    \/ /\ githubAppTokenFails
       /\ missed' = TRUE
       /\ UNCHANGED step

\* The refresher runs once before the ticker; the manager's cache may not have
\* been started by then, and reading the key from it is an error like any other.
StartupRefresh ==
    /\ booting
    /\ refresh
    /\ booting' = FALSE
    /\ UNCHANGED <<key, triageVars, timer>>

TickerFires ==
    /\ ~booting /\ timer = Period
    /\ refresh
    /\ timer' = 0
    /\ UNCHANGED <<key, triageVars, booting>>

\* Variant with a bug: a Secret that does not exist is to be created.
getOrCreateSecret ==
    /\ step = "get"
    /\ step' \in IF triage = "absent" THEN {"create"} ELSE {"newest", "outdated"}
    /\ UNCHANGED <<key, transportVars, triageVars, timer, booting, missed>>

\* upsertTriageGithubToken reads the Secret, from an informer that may not have
\* caught up with it; there is nothing to do when it does not exist.
getSecret ==
    /\ step = "get"
    /\ step' \in IF triage = "absent" THEN {"idle"} ELSE {"newest", "outdated"}
    /\ UNCHANGED <<key, transportVars, triageVars, timer, booting, missed>>

\* Variant with a bug: the token is patched in without a resourceVersion.
NeverConflicts == FALSE

\* The API server refuses an update of any but the newest version.
Conflicts == step = "outdated"

\* The token goes into the version that was read, the rest of which stays.
write ==
    /\ triage' = "app"
    /\ left' = cached
    /\ dark' = 0
    /\ claude' = (claude /\ step = "newest")

upsertTriageGithubToken ==
    /\ step \in {"newest", "outdated"}
    /\ IF Conflicts THEN UNCHANGED triageVars ELSE write
    /\ missed' = Conflicts
    /\ step' = "idle"
    /\ UNCHANGED <<key, transportVars, timer, booting>>

\* A call of the refresh fails, which is logged.
RefreshFails ==
    /\ step # "idle"
    /\ missed' = TRUE
    /\ step' = "idle"
    /\ UNCHANGED <<key, transportVars, triageVars, timer, booting>>

\* The poller and the reconciler ask for the token all the time.
readPipelineCredentials ==
    /\ ~booting
    /\ githubAppToken \/ githubAppTokenFails
    /\ UNCHANGED <<key, triageVars, step, timer, booting, missed>>

-----------------------------------------------------------------------------
Minute ==
    /\ ~booting /\ step = "idle" /\ timer < Period
    /\ cached' = Before(cached)
    /\ left' = Before(left)
    /\ dark' = IF triage = "app" /\ left = 0 /\ dark < Period THEN dark + 1 ELSE dark
    /\ timer' = timer + 1
    /\ UNCHANGED <<key, transport, triage, claude, step, booting, missed>>

\* `make secrets` writes the long-lived PAT and the Claude token into the triage
\* namespace and, when the App variables are set, the App key: the one that was
\* there, a new one, or one that githubAppToken refuses.
MakeSecrets(newKey) ==
    /\ triage' = "pat"
    /\ left' = 0
    /\ dark' = 0
    /\ claude' = TRUE
    /\ step' = IF step = "newest" THEN "outdated" ELSE step
    /\ key' = IF newKey = "none" THEN key ELSE newKey
    /\ transport' = IF newKey # "none" /\ transport = "current" THEN "replaced" ELSE transport
    /\ UNCHANGED <<cached, timer, booting, missed>>

\* The replaced key is deleted on GitHub (docs/github-app-setup.md, Rotation);
\* tokens minted with it live on.
DeleteOldKey ==
    /\ transport = "replaced"
    /\ transport' = "revoked"
    /\ UNCHANGED <<key, cached, triageVars, step, timer, booting, missed>>

\* The transport, and the token it caches, live in memory.
Restart ==
    /\ transport' = "none"
    /\ cached' = 0
    /\ step' = "idle"
    /\ timer' = 0
    /\ booting' = TRUE
    /\ UNCHANGED <<key, triageVars, missed>>

Next ==
    \/ StartupRefresh \/ TickerFires \/ getSecret \/ upsertTriageGithubToken \/ RefreshFails
    \/ readPipelineCredentials \/ Minute \/ Restart \/ DeleteOldKey
    \/ \E newKey \in {"none", "usable", "incomplete"} : MakeSecrets(newKey)

Spec == Init /\ [][Next]_vars

\* Restarts come to an end, time passes, the refresher goes on, and the calls of a
\* tick's refresh, made again and again, succeed in the end.  The one at startup
\* need never succeed: it may run before the cache it reads from is started.
Fairness ==
    /\ <>[][~Restart]_vars
    /\ WF_vars(Minute)
    /\ WF_vars(StartupRefresh \/ TickerFires \/ getSecret \/ upsertTriageGithubToken)
    /\ SF_vars(TickerFires /\ step' = "get")
    /\ SF_vars(getSecret /\ step' = "newest")
    /\ SF_vars(upsertTriageGithubToken /\ ~missed')

FairSpec == Spec /\ Fairness

-----------------------------------------------------------------------------
\* As long as the last refresh succeeded, the triage job has been without a valid
\* token for less than a refresh period, however the ticks, the restarts and
\* `make secrets` fall relative to the expiry of the token the transport caches.
\* That it may be without one at all, although the refresher "keeps the triage
\* namespace's github-token fresh" (triage_token.go:53), is because refresh
\* copies the cached token, whose remaining life may be shorter than a period.
OutageIsBounded == ~missed => dark < Period - Skew

\* A refresh that overlaps `make secrets`, or reads from a late informer, never
\* puts an older Claude token or authentication mode back (triage_token.go:92,
\* "preserving the Claude token + auth mode").
ConfigIsPreserved == claude

\* An outage of the triage token ends, whatever calls fail for a while, at startup
\* even for ever, and wherever the restarts, key rotations and `make secrets` of
\* a while fall, unless the key that the transport still holds has been deleted,
\* or the Secret's is not usable.  Restarts that go on, each before the first
\* tick, can prolong it for ever: the startup refresh may fail every time.
CanMint == key = "usable" /\ transport # "revoked"
OutageEnds ==
    triage = "app" /\ left = 0 /\ CanMint ~> triage # "app" \/ left > 0 \/ ~CanMint
=============================================================================
