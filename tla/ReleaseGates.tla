---------------------------- MODULE ReleaseGates ----------------------------
(***************************************************************************)
(* The parts of a release that run in steps: the gate that dials every     *)
(* documented URL from a pool of workers, the writer of a breaking release,*)
(* the dist-tags of the registry, and the isolated install. The checks     *)
(* that are plain functions are in ReleaseChecks.                          *)
(***************************************************************************)
EXTENDS ReleaseChecks

CONSTANTS
    RGWorkers,     \* the pool that probes URLs
    RGWorkspaces,  \* workspaces that declare the SDK
    RGPublishes    \* bound: versions published

VARIABLES
    rgNext,      \* the pool's shared index, from 1
    rgBusy,      \* worker -> index it probes, 0 for none
    rgResults,   \* index -> did the probe pass, for the probed ones
    rgDrift,     \* did a shipped default drift
    rgExit,      \* the gate's exit code, -1 while it runs
    rgManifest,  \* package -> its version, the range of the SDK in the first section that
                 \*   declares it, and the ranges of the later sections
    rgRelease,   \* the breaking release: its bumps and how far it got
    rgTags,      \* dist-tags: tag -> version
    rgPublished, \* versions in the registry
    rgPromoted,  \* versions someone promoted to latest
    rgInstall,   \* step of the isolated install
    rgScratch,   \* is its scratch directory there
    rgKeep,      \* was it called with keepTemp
    rgAudit      \* the license expression audited and the answer

rgGate == <<rgNext, rgBusy, rgResults, rgDrift, rgExit>>
rgWriter == <<rgManifest, rgRelease>>
rgRegistry == <<rgTags, rgPublished, rgPromoted>>
rgRest == <<rgInstall, rgScratch, rgKeep, rgAudit>>
rgVars == <<rgGate, rgWriter, rgRegistry, rgRest>>

-----------------------------------------------------------------------------
(* The URL gate. A URL is [host, path]. *)

\* OWNED_HOSTS, with one host that may answer 404 on its probe path.
RGOwned == [h \in {"facilitator", "explorer"} |->
              [probePath |-> "/health", allow404 |-> h = "explorer"]]

probeTargetFor(url) ==
    IF url.host \in DOMAIN RGOwned
    THEN [url |-> [host |-> url.host, path |-> RGOwned[url.host].probePath],
          gating |-> TRUE, allow404 |-> RGOwned[url.host].allow404]
    ELSE [url |-> url, gating |-> FALSE, allow404 |-> FALSE]

isPassingStatus(status, allow404) ==
    status \in 200 .. 299 \/ status = 402 \/ (allow404 /\ status = 404)

\* planChecks: one check per target, over the references and the defaults.
planChecks(references, confirmed) == {probeTargetFor(u) : u \in references \cup confirmed}

\* auditShippedDefaults: a default is kept only when its file still says it and
\* its host is declared.
RGThirdParty == {"rpc"}
RGConfirmed(default, text) ==
    default \in text /\ default.host \in DOMAIN RGOwned \cup RGThirdParty

RGUrls == [host : {"facilitator", "explorer", "rpc", "blog"}, path : {"/", "/docs"}]

\* Every reference to an operated host gates, on one probe per host, and no
\* other one does; a default on an undeclared host is drift.
ASSUME RGPlanGatesOwnHosts ==
    \A references \in SUBSET RGUrls :
        LET checks == planChecks(references, {})
        IN /\ {c.url.host : c \in {x \in checks : x.gating}}
                = {u.host : u \in references} \cap DOMAIN RGOwned
           /\ \A c, d \in checks : c.gating /\ d.gating /\ c.url.host = d.url.host => c = d
           /\ \A u \in references : u.host = "blog" => ~RGConfirmed(u, references)

\* The plan of this run: two documented pages of one operated host, another
\* operated host and a third party's.
RGChecks == SetToSeq(planChecks({[host |-> "facilitator", path |-> "/"], [host |-> "blog", path |-> "/"],
                                 [host |-> "facilitator", path |-> "/docs"]},
                                {[host |-> "explorer", path |-> "/"]}))

\* A worker takes the next check: the index is read and advanced in one step.
RGTake(w) ==
    /\ rgExit = -1 /\ rgBusy[w] = 0 /\ rgNext <= Len(RGChecks)
    /\ rgBusy' = [rgBusy EXCEPT ![w] = rgNext]
    /\ rgNext' = rgNext + 1
    /\ UNCHANGED <<rgResults, rgDrift, rgExit, rgWriter, rgRegistry, rgRest>>

\* The probe answers or is aborted after its timeout, which is status 0.
RGProbed(w) ==
    /\ rgBusy[w] # 0
    /\ \E status \in {0, 200, 402, 404, 503} :
        rgResults' = [i \in DOMAIN rgResults \cup {rgBusy[w]} |->
                        IF i = rgBusy[w] THEN isPassingStatus(status, RGChecks[i].allow404)
                        ELSE rgResults[i]]
    /\ rgBusy' = [rgBusy EXCEPT ![w] = 0]
    /\ UNCHANGED <<rgNext, rgDrift, rgExit, rgWriter, rgRegistry, rgRest>>

\* buildReport: a check without a result is passed over.
RGFailures == {i \in DOMAIN rgResults : ~rgResults[i] /\ RGChecks[i].gating}

RGPoolDone == rgNext > Len(RGChecks) /\ \A w \in RGWorkers : rgBusy[w] = 0

\* Every worker has left its loop: the report and the drift decide.
RGReport ==
    /\ rgExit = -1 /\ RGPoolDone
    /\ rgExit' = IF RGFailures = {} /\ ~rgDrift THEN 0 ELSE 1
    /\ UNCHANGED <<rgNext, rgBusy, rgResults, rgDrift, rgWriter, rgRegistry, rgRest>>

\* The defaults are audited before the first probe.
RGAuditDefaults ==
    /\ rgNext = 1 /\ rgExit = -1 /\ ~rgDrift
    /\ rgDrift' = TRUE
    /\ UNCHANGED <<rgNext, rgBusy, rgResults, rgExit, rgWriter, rgRegistry, rgRest>>

-----------------------------------------------------------------------------
(* The breaking release. *)

RGRoot == "vellar-sdk"

ASSUME RGRootAssumption == RGRoot \notin RGWorkspaces

RGRange(v) == [op |-> "^", v |-> v, parts |-> 3]
RGKinds == {"patch", "minor", "major", "exact", "exact but lower", "typo"}

\* bumpVersion throws for an exact version that is not greater, and for a word
\* that is no bump.
RGBumpIsValid(kind) == kind \notin {"exact but lower", "typo"}

bumpVersion(v, kind) ==
    CASE kind = "major" -> <<v[1] + 1, 0, 0>>
      [] kind = "minor" -> <<v[1], v[2] + 1, 0>>
      [] kind = "patch" -> <<v[1], v[2], v[3] + 1>>
      [] kind = "exact" -> <<v[1] + 2, v[2], v[3]>>

\* dependencyDeclaration returns the first section that declares the SDK, and
\* planBreakingRelease keeps the workspaces whose range there excludes the next
\* version; what a later section says is not read.
RGAffected(next) ==
    {w \in RGWorkspaces : ~RCReleaseSatisfies(next, rgManifest[w].range)}

\* The plan throws unless the major is raised and every range read has a known form.
RGPlannable(next) ==
    /\ next[1] > rgManifest[RGRoot].version[1]
    /\ \A w \in RGWorkspaces : RCReleaseSupports(rgManifest[w].range)

RGRefuse == rgRelease' = [rgRelease EXCEPT !.step = "refused"]

\* main(): the plan, then the bumps, from --bump or from the prompt. An answer
\* at the prompt is validated before anything is written; a --bump is kept as it
\* is given.
RGPlan ==
    /\ rgRelease.step \in {"idle", "done", "failed", "refused"}
    /\ \E next \in {<<0, 2, 0>>, <<1, 0, 0>>, <<2, 0, 0>>} :
        IF RGPlannable(next)
        THEN \/ \E bumps \in [RGAffected(next) -> RGKinds] :
                rgRelease' = [step |-> "write", next |-> next, todo |-> RGAffected(next), bumps |-> bumps]
             \/ RGAffected(next) # {} /\ RGRefuse     \* an answer at the prompt is no bump
        ELSE RGRefuse
    /\ UNCHANGED <<rgManifest, rgGate, rgRegistry, rgRest>>

\* The forms a workspace may declare the SDK in: a caret, any version, a form the plan
\* does not know, and a caret in two sections.
RGDeclarations ==
    LET caret == RGRange(<<0, 1, 1>>)
    IN {[range |-> caret, others |-> {}], [range |-> [caret EXCEPT !.op = "*"], others |-> {}],
        [range |-> [caret EXCEPT !.op = "workspace:"], others |-> {}], [range |-> caret, others |-> {caret}]}

\* How the workspaces declare the SDK, before the releases.
RGEdit ==
    /\ rgRelease.step = "idle"
    /\ \E w \in RGWorkspaces, d \in RGDeclarations :
        rgManifest' = [rgManifest EXCEPT ![w] = [version |-> @.version, range |-> d.range, others |-> d.others]]
    /\ UNCHANGED <<rgRelease, rgGate, rgRegistry, rgRest>>

\* The root manifest is written first; the write may fail.
RGWriteRoot ==
    /\ rgRelease.step = "write"
    /\ \/ /\ rgManifest' = [rgManifest EXCEPT ![RGRoot].version = rgRelease.next]
          /\ rgRelease' = [rgRelease EXCEPT !.step = IF rgRelease.todo = {} THEN "done" ELSE "workspaces"]
       \/ rgRelease' = [rgRelease EXCEPT !.step = "failed"] /\ UNCHANGED rgManifest
    /\ UNCHANGED <<rgGate, rgRegistry, rgRest>>

\* Mutant: the range is left as it was.
RGWriteWorkspaceVersion ==
    /\ rgRelease.step = "workspaces"
    /\ \E w \in rgRelease.todo :
        IF RGBumpIsValid(rgRelease.bumps[w])
        THEN /\ rgManifest' = [rgManifest EXCEPT ![w].version = bumpVersion(@, rgRelease.bumps[w])]
             /\ rgRelease' = [rgRelease EXCEPT !.todo = @ \ {w},
                                !.step = IF rgRelease.todo = {w} THEN "done" ELSE @]
        ELSE rgRelease' = [rgRelease EXCEPT !.step = "failed"] /\ UNCHANGED rgManifest
    /\ UNCHANGED <<rgGate, rgRegistry, rgRest>>

\* Then each affected workspace: its version and the range the plan read, in one
\* file. A bump that is refused, or a write that fails, ends the run here, with
\* what was written before it.
RGWriteWorkspace ==
    /\ rgRelease.step = "workspaces"
    /\ \E w \in rgRelease.todo :
        \/ /\ RGBumpIsValid(rgRelease.bumps[w])
           /\ rgManifest' = [rgManifest EXCEPT ![w] =
                                [version |-> bumpVersion(@.version, rgRelease.bumps[w]),
                                 range |-> RGRange(rgRelease.next), others |-> @.others]]
           /\ rgRelease' = [rgRelease EXCEPT !.todo = @ \ {w},
                               !.step = IF rgRelease.todo = {w} THEN "done" ELSE @]
        \/ rgRelease' = [rgRelease EXCEPT !.step = "failed"] /\ UNCHANGED rgManifest
    /\ UNCHANGED <<rgGate, rgRegistry, rgRest>>

-----------------------------------------------------------------------------
(* The dist-tags. A version is [n, pre]. *)

distTagFor(version) == IF version.pre THEN "next" ELSE "latest"

publish(version) ==
    /\ rgPublished' = rgPublished \cup {version}
    /\ rgTags' = [t \in DOMAIN rgTags \cup {distTagFor(version)} |->
                    IF t = distTagFor(version) THEN version ELSE rgTags[t]]

RGPublish ==
    /\ \E version \in [n : 1 .. RGPublishes, pre : BOOLEAN] : publish(version)
    /\ UNCHANGED <<rgPromoted, rgGate, rgWriter, rgRest>>

\* promoteToLatest refuses a version that is not published.
RGPromote ==
    /\ \E version \in rgPublished :
        /\ rgTags' = [rgTags EXCEPT !["latest"] = version]
        /\ rgPromoted' = rgPromoted \cup {version}
    /\ UNCHANGED <<rgPublished, rgGate, rgWriter, rgRest>>

-----------------------------------------------------------------------------
(* The isolated install of workspace-release-safety, and the license audit. *)

\* Only the steps from the second on are inside the try.
RGInstallSteps == <<"directories", "manifests", "pack root", "pack target", "packed files", "install", "smoke">>

\* evaluateSmokeResult: unresolved modules first, then the exit code, then the
\* message the command is expected to stop with.
evaluateSmokeResult(result, plan) ==
    /\ ~result.unresolved
    /\ result.status = plan.expectedExitCode
    /\ plan.stderr => result.failedToStart

\* createSmokePlan: the CLI prints its help; the payer, its settings cleared,
\* must stop at its own configuration guard.
createSmokePlan(name) == [expectedExitCode |-> IF name = "payer" THEN 1 ELSE 0, stderr |-> name = "payer"]

\* The scratch directory is made, or mkdtemp throws.
RGInstallStart ==
    /\ rgInstall = 0
    /\ \E made, keep \in BOOLEAN :
        rgInstall' = (IF made THEN 1 ELSE -2) /\ rgScratch' = made /\ rgKeep' = keep
    /\ UNCHANGED <<rgAudit, rgGate, rgWriter, rgRegistry>>

\* The two directories in it are made before the try: a failure leaves it behind.
RGInstallDirectories ==
    /\ rgInstall = 1
    /\ rgInstall' \in {2, -2}
    /\ UNCHANGED <<rgScratch, rgKeep, rgAudit, rgGate, rgWriter, rgRegistry>>

RGInstallPasses(n) ==
    IF n < Len(RGInstallSteps) THEN BOOLEAN
    ELSE {evaluateSmokeResult([unresolved |-> u, status |-> s, failedToStart |-> f], createSmokePlan(name))
            : u \in BOOLEAN, s \in 0 .. 1, f \in BOOLEAN, name \in {"cli", "payer"}}

\* A step that fails throws; the finally removes the scratch directory either
\* way, unless it is to be kept. 8 is success and -1 failure.
RGInstallStep ==
    /\ rgInstall \in DOMAIN RGInstallSteps \ {1}
    /\ \E ok \in RGInstallPasses(rgInstall) :
        /\ rgInstall' = IF ok THEN rgInstall + 1 ELSE -1
        /\ rgScratch' = ((ok /\ rgInstall < Len(RGInstallSteps)) \/ rgKeep)
    /\ UNCHANGED <<rgKeep, rgAudit, rgGate, rgWriter, rgRegistry>>

\* The license of one package is read and judged.
RGAuditLicense ==
    /\ rgAudit = {}
    /\ \E t \in RCTrees : rgAudit' = {[tree |-> t, accepted |-> licenseAllowed(RCTreePrint(t))]}
    /\ UNCHANGED <<rgInstall, rgScratch, rgKeep, rgGate, rgWriter, rgRegistry>>

-----------------------------------------------------------------------------

RGInit ==
    /\ rgNext = 1 /\ rgBusy = [w \in RGWorkers |-> 0] /\ rgResults = <<>>
    /\ rgDrift = FALSE /\ rgExit = -1
    /\ rgManifest = [p \in {RGRoot} \cup RGWorkspaces |->
                       [version |-> <<0, 1, 1>>, range |-> RGRange(<<0, 1, 1>>), others |-> {}]]
    /\ rgRelease = [step |-> "idle", next |-> <<0, 0, 0>>, todo |-> {}, bumps |-> <<>>]
    /\ rgPublished = {[n |-> 1, pre |-> FALSE]}
    /\ rgTags = [t \in {"latest"} |-> [n |-> 1, pre |-> FALSE]]
    /\ rgPromoted = {}
    /\ rgInstall = 0 /\ rgScratch = FALSE /\ rgKeep = FALSE
    /\ rgAudit = {}

RGGateNext == RGAuditDefaults \/ RGReport \/ \E w \in RGWorkers : RGTake(w) \/ RGProbed(w)
RGWriterNext == RGPlan \/ RGEdit \/ RGWriteRoot \/ RGWriteWorkspace
RGRegistryNext == RGPublish \/ RGPromote
RGRestNext == RGInstallStart \/ RGInstallDirectories \/ RGInstallStep \/ RGAuditLicense
RGNextStep == RGGateNext \/ RGWriterNext \/ RGRegistryNext \/ RGRestNext

RGSpec == RGInit /\ [][RGNextStep]_rgVars

-----------------------------------------------------------------------------

\* The values the state takes.
RGTypeOK ==
    /\ rgNext \in 1 .. Len(RGChecks) + 1 /\ rgExit \in -1 .. 1
    /\ DOMAIN rgResults \subseteq 1 .. Len(RGChecks)
    /\ rgRelease.step \in {"idle", "write", "workspaces", "done", "failed", "refused"}
    /\ DOMAIN rgTags \subseteq {"latest", "next"}
    /\ rgInstall \in -2 .. 8 /\ rgScratch \in BOOLEAN /\ rgKeep \in BOOLEAN

\* The gate passes only when every operated URL was dialled, by one worker or
\* another, and answered well.
RGGateIsComplete ==
    rgExit = 0 => \A i \in 1 .. Len(RGChecks) : RGChecks[i].gating =>
                    i \in DOMAIN rgResults /\ rgResults[i]

\* A run never loses a workspace: whether it went through or stopped half-way at a
\* refused bump or a failed write, the ranges that exclude the release are those of the
\* workspaces it had still to write, none when it ended well; and a workspace is
\* written only after the root.
RGReleaseIsAccounted ==
    /\ rgRelease.step = "done" => RGAffected(rgManifest[RGRoot].version) = {}
    /\ rgRelease.step = "failed" =>
         /\ RGAffected(rgRelease.next) = rgRelease.todo
         /\ rgRelease.todo # DOMAIN rgRelease.bumps => rgManifest[RGRoot].version = rgRelease.next

\* latest only ever names a published version, and a pre-release only after
\* someone promoted it.
RGLatestIsDeliberate ==
    /\ rgTags["latest"] \in rgPublished
    /\ rgTags["latest"].pre => rgTags["latest"] \in rgPromoted

\* Once the install's steps have ended, well or not, its scratch directory is there
\* only when it was to be kept.
RGScratchIsRemoved == rgInstall \in {-1, 0, 8} /\ rgScratch => rgKeep

\* A release: the URL gate (doc-url-gate.mjs) passes only when every operated URL answered,
\* however its workers interleave; a breaking release (breaking-release.mjs) leaves behind
\* only what it had still to write, nothing when it finished; latest
\* (canary-dist-tag-rollout.ts) points to a prerelease only by promotion; and the steps of
\* the isolated install, once ended, leave its directory only when it is to be kept.
RGReleaseIsGated ==
    RGGateIsComplete /\ RGReleaseIsAccounted /\ RGLatestIsDeliberate /\ RGScratchIsRemoved

\* The comment on licenseAllowed, "True when every conjunct (and at least one
\* disjunct) is on the allowlist", for two parenthesised groups: stripping the
\* outer parentheses of "(MIT OR GPL) AND (GPL OR GPL)" splits it at the OR.
RGAcceptedLicensesAreAllowed == \A a \in rgAudit : a.accepted => RCTreeMeans(a.tree)

\* The README, "Write mode updates ... each excluded range": a workspace that declares the
\* SDK in two sections keeps the excluding range of the later one.
RGEveryRangeAdmitsTheSdk ==
    rgRelease.step = "done" =>
        \A w \in DOMAIN rgRelease.bumps : \A c \in rgManifest[w].others : RCReleaseSatisfies(rgRelease.next, c)

\* The README on --bump, "retaining the same validation" as the prompt: a
\* refused bump should be refused before anything is written.
RGRefusedReleaseWritesNothing ==
    rgRelease.step = "failed" => rgManifest[RGRoot].version # rgRelease.next
=============================================================================
