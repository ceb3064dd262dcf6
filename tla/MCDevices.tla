------------------------------ MODULE MCDevices ------------------------------
(***************************************************************************)
(* What a device is given and what it reports, for TLC: publishing for two *)
(* platforms, the branch a poll is resolved to, the patterns of branch     *)
(* surfing, the attributes of devices, the registry of their updates and   *)
(* the telemetry that feeds it.  The parts share nothing, so a behaviour   *)
(* runs one of them, chosen at the start, and the others rest.             *)
(***************************************************************************)
EXTENDS MCPublishing, DeviceResolution, BranchPattern, IdentityAttributes,
        DeviceRegistry, TelemetryBatch

VARIABLE part

allVars == <<part, vars, resolutionVars, patternVars, identityVars, batchVars, registryVars,
             sent>>

ResolutionRests ==
    /\ mapping = 0 /\ surfing = 0 /\ published = 0 /\ envelopes = 0 /\ phone = 0
    /\ refusals = 0

PatternRests ==
    /\ glob = 0 /\ branchName = 0

IdentityRests ==
    /\ schema = 0 /\ metadata = 0 /\ stats = 0 /\ rowLock = 0 /\ statLock = 0
    /\ mutation = 0 /\ removals = 0

BatchRests ==
    /\ batch = 0

RegistryRests ==
    /\ time = 0 /\ device = 0 /\ failures = 0 /\ runtime = 0 /\ writer = 0
    /\ reports = 0 /\ passed = 0

TelemetryRests ==
    /\ sent = 0

MCInit ==
    /\ part \in {"publishing", "resolution", "pattern", "identity", "batch", "registry", "telemetry"}
    /\ Init
    /\ IF part = "resolution" THEN ResolutionInit ELSE ResolutionRests
    /\ IF part = "pattern" THEN PatternInit ELSE PatternRests
    /\ IF part = "identity" THEN IdentityInit ELSE IdentityRests
    /\ IF part = "batch" THEN BatchInit ELSE BatchRests
    /\ IF part = "registry" THEN RegistryInit ELSE RegistryRests
    /\ IF part = "telemetry" THEN SentInit ELSE TelemetryRests

MCNext ==
    \/ /\ part = "publishing" /\ Next
       /\ UNCHANGED <<part, resolutionVars, patternVars, identityVars, batchVars,
                      registryVars, sent>>
    \/ /\ part = "resolution" /\ ResolutionNext
       /\ UNCHANGED <<part, vars, patternVars, identityVars, batchVars, registryVars, sent>>
    \/ /\ part = "pattern" /\ PatternNext
       /\ UNCHANGED <<part, vars, resolutionVars, identityVars, batchVars, registryVars, sent>>
    \/ /\ part = "identity" /\ IdentityNext
       /\ UNCHANGED <<part, vars, resolutionVars, patternVars, batchVars, registryVars, sent>>
    \/ /\ part = "batch" /\ BatchNext
       /\ UNCHANGED <<part, vars, resolutionVars, patternVars, identityVars, registryVars,
                      sent>>
    \/ /\ part = "registry" /\ RegistryNext
       /\ UNCHANGED <<part, vars, resolutionVars, patternVars, identityVars, batchVars, sent>>
    \/ /\ part = "telemetry" /\ SentNext
       /\ UNCHANGED <<part, vars, resolutionVars, patternVars, identityVars, batchVars,
                      registryVars>>

MCSpec == MCInit /\ [][MCNext]_allVars

\* View of MCPublishing, and the other parts as they are.
WholeView == <<part, View, resolutionVars, patternVars, identityVars, batchVars,
               registryVars, sent>>

-----------------------------------------------------------------------------
\* DeviceResolution and BranchPattern: a device that crashed on a surfed branch is not
\* sent back to it, a branch offered to it is honoured when it asks, its assets come
\* from the branch of its manifest, and the patterns of branch surfing match the names
\* they are defined to match.
ResolutionSound ==
    /\ part = "resolution" => /\ ResolutionTypeOK /\ CrashedSurfRefused
                              /\ OfferedBranchesHonoured /\ AssetsMirrorManifest
    /\ part = "pattern" => MatchesByDefinition

\* IdentityAttributes: the counts of values follow the devices, no two
\* mutations wait for each other, and coalescing a batch changes nothing (Service.Apply,
\* CoalesceRequests).
IdentitySound ==
    /\ part = "identity" => IdentityTypeOK /\ CountsMatchDevices /\ NoStatDeadlock
    /\ part = "batch" => CoalescingIsTransparent

\* DeviceRegistry: the registry follows the newest report, whatever order reports arrive
\* in.
RegistrySound ==
    RegistryTypeOK /\ RuntimeHealthFollowsNewest /\ CheckInsDoNotFlap /\ ResolvedAfterFirstReport

\* TelemetryBatch: what is dropped, collapsed or cut from a batch makes no difference to
\* the device.
BatchesSound ==
    NewestRecordsKept /\ CompactionIsTransparent /\ NewestOriginsResolved /\ CheckInsFollowNewest

\* Both; and a check-in delivered late never takes the device back
\* (TouchDeviceIdentity, RegisterDevice).
TelemetrySound ==
    /\ []((part = "registry" => RegistrySound) /\ (part = "telemetry" => BatchesSound))
    /\ [][part = "registry" => ObservationAdvances]_registryVars
=============================================================================
