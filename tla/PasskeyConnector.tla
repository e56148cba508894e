-------------------------- MODULE PasskeyConnector --------------------------
(***************************************************************************)
(* The passkey connector (src/src/passkeykit-connector.ts): createWallet,  *)
(* and connectWallet with session-key rotation, which mints a fresh key    *)
(* and then revokes the one it minted before.  Calls overlap, every await  *)
(* may fail, and a failed call may have reached the chain all the same.    *)
(*                                                                         *)
(* PasskeyKit, the backend and the wallet contract are external: the kit   *)
(* is attached to one wallet at a time and admin calls (mint, revoke) act  *)
(* on the wallet it is attached to when they are made.                     *)
(***************************************************************************)
EXTENDS Naturals, FiniteSets

CONSTANTS PCCalls,       \* callers; each may call again when its call returned
          PCWallets,     \* smart accounts that exist or can be created
          PCExisting,    \* accounts the backend knows at the start
          PCNone,        \* undefined
          PCMaxKeys,     \* bound: session keys minted
          PCMaxOverlap   \* bound: connector calls in progress at one time

ASSUME PCWalletsAssumption == PCExisting \subseteq PCWallets /\ PCNone \notin PCWallets

ASSUME PCBoundsAssumption == PCMaxKeys \in Nat /\ PCMaxOverlap \in Nat

VARIABLES
    pcPc,        \* where each call is suspended
    pcContract,  \* the contractId the call is about
    pcTarget,    \* the wallet the call's pending mint or revoke acts on
    pcPrevious,  \* rotateSessionKey's previousPublicKey; 0 for undefined
    pcFresh,     \* rotateSessionKey's minted.publicKey; 0 for unassigned
    pcActive,    \* activeSessionKeyPublicKey; 0 for undefined
    pcKitWallet, \* the wallet the kit is attached to
    pcMinted,    \* how many keys were minted; keys are 1..minted
    pcOwner,     \* wallet each key was minted on
    pcValid,     \* keys that are signers on chain
    pcDeployed,  \* wallets on chain and known to the backend
    pcSessions,  \* history: wallets a session was returned for
    pcRotated,   \* history: wallet of the session returned last, if its own
               \* connect minted a key; none before, and after a page load
    pcSurvivors, \* history: keys of a mint that failed late, or a page load forgot
    pcUnrevoked, \* history: keys whose revoke failed
    pcLapsed,    \* history: those that were so at the last rotation that
               \* succeeded in full
    pcOverlapped \* history: two calls were in progress at one time

pcVars == <<pcPc, pcContract, pcTarget, pcPrevious, pcFresh, pcActive, pcKitWallet, pcMinted, pcOwner,
          pcValid, pcDeployed, pcSessions, pcRotated, pcSurvivors, pcUnrevoked, pcLapsed, pcOverlapped>>

PCKeys == 1..PCMaxKeys

pcRotationVars == <<pcTarget, pcPrevious, pcFresh, pcActive, pcMinted, pcOwner, pcValid, pcSurvivors,
                  pcUnrevoked, pcLapsed>>

PCInit == /\ pcPc = [c \in PCCalls |-> "idle"]
          /\ pcContract = [c \in PCCalls |-> PCNone]
          /\ pcTarget = [c \in PCCalls |-> PCNone]
          /\ pcPrevious = [c \in PCCalls |-> 0]
          /\ pcFresh = [c \in PCCalls |-> 0]
          /\ pcActive = 0
          /\ pcKitWallet = PCNone
          /\ pcMinted = 0
          /\ pcOwner = [k \in PCKeys |-> PCNone]
          /\ pcValid = {}
          /\ pcDeployed = PCExisting
          /\ pcSessions = {}
          /\ pcRotated = PCNone
          /\ pcSurvivors = {}
          /\ pcUnrevoked = {}
          /\ pcLapsed = {}
          /\ pcOverlapped = FALSE

PCActive == {c \in PCCalls : pcPc[c] # "idle"}

PCBegin(c, where) == /\ pcPc[c] = "idle" /\ Cardinality(PCActive) < PCMaxOverlap
                     /\ pcPc' = [pcPc EXCEPT ![c] = where]
                     /\ pcOverlapped' = (pcOverlapped \/ PCActive # {})
                     /\ UNCHANGED <<pcContract, pcKitWallet, pcDeployed, pcSessions, pcRotated>>
                     /\ UNCHANGED pcRotationVars

PCReturn(c) == pcPc' = [pcPc EXCEPT ![c] = "idle"]

\* createWallet(): the WebAuthn registration starts.
PCCreateWallet(c) == PCBegin(c, "registering")

\* Mutant: the session is reported as soon as the passkey is registered.
PCRegisterReportsEarly(c) ==
    /\ pcPc[c] = "registering"
    /\ \E w \in PCWallets \ pcDeployed :
        /\ pcKitWallet' = w /\ pcContract' = [pcContract EXCEPT ![c] = w]
        /\ pcSessions' = pcSessions \cup {w}
        /\ pcPc' = [pcPc EXCEPT ![c] = "submitting"]
    /\ UNCHANGED <<pcDeployed, pcRotated>> /\ UNCHANGED <<pcRotationVars, pcOverlapped>>

\* kit.createWallet rejects, or yields a new account to submit.
PCRegisterDone(c) ==
    /\ pcPc[c] = "registering"
    /\ \/ PCReturn(c) /\ UNCHANGED <<pcKitWallet, pcContract>>
       \/ \E w \in PCWallets \ pcDeployed :
            /\ pcKitWallet' = w
            /\ pcContract' = [pcContract EXCEPT ![c] = w]
            /\ pcPc' = [pcPc EXCEPT ![c] = "submitting"]
    /\ UNCHANGED <<pcDeployed, pcSessions, pcRotated>> /\ UNCHANGED <<pcRotationVars, pcOverlapped>>

\* submitWalletCreation: the session is returned only when it resolves; when it
\* rejects, the deployment may have gone through all the same.
PCSubmitDone(c) ==
    /\ pcPc[c] = "submitting"
    /\ PCReturn(c)
    /\ \/ /\ pcDeployed' = pcDeployed \cup {pcContract[c]}
          /\ pcSessions' = pcSessions \cup {pcContract[c]} /\ pcRotated' = PCNone
       \/ pcDeployed' = pcDeployed \cup {pcContract[c]} /\ UNCHANGED <<pcSessions, pcRotated>>
       \/ UNCHANGED <<pcDeployed, pcSessions, pcRotated>>
    /\ UNCHANGED <<pcContract, pcKitWallet>> /\ UNCHANGED <<pcRotationVars, pcOverlapped>>

\* connectWallet(): the WebAuthn ceremony starts.
PCConnectWallet(c) == PCBegin(c, "ceremony")

\* kit.connectWallet rejects (no lookup result included), or attaches the kit;
\* then rotateSessionKey notes the key to revoke and calls mint().
PCCeremonyDone(c) ==
    /\ pcPc[c] = "ceremony"
    /\ \/ PCReturn(c) /\ UNCHANGED <<pcKitWallet, pcContract, pcTarget, pcPrevious>>
       \/ \E w \in pcDeployed :
            /\ pcKitWallet' = w
            /\ pcContract' = [pcContract EXCEPT ![c] = w]
            /\ pcTarget' = [pcTarget EXCEPT ![c] = w]
            /\ pcPrevious' = [pcPrevious EXCEPT ![c] = pcActive]
            /\ pcPc' = [pcPc EXCEPT ![c] = "minting"]
    /\ UNCHANGED <<pcFresh, pcActive, pcMinted, pcOwner, pcValid, pcDeployed, pcSessions, pcRotated,
                   pcSurvivors, pcUnrevoked, pcLapsed, pcOverlapped>>

\* The session is returned whatever became of the rotation: with a key of its own
\* minted, or (rotated is none) without.
PCConnected(c, rotated) ==
    PCReturn(c) /\ pcSessions' = pcSessions \cup {pcContract[c]} /\ pcRotated' = rotated

\* A new signer lands on the call's wallet.
PCMintOnChain(c) == /\ pcMinted < PCMaxKeys
                    /\ pcMinted' = pcMinted + 1
                    /\ pcOwner' = [pcOwner EXCEPT ![pcMinted + 1] = pcTarget[c]]
                    /\ pcValid' = pcValid \cup {pcMinted + 1}

\* mint() resolves: the key becomes the active one and, when there was one
\* before, revoke() is called on the wallet the kit is attached to by now.
PCMintResolved(c) ==
    /\ PCMintOnChain(c)
    /\ pcActive' = pcMinted + 1
    /\ pcFresh' = [pcFresh EXCEPT ![c] = pcMinted + 1]
    /\ IF pcPrevious[c] = 0
       THEN PCConnected(c, pcContract[c]) /\ UNCHANGED pcTarget
       ELSE /\ pcPc' = [pcPc EXCEPT ![c] = "revoking"]
            /\ pcTarget' = [pcTarget EXCEPT ![c] = pcKitWallet]
            /\ UNCHANGED <<pcSessions, pcRotated>>
    /\ UNCHANGED pcSurvivors

\* mint() rejects: logged, the old key stays active; the new one may be on chain.
PCMintRejected(c) ==
    /\ \/ PCMintOnChain(c) /\ pcSurvivors' = pcSurvivors \cup {pcMinted + 1}
       \/ UNCHANGED <<pcMinted, pcOwner, pcValid, pcSurvivors>>
    /\ PCConnected(c, PCNone)
    /\ UNCHANGED <<pcActive, pcFresh, pcTarget>>

PCMintDone(c) ==
    /\ pcPc[c] = "minting"
    /\ PCMintResolved(c) \/ PCMintRejected(c)
    /\ UNCHANGED <<pcContract, pcPrevious, pcKitWallet, pcDeployed, pcUnrevoked, pcLapsed,
                   pcOverlapped>>

\* Mutant: the key to revoke is read after the mint.
PCRevokedKeyReadLate(c) == pcActive

\* The key revoke() is called with.
PCRevokedKey(c) == pcPrevious[c]

\* A wallet removes only a key that is a signer of its own.
PCRevocable(c) == PCRevokedKey(c) \in pcValid /\ pcOwner[PCRevokedKey(c)] = pcTarget[c]

\* revoke() resolves, or rejects (logged) with or without effect on chain.
PCRevokeDone(c) ==
    /\ pcPc[c] = "revoking"
    /\ PCConnected(c, pcContract[c])
    /\ \/ /\ PCRevocable(c)
          /\ pcValid' = pcValid \ {PCRevokedKey(c)}
          /\ pcLapsed' = pcUnrevoked
          /\ UNCHANGED pcUnrevoked
       \/ /\ pcValid' \in {pcValid} \cup (IF PCRevocable(c) THEN {pcValid \ {PCRevokedKey(c)}} ELSE {})
          /\ pcUnrevoked' = pcUnrevoked \cup {PCRevokedKey(c)}
          /\ UNCHANGED pcLapsed
    /\ UNCHANGED <<pcContract, pcTarget, pcPrevious, pcFresh, pcActive, pcKitWallet, pcMinted, pcOwner,
                   pcDeployed, pcSurvivors, pcOverlapped>>

\* A fresh page load: a new connector instance with nothing to revoke against.
PCPageLoad ==
    /\ pcPc' = [c \in PCCalls |-> "idle"]
    /\ pcActive' = 0
    /\ pcKitWallet' = PCNone
    /\ pcRotated' = PCNone
    /\ pcSurvivors' = pcSurvivors \cup pcValid
    /\ UNCHANGED <<pcContract, pcTarget, pcPrevious, pcFresh, pcMinted, pcOwner, pcValid, pcDeployed, pcSessions,
                   pcUnrevoked, pcLapsed, pcOverlapped>>

PCNext == \/ \E c \in PCCalls : \/ PCCreateWallet(c) \/ PCRegisterDone(c) \/ PCSubmitDone(c)
                              \/ PCConnectWallet(c) \/ PCCeremonyDone(c) \/ PCMintDone(c)
                              \/ PCRevokeDone(c)
          \/ PCPageLoad

PCSpec == PCInit /\ [][PCNext]_pcVars

-----------------------------------------------------------------------------
(* Properties. *)

\* Every variable stays in its domain.
PCTypeOK ==
    /\ pcPc \in [PCCalls -> {"idle", "registering", "submitting", "ceremony", "minting",
                         "revoking"}]
    /\ pcContract \in [PCCalls -> PCWallets \cup {PCNone}]
    /\ pcTarget \in [PCCalls -> PCWallets \cup {PCNone}]
    /\ pcPrevious \in [PCCalls -> 0..PCMaxKeys]
    /\ pcFresh \in [PCCalls -> 0..PCMaxKeys]
    /\ pcActive \in 0..pcMinted
    /\ pcKitWallet \in PCWallets \cup {PCNone}
    /\ pcMinted \in 0..PCMaxKeys
    /\ pcOwner \in [PCKeys -> PCWallets \cup {PCNone}]
    /\ pcValid \subseteq 1..pcMinted
    /\ pcDeployed \subseteq PCWallets /\ pcSessions \subseteq PCWallets
    /\ pcRotated \in PCWallets \cup {PCNone}
    /\ pcSurvivors \subseteq 1..pcMinted
    /\ pcUnrevoked \subseteq 1..pcMinted /\ pcLapsed \subseteq pcUnrevoked
    /\ pcOverlapped \in BOOLEAN

\* Rotation never revokes the key it is using: whatever overlaps and whatever
\* fails, the active session key is a signer on chain ("mint-then-revoke so a
\* revoke failure never leaves the wallet with NO valid session key").
PCActiveKeyIsValid == pcActive # 0 => pcActive \in pcValid

\* A session is reported only for an account that is on chain, also when the
\* backend failed or its answer was lost.
PCReportedWalletsAreDeployed == pcSessions \subseteq pcDeployed

\* Connects made one at a time leave no key behind unexplained: a key still on
\* chain is the active one, is being revoked right now, or its own mint or revoke
\* failed or a page load forgot it.
PCStaleKeysAreExplained ==
    ~pcOverlapped => \A k \in pcValid :
        \/ k = pcActive
        \/ k \in pcSurvivors \cup pcUnrevoked
        \/ \E c \in PCCalls : pcPc[c] = "revoking" /\ pcPrevious[c] = k

\* passkeykit-connector.ts: the old key "simply stays valid until the next
\* successful rotation": a full rotation later it is no longer a signer.
PCFailedRevokeIsMadeUp == \A k \in pcLapsed : k \notin pcValid

\* Keys this connector knows it minted on the wallet of c's call, before c's own.
PCMintedBefore(c) ==
    {k \in 1..(pcFresh[c] - 1) : pcOwner[k] = pcContract[c] /\ k \notin pcSurvivors}

\* README.md: a connect "revokes whichever key rotation last minted for that
\* wallet".
PCRevokesLastMinted ==
    \A c \in PCCalls : pcPc[c] = "revoking" =>
        /\ pcPrevious[c] \in PCMintedBefore(c)
        /\ \A k \in PCMintedBefore(c) : k <= pcPrevious[c]

\* Connects made one at a time: once a connect whose own mint resolved returned
\* its session, the active key was minted on that session's wallet (and stays so
\* until the next mint resolves).  A connect whose mint was rejected returns a
\* session too, beside the key of the wallet before: rotateSessionKey only logs it.
PCActiveKeyIsTheSessions ==
    ~pcOverlapped /\ pcRotated # PCNone /\ (\A c \in PCCalls : pcPc[c] # "revoking") =>
        pcActive # 0 /\ pcOwner[pcActive] = pcRotated

\* What connect() hands out can be used: every wallet a session was returned for
\* is on chain, the active session key is a signer on chain, and it is a signer
\* of the returned session's own wallet when that connect minted it.
PCSessionsAreUsable ==
    PCReportedWalletsAreDeployed /\ PCActiveKeyIsValid /\ PCActiveKeyIsTheSessions
=============================================================================
