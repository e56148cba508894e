---------------------------- MODULE WalletClient ----------------------------
(***************************************************************************)
(* The public wallet handle (src/src/client.ts) and the clients it wires   *)
(* together: payments, policies, agent keys and the x402 facade.  The      *)
(* handle keeps a session; the passkey kit, shared by all of them, keeps a *)
(* wallet of its own, and moves to a new one before create() or connect()  *)
(* has stored the session.  Calls overlap: one action is the code between  *)
(* two awaits of one call.                                                 *)
(*                                                                         *)
(* The kit, the chain, the gateway and the host's runtimes are external.   *)
(* A request is answered, or fails before it had any effect (an HTTP       *)
(* error, an open circuit breaker, a refusal), or has its effect and loses *)
(* its answer.                                                             *)
(***************************************************************************)
EXTENDS Integers, Sequences, FiniteSets, SequencesExt

CONSTANTS WCCalls,      \* calls on the handle
          WCAccounts,   \* wallet contract accounts
          WCDeployed,   \* the accounts deployed before the handle is created
          WCNone,
          WCPayments,   \* pay() inputs
          WCMints,      \* agents.mint() inputs
          WCSigner,     \* address of the configured x402 signer, WCNone without x402
          WCNow         \* the present, in seconds

ASSUME WCAccountsAssumption == WCDeployed \subseteq WCAccounts /\ WCNone \notin WCAccounts

VARIABLES
    wcSession,    \* the handle's session: its accountId, or WCNone
    wcKit,        \* kit.wallet
    wcOnChain,    \* deployed accounts
    wcPc,         \* where each call is suspended
    wcWork,       \* what each call carries across its awaits
    wcPaid,       \* payments that settled, with the call that made each
    wcAttached,   \* policy instances attached: [call, bound, wallet]
    wcRecorded,   \* calls whose attach the gateway recorded
    wcAgents,     \* agent keys on chain: [call, asked, wallet]
    wcAsked,      \* history: the session when each call began
    wcOverlapped, \* history: calls that overlapped a create() or connect()
    wcStranded    \* history: a create() failed after the kit had moved, or two
                  \* create() or connect() calls overlapped

wcVars == <<wcSession, wcKit, wcOnChain, wcPc, wcWork, wcPaid, wcAttached, wcRecorded,
            wcAgents, wcAsked, wcOverlapped, wcStranded>>

wcHist == <<wcAsked, wcOverlapped, wcStranded>>

wcChain == <<wcOnChain, wcPaid, wcAttached, wcRecorded, wcAgents>>

WCInit == /\ wcSession = WCNone /\ wcKit = WCNone /\ wcOnChain = WCDeployed
          /\ wcPc = [c \in WCCalls |-> "idle"]
          /\ wcWork = [c \in WCCalls |-> WCNone]
          /\ wcPaid = {} /\ wcAttached = {} /\ wcRecorded = {} /\ wcAgents = {}
          /\ wcAsked = [c \in WCCalls |-> WCNone] /\ wcOverlapped = {} /\ wcStranded = FALSE

Replies == {"ok", "failed", "lost"}

WCEnded == {"idle", "returned", "threw"}

WCSwitching == {c \in WCCalls : wcPc[c] \in {"ceremony", "creating", "connecting", "rotating"}}

WCRunning == {c \in WCCalls : wcPc[c] \notin WCEnded}

WCMove(c, where) == wcPc' = [wcPc EXCEPT ![c] = where]

\* A call starts, and is suspended there.
WCBegin(c, where, work) ==
    /\ wcPc[c] = "idle"
    /\ WCMove(c, where)
    /\ wcWork' = [wcWork EXCEPT ![c] = work]
    /\ wcAsked' = [wcAsked EXCEPT ![c] = wcSession]
    /\ wcOverlapped' = IF where \in {"ceremony", "connecting"}
                       THEN wcOverlapped \cup WCRunning \cup {c}
                       ELSE IF WCSwitching # {} THEN wcOverlapped \cup {c} ELSE wcOverlapped
    /\ wcStranded' = \/ wcStranded
                     \/ where \in {"ceremony", "connecting"} /\ WCSwitching # {}
    /\ UNCHANGED <<wcSession, wcKit, wcChain>>

\* A call is refused before it does anything.
WCRefuse(c) == WCBegin(c, "threw", WCNone)

-----------------------------------------------------------------------------
(* create() and connect(). *)

\* createWallet runs its ceremony in a browser only.
WCCreate(c) == \E browser \in BOOLEAN :
    IF browser THEN WCBegin(c, "ceremony", WCNone) ELSE WCRefuse(c)

\* kit.createWallet answers: the kit is on the new wallet, which is not deployed yet.
WCCeremony(c) ==
    /\ wcPc[c] = "ceremony"
    /\ \/ \E a \in WCAccounts \ wcOnChain :
            /\ wcKit' = a /\ wcWork' = [wcWork EXCEPT ![c] = a]
            /\ WCMove(c, "creating")
       \/ WCMove(c, "threw") /\ UNCHANGED <<wcKit, wcWork>>
    /\ UNCHANGED <<wcSession, wcChain, wcHist>>

\* Mutant: the session is stored whether or not the deployment was accepted.
WCCreatedEagerly(c) ==
    /\ wcPc[c] = "creating"
    /\ wcSession' = wcWork[c] /\ WCMove(c, "returned")
    /\ \E r \in Replies :
        wcOnChain' = IF r = "failed" THEN wcOnChain ELSE wcOnChain \cup {wcWork[c]}
    /\ UNCHANGED <<wcKit, wcWork, wcPaid, wcAttached, wcRecorded, wcAgents, wcHist>>

\* submitWalletCreation answers; only then is there a session.
WCCreated(c) ==
    /\ wcPc[c] = "creating"
    /\ \E r \in Replies :
        /\ wcOnChain' = IF r = "failed" THEN wcOnChain ELSE wcOnChain \cup {wcWork[c]}
        /\ wcSession' = IF r = "ok" THEN wcWork[c] ELSE wcSession
        /\ wcStranded' = (wcStranded \/ r # "ok")
        /\ WCMove(c, IF r = "ok" THEN "returned" ELSE "threw")
    /\ UNCHANGED <<wcKit, wcWork, wcPaid, wcAttached, wcRecorded, wcAgents, wcAsked, wcOverlapped>>

WCConnect(c) == \E browser \in BOOLEAN :
    IF browser THEN WCBegin(c, "connecting", WCNone) ELSE WCRefuse(c)

\* kit.connectWallet, with lookupContractId (a 404 is no wallet) inside it.
WCLookup(c) ==
    /\ wcPc[c] = "connecting"
    /\ \/ \E a \in wcOnChain :
            /\ wcKit' = a /\ wcWork' = [wcWork EXCEPT ![c] = a]
            /\ WCMove(c, "rotating")
       \/ WCMove(c, "threw") /\ UNCHANGED <<wcKit, wcWork>>
    /\ UNCHANGED <<wcSession, wcChain, wcHist>>

\* The session key has been rotated (or that failed, which is only logged).
WCConnected(c) ==
    /\ wcPc[c] = "rotating"
    /\ wcSession' = wcWork[c]
    /\ WCMove(c, "returned")
    /\ UNCHANGED <<wcKit, wcWork, wcChain, wcHist>>

-----------------------------------------------------------------------------
(* pay(). *)

\* preparePayment's checks, in the state in which pay() is called.
WCPayable(p) == p.valid /\ p.to # wcSession /\ p.amount > 0

WCPay(c) == \E p \in WCPayments :
    IF wcSession # WCNone /\ WCPayable(p)
    THEN WCBegin(c, "simulating", [from |-> wcSession, to |-> p.to, amount |-> p.amount])
    ELSE WCRefuse(c)

\* transfer(): built and simulated, or the simulation fails before any prompt.
WCSimulated(c) ==
    /\ wcPc[c] = "simulating"
    /\ \E ok \in BOOLEAN : WCMove(c, IF ok THEN "signing" ELSE "threw")
    /\ UNCHANGED <<wcSession, wcKit, wcChain, wcWork, wcHist>>

\* kit.sign: the person approves and the kit signs for its own wallet.
WCSigned(c) ==
    /\ wcPc[c] = "signing"
    /\ \/ /\ wcWork' = [wcWork EXCEPT ![c] =
                           [from |-> @.from, to |-> @.to, amount |-> @.amount, signedBy |-> wcKit]]
          /\ WCMove(c, "submitting")
       \/ WCMove(c, "threw") /\ UNCHANGED wcWork
    /\ UNCHANGED <<wcSession, wcKit, wcChain, wcHist>>

\* submitTransaction: the chain moves funds only on the payer's own signature.
WCSubmitted(c) ==
    /\ wcPc[c] = "submitting"
    /\ LET w == wcWork[c]
       IN  \E r \in IF w.signedBy = w.from THEN Replies ELSE {"failed"} :
            /\ wcPaid' = IF r = "failed" THEN wcPaid
                         ELSE wcPaid \cup {[call |-> c, from |-> w.from, to |-> w.to]}
            /\ WCMove(c, IF r = "ok" THEN "returned" ELSE "threw")
    /\ UNCHANGED <<wcSession, wcKit, wcOnChain, wcAttached, wcRecorded, wcAgents, wcWork,
                   wcHist>>

-----------------------------------------------------------------------------
(* policies. *)

\* listTemplates, listPolicies, validate, generate, simulate: reads.  An invalid
\* filter date, or simulate without a session, is refused before the request.
WCPolicyRead(c) ==
    \/ WCRefuse(c)
    \/ \E wallet \in {WCNone, wcSession} : WCBegin(c, "reading", wallet)

\* req: the body, or PolicyApiError with the status (0 when the network failed).
WCPolicyAnswer(c) ==
    /\ wcPc[c] = "reading"
    /\ \E ok \in BOOLEAN : WCMove(c, IF ok THEN "returned" ELSE "threw")
    /\ UNCHANGED <<wcSession, wcKit, wcChain, wcWork, wcHist>>

\* policies.deploy: needs apiUrl, a session and the attach runtime.
WCDeploy(c) == \E configured \in BOOLEAN :
    IF wcSession # WCNone /\ configured THEN WCBegin(c, "deploying", wcSession) ELSE WCRefuse(c)

\* deployInstance: an instance bound to the account read at the call.
WCInstance(c) ==
    /\ wcPc[c] = "deploying"
    /\ \E r \in Replies : WCMove(c, IF r = "ok" THEN "resumingPolicy" ELSE "threw")
    /\ UNCHANGED <<wcSession, wcKit, wcChain, wcWork, wcHist>>

\* resume(keyId): resumeKitConnection connects a kit that has no wallet.
WCResume(c) ==
    /\ wcPc[c] \in {"resumingPolicy", "resumingMint", "resumingRevoke"}
    /\ wcKit' = IF wcKit = WCNone THEN wcWork[c] ELSE wcKit
    /\ WCMove(c, CASE wcPc[c] = "resumingPolicy" -> "attaching"
                   [] wcPc[c] = "resumingMint" -> "minting"
                   [] OTHER -> "revoking")
    /\ UNCHANGED <<wcSession, wcChain, wcWork, wcHist>>

\* attachPolicy: kit.addPolicy, one prompt, submitted for the kit's wallet.
WCAttach(c) ==
    /\ wcPc[c] = "attaching"
    /\ \E r \in Replies :
        /\ wcAttached' = IF r = "failed" THEN wcAttached
             ELSE wcAttached \cup {[call |-> c, bound |-> wcAsked[c], wallet |-> wcKit]}
        /\ WCMove(c, IF r = "ok" THEN "recording" ELSE "threw")
    /\ UNCHANGED <<wcSession, wcKit, wcOnChain, wcPaid, wcRecorded, wcAgents, wcWork,
                   wcHist>>

\* recordDeployment.
WCRecord(c) ==
    /\ wcPc[c] = "recording"
    /\ \E r \in Replies :
        /\ wcRecorded' = IF r = "failed" THEN wcRecorded ELSE wcRecorded \cup {c}
        /\ WCMove(c, IF r = "ok" THEN "returned" ELSE "threw")
    /\ UNCHANGED <<wcSession, wcKit, wcOnChain, wcPaid, wcAttached, wcAgents, wcWork,
                   wcHist>>

-----------------------------------------------------------------------------
(* agents. *)

\* toExpirationSeconds: a Date in milliseconds or seconds, floored.
WCExpirySeconds(e) == IF e.unit = "date" THEN e.at \div 1000 ELSE e.at

\* validateMint, and an expiry in the future.  A grant is [token, policies], with
\* FALSE for an id that is not a contract's.
WCMintable(m) ==
    /\ m.publicKey
    /\ m.grants # <<>>
    /\ \A i \in DOMAIN m.grants : /\ m.grants[i].token
                                  /\ m.grants[i].policies # <<>>
                                  /\ FALSE \notin Range(m.grants[i].policies)
    /\ m.expires # WCNone => WCExpirySeconds(m.expires) > WCNow

WCMint(c) == \E m \in WCMints, configured \in BOOLEAN :
    IF configured /\ wcSession # WCNone /\ WCMintable(m)
    THEN WCBegin(c, "resumingMint", wcSession)
    ELSE WCRefuse(c)

WCRevoke(c) == \E configured \in BOOLEAN, validKey \in BOOLEAN :
    IF configured /\ wcSession # WCNone /\ validKey
    THEN WCBegin(c, "resumingRevoke", wcSession)
    ELSE WCRefuse(c)

\* addAgentKey: kit.addEd25519 for the kit's wallet.
WCMinted(c) ==
    /\ wcPc[c] = "minting"
    /\ \E r \in Replies :
        /\ wcAgents' = IF r = "failed" THEN wcAgents
             ELSE wcAgents \cup {[call |-> c, asked |-> wcAsked[c], wallet |-> wcKit]}
        /\ WCMove(c, IF r = "ok" THEN "returned" ELSE "threw")
    /\ UNCHANGED <<wcSession, wcKit, wcOnChain, wcPaid, wcAttached, wcRecorded, wcWork,
                   wcHist>>

\* removeAgentKey: whatever keys the kit's wallet holds under that name.
WCRevoked(c) ==
    /\ wcPc[c] = "revoking"
    /\ \E r \in Replies :
        /\ wcAgents' = IF r = "failed" THEN wcAgents ELSE {a \in wcAgents : a.wallet # wcKit}
        /\ WCMove(c, IF r = "ok" THEN "returned" ELSE "threw")
    /\ UNCHANGED <<wcSession, wcKit, wcOnChain, wcPaid, wcAttached, wcRecorded, wcWork,
                   wcHist>>

-----------------------------------------------------------------------------
(* x402. *)

\* The facade's client(): x402 configured, and its signer is the session's wallet.
WCX402(c) ==
    IF WCSigner # WCNone /\ wcSession \in {WCNone, WCSigner}
    THEN WCBegin(c, "paying402", wcSession)
    ELSE WCRefuse(c)

\* The x402 client pays from the signer's wallet, or fails.
WCX402Done(c) ==
    /\ wcPc[c] = "paying402"
    /\ \E paid \in BOOLEAN :
        /\ wcPaid' = IF paid THEN wcPaid \cup {[call |-> c, from |-> WCSigner, to |-> WCNone]}
                     ELSE wcPaid
        /\ WCMove(c, IF paid THEN "returned" ELSE "threw")
    /\ UNCHANGED <<wcSession, wcKit, wcOnChain, wcAttached, wcRecorded, wcAgents, wcWork,
                   wcHist>>

WCNext == \E c \in WCCalls :
    \/ WCCreate(c) \/ WCCeremony(c) \/ WCCreated(c)
    \/ WCConnect(c) \/ WCLookup(c) \/ WCConnected(c)
    \/ WCPay(c) \/ WCSimulated(c) \/ WCSigned(c) \/ WCSubmitted(c)
    \/ WCPolicyRead(c) \/ WCPolicyAnswer(c)
    \/ WCDeploy(c) \/ WCInstance(c) \/ WCResume(c) \/ WCAttach(c) \/ WCRecord(c)
    \/ WCMint(c) \/ WCMinted(c) \/ WCRevoke(c) \/ WCRevoked(c)
    \/ WCX402(c) \/ WCX402Done(c)

WCSpec == WCInit /\ [][WCNext]_wcVars

-----------------------------------------------------------------------------
WCPcs == {"idle", "returned", "threw", "ceremony", "creating", "connecting", "rotating",
          "simulating", "signing", "submitting", "reading", "deploying", "resumingPolicy", "attaching",
          "recording", "resumingMint", "minting", "resumingRevoke", "revoking", "paying402"}

WCTypeOK ==
    /\ wcSession \in WCAccounts \cup {WCNone} /\ wcKit \in WCAccounts \cup {WCNone}
    /\ wcPc \in [WCCalls -> WCPcs] /\ wcAsked \in [WCCalls -> WCAccounts \cup {WCNone}]
    /\ DOMAIN wcWork = WCCalls
    /\ wcOnChain \subseteq WCAccounts
    /\ wcRecorded \subseteq WCCalls /\ wcOverlapped \subseteq WCCalls
    /\ \A x \in wcAttached : x.bound \in WCAccounts /\ x.wallet \in WCAccounts
    /\ wcStranded \in BOOLEAN

(***************************************************************************)
(* The session never names an account that is not deployed, so that no     *)
(* call acts for one (createWallet: the submission must succeed first).    *)
(***************************************************************************)
WCSessionIsDeployed == wcSession # WCNone => wcSession \in wcOnChain

(***************************************************************************)
(* A payment debits the account that was the session when pay() or         *)
(* x402.fetch() was called, however the session and the kit have moved     *)
(* since: a transfer the kit signs for another wallet is not accepted.     *)
(* (Before there is a session, x402 pays from its configured signer.)      *)
(***************************************************************************)
WCPaymentsComeFromTheSession ==
    \A p \in wcPaid : \/ p.from = wcAsked[p.call]
                      \/ p.to = WCNone /\ wcAsked[p.call] = WCNone

(***************************************************************************)
(* policies.deploy: what the gateway records is attached on chain; and an  *)
(* instance, or an agent key, ends on another wallet than the session's it *)
(* was made for only when the call overlapped a create() or connect(), or  *)
(* an earlier one had left the kit behind: a create() that failed after    *)
(* the kit moved, or two of them that overlapped.                          *)
(***************************************************************************)
WCAttachesWhereBound ==
    /\ \A c \in wcRecorded : \E x \in wcAttached : x.call = c
    /\ \A x \in wcAttached : x.wallet = x.bound \/ x.call \in wcOverlapped \/ wcStranded
    /\ \A a \in wcAgents : a.wallet = a.asked \/ a.call \in wcOverlapped \/ wcStranded

\* The client acts for the account the caller meant: sessions, payments and
\* attachments together.
WCActsForTheSession == WCSessionIsDeployed /\ WCPaymentsComeFromTheSession /\ WCAttachesWhereBound
=============================================================================
