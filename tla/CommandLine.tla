---------------------------- MODULE CommandLine ------------------------------
(***************************************************************************)
(* The vellar command line: pay, quote, search, inspect, and the contributed*)
(* doctor, preflight, watch mode, settlement exit codes, dry run and keygen.*)
(* One behaviour is one invocation.  External: the seller, the facilitator *)
(* (truthful about what it settled), Horizon, the ledger, and the x402     *)
(* client library, whose default selector is accepts[0] (signer.ts:151) of *)
(* the options it has a scheme for.                                        *)
(***************************************************************************)
EXTENDS Integers, Sequences, FiniteSets, FiniteSetsExt, X402Guards

CONSTANTS CLPrices, CLMax,       \* prices asked; --max
          CLTimeout, CLInterval, \* of the watch, in clock ticks
          CLLate,                \* bound: how long one read takes, and how late one timer fires
          CLNone

ASSUME CLAssumption == CLTimeout \in Nat /\ CLInterval \in Nat /\ CLLate \in Nat /\ CLPrices \subseteq Int

VARIABLES clCmd, clPc, clAccepts, clChosen, clSigned, clPaid, clLedger, clClock, clDeadline, clExit

clVars == <<clCmd, clPc, clAccepts, clChosen, clSigned, clPaid, clLedger, clClock, clDeadline, clExit>>

\* "settle" is pay with the contributed settlement handling, "dry" with the dry run.
CLCommands == {"pay", "settle", "dry", "quote", "search", "inspect", "watch", "doctor", "preflight"}

CLOptions == PaymentOption({"usdc"}, CLPrices)

-----------------------------------------------------------------------------
(* Pure parts *)

\* selectRequirement: the first of the cheapest exact options on the network, 0 for none.
selectRequirement(accepts) == IF OnNetwork(accepts) = {} THEN 0 ELSE Cheapest(accepts, OnNetwork(accepts))

\* decodeChallenge: the header as base64 JSON, then as JSON, then the body.
decodeChallenge(header, body) == CASE header \in {"base64", "json"} -> "header"
                                   [] body = "json" -> "body" [] OTHER -> CLNone

\* handleSettlementOutcome's exit codes: settled, not spent (safe to retry), indeterminate.
CLExitCode(outcome) == CASE outcome = "settled" -> 0 [] outcome = "not-spent" -> 3 [] OTHER -> 5

\* Mutant: an indeterminate settlement is reported as safe to retry.
handleSettlementUnsure(settle) == IF ClassifySettlement(settle) = "settled" THEN 0 ELSE 3

handleSettlementOutcome(settle) == CLExitCode(ClassifySettlement(settle))

\* doctor: Node 20, the facilitator reachable and not failing, and a key: an empty key file
\* falls through to the flag and the environment, an unreadable one does not.
checkSignerKey(file, flag, env) == CASE file = "key" -> TRUE [] file = "unreadable" -> FALSE [] OTHER -> flag \/ env

CLDoctorPasses(node, status, file, flag, env) == node >= 20 /\ status \in 1..499 /\ checkSignerKey(file, flag, env)

\* preflight: a resource answers 402 with options, or needs no payment; the facilitator
\* advertises networks and answers a search; a network expected of a target must be one it
\* advertises.  Every probe must pass.
probeResource(r) == (r.status = 402 /\ r.networks # {}) \/ r.status = 200

probeFacilitator(f) == f.supported /\ f.search /\ f.networks # {}

checkExpectedNetwork(ok, networks, expected) == ok /\ (expected = CLNone \/ networks = {} \/ expected \in networks)

runPreflight(f, rs, expected) ==
    /\ checkExpectedNetwork(probeFacilitator(f), f.networks, expected)
    /\ \A r \in rs : checkExpectedNetwork(probeResource(r), r.networks, expected)

\* A passing preflight for a network means no target can only be paid on another one.
ASSUME CLPreflightIsMeant ==
    \A nets, facNets \in SUBSET {"testnet", "mainnet"}, st \in {200, 402, 500} :
        LET r == [status |-> st, networks |-> IF st = 402 THEN nets ELSE {}]
            f == [supported |-> TRUE, search |-> TRUE, networks |-> facNets]
        IN runPreflight(f, {r}, "testnet") => ("testnet" \in facNets /\ (st = 402 => "testnet" \in nets))

\* keygen: the export of a private key.  WebCrypto exports asymmetric private keys in jwk
\* only (raw throws); a passphrase seals keys whose type is "private".
exportKey(type, format, pass) ==
    IF type # "symmetric" /\ format # "jwk" THEN "error"
    ELSE IF pass /\ type # "symmetric" THEN "sealed" ELSE "plain"

generateKey(type, format, pass) ==
    IF type \notin {"ed25519", "secp256k1", "rsa", "symmetric"} THEN "error" ELSE exportKey(type, format, pass)

\* A passphrase never leaves the private half of a key pair in the clear.
ASSUME CLKeysAreSealed == \A type \in {"ed25519", "secp256k1", "rsa", "dsa"}, f \in {"pem", "jwk", "hex", "base64"} :
    generateKey(type, f, TRUE) # "plain"

-----------------------------------------------------------------------------
CLInit == /\ clCmd = CLNone /\ clPc = "start" /\ clAccepts = <<>> /\ clChosen = 0 /\ clSigned = 0 /\ clPaid = FALSE
          /\ clLedger = "none" /\ clClock = 0 /\ clDeadline = 0 /\ clExit = -1

CLExit(code) == clPc' = "done" /\ clExit' = code

CLGoto(where) == clPc' = where /\ clExit' = clExit

\* pay's argument checks: network, secret, key, --max, --method, --body; any of them exits 1.
CLPayStart == \E cmd \in {"pay", "settle", "dry"}, valid \in BOOLEAN :
    /\ clPc = "start" /\ clCmd' = cmd
    /\ IF valid THEN CLGoto("probe") ELSE CLExit(1)
    /\ UNCHANGED <<clAccepts, clChosen, clSigned, clPaid, clLedger, clClock, clDeadline>>

\* The unpaid request: free content, another status, an undecodable challenge, or options.
CLProbe == /\ clPc = "probe"
           /\ \/ \E code \in {0, 1} : CLExit(code) /\ clAccepts' = clAccepts
              \/ \E header \in {"base64", "json", "junk"}, body \in {"json", "text"}, acc \in UNION {[1..n -> CLOptions] : n \in 1..2} :
                    IF decodeChallenge(header, body) = CLNone THEN CLExit(1) /\ clAccepts' = clAccepts
                    ELSE clAccepts' = acc /\ CLGoto("select")
           /\ UNCHANGED <<clCmd, clChosen, clSigned, clPaid, clLedger, clClock, clDeadline>>

\* The cheapest exact option, --max and sponsored fees, all checked on that option.
CLSelect == /\ clPc = "select"
            /\ LET i == selectRequirement(clAccepts) IN
               /\ clChosen' = i
               /\ IF i = 0 THEN CLExit(1) ELSE IF clAccepts[i].amount > CLMax \/ ~clAccepts[i].sponsored THEN CLExit(1)
                  ELSE CLGoto("sign")
            /\ UNCHANGED <<clCmd, clAccepts, clSigned, clPaid, clLedger, clClock, clDeadline>>

\* createPaymentPayload(required): the whole challenge is handed over, and the library
\* selects again: the first option it supports.  It may also fail.
CLSign == /\ clPc = "sign"
          /\ \/ CLExit(1) /\ clSigned' = clSigned
             \/ clSigned' = Min(OnNetwork(clAccepts)) /\ (IF clCmd = "dry" THEN CLExit(0) ELSE CLGoto("pay"))
          /\ UNCHANGED <<clCmd, clAccepts, clChosen, clPaid, clLedger, clClock, clDeadline>>

\* The paid request reaches the seller, whose facilitator settles it, fails it or leaves it
\* pending on the ledger; the fetch itself may throw.
CLPaidSent == /\ clPc = "pay" /\ clPaid' = TRUE
              /\ \E fate \in {"none", "pending", "success"} : clLedger' = fate
              /\ CLGoto("answer")
              /\ UNCHANGED <<clCmd, clAccepts, clChosen, clSigned, clClock, clDeadline>>

\* What a truthful settle header may say of the fate.
CLTruthful(settle, fate) == /\ (settle.success = "false" /\ settle.tx = "empty") => fate = "none"
                            /\ (settle.success # "false" /\ settle.tx = "hash") => fate = "success"

\* The answer.  pay: anything but 200 exits 1, whatever was settled.  settle: by the outcome.
CLAnswer == /\ clPc = "answer"
            /\ \/ \E ok \in BOOLEAN : clCmd = "pay" /\ CLExit(IF ok THEN 0 ELSE 1)
               \/ \E settle \in SettleResult :
                     clCmd = "settle" /\ CLTruthful(settle, clLedger) /\ CLExit(handleSettlementOutcome(settle))
               \/ CLExit(1)                      \* the fetch, or reading its body, throws
            /\ UNCHANGED <<clCmd, clAccepts, clChosen, clSigned, clPaid, clLedger, clClock, clDeadline>>

\* quote: one GET; free, another status, undecodable, or printed.
CLQuote == \E status \in {200, 402, 500}, header \in {"base64", "junk"}, body \in {"json", "text"} :
    /\ clPc = "start" /\ clCmd' = "quote"
    /\ CLExit(IF status = 500 \/ (status = 402 /\ decodeChallenge(header, body) = CLNone) THEN 1 ELSE 0)
    /\ UNCHANGED <<clAccepts, clChosen, clSigned, clPaid, clLedger, clClock, clDeadline>>

\* search: one GET of the catalogue; no result is not an error.
CLSearch == \E ok \in BOOLEAN :
    /\ clPc = "start" /\ clCmd' = "search" /\ CLExit(IF ok THEN 0 ELSE 1)
    /\ UNCHANGED <<clAccepts, clChosen, clSigned, clPaid, clLedger, clClock, clDeadline>>

\* inspect: a known network and a 64-digit hash before Horizon is asked.
CLInspect == \E network, hash, found \in BOOLEAN :
    /\ clPc = "start" /\ clCmd' = "inspect" /\ CLExit(IF network /\ hash /\ found THEN 0 ELSE 1)
    /\ UNCHANGED <<clAccepts, clChosen, clSigned, clPaid, clLedger, clClock, clDeadline>>

CLDoctor == \E node \in {18, 20}, st \in {0, 200, 404, 503}, file \in {"key", "empty", "unreadable"}, flag, env \in BOOLEAN :
    /\ clPc = "start" /\ clCmd' = "doctor" /\ CLExit(IF CLDoctorPasses(node, st, file, flag, env) THEN 0 ELSE 1)
    /\ UNCHANGED <<clAccepts, clChosen, clSigned, clPaid, clLedger, clClock, clDeadline>>

CLPreflight == \E sup, srch \in BOOLEAN, st \in {200, 402, 500} :
    /\ clPc = "start" /\ clCmd' = "preflight"
    /\ CLExit(IF runPreflight([supported |-> sup, search |-> srch, networks |-> {"testnet"}],
                              {[status |-> st, networks |-> IF st = 402 THEN {"testnet"} ELSE {}]}, "testnet") THEN 0 ELSE 1)
    /\ UNCHANGED <<clAccepts, clChosen, clSigned, clPaid, clLedger, clClock, clDeadline>>

\* watch: a transaction already submitted, perhaps settled, is polled until the deadline.
CLWatch == /\ clPc = "start" /\ clCmd' = "watch" /\ clDeadline' = clClock + CLTimeout /\ CLGoto("poll")
           /\ clLedger' \in {"pending", "success", "failed"}
           /\ UNCHANGED <<clAccepts, clChosen, clSigned, clPaid, clClock>>

\* Where a read that settled nothing leads: another interval must fit before the deadline.
CLWaitOn(now) == IF now + CLInterval > clDeadline THEN CLExit(2) ELSE CLGoto("sleep")

\* getStatus takes its time and answers (404, or an answer from before the ledger closed, is
\* pending) or throws; the clock is read again after it.
CLPoll == /\ clPc = "poll"
          /\ \E took \in 0..CLLate, status \in {clLedger, "pending", "throws"} :
                /\ clClock' = clClock + took
                /\ CASE status = "success" -> CLExit(0)
                     [] status = "failed" -> CLExit(1)
                     [] OTHER -> CLWaitOn(clClock + took)
          /\ UNCHANGED <<clCmd, clAccepts, clChosen, clSigned, clPaid, clLedger, clDeadline>>

\* The timer fires after the interval, perhaps late.
CLSlept == /\ clPc = "sleep" /\ CLGoto("poll") /\ \E late \in 0..CLLate : clClock' = clClock + CLInterval + late
           /\ UNCHANGED <<clCmd, clAccepts, clChosen, clSigned, clPaid, clLedger, clDeadline>>

\* The ledger closes on a pending transaction.
CLLedgerCloses == /\ clLedger = "pending" /\ clPc \in {"poll", "sleep", "answer"} /\ clLedger' \in {"success", "failed"}
                  /\ UNCHANGED <<clCmd, clPc, clAccepts, clChosen, clSigned, clPaid, clClock, clDeadline, clExit>>

CLNext == CLPayStart \/ CLProbe \/ CLSelect \/ CLSign \/ CLPaidSent \/ CLAnswer \/ CLQuote \/ CLSearch \/ CLInspect \/ CLDoctor \/ CLPreflight
          \/ CLWatch \/ CLPoll \/ CLSlept \/ CLLedgerCloses

CLSpec == CLInit /\ [][CLNext]_clVars

CLTypeOK == /\ clCmd \in CLCommands \cup {CLNone} /\ clExit \in {-1, 0, 1, 2, 3, 5} /\ clPaid \in BOOLEAN
            /\ clPc \in {"start", "probe", "select", "sign", "pay", "answer", "poll", "sleep", "done"}
            /\ clAccepts \in Seq(CLOptions) /\ clChosen \in 0..2 /\ clSigned \in 0..2
            /\ clLedger \in {"none", "pending", "success", "failed"} /\ clClock \in Nat /\ clDeadline \in Nat

\* A script may act on an exit code.  "Not spent, safe to retry" (3) is only reported when
\* nothing reached the ledger, however the ledger and the answer raced; a watch's success and
\* failure are the ledger's; it gives up only when no further interval fits, and overruns its
\* deadline by no more than one late timer and one slow read; and only pay sends a payment.
CLExitCodesAreTrue == /\ clExit = 3 => clLedger = "none"
                      /\ clCmd = "watch" => (clExit \in {-1, 0, 1, 2} /\ (clExit = 0 => clLedger = "success") /\ (clExit = 1 => clLedger = "failed")
                                             /\ (clExit = 2 => clClock + CLInterval > clDeadline) /\ clClock <= clDeadline + 2 * CLLate)
                      /\ clPaid => clCmd \in {"pay", "settle"}

\* pay.ts:183: the ceiling is enforced before signing.
CLSignedWithinMax == clSigned > 0 => clAccepts[clSigned].amount <= CLMax
=============================================================================
