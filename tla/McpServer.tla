------------------------------ MODULE McpServer ------------------------------
(***************************************************************************)
(* The MCP payer as a process (packages/mcp-x402-payer: bin, config,       *)
(* server, output, with src/src/x402-untrusted.ts and log-level.ts): its   *)
(* environment is parsed once, the secret is registered with the redactor  *)
(* before anything else is built, and then tools are served over stdout.   *)
(* Beside it, what operators run first or against it: the readiness check, *)
(* the on-chain preflight and the health check that spawns the process.    *)
(* The payer behind the tools is external here (module Payer); it answers  *)
(* or throws, and its libraries may print or quote what they were given.   *)
(***************************************************************************)
EXTENDS Integers, Sequences, FiniteSets, SequencesExt

CONSTANTS MSPolicy, MSOther,      \* policy contract ids
          MSText                  \* bound: tokens of a stranger's text

VARIABLES
    msEnv,       \* the environment
    msPc,        \* "down", "loaded", "registered", "built", "serving", "failed"
    msSecrets,   \* registeredSecrets
    msDiverted,  \* process.stdout.write is diverted
    msCall,      \* the tool call in flight: "none" or its tool
    msLog,       \* history: what was emitted, [at, chan, secret]
    msShown,     \* a stranger's text in the last result: [fence, open], inside and outside the fence
    msHealth,    \* the health check: "none", "waiting", 0, 1, 2 as strings
    msChecked    \* what the readiness check and the preflight said: [ready, preflight]

msVars == <<msEnv, msPc, msSecrets, msDiverted, msCall, msLog, msShown, msHealth, msChecked>>

-----------------------------------------------------------------------------
(* Configuration. *)

\* Entries of VELLAR_X402_ASSETS: an asset with a positive ceiling, or "bad" (no colon,
\* no contract id, a ceiling that is no positive integer).
MSEntries == {"ok", "bad"}

MSEnvs == [inline : {"unset", "valid", "invalid"}, file : {"unset", "valid", "invalid", "unreadable"},
           network : {"unset", "blank", "testnet", "other"},
           assets : {<<>>} \cup {<<e>> : e \in MSEntries} \cup {<<"ok", e>> : e \in MSEntries},
           wallet : {"unset", "valid", "invalid"},
           policies : {<<>>, <<MSPolicy>>, <<MSPolicy, MSPolicy>>, <<"invalid">>},
           bytes : {"valid", "invalid"}]

\* readSecret.
MSSecretOk(e) == \/ e.file = "unset" /\ e.inline = "valid"
                 \/ e.inline = "unset" /\ e.file = "valid"

\* parseAssets: some entry, each well formed and positive, none listed twice.
MSAssetsOk(e) == e.assets # <<>> /\ (\A i \in DOMAIN e.assets : e.assets[i] = "ok") /\ Len(e.assets) = 1

\* parsePolicies.
MSPoliciesOk(e) == "invalid" \notin Range(e.policies) /\ IsInjective(e.policies)

\* parseNetwork: a blank value is not the default.
MSNetworkOk(e) == e.network \in {"unset", "testnet"}

\* parseMaxResponseBytes.
MSBytesOk(e) == e.bytes # "invalid"

\* loadConfig.
MSLoads(e) == /\ MSSecretOk(e) /\ MSNetworkOk(e) /\ MSAssetsOk(e) /\ MSBytesOk(e)
              /\ e.wallet # "invalid" /\ MSPoliciesOk(e)
              /\ (e.policies # <<>> => e.wallet # "unset")

\* checkReadiness: the same rules again, except that a secret file is not read, a
\* blank network passes and a policy may be repeated.
MSReadiness(e) ==
    /\ (e.file # "unset") # (e.inline # "unset") /\ e.inline # "invalid"
    /\ e.network # "other"
    /\ MSAssetsOk(e)
    /\ e.wallet # "invalid" /\ "invalid" \notin Range(e.policies)
    /\ (e.policies # <<>> => e.wallet # "unset")
    /\ MSBytesOk(e)

-----------------------------------------------------------------------------
(* The preflight against the chain. *)

\* External: what the chain says of the wallet's signer, in the shapes kit.getSigner
\* returns it (the limits map, the limits list, or none), and of the policies.
MSChains == [network : {"same", "other", "unreachable"}, signer : {"missing", "limits", "listed"},
             limits : SUBSET {MSPolicy, MSOther}, exist : SUBSET {MSPolicy, MSOther}]

\* extractPoliciesFromSignerVal: every contract the signer's limits name.
MSRequired(chain) == IF chain.signer = "missing" THEN {} ELSE chain.limits

\* runPreflight: no problem was found.
MSPreflightOk(e, chain) ==
    /\ e.inline = "valid" /\ chain.network = "same"
    /\ e.wallet # "unset" =>
          /\ chain.signer # "missing"
          /\ MSRequired(chain) \subseteq Range(e.policies)
          /\ Range(e.policies) \subseteq chain.exist

-----------------------------------------------------------------------------
(* Output. *)

\* A text may quote the secret: "plain", or "embedded" in a longer word, where the
\* pattern's word boundaries do not find it.
MSQuotes == {"none", "plain", "embedded"}

\* redact: registered secrets wherever they stand, and seed-shaped words.
MSRedact(q) == IF q = "plain" \/ (q = "embedded" /\ "secret" \in msSecrets) THEN "none" ELSE q

\* shouldLog, against the configured threshold.
MSShouldLog(level, threshold) ==
    LET severity(l) == CASE l = "debug" -> 0 [] l = "info" -> 1 [] l = "warn" -> 2
                         [] l = "error" -> 3 [] l = "silent" -> 4
    IN  severity(level) >= severity(threshold)

\* A line emitted while the process is loaded ("load") or after that ("run").
MSLine(at, chan, q) == [at |-> at, chan |-> chan, secret |-> q]

\* log: a line on stderr, or nothing below the threshold.
MSLogged(level, q) ==
    {{MSLine("run", "stderr", MSRedact(q)) : t \in {u \in {threshold} : MSShouldLog(level, u)}}
        : threshold \in {"info", "silent"}}

\* sanitizeUntrusted drops control and format characters ("z") ...
MSDropFormat(text) == SelectSeq(text, LAMBDA c : c # "z")

\* ... and then replaces what looks like a fence (its halves "F" and "E").
MSDropFences(text) == [i \in DOMAIN text |->
    IF \/ text[i] = "F" /\ i + 1 \in DOMAIN text /\ text[i + 1] = "E"
       \/ text[i] = "E" /\ i - 1 \in DOMAIN text /\ text[i - 1] = "F"
    THEN "removed" ELSE text[i]]

\* Mutant: fences are looked for first.
MSSanitizeLate(text) == MSDropFormat(MSDropFences(text))

\* sanitizeUntrusted.
MSSanitize(text) == MSDropFences(MSDropFormat(text))

\* renderUntrusted: the body between two markers that carry a fresh nonce.
MSRenderUntrusted(text) == MSSanitize(text)

-----------------------------------------------------------------------------
(* The process. *)

MSNothing == [fence |-> <<>>, open |-> <<>>]

MSInit == /\ msEnv \in {[inline |-> "valid", file |-> "unset", network |-> "unset",
                         assets |-> <<"ok">>, wallet |-> "unset", policies |-> <<>>,
                         bytes |-> "valid"]}
          /\ msPc = "unset" /\ msSecrets = {} /\ msDiverted = FALSE /\ msCall = "none"
          /\ msLog = {} /\ msShown = MSNothing /\ msHealth = "none"
          /\ msChecked = [ready |-> FALSE, preflight |-> "none"]

\* The operator sets the environment and asks the readiness check.
MSConfigure == \E e \in MSEnvs :
    /\ msPc = "unset"
    /\ msEnv' = e /\ msPc' = "down"
    /\ msChecked' = [msChecked EXCEPT !.ready = MSReadiness(e)]
    /\ UNCHANGED <<msSecrets, msDiverted, msCall, msLog, msShown, msHealth>>

\* The operator runs the preflight; "accepted" is whether the wallet would take the
\* process's signature.
MSPreflight == \E chain \in MSChains :
    /\ msPc = "down" /\ MSLoads(msEnv) /\ msChecked.preflight = "none" /\ msHealth = "none"
    /\ msChecked' = [msChecked EXCEPT !.preflight =
          IF ~MSPreflightOk(msEnv, chain) THEN "problems"
          ELSE IF msEnv.wallet = "unset" \/ (chain.signer # "missing" /\ chain.limits \subseteq Range(msEnv.policies))
          THEN "accepted" ELSE "rejected"]
    /\ UNCHANGED <<msEnv, msPc, msSecrets, msDiverted, msCall, msLog, msShown, msHealth>>

\* What the error of a failed load may quote.  readSecret names the path it cannot read
\* and nothing else of what it read; the other parsers quote the value they refuse,
\* whatever was put there.
MSLoadQuotes(e) == IF MSSecretOk(e) \/ e.file = "unreadable" THEN MSQuotes ELSE {"none"}

\* checkMcpPayerHealth spawns the process and asks for its tools; an operator may
\* also just start it.  A load that fails prints its error, and at that point no
\* secret is registered.
MSStart == \E q \in MSLoadQuotes(msEnv) :
    /\ msPc = "down"
    /\ msPc' = IF MSLoads(msEnv) THEN "loaded" ELSE "failed"
    /\ msLog' = IF MSLoads(msEnv) THEN msLog
                ELSE msLog \cup {MSLine("load", "stderr", MSRedact(q))}
    /\ msHealth' \in {"none", "waiting"}
    /\ UNCHANGED <<msEnv, msSecrets, msDiverted, msCall, msShown, msChecked>>

\* main: registerSecret comes first ...
MSRegister == /\ msPc = "loaded" /\ msPc' = "registered" /\ msSecrets' = {"secret"}
              /\ UNCHANGED <<msEnv, msDiverted, msCall, msLog, msShown, msHealth, msChecked>>

\* ... then the ledger, the signer and the payer; a library error may quote the secret.
\* (The line that says the payer is ready quotes nothing.)
MSBuild == \E ok \in BOOLEAN, q \in MSQuotes :
    /\ msPc = "registered"
    /\ msPc' = IF ok THEN "built" ELSE "failed"
    /\ msLog' = IF ok THEN msLog ELSE msLog \cup {MSLine("run", "stderr", MSRedact(q))}
    /\ UNCHANGED <<msEnv, msSecrets, msDiverted, msCall, msShown, msHealth, msChecked>>

\* startStdio: the transport keeps the real stream, then stdout is diverted (no
\* request is read in between).
MSServe == /\ msPc = "built" /\ msPc' = "serving" /\ msDiverted' = TRUE
           /\ UNCHANGED <<msEnv, msSecrets, msCall, msLog, msShown, msHealth, msChecked>>

MSTools == {"x402_quote", "x402_pay", "x402_pay_and_call"}

\* A tool is called.
MSCallTool(t) == /\ msPc = "serving" /\ msCall = "none" /\ msCall' = t /\ msShown' = MSNothing
                 /\ UNCHANGED <<msEnv, msPc, msSecrets, msDiverted, msLog, msHealth, msChecked>>

\* A dependency prints to stdout while the tool runs: divertStdoutToStderr.
MSPrint == \E q \in MSQuotes :
    /\ msCall # "none"
    /\ msLog' = msLog \cup {IF msDiverted THEN MSLine("run", "stderr", MSRedact(q))
                            ELSE MSLine("run", "protocol", q)}
    /\ UNCHANGED <<msEnv, msPc, msSecrets, msDiverted, msCall, msShown, msHealth, msChecked>>

\* What a stranger may have put in a field: nothing, or a fence of its own.
MSFields == {<<>>, <<"F", "E">>}

\* What of a stranger's text an answer prints outside the fence, as it came: a quote
\* its payTo and its refusal, pay_and_call the selected URL.  A payment prints the
\* hash, which is checked to be one, and a sanitised content type.
MSOpen(t) == IF t = "x402_pay" THEN {<<>>} ELSE MSFields

\* The payer answered: the resource's content and metadata are fenced.
MSAnswer == \E text \in UNION {[1..n -> {"a", "F", "E", "z"}] : n \in 0..MSText},
               open \in MSOpen(msCall), l \in MSLogged("info", "none") :
    /\ msCall # "none" /\ msCall' = "none"
    /\ msShown' = [fence |-> MSRenderUntrusted(text), open |-> open]
    /\ msLog' = msLog \cup l
    /\ UNCHANGED <<msEnv, msPc, msSecrets, msDiverted, msHealth, msChecked>>

\* It threw: formatError gives the name and the redacted message, as a tool error.  The
\* message may quote the seller's reason, which is not fenced.
MSThrow == \E q \in MSQuotes, open \in MSFields : \E l \in MSLogged("warn", q) :
    /\ msCall # "none" /\ msCall' = "none"
    /\ msShown' = [fence |-> <<>>, open |-> open]
    /\ msLog' = msLog \cup l \cup {MSLine("run", "result", MSRedact(q))}
    /\ UNCHANGED <<msEnv, msPc, msSecrets, msDiverted, msHealth, msChecked>>

\* x402_session_budget reads the ledger's snapshot and nothing else.
MSBudget == /\ msPc = "serving" /\ msCall = "none"
            /\ msLog' = msLog \cup {MSLine("run", "result", "none")}
            /\ UNCHANGED <<msEnv, msPc, msSecrets, msDiverted, msCall, msShown, msHealth, msChecked>>

\* The health check settles once: on the answer to tools/list (0), on an error answer
\* or its timeout (1), or on the exit of the process (2); and it kills the process.
MSSettleHealth == \E code \in {"healthy", "unresponsive", "notRunning"} :
    /\ msHealth = "waiting"
    /\ (code = "healthy" => msPc = "serving") /\ (code = "notRunning" => msPc = "failed")
    /\ msHealth' = code
    /\ msPc' = "failed" /\ msCall' = "none"
    /\ UNCHANGED <<msEnv, msSecrets, msDiverted, msLog, msShown, msChecked>>

MSNext == \/ MSConfigure \/ MSPreflight \/ MSStart \/ MSRegister \/ MSBuild \/ MSServe
          \/ MSPrint \/ MSAnswer \/ MSThrow \/ MSBudget \/ MSSettleHealth
          \/ \E t \in MSTools : MSCallTool(t)

MSSpec == MSInit /\ [][MSNext]_msVars

-----------------------------------------------------------------------------
MSTypeOK == /\ msPc \in {"unset", "down", "loaded", "registered", "built", "serving", "failed"}
            /\ msCall \in MSTools \cup {"none"} /\ msSecrets \subseteq {"secret"}
            /\ msHealth \in {"none", "waiting", "healthy", "unresponsive", "notRunning"}

(***************************************************************************)
(* Once the configuration is loaded nothing the process emits carries the  *)
(* secret, whatever a library quotes or prints and in whatever form; the   *)
(* error of a failed load, printed before the secret is registered, shows  *)
(* no secret that stands as a word of its own.  The protocol channel       *)
(* carries the protocol only, and what stands inside a fence shows no      *)
(* fence of its own, also not one that only appears once the invisible     *)
(* characters are gone.                                                    *)
(***************************************************************************)
MSOutputIsClean ==
    /\ \A e \in msLog : /\ e.secret = "none" \/ (e.at = "load" /\ e.secret = "embedded")
                        /\ e.chan # "protocol"
    /\ \A i \in DOMAIN msShown.fence : i + 1 \in DOMAIN msShown.fence =>
          ~(msShown.fence[i] = "F" /\ msShown.fence[i + 1] = "E")

\* "Everything a resource server returns ... is delivered inside an explicitly fenced
\* block" (server.ts:176-179).  The code does not keep this: payTo, a refusal, the
\* selected URL and the reason of a rejection are printed outside it.
MSStrangersAreFenced == msShown.open = <<>>

(***************************************************************************)
(* The checks agree with the process.  An environment the process accepts  *)
(* is one the readiness check calls ready (the rules are written twice),   *)
(* a preflight without problems means the wallet takes the signature, and  *)
(* a healthy verdict is given only to a process that served.               *)
(***************************************************************************)
MSChecksAgree ==
    /\ msPc \in {"loaded", "registered", "built", "serving"} => msChecked.ready
    /\ msChecked.preflight # "rejected"
    /\ msHealth = "healthy" => msDiverted

\* The server as a whole (server.ts, output.ts, bin.ts): nothing it emits once loaded
\* holds the secret, no fenced text holds a fence, and what the readiness check, the
\* preflight and the health check say of it is so.
MSServerIsSafe == MSOutputIsClean /\ MSChecksAgree
=============================================================================
