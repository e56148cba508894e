# A TLA+ model of the Vellar wallet SDK

This directory holds a verification project for the Vellar wallet SDK
(`src/src`), its MCP payment server (`src/packages/mcp-x402-payer`), its command
line (`src/packages/cli`) and the contributed components that carry logic of their
own (`src/contrib`). TLC checks the modules on small instances; TLAPS proves every
safety property the passing runs check, for every value of the constants (see
"Proofs").

All of the code is JavaScript on one thread: code between two `await`s runs
without interruption, and anything may run at an `await`. So **one action is the
code between two awaits**, and a call is a process whose program counter names
the await it is suspended at. Servers, the facilitator, the chain, the passkey
kit, storage and the network are external; their answers are nondeterministic
inputs. A request to them is answered, fails before it had any effect, or has its
effect and loses its answer, wherever the code can meet all three.

## Inventory

| Component | State | Operations | Interacts with | What is hard | What makes it correct |
|---|---|---|---|---|---|
| MCP payer (`payer.ts`, `ledger.ts`, `signer.ts`, `pay-and-call.ts`) | session ledger, promise-chain mutex, tripwire | `pay`, `quote`, `payAndCall` | guards, signer, seller, facilitator | check and debit several awaits apart; retries; unknown settlements; failed links of the chain | ceiling never exceeded; never two live payloads; spend is accounted for; every call ends |
| x402 guards (`x402-guards.ts`) | none | `selectRequirements`, `classifySettlement` | payer, x402 client | malformed or contradictory input | only a cleared option is selected; only positive evidence is "not spent" |
| x402 client (`x402-client.ts`, `x402-budget-attributes.ts`) | budget tracker | `fetch`, `createPayment` | guards, RPC, signer, seller | no lock around check and record; time windows | limits of every signed payment; the tracker counts what was accepted |
| Payment signing (`smart-account-scheme.ts`, `x402-signer*.ts`, `x402-auth-entry.ts`) | none between calls; audit hook | `createPaymentPayload`, `buildSignedPayment`, `signAuthEntry` | untrusted RPC, session key, passkey | entries a simulation made up; expiry rounding | only the cleared transfer is signed; audit matches; expiry in the window |
| Request signing (`x402-request-auth.ts`, nonce and challenge trackers) | nonces seen, challenges | sign, verify, register, consume | network, facilitator | delay, duplication, floored clocks | a signed request is accepted once, for its own path and body |
| MCP server (`server.ts`, `config.ts`, `output.ts`, `x402-untrusted.ts`) | registered secrets, diverted stdout | start-up, tool calls, readiness, preflight, health | payer, libraries that print | order of redaction, sanitising and clamping; errors before the secret is registered | no secret in what is emitted once loaded; no foreign fence inside a fence |
| Circuit breaker (`circuit-breaker.ts`) | state, failures, openedAt, halfOpenUsed | `execute`, `reset`, `state` | every backend call of the wallet | overlapping calls settle in another state than they started in | open only after the threshold of consecutive failures, closed only below it; probes are never used up |
| Session store (`session.ts`) and helpers | session, status, timer, storage | `start`, `touch`, `end`, `restore`, `dispose`; resume, refresh, migration | storage adapter, interval timer | state read before and written after an await; calls pending at dispose | one interval; none after dispose; memory and storage agree |
| Passkey connector (`passkeykit-connector.ts`) | active session key | `createWallet`, `connectWallet`, `signTransaction` | passkey kit, backend, rotation runtime | partial failure of mint and revoke; overlapping connects | the active key is a signer; no session for an undeployed account |
| Wallet client and facades (`client.ts`, `*-facade.ts`, `*-client.ts`, `http-backend.ts`) | current session; the kit's own wallet | `create`, `connect`, `pay`, policies, agents, x402 | all of the above | the kit moves before the session does; awaits between reading and using it | what is done is done for the account the caller connected |
| Transactions (`tx-rpc.ts`, `tx-status.ts` and wrappers) | token bucket, deadline | submit, wait | RPC, ledger | timeout against late finality; bucket at its limit | bounded rate; reports are the ledger's; waits end |
| Amounts (`payments.ts`, `balances.ts`) | none | parse, format, choose | | fixed-point edges, three parsers | parse and format agree with a reference |
| Caches, idempotency, spend ledgers, metered payments, agent-key guard, policy sagas, fetch wrappers, paging, offline tools (`contrib`) | per component | per component | SDK, chain, gateway | late answers, retries, crashes, partial failure | see the modules |
| Command line (`packages/cli`) | one invocation | `pay`, `quote`, `search`, `inspect` and contributed commands | seller, facilitator, ledger | check and signature see different options; exit codes | exit codes are true |
| Release checks (`contrib/*.mjs`, `scripts/verify-merged.mjs`) | manifests, dist-tags, scratch directory | gates, writer, publish, install | registry, file system | workers, partial writes | what passes is what was checked |

`PROJECT.json` lists each part with its status, and under `hazards` each place
where the code can go wrong in a way a test would hardly reach.

## Modules

| Module | Models |
|---|---|
| `X402Guards` | the pure guards: which option is selected or why none is, and what a settle header says |
| `SpendBudget` | abstract: each call is charged at most once, check and debit in one step; implemented by `Payer` and `Upto` |
| `Payer` | `pay()` and `payAndCall()` calls, mutex, ledger, tripwire, retry loop; implements `SpendBudget` |
| `PayerTools` | quote, search, dry run, tracing, metrics, mainnet confirmation, health probe; several calls on one signer |
| `X402Client` | the SDK's `fetch()` / `createPayment()` with attribute budgets |
| `PaymentSigning` | how one payment's entries are checked and signed, in both packages |
| `RequestAuth` | signed requests, nonce trackers, passkey challenges over a faulty network |
| `McpServer` | the payer as a process: start-up, redaction, sanitising, tool errors, operator checks |
| `CircuitBreaker` | the breaker under overlapping calls |
| `SessionStore` | the session store over a synchronous or an arbitrary storage adapter |
| `SessionExtras` | cache keys, schema migration, guarded resume, refresh timers, exclusive ceremonies, storage wrappers |
| `PasskeyConnector` | wallet creation, connection and session-key rotation |
| `WalletClient` | the handle, its session, the shared kit, and the facades |
| `AgentKeys`, `PolicyDeploy` | contributed guard around agent keys; recoverable policy deployments |
| `Caches`, `Idempotency`, `SpendLedgers` | contributed caches, keyed submission, spend ledgers |
| `TxSubmit` | rate-limited submission with its wrappers, and the polling loops |
| `Upto` | metered payments: buyer, reservation, settlement queue, facilitator |
| `FetchGuards` | each contributed wrapper around one paid request, and the RPC health check |
| `CommandLine` | one invocation of each command |
| `Paging` | cursor walks, history polling, the bounded fetch queue |
| `OfflineTools` | offline signing, record and replay, connect telemetry, key rotation |
| `Amounts`, `ReleaseChecks` | pure algorithms, compared with reference definitions in named `ASSUME`s |
| `ReleaseGates` | the release steps that run one after the other or in parallel |
| `MCPayer`, `MCX402Client` | constants and symmetry for TLC |
| `MCWallet`, `MCCallers`, `MCExchanges` | several components side by side, see below |
| `X402GuardsProofs`, `PayerProofs`, `X402ClientProofs` | theorems about the guards, the payer and the client |
| `WalletProofs`, `SigningProofs` | theorems about the components of `MCWallet` |
| `CallersProofs`, `ExchangesProofs` | theorems about the components of `MCCallers` and `MCExchanges` |
| `Sums` | lemmas on the sum of a function over a finite set, and that functions defined by recursion exist |

Names of a component carry its prefix (`SS`, `PC`, `WC`, ...) so that one module
can extend several. Operators marked *Mutant* are faulty variants of the
definition that follows them; no specification uses them. They document which
mistake each property detects.

**Composition.** Components that really share state are in one module: the mutex,
the ledger and the signer in `Payer`; the handle, the facades and the one passkey
kit in `WalletClient`; the bucket, the wrappers and the polls in `TxSubmit`; the
settlement queue, the budget and the facilitator in `Upto`. Components that share
none are checked side by side in `MCWallet`, `MCCallers` and `MCExchanges`: the
variable `focus`, chosen in the initial state, says which component a behaviour
is about, and the others stay in their initial state. The state space is the sum
of the components', not their product, and nothing is lost, since no action of
one component reads a variable of another. Conversely every behaviour of the
composition is one of each component (`WalletIsItsParts`, `CallersAreTheirParts`,
`ExchangesAreTheirParts`), which is how the theorems about a component apply to the
specification that the run checks.

### Payer

`queue` is the promise chain of `createMutex`: `Enqueue` adds a link, `Begin`
runs the head, `Finish` settles it whatever the outcome. `FirstResponse` is the
code from the unpaid response to the first signature (decode, guards, ceiling
check). `SignDone` is `signPayment` with its `finally`. `PaidResponse` is the
code after the paid request: retry, reject, debit and stop, or debit and read
the body. `outcome` names the error class or result. `quote()` changes nothing
and is an operator of `PayerTools`.

Each signed payload has a fate (`sent`, then `settled` or `dead`) set by the
external `Facilitator` action at any time, also after the call that sent it
ended. `Truthful` states what is assumed about settle headers: one that says
"failed, no transaction" is sent only for a dead payload, and one with a
well-formed hash and no failure only for a settled one. Nothing is assumed about
missing, garbled or contradictory headers. HTTP status is independent of both.

Payment options keep the fields the guards read. Amounts are integers, with
`Malformed` for a string the digits-only test refuses. The tripwire compares by
identity in the code and by value here.

### X402Client

A call is suspended while fetching, while reading the tracker (`checking`), while
simulating and signing, and while paying. `seen` is the tracker value read before
the await. `PaidResponse` matches the rule again at the current time, as the code
does. The in-memory tracker reads and writes when it is called. Time is the hour
of the week; the numbers of hours and days are constants so that an instance can
be small. An omitted hour range or day list is the full one, and
`periodMaxAmount = 0` stands for an omitted ceiling.

### PaymentSigning and RequestAuth

The simulation returns any sequence of up to `PSMaxEntries` entries: the intended
one, one for another payee, amount, function or account, one with a
sub-invocation. Contract addresses are numbers ordered as their bytes, because
the order of the signature map matters. Hashes and signatures are what they
cover. In `RequestAuth` a signature is the canonical string it is over; the
network may deliver the headers again, later, or with another path or body.

### CircuitBreaker

The clock appears in the code only as `now() - openedAt >= openDurationMs`, so
the age counts ticks since the last `open()` and saturates. The `state` getter
changes state when read. Trials, the streak of failures and the streak at the last
opening are history variables for the properties. How an open breaker may become
closed is left out of `CBBreakerIsSound`: what the comment promises of it is
`CBOpenLastsTheCooldown`, which is refuted.

### SessionStore and SessionExtras

A call that awaits storage is a record in `ssInflight`. With synchronous storage
(the web and memory adapters) the storage acts when called and calls resume in
order. Otherwise each operation takes effect or fails at any time and calls
resume in any order. `SSMaxInFlight` bounds overlapping calls and `SSMaxClock` the
time stamps. In `SessionExtras` one behaviour uses one helper (`sxUse`). Only the
schema guard looks at the stored version: the retention wrapper and the network
guard clear what they find too old or of another network, also when a newer SDK
wrote it, and are modelled so. Undoing an overtaken resume may fail too, when the
storage refuses to be cleared.

### PasskeyConnector and WalletClient

Every external call may fail without effect, or fail after it took effect. A page
load discards the connector; an admin call pending at that moment is taken not to
land. Keys are numbered in the order they are minted. There is one active key per
connector, not per wallet, so that after a connect whose mint failed the active key
may be another wallet's; `PCSessionsAreUsable` says when it is the session's own. `WalletClient` keeps the
handle's session and the kit's wallet apart, because the kit moves first; calls
that overlapped a move are remembered, and the properties say exactly for which
of them the account can differ.

### The contributed components

`Caches`, `SpendLedgers`, `FetchGuards`, `SessionExtras`, `PolicyDeploy` and
`CommandLine` each model a family: a variable chosen in the initial state says
which member is configured, shared steps are shared definitions, and a property
says for each member what it promises. `SpendLedgers` has process crashes, torn
files and failing stores; `Idempotency`, `AgentKeys` and `PolicyDeploy` have lost
answers and retries; `Caches` has reads that sample the value at any time between
call and answer; a key of a cache is the pair of network and account it is built
from, so that two keys of different networks differ because the builders put the
network first, not by anything the model shows. In `AgentKeys` an error that is not
"not found" may still be worded so that `isNotFoundError` matches it. In `Upto` the
facilitator's answer is lost, garbled, too high, too low, or a failure although the
chain moved. In `CommandLine` a timer fires up to `CLLate` ticks late and a read
takes up to as long. In `FetchGuards` signing, the session guard's second look and
the paid request are three steps, and the wallet may be switched between them
(`FGConnects` bounds how often). In `PayerTools` a settlement may be unreadable: it
is debited and the metrics do not count it. In `ReleaseGates` a workspace has the
range of the first section that declares the SDK and the ranges of later ones,
which the script neither reads nor writes, and the isolated install makes its
directories before the `try`, so that a failure there leaves the scratch directory;
the property is about installs whose steps began.

`Amounts` and `ReleaseChecks` have no state: their `ASSUME`s
compare each algorithm with a definition of what it is for, over all inputs up to
a small size, and TLC evaluates them with `callers` and `exchanges`. For the
parsers and the formatter of `Amounts` the two comparisons are also theorems, for
every text and every amount.

## Runs

| Run | Question | Instance |
|---|---|---|
| `payer` | ceiling, separation of calls, retries, accounting, true outcomes, refinement of `SpendBudget`; every issued call ends | 2 calls, 2 assets, 3 attempts, ceilings 2 and 1 |
| `x402_client` | limits and rule order of what is signed; tracker, bounded overspend | 3 calls, 2 at a time; no rules, 3 timeless rules, 2 rules with windows; 2-hour day, 2-day week |
| `wallet` | session store, connector, payment signing, signed requests | 2 accounts and 3 pending calls with both adapters; 2 calls, 2 wallets, 3 keys; 12 signers, 6 requirements, simulations of up to 2 entries; 2 paths, 2 bodies, 2 ticks a second |
| `callers` | wallet client, agent keys, policy sagas, caches, idempotency, ledgers | 3 calls (client, keys, idempotency) or 2 (the others), 2 accounts, 2 networks, an idempotency cache of one key out of two, 3 versions of a cached value, ceiling 3 with amounts 1 and 2, one crash |
| `exchanges` | everything that answers one exchange at a time, and the breaker; waits end, the breaker recovers | timers and reads up to 2 ticks late; bucket of 2 refilled 2/3 per tick; prices below, at and above each limit; 3 listings, pages of 2; 4 breaker callers, threshold 3, 2 probes |
| `payer_settled_not_debited` | violated: settled spend is in the ledger | as `payer` |
| `x402_period_overspent` | violated: period ceiling under overlapping fetches | 2 calls |
| `x402_other_rule_debited` | violated: the recorded rule is the checked rule | one call at a time, 3-hour day |
| `session_resurrected` | violated: an ended session stays ended | 1 account, synchronous adapter |
| `rotation_orphans_key` | violated: rotation revokes the key minted last | 2 calls, 1 wallet |
| `signer_ignores_capabilities` | violated: nothing outside the capabilities is signed | as `wallet` |
| `cli_signs_above_max` | violated: `pay` signs within `--max` | prices 1 to 3, `--max` 2 |

What the passing runs show, property by property:

- `payer`. `CallsDoNotMix`: one call at a time is between fetch and debit, its
  cleared amount still fits, and the tripwire holds its own option.
  `CeilingRespected`; `OneLivePayload`: no two payloads of a call settled or can.
  `OutcomesAreTrue`: "paid" is settled and debited once, "settlement failed" spent
  nothing. `UndebitedSpendIsAnError`: undebited spend has exactly two causes.
  `ImplementsBudget`: the refinement. `EveryCallEnds`: liveness.
- `x402_client`. `SignedIsWithinLimits`; `PeriodBudgetsAreAccounted`: the tracker
  counts what was accepted, and a ceiling is exceeded by at most one payment per
  extra overlapping call.
- `wallet`. `SSStoreIsConsistent`: timer, memory and storage. `PCSessionsAreUsable`
  and `PCStaleKeysAreExplained`: reported wallets exist, the active key is a
  signer, connects one at a time leave no key unexplained.
  With calls one at a time, the active key after a connect that minted is a signer of
  that connect's wallet. `PSOnlyIntendedPaymentsAreSigned`, `PSSignaturesAreSound`:
  signing over an untrusted simulation, and an audit trail that has one event too many
  at most, when the hook stored it and rejected. `RANothingIsReplayed`: at most once, for its own path and
  body, within the tolerance.
- `callers`. `WCActsForTheSession`, `AKRevocationsAreTrue`, `PDDeploymentsAreTrue`,
  `CAEntriesAreExplained`, `IDOneSubmissionPerKey`, `SLBooksCoverTheChain`.
- `exchanges`. `TSRateIsBounded`, `TSReportsTheLedger`, `UPSettlementsAreSound`,
  `MSServerIsSafe`, `SXHelpersHold`, `FGWrappersHold`, `PTOnlyClearedIsSigned`,
  `CLExitCodesAreTrue`, `PGReadsAreSound`, `RGReleaseIsGated`, `OTToolsHold`,
  `CBBreakerIsSound`; liveness: `TSWaitsEnd`, `CBRecovers`.

The comment before each property states it.

Why the bounds are enough. Races here need two overlapping calls; where a third
matters (a payment cleared after one of two overlapping ones recorded, a storage
operation between two others, a submission that replaces an evicted one) the
instance has three. That safety does not depend on these numbers is what the
theorems show. Ceilings are two prices high, so that an amount fits, fits
exactly, and does not fit. Three attempts are the code's own constant. The breaker
has more callers than its threshold and than its probes, so stragglers and refused
trials both occur. The small week has a window that wraps and a day on which one
rule does not apply. Three keys are a failed rotation and a full one after it. The
token bucket refills a fraction of a token per tick, so that rounding shows. A
cached value has three versions, so that a second change can follow one a late
answer missed. The watch's timers are late by as much as its interval, so that it
overruns its deadline. One timeless rule has a period below its ceiling per payment. The
idempotency cache is smaller than its key set, so eviction happens.

Symmetry is used only in runs without liveness, over calls or accounts, which no
definition tells apart. Deadlock is not checked in `wallet`, `callers` and
`exchanges`: their components end (a call returns, a bounded clock stops), and
ending is not an error. Three of the violated runs (`session_resurrected`,
`rotation_orphans_key`, `cli_signs_above_max`) use the component's own specification.

### What the violated runs show

Each is a statement of the repository that the code does not keep:

- A payment that settled, but whose response was an HTTP error or was lost, is not
  debited (`payer.ts:313`), though the comment at line 353 gives the reason to
  debit what may have settled. `UndebitedSpendIsAnError` is what does hold.
- `touch()` overlapping `end()` brings the session back.
- Overlapping fetches exceed `periodMaxAmount`. `PeriodBudgetsAreAccounted` bounds
  by how much.
- Spend is recorded under whichever rule matches after settlement, not under the
  rule that was checked.
- Overlapping connects leave a valid session key nobody revokes. With two wallets
  the same property fails in another way: connecting another wallet calls revoke
  with the first wallet's key.
- The signers never evaluate their capabilities: the check stands after a `try`
  that always returns or throws (`x402-signer.ts:288` and `:380`).
- `pay` compares the cheapest option with `--max` and hands the library the whole
  challenge, of which the first usable option is signed (`pay.ts:222`).

### Other disagreements

These are stated as properties in their modules, and TLC refutes each of them when
it is added to the cfg of its component; they have no run of their own.

| Property | What the code does | What it says |
|---|---|---|
| `AKRevokedMeansGone` | a revocation is answered from memory although the key was minted again (`agent-mint-guard.ts:195`), or reported as done because the error of a failed removal contains "not found" or the like (`:212-215`) | "the key stops signing immediately" (`:178`) |
| `CBOpenLastsTheCooldown` | a success of a call admitted before the opening closes the breaker at once (`circuit-breaker.ts:116`) | calls fail until the cooldown, then half-open (`:11-15`, `src/README.md:149-153`) |
| `CARefreshIsFresh` | `refreshTemplates` joins a read already in flight (`policy-template-cache.ts:94`) | "re-fetch immediately, returning the fresh list" (`:62`) |
| `FGSignedIsConfirmed` | the probe's price is confirmed, the next challenge's is signed (`confirmation-threshold.ts:131-157`) | header comment, lines 12-14 |
| `FGCleanCancelIsClean` | `withClientAbortSignal` keeps the default `signed = () => false`, so every abort is reported as clean (`x402-abort.ts:62`, `:77`) | lines 19-26 |
| `IDDefiniteMeansUnreached` | a definite failure after an ambiguous attempt is reported as never having reached the backend (`idempotency-key.ts:119`) | lines 42-46, 63-73 |
| `PGHistoryIsOldestFirst` | a slow poll is merged after a later one (`tx-history-sync-worker.ts:70`) | "oldest first" (`:54`) |
| `PCFailedRevokeIsMadeUp` | a failed revoke is never tried again (`passkeykit-connector.ts:193`) | "stays valid until the next successful rotation" (`:168`) |
| `MSStrangersAreFenced` | `payTo`, a refusal, the selected URL and the reason of a rejection are printed outside the fence (`server.ts:81`, `:88`, `:343`, `:260`) | "Everything a resource server returns ... inside an explicitly fenced block" (`server.ts:176-179`) |
| `PTOutagesAreCounted` | which errors count as outages (`facilitator-health-probe.ts:60-85`) | lines 9-11 |
| `RGAcceptedLicensesAreAllowed` | outer parentheses are stripped from two groups (`check-licenses.mjs:108`) | line 105 |
| `RGEveryRangeAdmitsTheSdk` | only the first section that declares the SDK is read and rewritten (`breaking-release.mjs:55-67`) | "each excluded range" (its README) |
| `RGRefusedReleaseWritesNothing` | a refused `--bump` stops after earlier manifests were written (`breaking-release.mjs:122-136`) | "retaining the same validation" (its README) |
| `SXStoppedHasNoSession` | `stop()` leaves the session where it is (`auto-refresh-manager.ts:85-91`) | `getSession()` is "null before start() / after stop()" (`:67`) |
| `SXDisposedWritesNothing` | a resume torn down during `start()` has written storage (`resume-guard.ts:88`) | lines 25-26 |
| `SLExclusiveEnds` (under `SLFairSpec`) | `spent()` inside `runExclusively` waits for the sequence it is in (`x402-budget-attributes-shared.ts`) | its README, line 35 |
| `PSMapIsOrdered` | a passkey's map puts the passkey before its policies; "Policy" sorts before "Secp256r1" (`x402-signer.ts`) | the ordering comment of `setSignatureMap` |

Met while reading and not stated as properties: `fullyRolledBack` is true also when the failed step itself had
taken effect (`policy-deploy-rollback.ts:49`); an invalidation of the
request-dedupe cache is undone by a late result; overlapping saves of the durable
ledger can land out of order; `start()` of the refresh manager without `stop()`
leaks a timer; the error of a configuration that fails to load is printed before
the secret is registered (`bin.ts:43-46`), so that a secret pasted into the middle of
another setting is shown. Where one of these matters to a property that holds, the property
excludes exactly that case and says so (`CAEntriesAreExplained`,
`SLBooksCoverTheChain`, `PDDeploymentsAreTrue`, `MSServerIsSafe`).

## Fairness

`payer` assumes (for `EveryCallEnds` only) weak fairness of each call's next step
and of the facilitator: a pending promise settles. The code sets no timeout on
`fetch`, so this is an assumption about the runtime, and a request that never
settles blocks the queue. `exchanges` assumes that time passes, that the event
loop runs a due timer and that an RPC read is answered or throws (for
`TSWaitsEnd`); and, for `CBRecovers`, that time passes, that calls the breaker
admitted settle (again no timeout in `execute()`) and that callers keep calling.
Strong fairness is used nowhere.

## Proofs

Every theorem holds for all values of the constants that satisfy the named
`ASSUME`s of the modules. These say that prices, ceilings, budgets and bounds are
natural numbers, that intervals, thresholds, capacities and numbers of attempts
are positive where the code needs them to be, that sets of calls over which a sum
or a count is taken are finite, and that a sentinel (`SSNone`, `PCNone`, ...) is
none of the values it stands beside. TLC evaluates each of them with the run of
its component. No theorem bounds the number of calls, keys, accounts or entries;
the one bound on data is that a catalogue of `Paging` has at most 256 ids, each of
one byte.

A component's property is hardly ever inductive. Each proof states an inductive
invariant (`...Ind`, `IInv`, `BInv`) whose parts are named for what they say, has
one lemma per action or group of actions, and ends in one temporal step.

**Guards and payer.**

- `SelectionIsCleared`: what the guards return is on the network, sponsored,
  allowed, well-formed, affordable and the cheapest. It rests on the least-element
  lemma for the `CHOOSE` in `Cheapest`.
- `TypeCorrect`, `CeilingHolds`, `CallsStayApart`, `NoDoublePayment`,
  `OutcomesHold`, `AccountingHolds` and `RefinesSpendBudget`: every safety property
  of the run `payer`. `IInv` joins `TypeOK`, `MutualExclusion` (a call inside is the
  head of the queue), `ClearedStillFits` (a call past its check still fits),
  `CeilingRespected`, `AttemptsAreFresh` (earlier payloads are dead, later ones
  unsigned) and `Bookkeeping` (how `debits`, `outcome` and the last payload follow
  `pc`). The ceiling then holds at `Record` because no other call can have debited
  since the check. The tripwire is a second induction on top of `IInv`. The
  refinement maps a debit to `Charge`, an uncharged end to `Refuse` and every other
  step to a stutter.

**x402 client.**

- `X402ClientTypeSafety`, `X402ClientSignsWithinLimits`: a call past the guards
  carries an option within them and within the rule it was checked under
  (`Cleared(c) => WithinLimits(c)`), until it ends.
- `PeriodBudgetsHold`: there is no lock between reading the tracker and recording,
  so the bound cannot be about recorded payments alone. `BInv` counts a call as in
  flight under a rule from the moment it *reads* the tracker and its payment fits
  what it read, and says (`Fits`) that recorded and in-flight amounts together stay
  within the period ceiling plus one payment per further overlapping call. A call
  that enters fits what is recorded; every other one in flight is at most one
  per-payment ceiling; there are at most `peak - 1` of those. Recording moves an
  amount from one side to the other.

**Wallet.**

- `SessionStoreIsConsistent`: with the synchronous adapters, what is stored is the
  doing of the last suspended call whose operation took effect
  (`SSLastEffectPersists`), so memory catches up when that call resumes.
- `ConnectorSessionsAreUsable`, `ConnectorKeysAreExplained`: a suspended rotation is
  about a deployed wallet and will revoke an older key than the active one
  (`PCCallsAreSound`); without overlap, the key it replaces is the active one.
- `NothingIsReplayed`: a deployment's tracker holds the nonce of everything it
  accepted, and the canonical string determines path and body
  (`RACanonicalBindsTheBody`). Acceptance in time is an argument about division,
  because the clocks are floored (`DivisionBounds` and the lemmas after it).
- `OnlyIntendedPaymentsAreSigned`, `SignaturesExpireInTheWindow`,
  `AuditTrailMatchesSignatures`: `PSLoopInvariant` is the loop invariant of the
  signing loop over a list of entries of any length; the trail is level with the
  signatures except while a hook that stored the event is rejecting. `SignaturesAreSound` adds the
  order of a session key's signature map, and so is the whole of
  `PSSignaturesAreSound`: the sorted map is a sequence with the elements of the
  unsorted one whose keys never decrease.
- `WalletTypeSafety`, `WalletIsItsParts`: see "Types and parts" below.

**Callers.**

- `RevocationsAreTrue`: a revocation whose key is not on chain has seen it absent
  during the call; a call that misread an error is remembered as such (`akMisread`)
  and leaves nothing in `revokedKeys`.
- `OneSubmissionPerKey`: `IDRemembered` says that a submission that has not failed
  is in the cache unless it was evicted or cleared.
- `EntriesAreExplained`: an answer older than an invalidation belongs to a network
  already marked (`CASound`).
- `ActsForTheSession`: `WCKitFollows` says when the kit's wallet is the session's:
  at most one create or connect runs, and unless it has moved the kit the two agree.
- `DeploymentsAreTrue`: the queue is settled jobs, at most one running, then waiting
  ones; what a saga knows to be attached is, once, and is undone in reverse order.
- `BooksCoverTheChain`: one invariant per ledger, relating what is booked, reserved,
  on disk, under way and paid as sums over the calls.
- `ParsersAgree`: `parseTokenAmount`, `tryParseTokenAmount` and the form's
  `validateAmount` accept the same texts with the same value, and the last two refuse
  every other for the same reason. The three count decimal places in two ways (the length of
  what follows the dot; the distance of the dot from the end), and a value of -1
  for "refused" must not be a value: hence the lemmas that what the pattern accepts
  starts with a digit, splits at its only dot and reads as a natural number.
- `ShownCanBeTyped`: `parseTokenAmount(formatTokenAmount(a, d), d) = a` for every
  positive amount and every number of decimals. The digits of a number read as that
  number (`AMDigitsAreRead`), a number below 10^d has at most d digits
  (`AMDigitsFit`), zeros before a text do not change its number, zeros trimmed from
  its end come back when it is padded, and what is joined by a dot is taken apart
  again (`AMShownIsSplit`).
- `CallersTypeSafety`, `CallersAreTheirParts`: see "Types and parts".

**Exchanges.**

- `RateIsBounded`: what was let through since any acceptance, with the tokens that
  are left, is at most a full bucket and the refill since (`TSRunningBound`).
  `WaitsReportTheLedger`: a cached status is final and the ledger's.
- `SettlementsAreSound`: `UPMoney` compares budget, reservations and chain as sums;
  `UPQueueSound` says that only the head of the queue is sent, `UPOrdered` that what ran,
  followed by what waits, is what was queued.
- `OnlyClearedIsSigned`, `ExitCodesAreTrue`, `ServerIsSafe`, `WrappersHold`: where a
  call, command, process or wrapper is determines what it can hold there.
- `BreakerIsSafe`: `CBStreakExplains` relates the failure count to the streak in every
  state, not only when closed; with the types and the outstanding probes it is
  inductive.
- `ToolsHold`: the replay is an argument about counting: the n-th recording of a
  method is unique, and later ones are at later places.
- `HelpersHold`: only a resume that was applied, or is about to be undone, owns the
  live session (`SXResumeOk`); everyone who waits for a ceremony waits for the latest
  one (`SXCeremonyOk`); while the stored value is too new to read nobody holds a
  session to save over it (`SXLoadOk`).
- `ReadsAreSound`: a walk has returned, in increasing order, every listing that
  stayed and is not after its cursor (`PGWalked`); what waits for a fetch is not in
  flight, and waits only while every slot is taken (`PGQueueInd`).
- `ReleaseIsGated`: everything below the pool's index was answered, or a worker is at
  it (`RGGateInd`), so a pool that is done has seen every URL; a manifest that would
  not admit the new SDK is still to be written, also when the run stops half-way
  (`RGWriterInd`).
- `MeteredPaymentsRefineSpendBudget`: metered payments implement the specification
  that the payer implements. Here there is no mutex between check and debit: the
  ceiling is reserved with the check, so a step that drops the reservation and
  records at most as much keeps the sum within the budget (`UPMoney`), and it is the
  only step that changes the ledger.
- `ExchangesTypeSafety`, `ExchangesAreTheirParts`: see "Types and parts".

**Types and parts.** `WalletTypeSafety`, `CallersTypeSafety` and
`ExchangesTypeSafety` prove the type invariants of the three compositions. A type
invariant here is more than the sets its variables range over, and most of it is
not inductive by itself: that an attempt of a deployment step takes effect at most
once and not before its turn (`PDBounded`) needs the saga's program counters; that
a payer tool does not overdraw the session needs that a paying call holds the mutex
from its first request and that what it cleared still fits when it is debited; that
a replay counts no further than was recorded needs the recording's own counters.
Each component's inductive invariant implies its part of `TypeOK`, and the theorems
that a composition is its parts carry it over.

**Sums and recursion.** The library's induction theorems take an operator, which
the provers cannot instantiate. `Sums` argues about a *set* of numbers instead: the
least number missing from it, from `WFMin`, yields the contradiction. In that form
it proves that `SumFunction` of the community modules adds up, changes by the
difference when one value changes, and is bounded by a bound on its values times
their number. `RecursionOnNat` shows in the same way that a function defined by
recursion from its value at a smaller number exists; without it nothing is known of
such a definition, since it stands for a `CHOOSE`. The step of the recursion is
passed as a function rather than as an operator. The fold of the community modules
is treated likewise in `CallersProofs` (`AMFoldExists`, `AMReadLeftToRight`).

### What the proof attempts showed about the model

- `Caches`: a second rotation cleared the mark that a late answer had left, although
  `invalidateForRotatedKey` drops only the entries of the retired key.
  `CAEntriesAreExplained` was therefore false with three versions of a value, which
  the earlier instance did not have. The history variable now follows the code and
  the instance has three versions. An authorization could also change without a
  rotation when there is a single network; it no longer can.
- `X402Client`: the overspend bound was stated with `peak - 1`, which is -1 before
  the first call and made the bound negative for a rule whose period is below its
  ceiling per payment. It is now 0, and the instance has such a rule.
- `OfflineTools`: the replay's lookup is now the set of indices of the n-th recording
  rather than a filtered sequence, which says the same and can be reasoned about.
- `PaymentSigning`: a strict order of the session key's signature map is false when
  the configuration names a policy twice, because `setSignatureMap` does not remove
  duplicates. The property says "never decreasing", and the instance has such a
  signer.
- `Paging`: `mergeBatch` also drops what occurs twice within one batch; the model
  compared a batch with the history only. The sort of a page is stated without
  recursion. Ids of listings are single bytes, and TLC checks that the cursor of each
  of the 256 decodes to its id; the proof of the walk rests on that.
- `SessionExtras`, `ReleaseGates` and `Amounts` no longer declare a recursive
  operator. What was one is a recursive function or a choice of a sorted sequence,
  with the same value in every state TLC evaluates.

### Only model-checked

- Liveness: `EveryCallEnds`, `TSWaitsEnd`, `CBRecovers`. Temporal reasoning under
  fairness and `ENABLED` are out of the prover's reach.
- What the other recursive and folded algorithms compute: the batched reads and the
  choice among assets in `Amounts`, the `ASSUME`s of `ReleaseChecks` and those about
  text operators. The refinement `UPImplementsBudget` is the other way round: it is
  proved, and no run lists it.

## Not modelled

- Cryptography, XDR and HTTP encodings: a signature is what it covers, a header is
  what its decoder returns.
- Text: wording, tables, colours, log lines, apart from the redaction and fencing
  that `McpServer` is about.
- `config.ts`, `connector.ts`, `rpc.ts`, `policy-types.ts` and the re-exports:
  constants and types.
- The remaining examples under `contrib`: snippets of user interface, load, chaos
  and fuzz harnesses, mocks and one-function samples. They keep no state, or repeat
  a component that is modelled.
- The website, the documentation checks and the build configuration.

## What could follow

1. A specification of repeated charges, for the reserving ledger of `SpendLedgers`:
   its calls are reused, so `SpendBudget`, with one charge per call, does not fit it.
2. `WalletClient` with the breaker inside, so that refused calls are those of the
   real breaker rather than any.
3. The remaining `ASSUME`s of `Amounts` and `ReleaseChecks` as theorems, along the
   lines of `ShownCanBeTyped`.
