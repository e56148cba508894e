------------------------------- MODULE Paging -------------------------------
(***************************************************************************)
(* Reading something long in pieces while it changes: the cursor paging of *)
(* the discovery catalogue, the transfer history read page by page, the    *)
(* transaction history a worker polls, and the queue that bounds how many  *)
(* of those requests are in flight.                                        *)
(*                                                                         *)
(* A resource id is an integer b in 65..90, standing for the one-byte URL  *)
(* <<b>>: ids are compared as strings are, and a cursor is really the      *)
(* base64url text of the id's bytes.                                       *)
(***************************************************************************)
EXTENDS Integers, FiniteSets, Sequences, SequencesExt

CONSTANTS
    PGIds,      \* ids a seller can list
    PGQueries,  \* the queries made: [network, assets, limit]
    PGMaxPage,  \* MAX_DISCOVERY_PAGE_SIZE
    PGChanges,  \* bound: changes of the catalogue
    PGTxs,      \* bound: transactions that ever happen
    PGPollsMax, \* bound: polls of the worker in flight
    PGTasks,    \* the fetches offered to the queue
    PGSlots     \* maxConcurrent

ASSUME PGSlotsAssumption == PGSlots \in Nat \ {0}
ASSUME PGPagesAssumption == PGIds \subseteq 0 .. 255 /\ PGMaxPage \in Nat \ {0} /\ PGTxs \in Nat

VARIABLES
    pgCatalog,  \* the catalogue: id -> what it accepts
    pgEdits,    \* changes of the catalogue so far
    pgWalk,     \* the walk over the pages: its query, cursor and state
    pgSeen,     \* resources the walk returned, in order
    pgStable,   \* matching resources listed since the walk began
    pgLedger,   \* transactions that happened: 1..pgLedger
    pgTimer,    \* is the worker's interval armed
    pgPolls,    \* batches the source answered and the worker has not merged
    pgHistory,  \* SyncState.history
    pgLastId,   \* lastId, 0 for undefined
    pgQueue,    \* RateLimitedFetchQueue.queue
    pgActive    \* the fetches in flight, whose number is `active'

pgDiscovery == <<pgCatalog, pgEdits, pgWalk, pgSeen, pgStable>>
pgSync == <<pgLedger, pgTimer, pgPolls, pgHistory, pgLastId>>
pgFetches == <<pgQueue, pgActive>>
pgVars == <<pgDiscovery, pgSync, pgFetches>>

-----------------------------------------------------------------------------
(* Cursors: base64url of the id's bytes, without padding. *)

PGValue(digits, base) == FoldLeft(LAMBDA acc, d : acc * base + d, 0, digits)
PGDigits(v, base, n) == [i \in 1 .. n |-> (v \div base^(n - i)) % base]

encodeCursor(bytes) ==
    LET bits == 8 * Len(bytes)
        n == (bits + 5) \div 6
    IN PGDigits(PGValue(bytes, 256) * 2^(6 * n - bits), 64, n)

\* atob refuses a length of 1 mod 4; an empty result is refused like an empty
\* cursor, and <<>> stands for the InvalidCursorError of both.
decodeCursor(cursor) ==
    LET n == (6 * Len(cursor)) \div 8
    IN IF cursor = <<>> \/ Len(cursor) % 4 = 1 THEN <<>>
       ELSE PGDigits(PGValue(cursor, 64) \div 2^(6 * Len(cursor) - 8 * n), 256, n)

\* A cursor decodes to the id it was made from, whatever its bytes, and no
\* truncated cursor decodes to it.
ASSUME PGCursorsRoundTrip ==
    \A n \in 1 .. 3 : \A bytes \in [1 .. n -> {0, 65, 255}] :
        /\ decodeCursor(encodeCursor(bytes)) = bytes
        /\ decodeCursor(Front(encodeCursor(bytes))) # bytes

\* So does the cursor of every id of one byte.
ASSUME PGByteCursors ==
    \A b \in 0 .. 255 : encodeCursor(<<b>>) # <<>> /\ decodeCursor(encodeCursor(<<b>>)) = <<b>>

-----------------------------------------------------------------------------
(* Pages of the discovery catalogue. *)

\* resolvePageSize: the sizes that are not refused.
PGPageSizes == 1 .. PGMaxPage

\* `network' and `assets' are sets of at most one value: the empty set is an
\* absent filter, and an empty list of assets is a filter nothing passes.
matchesFilters(accepts, q) ==
    /\ \A n \in q.network : \E a \in accepts : a.network = n
    /\ \A list \in q.assets : \E a \in accepts : a.asset \in list

PGAtMost(n, max) == IF n > max THEN max ELSE n

\* The ids in increasing order: the k-th has k ids up to it.
PGSorted(ids) == [k \in 1 .. Cardinality(ids) |->
                    CHOOSE r \in ids : Cardinality({x \in ids : x <= r}) = k]

\* Mutant: a cursor whose resource is gone restarts from the top.
PGStartRestarts(filtered, cursor) ==
    IF cursor = <<>> THEN 0
    ELSE LET anchor == decodeCursor(cursor)[1]
             at == {i \in 1 .. Len(filtered) : filtered[i] = anchor}
         IN IF at = {} THEN 0 ELSE CHOOSE i \in at : TRUE

\* The number of entries before the page. The anchor's own place is taken when
\* it is still listed, else the page starts at the first greater id; both
\* come to skipping every id up to the anchor, in the sorted list (ids are unique,
\* as the source's interface promises).
PGStart(filtered, cursor) ==
    IF cursor = <<>> THEN 0
    ELSE Cardinality({i \in 1 .. Len(filtered) : filtered[i] <= decodeCursor(cursor)[1]})

paginateResources(catalog, q, cursor) ==
    LET filtered == PGSorted({r \in DOMAIN catalog : matchesFilters(catalog[r], q)})
        start == PGStart(filtered, cursor)
        page == SubSeq(filtered, start + 1, PGAtMost(start + q.limit, Len(filtered)))
        more == start + Len(page) < Len(filtered)
    IN [resources |-> page,
        next_cursor |-> IF more /\ page # <<>> THEN encodeCursor(<<Last(page)>>) ELSE <<>>]

PGNoWalk == [state |-> "idle", query |-> CHOOSE q \in PGQueries : TRUE, cursor |-> <<>>]

\* discover() without a cursor: a page size out of range is refused before
\* the catalogue is read.
PGDiscover ==
    /\ pgWalk.state = "idle"
    /\ \E q \in PGQueries :
        IF q.limit \notin PGPageSizes
        THEN /\ pgWalk' = [state |-> "refused", query |-> q, cursor |-> <<>>]
             /\ UNCHANGED <<pgSeen, pgStable>>
        ELSE LET page == paginateResources(pgCatalog, q, <<>>)
             IN /\ pgSeen' = page.resources
                /\ pgStable' = {r \in DOMAIN pgCatalog : matchesFilters(pgCatalog[r], q)}
                /\ pgWalk' = [state |-> IF page.next_cursor = <<>> THEN "done" ELSE "walking",
                              query |-> q, cursor |-> page.next_cursor]
    /\ UNCHANGED <<pgCatalog, pgEdits, pgSync, pgFetches>>

\* discover() with the cursor of the page before: the catalogue is read again.
PGNextPage ==
    /\ pgWalk.state = "walking"
    /\ LET page == paginateResources(pgCatalog, pgWalk.query, pgWalk.cursor)
       IN /\ pgSeen' = pgSeen \o page.resources
          /\ pgWalk' = [pgWalk EXCEPT !.cursor = page.next_cursor,
                            !.state = IF page.next_cursor = <<>> THEN "done" ELSE "walking"]
    /\ UNCHANGED <<pgCatalog, pgEdits, pgStable, pgSync, pgFetches>>

\* A new walk, by a caller that kept nothing of the last one.
PGNewWalk ==
    /\ pgWalk.state \in {"done", "refused"}
    /\ pgWalk' = PGNoWalk /\ pgSeen' = <<>> /\ pgStable' = {}
    /\ UNCHANGED <<pgCatalog, pgEdits, pgSync, pgFetches>>

PGOffers == {{[network |-> n, asset |-> "usdc"]} : n \in {"test", "pub"}}

\* listResources keeps the entries with a URL and an `accepts' list; what is
\* listed changes between two reads.
PGCatalogChanges ==
    /\ pgEdits < PGChanges
    /\ pgEdits' = pgEdits + 1
    /\ \E r \in PGIds :
        IF r \in DOMAIN pgCatalog
        THEN /\ pgCatalog' = [x \in DOMAIN pgCatalog \ {r} |-> pgCatalog[x]]
             /\ pgStable' = pgStable \ {r}
        ELSE /\ \E offer \in PGOffers :
                  pgCatalog' = [x \in DOMAIN pgCatalog \cup {r} |->
                                  IF x = r THEN offer ELSE pgCatalog[x]]
             /\ UNCHANGED pgStable
    /\ UNCHANGED <<pgWalk, pgSeen, pgSync, pgFetches>>

\* discoverAll pages one snapshot: PGAllPages(n) is what n pages return.
PGAllPages(catalog, q) ==
    FoldLeft(LAMBDA acc, i :
                 IF acc.done THEN acc
                 ELSE LET page == paginateResources(catalog, q, acc.cursor)
                      IN [out |-> acc.out \o page.resources, cursor |-> page.next_cursor,
                          done |-> page.next_cursor = <<>> \/ page.resources = <<>>],
             [out |-> <<>>, cursor |-> <<>>, done |-> FALSE],
             [i \in 1 .. Cardinality(PGIds) + 1 |-> i])

\* discoverAll ends, and returns every matching resource once, in order.
ASSUME PGDiscoverAllIsComplete ==
    \A ids \in SUBSET PGIds : \A q \in {x \in PGQueries : x.limit \in PGPageSizes} :
        \A catalog \in [ids -> PGOffers] :
            LET all == PGAllPages(catalog, q)
            IN /\ all.done
               /\ all.out = PGSorted({r \in ids : matchesFilters(catalog[r], q)})

-----------------------------------------------------------------------------
(* One bounded read of the catalogue, as its body arrives in chunks. *)

PGTooLarge == "too large"

\* fetchDiscoveryCatalog: the declared length is checked first when it is a
\* number (-1: absent or not one), then the running total after each chunk.
fetchDiscoveryCatalog(ok, declared, chunks, maxBytes) ==
    CASE ~ok -> "failed"
      [] ok /\ declared > maxBytes -> PGTooLarge
      [] OTHER -> IF \E i \in 1 .. Len(chunks) : FoldLeft(+, 0, SubSeq(chunks, 1, i)) > maxBytes
                  THEN PGTooLarge ELSE "parsed"

\* A body is parsed only when it fits, whatever length it declared.
ASSUME PGParsedFits ==
    \A declared \in -1 .. 4 : \A n \in 0 .. 3 : \A chunks \in [1 .. n -> 0 .. 2] :
        fetchDiscoveryCatalog(TRUE, declared, chunks, 3) = "parsed"
            <=> declared <= 3 /\ FoldLeft(+, 0, chunks) <= 3

-----------------------------------------------------------------------------
(* The search command, which prints one page and how to ask for the next. *)

\* The query string: an empty cursor is left out of it.
buildSearchUrl(limit, cursor) ==
    [limit |-> limit, cursor |-> IF cursor = <<>> THEN {} ELSE {cursor}]

\* What is printed for an answer: raw JSON, or the resources with a hint of the
\* next page. A page without resources ends before the hint.
makeSearchCommand(res, json) ==
    LET shown == IF res.ok THEN res.resources ELSE <<>>
    IN [exit |-> IF res.ok THEN 0 ELSE 1,
        raw |-> res.ok /\ json,
        shown |-> IF json THEN <<>> ELSE shown,
        partial |-> ~json /\ shown # <<>> /\ res.partial,
        hint |-> IF json \/ shown = <<>> THEN {} ELSE buildSearchUrl(0, res.cursor).cursor]

\* A hint is printed exactly under a non-empty page that has a next one, so
\* following the hints walks every page up to an empty one.
ASSUME PGHintsFollowPages ==
    \A ok, partial, json \in BOOLEAN : \A page \in {<<>>, <<65>>} : \A cursor \in {<<>>, <<16>>} :
        LET out == makeSearchCommand([ok |-> ok, resources |-> page, partial |-> partial,
                                      cursor |-> cursor], json)
        IN out.hint # {} <=> ok /\ ~json /\ page # <<>> /\ cursor # <<>>

-----------------------------------------------------------------------------
(* Pages of a holder's transfers. *)

\* A limit above the maximum is lowered to it; one below 1 is refused.
clampLimit(limit, max) == PGAtMost(limit, max)

\* One page of the events after `after' (0: from the first ledger), of which
\* there are n. An empty page ends the read.
queryBalanceHistory(n, after, limit) ==
    LET last == PGAtMost(after + limit, n)
    IN [entries |-> [i \in 1 .. last - after |-> after + i],
        next_cursor |-> IF last > after THEN last ELSE 0]

PGHistoryPages(n, limit) ==
    FoldLeft(LAMBDA acc, i :
                 IF acc.done THEN acc
                 ELSE LET page == queryBalanceHistory(n, acc.cursor, limit)
                      IN [out |-> acc.out \o page.entries, cursor |-> page.next_cursor,
                          done |-> page.next_cursor = 0],
             [out |-> <<>>, cursor |-> 0, done |-> FALSE], [i \in 1 .. n + 1 |-> i])

\* Read to its end, the history holds every transfer once, in order.
ASSUME PGHistoryIsComplete ==
    \A n \in 0 .. 4, limit \in 1 .. 4 :
        LET read == PGHistoryPages(n, clampLimit(limit, 3))
        IN read.done /\ read.out = [i \in 1 .. n |-> i]

-----------------------------------------------------------------------------
(* The worker that polls for transactions. *)

PGTransaction ==
    /\ pgLedger < PGTxs
    /\ pgLedger' = pgLedger + 1
    /\ UNCHANGED <<pgTimer, pgPolls, pgHistory, pgLastId, pgDiscovery, pgFetches>>

\* What the source answers: the last transactions at that moment.
PGBatches == {[i \in 1 .. pgLedger - lo |-> lo + i] : lo \in 0 .. pgLedger}

PGIssuePoll ==
    /\ Cardinality(pgPolls) < PGPollsMax
    /\ \E batch \in PGBatches : pgPolls' = pgPolls \cup {batch}

\* start() polls at once and arms the interval.
PGStartWorker ==
    /\ ~pgTimer
    /\ PGIssuePoll
    /\ pgTimer' = TRUE
    /\ UNCHANGED <<pgLedger, pgHistory, pgLastId, pgDiscovery, pgFetches>>

\* The interval fires whether or not the poll before it has been answered.
PGInterval ==
    /\ pgTimer
    /\ PGIssuePoll
    /\ UNCHANGED <<pgLedger, pgTimer, pgHistory, pgLastId, pgDiscovery, pgFetches>>

PGStopWorker ==
    /\ pgTimer
    /\ pgTimer' = FALSE
    /\ UNCHANGED <<pgLedger, pgPolls, pgHistory, pgLastId, pgDiscovery, pgFetches>>

\* The loop over the batch: what the history holds already is passed over.
mergeBatch(history, batch) ==
    LET merged[i \in 0 .. Len(batch)] ==
            IF i = 0 THEN history
            ELSE IF batch[i] \in ToSet(merged[i - 1]) THEN merged[i - 1]
            ELSE Append(merged[i - 1], batch[i])
    IN merged[Len(batch)]

\* An answered poll is merged, also when the worker has been stopped.
PGMerge ==
    \E batch \in pgPolls :
        /\ pgPolls' = pgPolls \ {batch}
        /\ pgHistory' = mergeBatch(pgHistory, batch)
        /\ pgLastId' = IF Len(pgHistory') > Len(pgHistory) THEN Last(pgHistory') ELSE pgLastId
        /\ UNCHANGED <<pgLedger, pgTimer, pgDiscovery, pgFetches>>

-----------------------------------------------------------------------------
(* The queue of fetches. *)

\* drain(): fetches start in order while a slot is free.
PGDrain(queue, active) ==
    LET free == PGSlots - Cardinality(active)
        n == IF free < Len(queue) THEN free ELSE Len(queue)
    IN /\ pgQueue' = SubSeq(queue, n + 1, Len(queue))
       /\ pgActive' = active \cup ToSet(SubSeq(queue, 1, n))

PGEnqueue ==
    /\ \E t \in PGTasks \ (pgActive \cup ToSet(pgQueue)) : PGDrain(Append(pgQueue, t), pgActive)
    /\ UNCHANGED <<pgDiscovery, pgSync>>

\* A fetch settles, either way: the slot is given back and the queue drained.
PGSettled ==
    /\ \E t \in pgActive : PGDrain(pgQueue, pgActive \ {t})
    /\ UNCHANGED <<pgDiscovery, pgSync>>

-----------------------------------------------------------------------------

PGInit ==
    /\ pgCatalog = [r \in PGIds |-> CHOOSE o \in PGOffers : [network |-> "test", asset |-> "usdc"] \in o]
    /\ pgEdits = 0
    /\ pgWalk = PGNoWalk
    /\ pgSeen = <<>>
    /\ pgStable = {}
    /\ pgLedger = 0
    /\ pgTimer = FALSE
    /\ pgPolls = {}
    /\ pgHistory = <<>>
    /\ pgLastId = 0
    /\ pgQueue = <<>>
    /\ pgActive = {}

PGDiscoveryNext == PGDiscover \/ PGNextPage \/ PGNewWalk \/ PGCatalogChanges
PGSyncNext == PGTransaction \/ PGStartWorker \/ PGInterval \/ PGStopWorker \/ PGMerge
PGFetchNext == PGEnqueue \/ PGSettled
PGNext == PGDiscoveryNext \/ PGSyncNext \/ PGFetchNext

PGSpec == PGInit /\ [][PGNext]_pgVars

-----------------------------------------------------------------------------

\* The values the state takes.
PGTypeOK ==
    /\ DOMAIN pgCatalog \subseteq PGIds
    /\ pgWalk.state \in {"idle", "walking", "done", "refused"}
    /\ ToSet(pgSeen) \subseteq PGIds /\ pgStable \subseteq PGIds
    /\ pgLedger \in 0 .. PGTxs /\ pgTimer \in BOOLEAN
    /\ Cardinality(pgActive) <= PGSlots

\* paginateResources, while the catalogue changes between two pages: a walk
\* returns no resource twice, and one that has ended returned every matching
\* resource that was listed all along (a removed cursor neither restarts the
\* walk nor skips what follows it).
PGWalkIsComplete ==
    /\ IsInjective(pgSeen)
    /\ pgWalk.state = "done" => pgStable \subseteq ToSet(pgSeen)

\* mergeBatch: polls that overlap, are merged out of order or arrive after
\* stop() leave no transaction twice in the history, whose last one is the
\* one lastSeenId() names.
PGHistoryIsDeduplicated ==
    /\ IsInjective(pgHistory)
    /\ pgLastId = IF pgHistory = <<>> THEN 0 ELSE Last(pgHistory)

\* drain(): a fetch waits only while every slot is taken.
PGNoSlotIsWasted == pgQueue # <<>> => Cardinality(pgActive) = PGSlots

\* Reading in pieces while the source changes: a walk over the catalogue's pages
\* (x402-discovery-pagination.ts) returns every matching listing that stayed, and
\* none twice; the worker's history (tx-history-sync-worker.ts) holds no transaction
\* twice; and the fetch queue (rate-limited-fetch-queue.ts) wastes no slot.
PGReadsAreSound == PGWalkIsComplete /\ PGHistoryIsDeduplicated /\ PGNoSlotIsWasted

\* The comment on history(), "every transaction seen so far, oldest first":
\* a slow poll merged after a later one breaks it.
PGHistoryIsOldestFirst ==
    \A i, j \in 1 .. Len(pgHistory) : i < j => pgHistory[i] < pgHistory[j]
=============================================================================
