------------------------------ MODULE Amounts -------------------------------
(***************************************************************************)
(* The pure algorithms around token amounts and balances, checked against  *)
(* reference definitions over bounded inputs by the ASSUMEs below:         *)
(* formatTokenAmount, and the three parsers that must agree on what a      *)
(* person may type (parseTokenAmount, tryParseTokenAmount and the form     *)
(* validator); the batched balance read; the choice among payment options  *)
(* in several assets.                                                      *)
(*                                                                         *)
(* A text is a sequence of characters: the digits 0..9, Dot, Minus, Blank. *)
(***************************************************************************)
EXTENDS Integers, Sequences, FiniteSets, SequencesExt, FiniteSetsExt

Dot == 10
Minus == 11
Blank == 12

\* A text of digits as a number, and back.
AMNumber(t) == FoldLeft(LAMBDA n, d : 10 * n + d, 0, t)

AMDigits[n \in Nat] == IF n < 10 THEN <<n>> ELSE Append(AMDigits[n \div 10], n % 10)

\* 10n ** BigInt(n).
AMTenTo[n \in Nat] == IF n = 0 THEN 1 ELSE 10 * AMTenTo[n - 1]

AMPadStart(t, len) == [i \in 1..Max({len - Len(t), 0}) |-> 0] \o t

AMPadEnd(t, len) == t \o [i \in 1..Max({len - Len(t), 0}) |-> 0]

AMTrimEnd(t, c) == SubSeq(t, 1, Max({0} \cup {i \in DOMAIN t : t[i] # c}))

\* String.trim.
AMTrim(t) == Reverse(AMTrimEnd(Reverse(AMTrimEnd(t, Blank)), Blank))

-----------------------------------------------------------------------------
\* formatTokenAmount.
AMFormat(amount, decimals) ==
    LET abs == IF amount < 0 THEN -amount ELSE amount
        base == AMTenTo[decimals]
        fraction == AMTrimEnd(IF decimals = 0 THEN <<>> ELSE AMPadStart(AMDigits[abs % base], decimals), 0)
    IN  (IF amount < 0 THEN <<Minus>> ELSE <<>>) \o AMDigits[abs \div base]
           \o (IF fraction = <<>> THEN <<>> ELSE <<Dot>> \o fraction)

\* The pattern \d+(\.\d+)? that all three parsers test.
AMIsNumber(t) ==
    /\ t # <<>> /\ Range(t) \subseteq 0..Dot
    /\ Cardinality({i \in DOMAIN t : t[i] = Dot}) <= 1
    /\ t[1] # Dot /\ Last(t) # Dot

AMWhole(t) == IF Dot \in Range(t) THEN SubSeq(t, 1, SelectInSeq(t, LAMBDA c : c = Dot) - 1) ELSE t

AMFraction(t) == IF Dot \in Range(t)
                 THEN SubSeq(t, SelectInSeq(t, LAMBDA c : c = Dot) + 1, Len(t)) ELSE <<>>

AMBaseUnits(t, decimals) ==
    AMNumber(AMWhole(t)) * AMTenTo[decimals] + AMNumber(AMPadEnd(AMFraction(t), decimals))

\* parseTokenAmount: base units, or -1 for any of its errors.
AMParse(text, decimals) ==
    LET t == AMTrim(text)
    IN  IF AMIsNumber(t) /\ Len(AMFraction(t)) <= decimals /\ AMBaseUnits(t, decimals) > 0
        THEN AMBaseUnits(t, decimals) ELSE -1

\* tryParseTokenAmount: the first reason that applies.
AMTryParse(text, decimals) ==
    LET t == AMTrim(text)
    IN  CASE t = <<>> -> [ok |-> FALSE, reason |-> "empty"]
          [] t # <<>> /\ t[1] = Minus -> [ok |-> FALSE, reason |-> "negative"]
          [] t # <<>> /\ t[1] # Minus /\ ~AMIsNumber(t) -> [ok |-> FALSE, reason |-> "not-a-number"]
          [] AMIsNumber(t) /\ Len(AMFraction(t)) > decimals -> [ok |-> FALSE, reason |-> "too-many-decimals"]
          [] AMIsNumber(t) /\ Len(AMFraction(t)) <= decimals ->
                IF AMBaseUnits(t, decimals) = 0 THEN [ok |-> FALSE, reason |-> "zero"]
                ELSE [ok |-> TRUE, value |-> AMBaseUnits(t, decimals)]

\* validateAmount of the amount form: its places come from the dot's position.
AMValidate(text, decimals) ==
    LET t == AMTrim(text)
        places == IF Dot \in Range(t) THEN Len(t) - SelectInSeq(t, LAMBDA c : c = Dot) ELSE 0
    IN  IF t = <<>> THEN "empty"
        ELSE IF t[1] = Minus THEN "negative"
        ELSE IF ~AMIsNumber(t) THEN "not-a-number"
        ELSE IF places > decimals THEN "too-many-decimals"
        ELSE IF AMBaseUnits(t, decimals) = 0 THEN "zero" ELSE "valid"

\* The three parsers accept the same texts, with one value; the form's two give one reason
\* for refusing another (parseTokenAmount throws, in words the model does not tell apart).
AMAgree(t, d) ==
    LET r == AMTryParse(t, d)
    IN  /\ r.ok = (AMParse(t, d) # -1)
        /\ r.ok => r.value = AMParse(t, d) /\ AMValidate(t, d) = "valid"
        /\ ~r.ok => AMValidate(t, d) = r.reason

AMTexts == UNION {[1..n -> {0, 1, Dot, Minus, Blank}] : n \in 0..4}

\* What is shown can be typed back, exactly; the parsers agree on every text.
ASSUME AMRoundTrip == \A d \in 0..3, a \in 1..1100 : AMParse(AMFormat(a, d), d) = a

ASSUME AMParsersAgree == \A d \in 0..2, t \in AMTexts : AMAgree(t, d)

-----------------------------------------------------------------------------
\* chunk.
AMChunk(items, size) ==
    [i \in 1..((Len(items) + size - 1) \div size) |->
        SubSeq(items, (i - 1) * size + 1, Min({i * size, Len(items)}))]

\* One token read alone (fetchBalancesBatch, and the fallback): an amount or an error.
AMSingle(id, alone) == IF id \in alone THEN [id |-> id, ok |-> TRUE] ELSE [id |-> id, ok |-> FALSE]

\* readChunk: the batched call answers for all of the chunk, or each is read alone.
AMReadChunk(ids, answered, fallback, alone) ==
    [i \in DOMAIN ids |-> IF answered THEN [id |-> ids[i], ok |-> TRUE]
                          ELSE IF fallback THEN AMSingle(ids[i], alone)
                          ELSE [id |-> ids[i], ok |-> FALSE]]

\* getBalances of the batched service: the chunks' results, concatenated.
AMBatched(ids, size, good, fallback, alone) ==
    LET chunks == AMChunk(ids, size)
    IN  FlattenSeq([i \in DOMAIN chunks |-> AMReadChunk(chunks[i], i \in good, fallback, alone)])

\* fetchBalancesBatch: at most the maximum, or nothing is read at all.
AMBatch(ids, most, alone) ==
    IF Len(ids) > most THEN <<>> ELSE [i \in DOMAIN ids |-> AMSingle(ids[i], alone)]

\* Whatever fails, every token asked for has one result, in order, and one that can be
\* read alone is reported as read when the fallback is on.
ASSUME AMBatchedAnswersAll ==
    \A n \in 0..5, size \in 1..3, good \in SUBSET (1..3), fallback \in BOOLEAN, alone \in SUBSET (1..5) :
        LET ids == [i \in 1..n |-> i]
            r == AMBatched(ids, size, good, fallback, alone)
        IN  /\ Len(r) = n
            /\ \A i \in 1..n : r[i].id = i
            /\ fallback => \A i \in 1..n : i \in alone => r[i].ok
            /\ good = {} /\ fallback => r = AMBatch(ids, 5, alone)

-----------------------------------------------------------------------------
\* pickCheapest: the first of the cheapest.
AMCheapest(list) == list[Min({i \in DOMAIN list : \A j \in DOMAIN list : list[i].amount <= list[j].amount})]

AMOfAsset(accepts, a) == SelectSeq(accepts, LAMBDA r : r.asset = a)

\* selectWithAssetPreference: one option, or the empty sequence for its errors.
AMSelect(accepts, preferred) ==
    LET assets == {accepts[i].asset : i \in DOMAIN accepts}
        offered == SelectSeq(preferred, LAMBDA a : a \in assets)
    IN  IF accepts = <<>> THEN <<>>
        ELSE IF Cardinality(assets) = 1 THEN <<AMCheapest(accepts)>>
        ELSE IF offered = <<>> THEN <<>>
        ELSE <<AMCheapest(AMOfAsset(accepts, offered[1]))>>

AMAccepts == UNION {[1..n -> [asset : {"u", "x"}, amount : 1..2, at : {n}]] : n \in 0..3}

\* Amounts are compared within one asset only: the choice is a cheapest option of its
\* asset, and which asset it is never depends on the amounts.
ASSUME AMNeverComparesAssets == \A acc \in AMAccepts, pref \in {<<>>, <<"u">>, <<"x", "u">>, <<"z">>} :
    LET s == AMSelect(acc, pref)
        scaled == [i \in DOMAIN acc |-> [acc[i] EXCEPT !.amount = IF acc[i].asset = "u" THEN @ + 10 ELSE @]]
    IN  /\ s # <<>> => /\ \A i \in DOMAIN acc : acc[i].asset = s[1].asset => acc[i].amount >= s[1].amount
                       /\ AMSelect(scaled, pref)[1].asset = s[1].asset
        /\ s = <<>> => AMSelect(scaled, pref) = <<>>
=============================================================================
