---------------------------- MODULE ReleaseChecks ----------------------------
(***************************************************************************)
(* The checks a release has to pass, as functions of what they are given:  *)
(* licenses, advisories, version ranges, the x402 majors of the workspaces,*)
(* the public API, bundle sizes, the wallet's wasm hash, the fixtures, and *)
(* whether a pull request really landed. Each is compared, over all small  *)
(* inputs, with what it is for.                                            *)
(***************************************************************************)
EXTENDS Integers, FiniteSets, Sequences, SequencesExt

-----------------------------------------------------------------------------
(* License expressions, as sequences of tokens. *)

RCAllowed == {"MIT"}
RCLicenses == {"MIT", "GPL"}

\* How many parentheses are open before token i.
RCDepth(e, i) == Cardinality({j \in 1 .. i - 1 : e[j] = "("})
                 - Cardinality({j \in 1 .. i - 1 : e[j] = ")"})

\* splitTop: the parts between the operators outside every parenthesis.
splitTop(e, op) ==
    LET cuts == SetToSortSeq({0, Len(e) + 1} \cup {i \in 1 .. Len(e) : e[i] = op /\ RCDepth(e, i) = 0},
                             LAMBDA a, b : a < b)
    IN SelectSeq([k \in 1 .. Len(cuts) - 1 |-> SubSeq(e, cuts[k] + 1, cuts[k + 1] - 1)],
                 LAMBDA part : part # <<>>)

\* The recursion visits parts of the expression only.
licenseAllowed(e) ==
    LET judge[x \in {SubSeq(e, i, j) : i \in 1 .. Len(e) + 1, j \in 0 .. Len(e)}] ==
            LET ors == splitTop(x, "OR")
                ands == splitTop(x, "AND")
                withs == {i \in 1 .. Len(x) : x[i] = "WITH"}
            IN CASE x # <<>> /\ x[1] = "(" /\ Last(x) = ")" -> judge[SubSeq(x, 2, Len(x) - 1)]
                 [] OTHER ->
                    CASE Len(ors) > 1 -> \E k \in 1 .. Len(ors) : judge[ors[k]]
                      [] Len(ors) <= 1 /\ Len(ands) > 1 -> \A k \in 1 .. Len(ands) : judge[ands[k]]
                      [] Len(ors) <= 1 /\ Len(ands) <= 1 /\ withs # {} ->
                            judge[SubSeq(x, 1, (CHOOSE i \in withs : \A j \in withs : i <= j) - 1)]
                      [] OTHER -> Len(x) = 1 /\ x[1] \in RCAllowed
    IN judge[e]

\* What an expression means: a tree of two pairs, printed with parentheses
\* around each pair.
RCPairs == [op : {"OR", "AND"}, l : RCLicenses, r : RCLicenses]
RCMeans(op, p, q) == IF op = "OR" THEN p \/ q ELSE p /\ q
RCPairMeans(p) == RCMeans(p.op, p.l \in RCAllowed, p.r \in RCAllowed)
RCPrint(p) == <<"(", p.l, p.op, p.r, ")">>
RCTrees == [op : {"OR", "AND"}, left : RCPairs, right : RCPairs]
RCTreeMeans(t) == RCMeans(t.op, RCPairMeans(t.left), RCPairMeans(t.right))
RCTreePrint(t) == RCPrint(t.left) \o <<t.op>> \o RCPrint(t.right)

\* One pair is judged by its meaning, in parentheses or not, and so is a pair
\* joined to a bare license; an exception clause is dropped.
ASSUME RCSimpleLicensesAreJudged ==
    \A p \in RCPairs :
        /\ licenseAllowed(RCPrint(p)) = RCPairMeans(p)
        /\ licenseAllowed(<<p.l, p.op, p.r>>) = RCPairMeans(p)
        /\ \A op \in {"OR", "AND"}, x \in RCLicenses :
             licenseAllowed(RCPrint(p) \o <<op, x>>) = RCMeans(op, RCPairMeans(p), x \in RCAllowed)
        /\ licenseAllowed(<<p.l, "WITH", "EXC">>) = (p.l \in RCAllowed)

\* resolveDep: the nearest enclosing scope that holds the name. A key is the
\* path of names from the root.
RCResolve(keys, parent, name) ==
    LET scopes == {k \in 0 .. Len(parent) : Append(SubSeq(parent, 1, k), name) \in keys}
    IN IF scopes = {} THEN {}
       ELSE {Append(SubSeq(parent, 1, CHOOSE k \in scopes : \A j \in scopes : j <= k), name)}

\* collectTree: what is reachable from the roots; deps gives the names a key
\* installs. A name that resolves nowhere is missing.
RCStep(keys, deps, seen) ==
    seen \cup UNION {UNION {RCResolve(keys, k, n) : n \in deps[k]} : k \in seen}
RCMissing(keys, deps, seen) ==
    UNION {{<<k, n>> : n \in {m \in deps[k] : RCResolve(keys, k, m) = {}}} : k \in seen}

\* auditLockfile: nothing missing, and every reached package is on the list or
\* is one of the recorded exceptions, name and license both.
auditLockfile(keys, deps, license, exceptions) ==
    LET tree == FoldLeft(LAMBDA seen, i : RCStep(keys, deps, seen), {<<>>},
                         [i \in 1 .. Cardinality(keys) |-> i])
    IN /\ RCMissing(keys, deps, tree) = {}
       /\ \A k \in tree : \/ k = <<>>
                          \/ <<Last(k), license[k]>> \in exceptions
                          \/ licenseAllowed(<<license[k]>>)

\* A copyleft package fails wherever it is installed, a nested copy included,
\* unless it is the excepted name with the excepted license.
ASSUME RCNestedCopiesAreAudited ==
    LET keys == {<<>>, <<"a">>, <<"b">>, <<"a", "b">>}
    IN \A deps \in [keys -> SUBSET {"a", "b"}] : \A license \in [keys -> RCLicenses] :
         auditLockfile(keys, deps, license, {<<"a", "GPL">>}) =>
             /\ "b" \in deps[<<>>] => license[<<"b">>] = "MIT"
             /\ {"a"} = deps[<<>>] /\ "b" \in deps[<<"a">>] => license[<<"a", "b">>] = "MIT"

-----------------------------------------------------------------------------
(* Advisories. *)

RCGate == {"high", "critical"}

\* evaluateAuditReport: a vulnerability is [severity, nodes, via] and via a set
\* of [url, severity]; the allowlist maps an url to the nodes it is known on.
evaluateAuditReport(vulns, allow, today, reviewBy) ==
    LET found == {va \in vulns \X UNION {x.via : x \in vulns} : va[2] \in va[1].via}
        unlisted == {va \in found : /\ va[2].url \notin DOMAIN allow
                                    /\ va[1].severity \in RCGate \/ va[2].severity \in RCGate}
        offChain == {va \in found : /\ va[2].url \in DOMAIN allow
                                    /\ ~(va[1].nodes \subseteq allow[va[2].url])}
    IN [ok |-> unlisted = {} /\ offChain = {} /\ today <= reviewBy,
        resolvedUpstream |-> DOMAIN allow \ {va[2].url : va \in found}]

\* An accepted report has no advisory at the gate's severities outside the
\* recorded packages, even one on a package rated lower; and nothing is
\* accepted after the review date.
ASSUME RCAuditGates ==
    LET advisories == [url : {"u1", "u2"}, severity : {"low", "high"}]
        allow == [u \in {"u1"} |-> {"n1"}]
    IN \A severity \in {"low", "high"}, nodes \in SUBSET {"n1", "n2"}, via \in SUBSET advisories,
         today \in 1 .. 2 :
         LET v == [severity |-> severity, nodes |-> nodes, via |-> via]
         IN evaluateAuditReport({v}, allow, today, 1).ok =>
                /\ today = 1
                /\ \A a \in via : a.severity = "high" => a.url = "u1" /\ nodes \subseteq {"n1"}

-----------------------------------------------------------------------------
(* Version ranges. A version is <<major, minor, patch>>. *)

compareVersions(a, b) ==
    LET d == {i \in 1 .. 3 : a[i] # b[i]}
        i == CHOOSE k \in d : \A j \in d : k <= j
    IN IF d = {} THEN 0 ELSE IF a[i] < b[i] THEN -1 ELSE 1

upperBoundForCaret(v) ==
    CASE v[1] > 0 -> <<v[1] + 1, 0, 0>>
      [] v[1] = 0 /\ v[2] > 0 -> <<0, v[2] + 1, 0>>
      [] OTHER -> <<0, 0, v[3] + 1>>

\* testComparator: c.parts is how many of the three numbers are written; a
\* range that writes the major alone means that major, whatever its operator.
testComparator(v, c) ==
    LET cmp == compareVersions(v, c.v)
    IN CASE c.parts = 1 -> v[1] = c.v[1]
         [] c.parts = 2 /\ c.op = "=" -> v[1] = c.v[1] /\ v[2] = c.v[2]
         [] OTHER -> CASE c.op = "^" -> cmp >= 0 /\ compareVersions(v, upperBoundForCaret(c.v)) < 0
                       [] c.op = "~" -> cmp >= 0 /\ compareVersions(v, <<c.v[1], c.v[2] + 1, 0>>) < 0
                       [] c.op = ">=" -> cmp >= 0
                       [] c.op = "<=" -> cmp <= 0
                       [] c.op = ">" -> cmp > 0
                       [] c.op = "<" -> cmp < 0
                       [] OTHER -> cmp = 0

\* satisfiesRange: alternatives of comparators that all hold.
RCSatisfies(v, range) == \E branch \in range : \A c \in branch : testComparator(v, c)

\* declaredMinimum: the least full version a range writes.
RCMinimums(range) ==
    LET full == {c.v : c \in {x \in UNION range : x.parts = 3}}
    IN {m \in full : \A o \in full : compareVersions(m, o) <= 0}

auditDependencyDrift(root, range, strict) ==
    LET compatible == RCSatisfies(root, range)
        stale == \E m \in RCMinimums(range) : compareVersions(m, root) < 0
    IN [status |-> IF ~compatible THEN "incompatible" ELSE IF stale THEN "stale-minimum" ELSE "aligned",
        fails |-> ~compatible \/ (strict /\ stale)]

\* breaking-release's own, smaller, satisfiesRange: "*" and "latest" admit every version,
\* and it throws for a form it does not know.
RCReleaseSupports(c) == c.op \in {"^", "~", "=", "*", "latest"}

RCReleaseSatisfies(v, c) ==
    \/ c.op \in {"*", "latest"}
    \/ /\ compareVersions(v, c.v) >= 0
       /\ CASE c.op = "^" -> compareVersions(v, upperBoundForCaret(c.v)) < 0
            [] c.op = "~" -> compareVersions(v, <<c.v[1], c.v[2] + 1, 0>>) < 0
            [] OTHER -> compareVersions(v, c.v) = 0

RCVersions == (0 .. 2) \X (0 .. 1) \X (0 .. 1)

\* A caret range never admits another major; the two readings of a range agree
\* on the forms both know; and a strict audit passes a caret range only at the
\* release it was written for.
ASSUME RCRangesAreSemver ==
    \A v, w \in RCVersions : \A op \in {"^", "~", "="} :
        LET c == [op |-> op, v |-> w, parts |-> 3]
        IN /\ testComparator(v, c) = RCReleaseSatisfies(v, c)
           /\ testComparator(v, c) => v[1] = w[1] /\ compareVersions(v, w) >= 0
           /\ ~auditDependencyDrift(v, {{c}}, TRUE).fails <=> v = w

-----------------------------------------------------------------------------
(* The x402 majors of the workspaces. *)

\* resolveMajor: a workspace:, file: or URL specifier has no major, nor has "*";
\* -1 stands for none.
resolveMajor(s) == IF s.scheme = "semver" THEN s.major ELSE -1

\* collectX402Specifiers: of the fields that declare the package, the first of
\* dependencies, devDependencies and peerDependencies counts. A field holds a
\* set of at most one specifier.
RCFields == <<"dependencies", "devDependencies", "peerDependencies">>
collectX402Specifiers(pkg) ==
    LET declared == SelectSeq(RCFields, LAMBDA f : pkg[f] # {})
    IN IF declared = <<>> THEN {} ELSE pkg[declared[1]]

checkX402Versions(pkgs) ==
    LET specifiers == UNION {collectX402Specifiers(p) : p \in pkgs}
    IN Cardinality({resolveMajor(s) : s \in specifiers} \ {-1}) <= 1

\* Two packages whose runtime dependencies have different majors always fail.
ASSUME RCMajorsAreCompared ==
    LET specs == [scheme : {"semver"}, major : {-1, 1, 2}] \cup {[scheme |-> "workspace", major |-> 1]}
    IN \A p, q \in [ToSet(RCFields) -> {{}} \cup {{s} : s \in specs}] :
        (\E s \in p["dependencies"], t \in q["dependencies"] :
            resolveMajor(s) # resolveMajor(t) /\ -1 \notin {resolveMajor(s), resolveMajor(t)})
        => ~checkX402Versions({p, q})

-----------------------------------------------------------------------------
(* The public API, the bundle, the wasm hash and the fixtures. *)

\* diffExportSurfaces: a surface maps a name to a signature. A re-export hides
\* the signature, so it is never reported as changed.
diffExportSurfaces(before, after) ==
    [removed |-> DOMAIN before \ DOMAIN after,
     added |-> DOMAIN after \ DOMAIN before,
     changed |-> {n \in DOMAIN before \cap DOMAIN after :
                    /\ before[n] # after[n]
                    /\ "re-export" \notin {before[n], after[n]}}]

RCSurfaceExit(diff) == IF diff.removed # {} \/ diff.changed # {} THEN 1 ELSE 0

\* A diff that passes kept every name and every signature it can see.
ASSUME RCSurfaceIsKept ==
    LET surfaces == UNION {[ns -> {"re-export", "f()", "f(x)"}] : ns \in SUBSET {"m", "n"}}
    IN \A before, after \in surfaces :
         RCSurfaceExit(diffExportSurfaces(before, after)) = 0
             => \A n \in DOMAIN before :
                  /\ n \in DOMAIN after
                  /\ after[n] \in {before[n], "re-export"} \/ before[n] = "re-export"

\* checkBudget: the summed size and the forbidden imports of an entry's files.
checkBudget(sizes, imports, maxSize, forbidden) ==
    FoldLeft(+, 0, sizes) <= maxSize /\ imports \cap forbidden = {}

\* checkBundleSizes: -1 stands for a dist directory that is not there, which is
\* skipped; the exit code is 1 only for a measured package over its budget.
checkBundleSizes(measured, budget) ==
    IF \E p \in DOMAIN measured : measured[p] # -1 /\ measured[p] > budget[p] THEN 1 ELSE 0

\* A file more, or an import more, never brings an entry back within its budget, and
\* a package that is not built hides no other one's excess.
ASSUME RCBudgetsAreMonotone ==
    /\ \A a, b, n \in 0..2 : \A m \in 0..4 : \A i, j \in SUBSET {"fs", "net"} :
          checkBudget(<<a, b, n>>, i \cup j, m, {"fs"}) => checkBudget(<<b, a>>, i, m, {"fs"})
    /\ \A a, b \in -1..2 :
          checkBundleSizes(<<a, b>>, <<1, 1>>) >= checkBundleSizes(<<-1, b>>, <<1, 1>>)

\* verifyTestnetWasmHash: the README names the manifest, the manifest the hash;
\* failing to read either is an error and never an agreement. "" is absent.
RCWasmVerdict(readme, manifest, configured) ==
    CASE readme = "" \/ manifest = "" \/ configured = "" -> "error"
      [] OTHER -> IF manifest = configured THEN "ok" ELSE "mismatch"

\* verify-wallet-wasm-hash, the script of the same purpose: its exit code.
RCWasmExit(installed, readme, manifest, configured) ==
    IF installed /\ readme # "" /\ manifest # "" /\ configured # "" /\ manifest = configured THEN 0 ELSE 1

\* The two agree wherever passkey-kit is installed.
ASSUME RCWasmChecksAgree ==
    \A readme, manifest, configured \in {"", "h1", "h2"} :
        (RCWasmVerdict(readme, manifest, configured) = "ok")
            <=> RCWasmExit(TRUE, readme, manifest, configured) = 0

\* auditFixtures: a consumer is [imported, references]; it counts only when it
\* imports something, and only its imported names are counted.
auditFixtures(exports, consumers) ==
    LET users == {c \in consumers : c.imported # {}}
    IN [unused |-> {n \in exports : \A c \in users : n \in c.imported => c.references[n] = 0},
        dead |-> UNION {{<<c.file, n>> : n \in {m \in c.imported \cap exports : c.references[m] = 0}}
                        : c \in users}]

\* An export reported as unused is referenced by no file that imports it, and
\* each import of it is reported dead.
ASSUME RCUnusedIsUnused ==
    \A imported \in SUBSET {"x", "y"} : \A references \in [{"x", "y"} -> 0 .. 1] :
        LET c == [file |-> "f", imported |-> imported, references |-> references]
            audit == auditFixtures({"x"}, {c})
        IN "x" \in audit.unused =>
             /\ ~("x" \in imported /\ references["x"] = 1)
             /\ "x" \in imported => <<"f", "x">> \in audit.dead

-----------------------------------------------------------------------------
(* Has a pull request landed? *)

\* verify: one added file is [lines, landed, present, rewritten]: how many
\* distinctive lines the patch added, how many of them main has, whether main
\* has the file and whether it changed there after the merge.
RCFileMissing(f) ==
    f.lines > 0 /\ (~f.present \/ (f.landed = 0 /\ f.lines >= 3 /\ ~f.rewritten))

verifyMerged(pr) ==
    /\ pr.state = "MERGED"
    /\ pr.base = "main"
    /\ pr.merged => pr.head # "" /\ pr.tip <= pr.mergedAt + 60
    /\ pr.squash \/ pr.ancestor
    /\ \A f \in pr.files : ~RCFileMissing(f)

\* A pull request merged into a branch that had been squashed already, or with
\* commits pushed after the merge, is never reported as landed.
ASSUME RCLandedIsOnMain ==
    \A base \in {"main", "stack"}, tip \in {0, 60, 61}, squash, ancestor, rewritten \in BOOLEAN,
       landed \in 0 .. 1 :
        LET f == [lines |-> 3, landed |-> landed, present |-> TRUE, rewritten |-> rewritten]
        IN verifyMerged([state |-> "MERGED", base |-> base, merged |-> TRUE, head |-> "h", tip |-> tip,
                         mergedAt |-> 0, squash |-> squash, ancestor |-> ancestor, files |-> {f}])
             => base = "main" /\ tip <= 60 /\ (landed > 0 \/ rewritten)
=============================================================================
